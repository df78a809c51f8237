------------------------------- MODULE AdcDma -------------------------------
(***************************************************************************)
(* The sampling loop of ch32v0/adc_dma_uart: the ADC converts for ever,    *)
(* the DMA channel moves one block of results to RAM and stops, and the    *)
(* CPU averages the block, prints the mean and arms the channel again.     *)
(* Three processes on one buffer; the ADC and the DMA channel are external. *)
(***************************************************************************)
EXTENDS Integers, Sequences

CONSTANTS
    Count,      \* ADC_SAMPLE_COUNT: 128 in the code
    Values,     \* the conversion results that occur
    FullScale,  \* ADC_FULL_SCALE: 1023 in the code
    VrefMv,     \* ADC_VREF_MV: 3300 in the code
    Base,       \* of the printed numbers: 10 in the code
    BufSize,    \* size of buf in uart_putu: 10 in the code
    MaxBlocks   \* the block number wraps here (it is history only)

ASSUME AdcDmaAssumption ==
    /\ Count \in Nat \ {0}
    /\ FullScale \in Nat \ {0}
    /\ Values \subseteq 0..FullScale /\ Values # {}
    /\ VrefMv \in Nat
    /\ Base \in Nat \ {0, 1}
    /\ BufSize \in Nat \ {0}
    /\ MaxBlocks \in Nat \ {0, 1}

\* The powers of the base of the printed numbers.
Power[n \in Nat] == IF n = 0 THEN 1 ELSE Base * Power[n - 1]

\* main.c:75 "char buf[10]": ten decimal digits are enough for 32 bits, so buf
\* never cuts a number that main() prints.
ASSUME NumbersFitBuf == FullScale < Power[BufSize] /\ VrefMv < Power[BufSize]

Index == 0..Count - 1

VARIABLES
    pc,       \* where the CPU is
    i, sum,   \* adc_mean: the loop
    mean, mv, \* main: mean, millivolts
    value, buf,   \* uart_putu: what is left of the number, its digits
    line,     \* the numbers of the line being printed, as sent so far
    adc_samples,  \* the block in RAM
    dr,       \* ADC: the result register
    req,      \* the ADC asks the DMA to move dr
    en,       \* DMA channel: enabled
    cntr,     \* DMA channel: transfers left
    tcif,     \* DMA channel: transfer complete
    block,    \* history: number of the block being filled
    tag       \* history: the block each sample belongs to

text == <<value, buf, line>>
cpu == <<pc, i, sum, mean, mv, text>>
dma == <<en, cntr, tcif>>
vars == <<cpu, adc_samples, dr, req, dma, block, tag>>

Digit == 0..Base - 1

TypeOK ==
    /\ pc \in {"wait", "stop", "clear", "sum", "digits", "send", "print",
               "rearm_stop", "rearm_clear", "rearm_count"}
    /\ i \in 0..Count
    /\ sum \in 0..Count * FullScale
    /\ mean \in 0..FullScale
    /\ mv \in 0..VrefMv
    /\ value \in Nat
    /\ buf \in Seq(Digit) /\ Len(buf) <= BufSize
    /\ line \in Seq(Seq(Digit)) /\ Len(line) <= 2
    /\ adc_samples \in [Index -> 0..FullScale]
    /\ dr \in 0..FullScale
    /\ req \in BOOLEAN
    /\ en \in BOOLEAN
    /\ cntr \in 0..Count
    /\ tcif \in BOOLEAN
    /\ block \in 0..MaxBlocks - 1
    /\ tag \in [Index -> {-1} \cup 0..MaxBlocks - 1]

\* adc_dma_init() has run: the channel is armed and the ADC converts.
Init ==
    /\ pc = "wait" /\ i = 0 /\ sum = 0 /\ mean = 0 /\ mv = 0
    /\ value = 0 /\ buf = <<>> /\ line = <<>>
    /\ adc_samples = [n \in Index |-> 0]
    /\ dr \in Values
    /\ req = FALSE
    /\ en = TRUE /\ cntr = Count /\ tcif = FALSE
    /\ block = 0
    /\ tag = [n \in Index |-> -1]

Goto(from, to) == pc = from /\ pc' = to

-----------------------------------------------------------------------------
(* The ADC and the DMA channel (external).                                 *)

\* A conversion completes.  It takes hundreds of cycles and a transfer takes a
\* few, so that an armed channel has always moved the result before it.
Convert ==
    /\ ~(req /\ en /\ cntr > 0)
    /\ dr' \in Values
    /\ req' = TRUE
    /\ UNCHANGED <<cpu, adc_samples, dma, block, tag>>

\* Whether a request outlives the time the channel is disabled is not known.
ForgetRequest ==
    /\ req /\ ~en
    /\ req' = FALSE
    /\ UNCHANGED <<cpu, adc_samples, dr, dma, block, tag>>

Reload_Circular == IF cntr = 1 THEN Count ELSE cntr - 1
\* The channel was set up in normal mode: it stops after the block.
Reload == cntr - 1

Transfer ==
    /\ en /\ cntr > 0 /\ req
    /\ adc_samples' = [adc_samples EXCEPT ![Count - cntr] = dr]
    /\ tag' = [tag EXCEPT ![Count - cntr] = block]
    /\ cntr' = Reload
    /\ tcif' = (tcif \/ cntr = 1)
    /\ req' = FALSE
    /\ UNCHANGED <<cpu, dr, en, block>>

-----------------------------------------------------------------------------
(* main().                                                                 *)

WaitDone_Any == TRUE
WaitDone == tcif

Wait ==
    /\ Goto("wait", "stop") /\ WaitDone
    /\ UNCHANGED <<i, sum, mean, mv, text, adc_samples, dr, req, dma, block, tag>>

StopDma ==
    /\ Goto("stop", "clear")
    /\ en' = FALSE
    /\ UNCHANGED <<i, sum, mean, mv, text, adc_samples, dr, req, cntr, tcif, block,
                   tag>>

StartMean_SumKept == i' = 0 /\ UNCHANGED sum
StartMean == i' = 0 /\ sum' = 0

ClearDone ==
    /\ Goto("clear", "sum")
    /\ tcif' = FALSE
    /\ StartMean
    /\ UNCHANGED <<mean, mv, text, adc_samples, dr, req, en, cntr, block, tag>>

AddSample ==
    /\ pc = "sum" /\ i < Count
    /\ sum' = sum + adc_samples[i]
    /\ i' = i + 1
    /\ UNCHANGED <<pc, mean, mv, text, adc_samples, dr, req, dma, block, tag>>

Mean_Truncated(s) == s \div Count
\* adc_mean() and main() round to the nearest integer.
Mean(s) == (s + Count \div 2) \div Count
Millivolts(m) == (m * VrefMv + FullScale \div 2) \div FullScale

\* uart_putu() is called: for the mean first, then for the millivolts.
StartNumber(n, before) ==
    /\ value' = n /\ buf' = <<>> /\ line' = Append(before, <<>>)

PrintBlock ==
    /\ Goto("sum", "digits") /\ i = Count
    /\ mean' = Mean(sum)
    /\ mv' = Millivolts(mean')
    /\ StartNumber(mean', <<>>)
    /\ UNCHANGED <<i, sum, adc_samples, dr, req, dma, block, tag>>

\* Its first loop takes the digits from the last one on.
PutDigit ==
    /\ pc = "digits" /\ value # 0 /\ Len(buf) < BufSize
    /\ buf' = Append(buf, value % Base)
    /\ value' = value \div Base
    /\ UNCHANGED <<pc, i, sum, mean, mv, line, adc_samples, dr, req, dma, block, tag>>

\* Of a zero there are none, and it is sent as one.
DigitsDone == IF buf = <<>> THEN <<0>> ELSE buf

AllDigits ==
    /\ Goto("digits", "send") /\ (value = 0 \/ Len(buf) = BufSize)
    /\ buf' = DigitsDone
    /\ UNCHANGED <<i, sum, mean, mv, value, line, adc_samples, dr, req, dma, block, tag>>

\* The second loop sends them.
SendDigit ==
    /\ pc = "send" /\ buf # <<>>
    /\ line' = [line EXCEPT ![Len(line)] = Append(@, buf[Len(buf)])]
    /\ buf' = SubSeq(buf, 1, Len(buf) - 1)
    /\ UNCHANGED <<pc, i, sum, mean, mv, value, adc_samples, dr, req, dma, block, tag>>

NumberSent ==
    /\ pc = "send" /\ buf = <<>>
    /\ \/ Len(line) = 1 /\ pc' = "digits" /\ StartNumber(mv, line)
       \/ Len(line) = 2 /\ pc' = "print" /\ UNCHANGED text
    /\ UNCHANGED <<i, sum, mean, mv, adc_samples, dr, req, dma, block, tag>>

uart_putu == PutDigit \/ AllDigits \/ SendDigit \/ NumberSent

\* adc_dma_restart(): printing is over.  The count only takes while the
\* channel is disabled; enabling it starts at the first sample again.
RearmCount_Forgotten == UNCHANGED cntr
RearmCount == cntr' = IF en THEN cntr ELSE Count

Restart ==
    /\ \/ Goto("print", "rearm_stop") /\ en' = FALSE /\ UNCHANGED <<cntr, tcif>>
       \/ Goto("rearm_stop", "rearm_clear") /\ tcif' = FALSE
          /\ UNCHANGED <<en, cntr>>
       \/ Goto("rearm_clear", "rearm_count") /\ RearmCount
          /\ UNCHANGED <<en, tcif>>
    /\ UNCHANGED <<i, sum, mean, mv, text, adc_samples, dr, req, block, tag>>

Rearm ==
    /\ Goto("rearm_count", "wait")
    /\ en' = TRUE
    /\ block' = (block + 1) % MaxBlocks
    /\ UNCHANGED <<i, sum, mean, mv, text, adc_samples, dr, req, cntr, tcif, tag>>

Cpu == \/ Wait \/ StopDma \/ ClearDone \/ AddSample \/ PrintBlock \/ uart_putu
       \/ Restart \/ Rearm
Device == Convert \/ ForgetRequest \/ Transfer

Next == Cpu \/ Device

Spec == Init /\ [][Next]_vars
\* The CPU runs, the ADC keeps converting, an armed channel serves requests.
FairSpec == Spec /\ WF_vars(Cpu) /\ WF_vars(Convert) /\ WF_vars(Transfer)

-----------------------------------------------------------------------------
(* Properties.                                                             *)

\* The block has been seen complete and is not yet given back.
Reading == pc \in {"stop", "clear", "sum", "digits", "send", "print"}

\* Every sample that is averaged was moved since the channel was last armed:
\* a block is never read before it is complete and never holds a leftover.
WholeBlock == Reading => \A n \in Index : tag[n] = block

\* main.c:180 "so the block cannot change under us": from the moment the block
\* is seen complete until it is given back no transfer touches it, not even
\* between the poll of the flag and the stop of the channel.
BlockIsStable == [][Reading => UNCHANGED adc_samples]_vars

\* The line printed: its first number is the nearest integer to the mean of the
\* samples that are in RAM then, its second the nearest to that in millivolts,
\* both in full and without leading zeros.
SumTo(samples) ==
    LET front[n \in 0..Count] == IF n = 0 THEN 0 ELSE front[n - 1] + samples[n - 1]
    IN  front
NumberTo(digits) ==
    LET front[n \in 0..Len(digits)] ==
            IF n = 0 THEN 0 ELSE Base * front[n - 1] + digits[n]
    IN  front
Number(digits) == NumberTo(digits)[Len(digits)]
Near(d, half) == -half <= d /\ d <= half
MeanIsOfBlock ==
    pc = "print" =>
        LET raw == Number(line[1])
            millivolts == Number(line[2])
        IN  /\ Near(2 * (raw * Count - SumTo(adc_samples)[Count]), Count)
            /\ Near(2 * (millivolts * FullScale - raw * VrefMv), FullScale)
            /\ \A k \in 1..2 : line[k] # <<>> /\ (Len(line[k]) > 1 => line[k][1] # 0)

\* Blocks keep coming: re-arming never leaves the channel dead.
BlocksKeepComing == []<>(pc = "print")

=============================================================================
