---------------------------- MODULE AdcDmaProofs ----------------------------
(***************************************************************************)
(* Proofs about AdcDma, for every block length, set of conversion results, *)
(* full scale, reference voltage and base of the printed numbers.          *)
(***************************************************************************)
EXTENDS AdcDma, SequenceTheorems, WellFoundedInduction, TLAPS

\* A product grows with its first factor.
LEMMA ProductMono ==
    ASSUME NEW a \in Nat, NEW b \in Nat, NEW c \in Nat, a <= b
    PROVE  a * c <= b * c
  <1>1. b - a \in Nat  OBVIOUS
  <1>2. (b - a) * c \in Nat  BY <1>1
  <1>3. b * c = a * c + (b - a) * c  OBVIOUS
  <1>. QED  BY <1>2, <1>3

\* The product of two natural numbers is one, in either order.
LEMMA ProductNat ==
    ASSUME NEW a \in Nat, NEW b \in Nat
    PROVE  a * b \in Nat /\ a * b = b * a
  OBVIOUS

\* What a turn of the first loop of uart_putu takes from a number.
LEMMA DigitOf ==
    ASSUME NEW v \in Nat, NEW b \in Nat \ {0, 1}
    PROVE  v % b \in 0..b - 1 /\ v \div b \in Nat
  OBVIOUS

\* What SendDigit takes from buf and what it leaves there.
LEMMA WithoutLast ==
    ASSUME NEW S, NEW s \in Seq(S), s # <<>>
    PROVE  /\ Len(s) \in 1..Len(s) /\ s[Len(s)] \in S
           /\ SubSeq(s, 1, Len(s) - 1) \in Seq(S)
           /\ Len(SubSeq(s, 1, Len(s) - 1)) = Len(s) - 1
  <1>1. Len(s) \in 1..Len(s)  BY EmptySeq
  <1>2. \A k \in 1..Len(s) : s[k] \in S  BY ElementOfSeq
  <1>. DEFINE n == Len(s) - 1
  <1>3. n \in Nat /\ \A k \in 1..n : s[k] \in S  BY <1>1, <1>2
  <1>. HIDE DEF n
  <1>4. SubSeq(s, 1, n) \in Seq(S) /\ Len(SubSeq(s, 1, n)) = IF 1 <= n THEN n - 1 + 1 ELSE 0
    BY <1>3, SubSeqProperties
  <1>5. Len(SubSeq(s, 1, n)) = n  BY <1>3, <1>4
  <1>. QED  BY <1>1, <1>2, <1>4, <1>5, Zenon DEF n

\* NumberSent opens a place for the second number of the line.
LEMMA OneNumberMore ==
    ASSUME NEW S, NEW s \in Seq(Seq(S)), Len(s) = 1
    PROVE  Append(s, <<>>) \in Seq(Seq(S)) /\ Len(Append(s, <<>>)) = 2
  <1>. DEFINE e == <<>>
  <1>1. e \in Seq(S)  OBVIOUS
  <1>. HIDE DEF e
  <1>2. Append(s, e) \in Seq(Seq(S)) /\ Len(Append(s, e)) = Len(s) + 1
    BY <1>1, AppendProperties
  <1>. QED  BY <1>2 DEF e

\* Rounding to nearest: both quotients of main() are this one.
LEMMA RoundedQuotient ==
    ASSUME NEW s \in Nat, NEW c \in Nat \ {0}
    PROVE  /\ (s + c \div 2) \div c \in Nat
           /\ Near(2 * (((s + c \div 2) \div c) * c - s), c)
  <1>. DEFINE h == c \div 2
  <1>. DEFINE q == (s + h) \div c
  <1>1. h \in Nat /\ 2 * h <= c /\ c <= 2 * h + 1  OBVIOUS
  <1>2. q \in Nat  BY <1>1
  <1>3. q * c <= s + h /\ s + h < q * c + c  BY <1>1, <1>2
  <1>. QED  BY <1>1, <1>2, <1>3 DEF Near

\* A rounded mean is no larger than the largest sample: rounding up never leaves
\* the range of the register.
LEMMA QuotientBound ==
    ASSUME NEW s \in Nat, NEW c \in Nat \ {0}, NEW f \in Nat, s <= f * c
    PROVE  (s + c \div 2) \div c \in 0..f
  <1>. DEFINE h == c \div 2
  <1>. DEFINE q == (s + h) \div c
  <1>1. h \in Nat /\ h < c  OBVIOUS
  <1>2. q \in Nat  BY <1>1
  <1>3. q * c <= s + h  BY <1>1, <1>2
  <1>4. q * c < f * c + c  BY <1>1, <1>2, <1>3
  <1>5. ASSUME q >= f + 1  PROVE FALSE
    <2>1. (f + 1) * c <= q * c  BY <1>2, <1>5, ProductMono
    <2>2. (f + 1) * c = f * c + c  OBVIOUS
    <2>. QED  BY <1>2, <1>4, <2>1, <2>2
  <1>. QED  BY <1>2, <1>5

-----------------------------------------------------------------------------
(* The inductive invariant.                                                *)

\* The sum is that of the samples added so far.
SumInv == sum <= FullScale * i

\* What is left of the count and the flag says how far the block is, wherever
\* the CPU is.
FilledInv ==
    /\ tcif => cntr = 0
    /\ \A n \in Index : n < Count - cntr => tag[n] = block

\* The channel stays complete until its count is written, which only happens
\* once it is disabled and its flag is cleared.
HandoverInv ==
    /\ Reading \/ pc \in {"rearm_stop", "rearm_clear"} => cntr = 0
    /\ pc \notin {"wait", "stop"} => ~en
    /\ pc \in {"rearm_clear", "rearm_count"} => ~tcif
    /\ pc = "rearm_count" => cntr = Count

\* While a number is printed the line has a place for it.
LineInv == pc \in {"digits", "send"} => line # <<>>

IInv == TypeOK /\ SumInv /\ LineInv /\ FilledInv /\ HandoverInv

\* What adc_dma_init() leaves satisfies the invariant.
LEMMA InitIInv == Init => IInv
  <1>. SUFFICES ASSUME Init PROVE IInv
    OBVIOUS
  <1>. USE AdcDmaAssumption DEF Init, Index
  <1>1. TypeOK
    <2>1. <<>> \in Seq(Digit) /\ <<>> \in Seq(Seq(Digit)) /\ Len(<<>>) = 0  OBVIOUS
    <2>2. Count * FullScale \in Nat  BY ProductNat
    <2>3. /\ i \in 0..Count /\ sum \in 0..Count * FullScale /\ mean \in 0..FullScale
          /\ mv \in 0..VrefMv /\ block \in 0..MaxBlocks - 1 /\ cntr \in 0..Count
      BY <2>2
    <2>4. dr \in 0..FullScale  OBVIOUS
    <2>5. adc_samples \in [Index -> 0..FullScale] /\ tag \in [Index -> {-1} \cup 0..MaxBlocks - 1]
      OBVIOUS
    <2>6. /\ value \in Nat
          /\ buf \in Seq(Digit) /\ Len(buf) <= BufSize
          /\ line \in Seq(Seq(Digit)) /\ Len(line) <= 2
      BY <2>1
    <2>7. /\ pc \in {"wait", "stop", "clear", "sum", "digits", "send", "print",
                     "rearm_stop", "rearm_clear", "rearm_count"}
          /\ req \in BOOLEAN /\ en \in BOOLEAN /\ tcif \in BOOLEAN
      OBVIOUS
    <2>. HIDE DEF Init, Index
    <2>. QED  BY <2>3, <2>4, <2>5, <2>6, <2>7, Zenon DEF TypeOK
  <1>5. LineInv  BY DEF LineInv
  <1>2. SumInv  BY DEF SumInv
  <1>3. FilledInv  BY DEF FilledInv
  <1>4. HandoverInv  BY DEF HandoverInv, Reading
  <1>. QED  BY <1>1, <1>2, <1>3, <1>4, <1>5 DEF IInv

\* Every step of the CPU, the ADC and the channel keeps the ranges: the sum
\* because it is that of i samples, the line because it is begun before a digit
\* is sent.
LEMMA NextTypeOK ==
    TypeOK /\ SumInv /\ LineInv /\ [Next]_vars => TypeOK' /\ SumInv' /\ LineInv'
  <1>. SUFFICES ASSUME TypeOK, SumInv, LineInv, [Next]_vars
                PROVE  TypeOK' /\ SumInv' /\ LineInv'
    OBVIOUS
  <1>. USE AdcDmaAssumption DEF TypeOK, Index, Goto, cpu, dma, text, LineInv
  <1>0. UNCHANGED <<i, sum>> => SumInv'  BY DEF SumInv
  <1>1. CASE Convert  BY <1>0, <1>1 DEF Convert
  <1>2. CASE ForgetRequest  BY <1>0, <1>2 DEF ForgetRequest
  <1>3. CASE Transfer
    <2>1. cntr' \in 0..Count  BY <1>3 DEF Transfer, Reload
    <2>2. Count - cntr \in Index  BY <1>3 DEF Transfer
    <2>3. adc_samples' \in [Index -> 0..FullScale]  BY <1>3, <2>2 DEF Transfer
    <2>4. tag' \in [Index -> {-1} \cup 0..MaxBlocks - 1]  BY <1>3, <2>2 DEF Transfer
    <2>5. tcif' \in BOOLEAN  BY <1>3 DEF Transfer
    <2>. QED  BY <1>0, <1>3, <2>1, <2>3, <2>4, <2>5 DEF Transfer
  <1>4. CASE Wait  BY <1>0, <1>4 DEF Wait
  <1>5. CASE StopDma  BY <1>0, <1>5 DEF StopDma
  <1>6. CASE ClearDone
    <2>1. i' = 0 /\ sum' = 0  BY <1>6 DEF ClearDone, StartMean
    <2>2. i' \in 0..Count /\ sum' \in 0..Count * FullScale
      <3>1. Count * FullScale \in Nat  OBVIOUS
      <3>. QED  BY <2>1, <3>1
    <2>3. SumInv'  BY <2>1 DEF SumInv
    <2>. QED  BY <1>6, <2>2, <2>3 DEF ClearDone
  <1>7. CASE AddSample
    <2>1. i \in Nat /\ i + 1 <= Count /\ i' = i + 1  BY <1>7 DEF AddSample
    <2>2. adc_samples[i] \in 0..FullScale  BY <2>1
    <2>3. sum' = sum + adc_samples[i]  BY <1>7 DEF AddSample
    <2>4. FullScale * (i + 1) = FullScale * i + FullScale  BY <2>1
    <2>5. sum' \in Nat /\ sum' <= FullScale * (i + 1)  BY <2>1, <2>2, <2>3, <2>4 DEF SumInv
    <2>6. (i + 1) * FullScale <= Count * FullScale  BY <2>1, ProductMono
    <2>7. sum' \in 0..Count * FullScale
      <3>1. FullScale * (i + 1) = (i + 1) * FullScale  BY <2>1
      <3>. HIDE AdcDmaAssumption
      <3>2. (i + 1) * FullScale \in Int /\ Count * FullScale \in Int
        BY <2>1, AdcDmaAssumption
      <3>. QED  BY <2>5, <2>6, <3>1, <3>2
    <2>8. SumInv'  BY <2>1, <2>5 DEF SumInv
    <2>. QED  BY <1>7, <2>1, <2>7, <2>8 DEF AddSample
  <1>8. CASE PrintBlock
    <2>1. mean' \in 0..FullScale
      <3>1. sum \in Nat /\ sum <= FullScale * Count  BY <1>8 DEF PrintBlock, SumInv
      <3>. QED  BY <1>8, <3>1, QuotientBound DEF PrintBlock, Mean
    <2>2. mv' \in 0..VrefMv
      <3>1. mean' \in Nat /\ mean' <= FullScale  BY <2>1
      <3>2. mean' * VrefMv <= FullScale * VrefMv  BY <3>1, ProductMono
      <3>3. mean' * VrefMv \in Nat /\ FullScale * VrefMv = VrefMv * FullScale  BY <3>1, ProductNat
      <3>4. mean' * VrefMv <= VrefMv * FullScale  BY <3>2, <3>3
      <3>. QED  BY <1>8, <3>3, <3>4, QuotientBound DEF PrintBlock, Millivolts
    <2>3. value' \in Nat /\ buf' = <<>> /\ line' = << <<>> >>
      BY <1>8, <2>1 DEF PrintBlock, StartNumber
    <2>. QED  BY <1>0, <1>8, <2>1, <2>2, <2>3 DEF PrintBlock
  <1>9. CASE PutDigit
    <2>1. value % Base \in Digit /\ value \div Base \in Nat  BY DigitOf DEF Digit
    <2>2. buf' \in Seq(Digit) /\ Len(buf') = Len(buf) + 1  BY <1>9, <2>1 DEF PutDigit
    <2>. QED  BY <1>0, <1>9, <2>1, <2>2 DEF PutDigit
  <1>10. CASE AllDigits
    <2>1. 0 \in Digit  BY DEF Digit
    <2>2. buf' \in Seq(Digit) /\ Len(buf') <= BufSize
      BY <1>10, <2>1 DEF AllDigits, DigitsDone
    <2>. QED  BY <1>0, <1>10, <2>2 DEF AllDigits
  <1>11. CASE SendDigit
    <2>1. Len(buf) \in 1..Len(buf) /\ buf[Len(buf)] \in Digit
      BY <1>11, WithoutLast DEF SendDigit
    <2>2. buf' = SubSeq(buf, 1, Len(buf) - 1)  BY <1>11 DEF SendDigit
    <2>3. buf' \in Seq(Digit) /\ Len(buf') = Len(buf) - 1
      BY <1>11, <2>2, WithoutLast DEF SendDigit
    <2>4. line' \in Seq(Seq(Digit)) /\ Len(line') = Len(line)
      <3>1. Len(line) \in 1..Len(line)  BY <1>11 DEF SendDigit
      <3>2. line[Len(line)] \in Seq(Digit)  BY <3>1, ElementOfSeq
      <3>3. Append(line[Len(line)], buf[Len(buf)]) \in Seq(Digit)  BY <2>1, <3>2
      <3>4. line' = [line EXCEPT ![Len(line)] = Append(line[Len(line)], buf[Len(buf)])]
        BY <1>11 DEF SendDigit
      <3>. QED  BY <3>1, <3>3, <3>4, ExceptSeq
    <2>5. line' # <<>>  BY <1>11, <2>4 DEF SendDigit
    <2>. QED  BY <1>0, <1>11, <2>3, <2>4, <2>5 DEF SendDigit
  <1>12. CASE NumberSent
    <2>1. CASE Len(line) = 1 /\ pc' = "digits" /\ StartNumber(mv, line)
      <3>1. value' \in Nat /\ buf' \in Seq(Digit) /\ Len(buf') = 0  BY <2>1 DEF StartNumber
      <3>2. line' \in Seq(Seq(Digit)) /\ Len(line') = 2
        BY <2>1, OneNumberMore DEF StartNumber
      <3>. QED  BY <1>0, <1>12, <2>1, <3>1, <3>2 DEF NumberSent
    <2>2. CASE Len(line) = 2 /\ pc' = "print" /\ UNCHANGED text
      BY <1>0, <1>12, <2>2 DEF NumberSent
    <2>. HIDE DEF TypeOK, LineInv, text
    <2>. QED  BY <1>12, <2>1, <2>2 DEF NumberSent
  <1>13. CASE Restart
    <2>1. /\ UNCHANGED <<i, sum, mean, mv, text, adc_samples, dr, req, block, tag>>
          /\ pc' \in {"rearm_stop", "rearm_clear", "rearm_count"}
      BY <1>13 DEF Restart
    <2>2. en' \in BOOLEAN /\ tcif' \in BOOLEAN  BY <1>13, Zenon DEF Restart
    <2>3. cntr' \in 0..Count
      <3>1. cntr' = cntr \/ cntr' = Count  BY <1>13, Zenon DEF Restart, RearmCount
      <3>. QED  BY <3>1
    <2>. QED  BY <1>0, <2>1, <2>2, <2>3
  <1>14. CASE Rearm
    <2>1. block' \in 0..MaxBlocks - 1  BY <1>14 DEF Rearm
    <2>. QED  BY <1>0, <1>14, <2>1 DEF Rearm
  <1>15. CASE UNCHANGED vars
    <2>1. UNCHANGED <<pc, i, sum, mean, mv, value, buf, line, adc_samples, dr, req,
                      en, cntr, tcif, block, tag>>
      BY <1>15 DEF vars
    <2>2. TypeOK'
      <3>. HIDE DEF Index
      <3>. QED  BY <2>1, Zenon
    <2>. QED  BY <1>0, <2>1, <2>2
  <1>. QED
    BY <1>1, <1>2, <1>3, <1>4, <1>5, <1>6, <1>7, <1>8, <1>9, <1>10, <1>11, <1>12,
       <1>13, <1>14, <1>15 DEF Next, Cpu, Device, uart_putu

\* Every step keeps the account of the block: only a transfer changes it, and
\* only while the CPU is not reading.
LEMMA NextFilled ==
    TypeOK /\ FilledInv /\ HandoverInv /\ [Next]_vars => FilledInv' /\ HandoverInv'
  <1>. SUFFICES ASSUME TypeOK, FilledInv, HandoverInv, [Next]_vars
                PROVE  FilledInv' /\ HandoverInv'
    OBVIOUS
  <1>. USE AdcDmaAssumption DEF FilledInv, HandoverInv, Reading, Goto, cpu, dma, text
  <1>0. en \in BOOLEAN /\ tcif \in BOOLEAN /\ cntr \in 0..Count /\ Count \in Nat
    BY DEF TypeOK
  <1>1. CASE Convert  BY <1>1 DEF Convert
  <1>2. CASE ForgetRequest  BY <1>2 DEF ForgetRequest
  <1>3. CASE Transfer
    <2>1. pc = "wait"  BY <1>0, <1>3 DEF Transfer, TypeOK
    <2>2. cntr' = cntr - 1  BY <1>3 DEF Transfer, Reload
    <2>3. ASSUME NEW n \in Index, n < Count - cntr'  PROVE tag'[n] = block'
      <3>1. n < Count - cntr \/ n = Count - cntr  BY <1>0, <2>2, <2>3 DEF Index
      <3>. QED  BY <1>3, <2>3, <3>1 DEF Transfer, TypeOK
    <2>4. tcif' => cntr' = 0  BY <1>0, <1>3, <2>2 DEF Transfer
    <2>. QED  BY <1>3, <2>1, <2>3, <2>4 DEF Transfer
  <1>4. CASE Wait  BY <1>4 DEF Wait, WaitDone
  <1>5. CASE StopDma  BY <1>5 DEF StopDma
  <1>6. CASE ClearDone  BY <1>6 DEF ClearDone
  <1>7. CASE AddSample  BY <1>7 DEF AddSample
  <1>8. CASE PrintBlock  BY <1>8 DEF PrintBlock
  <1>9. CASE PutDigit  BY <1>9 DEF PutDigit
  <1>10. CASE AllDigits  BY <1>10 DEF AllDigits
  <1>11. CASE SendDigit  BY <1>11 DEF SendDigit
  <1>12. CASE NumberSent  BY <1>12 DEF NumberSent
  <1>13. CASE Restart
    <2>1. ~en  BY <1>13 DEF Restart
    <2>2. CASE pc = "rearm_clear"
      <3>1. pc' = "rearm_count" /\ cntr' = Count /\ UNCHANGED <<en, tcif, tag, block>>
        BY <1>13, <2>1, <2>2 DEF Restart, RearmCount
      <3>. QED  BY <1>0, <2>1, <2>2, <3>1 DEF Index
    <2>3. CASE pc # "rearm_clear"
      BY <1>13, <2>1, <2>3 DEF Restart
    <2>. QED  BY <2>2, <2>3
  <1>14. CASE Rearm
    <2>1. cntr' = Count /\ ~tcif' /\ pc' = "wait"  BY <1>14 DEF Rearm
    <2>. QED  BY <1>0, <2>1 DEF Index
  <1>15. CASE UNCHANGED vars  BY <1>15 DEF vars
  <1>. QED
    BY <1>1, <1>2, <1>3, <1>4, <1>5, <1>6, <1>7, <1>8, <1>9, <1>10, <1>11, <1>12,
       <1>13, <1>14, <1>15 DEF Next, Cpu, Device, uart_putu

\* The invariant holds in every reachable state.
THEOREM Invariant == Spec => []IInv
  <1>1. IInv /\ [Next]_vars => IInv'  BY NextTypeOK, NextFilled DEF IInv
  <1>. QED  BY <1>1, InitIInv, PTL DEF Spec

\* Indices, sums, means and millivolts keep to their ranges.
THEOREM TypeCorrect == Spec => []TypeOK
  BY Invariant, PTL DEF IInv

\* A block that is averaged is whole: none of its samples is a leftover.
THEOREM BlockIsWhole == Spec => []WholeBlock
  <1>1. IInv => WholeBlock
    BY AdcDmaAssumption DEF IInv, TypeOK, FilledInv, HandoverInv, WholeBlock, Index
  <1>. QED  BY <1>1, Invariant, PTL

\* No transfer can touch a block that is being read.
LEMMA ReadingIsStable ==
    ASSUME IInv, Next, Reading
    PROVE  adc_samples' = adc_samples
  <1>1. ~Transfer  BY DEF IInv, HandoverInv, Transfer
  <1>. QED
    BY <1>1 DEF Next, Cpu, Device, Convert, ForgetRequest, Wait, StopDma,
                ClearDone, AddSample, PrintBlock, uart_putu, PutDigit, AllDigits,
                SendDigit, NumberSent, Restart, Rearm

\* The block does not move while the CPU reads it.
THEOREM BlockDoesNotMove == Spec => BlockIsStable
  <1>1. IInv /\ [Next]_vars => [Reading => UNCHANGED adc_samples]_vars
    <2>. SUFFICES ASSUME IInv, Next, Reading PROVE adc_samples' = adc_samples
      BY DEF vars
    <2>. QED  BY ReadingIsStable
  <1>. QED  BY <1>1, Invariant, PTL DEF Spec, BlockIsStable

-----------------------------------------------------------------------------
(* The numbers that are printed.                                           *)

\* The two numbers being printed are those of the sum, until the line is out.
RoundedInv ==
    pc \in {"digits", "send", "print"} => mean = Mean(sum) /\ mv = Millivolts(mean)

\* Each is the nearest integer to what it is computed from: the mean to the
\* sum of the block over its length, the millivolts to the mean.
NumbersAreNearest ==
    pc = "print" => /\ Near(2 * (mean * Count - sum), Count)
                    /\ Near(2 * (mv * FullScale - mean * VrefMv), FullScale)

\* No step between their computation and the end of the line touches them.
LEMMA NextRounded == TypeOK /\ RoundedInv /\ [Next]_vars => RoundedInv'
  <1>. SUFFICES ASSUME TypeOK, RoundedInv, [Next]_vars PROVE RoundedInv'
    OBVIOUS
  <1>. USE DEF RoundedInv, Goto, cpu, dma, text
  <1>1. CASE PrintBlock  BY <1>1 DEF PrintBlock
  <1>2. CASE Wait \/ StopDma \/ ClearDone \/ AddSample \/ Restart \/ Rearm
    BY <1>2 DEF Wait, StopDma, ClearDone, AddSample, Restart, Rearm
  <1>3. CASE uart_putu
    BY <1>3 DEF uart_putu, PutDigit, AllDigits, SendDigit, NumberSent
  <1>4. CASE Device  BY <1>4 DEF Device, Convert, ForgetRequest, Transfer
  <1>5. CASE UNCHANGED vars  BY <1>5 DEF vars
  <1>. QED  BY <1>1, <1>2, <1>3, <1>4, <1>5 DEF Next, Cpu

\* The mean and the millivolts that main() prints are rounded to the nearest,
\* for every length of the block and every value converted.
THEOREM NearestPrinted == Spec => []NumbersAreNearest
  <1>1. Init => RoundedInv  BY DEF Init, RoundedInv
  <1>2. Spec => []RoundedInv
    BY <1>1, NextRounded, TypeCorrect, PTL DEF Spec
  <1>3. TypeOK /\ RoundedInv => NumbersAreNearest
    <2>. SUFFICES ASSUME TypeOK, RoundedInv, pc = "print" PROVE NumbersAreNearest
      BY DEF NumbersAreNearest
    <2>1. sum \in Nat /\ mean \in Nat
      <3>1. Count * FullScale \in Nat  BY AdcDmaAssumption, ProductNat
      <3>. QED  BY <3>1, AdcDmaAssumption DEF TypeOK
    <2>2. mean * VrefMv \in Nat  BY <2>1, AdcDmaAssumption, ProductNat
    <2>3. mean = (sum + Count \div 2) \div Count
      BY DEF RoundedInv, Mean
    <2>4. mv = (mean * VrefMv + FullScale \div 2) \div FullScale
      BY DEF RoundedInv, Millivolts
    <2>5. Near(2 * (mean * Count - sum), Count)
      BY <2>1, <2>3, RoundedQuotient, AdcDmaAssumption
    <2>6. Near(2 * (mv * FullScale - mean * VrefMv), FullScale)
      BY <2>2, <2>4, RoundedQuotient, AdcDmaAssumption
    <2>. QED  BY <2>5, <2>6 DEF NumbersAreNearest
  <1>. QED  BY <1>2, <1>3, TypeCorrect, PTL

-----------------------------------------------------------------------------
(* The printed line.                                                       *)

\* Induction over the naturals, for a set.
LEMMA SetInduction ==
    ASSUME NEW T, T \subseteq Nat, 0 \in T, \A n \in T : n + 1 \in T
    PROVE  T = Nat
  <1>. DEFINE R == OpToRel(<, Nat)
              U == Nat \ T
  <1>1. IsWellFoundedOn(R, Nat)  BY NatLessThanWellFounded
  <1>2. SUFFICES ASSUME U # {} PROVE FALSE
    BY Zenon
  <1>3. PICK x \in U : \A y \in U : ~ (<<y, x>> \in R)
    BY <1>1, <1>2, WFMin, Zenon
  <1>4. x \in Nat /\ x \notin T /\ x # 0  OBVIOUS
  <1>5. x - 1 \in Nat /\ x - 1 + 1 = x /\ x - 1 < x  BY <1>4
  <1>6. x - 1 \notin T  BY <1>4, <1>5
  <1>7. <<x - 1, x>> \in R  BY <1>4, <1>5 DEF OpToRel
  <1>. QED  BY <1>3, <1>4, <1>5, <1>6, <1>7

\* The functions that give from a number n and f[n] the value f[n + 1].
Steps(V) == [Nat \X V -> V]

\* What f is when it starts at base and takes these steps.
Iterates(f, V, base, step) ==
    /\ f \in [Nat -> V] /\ f[0] = base
    /\ \A n \in Nat : f[n + 1] = step[<<n, f[n]>>]

\* A value and a step from one value to the next determine a function on Nat.
LEMMA NatRecursion ==
    ASSUME NEW V, NEW base \in V, NEW step \in Steps(V)
    PROVE  \E f : Iterates(f, V, base, step)
  <1>. USE DEF Steps
  <1>. DEFINE Upto(n, g) == /\ g \in [0..n -> V] /\ g[0] = base
                             /\ \A k \in 0..n - 1 : g[k + 1] = step[<<k, g[k]>>]
  <1>1. \A n \in Nat : \E g : Upto(n, g)
    <2>. DEFINE T == {n \in Nat : \E g : Upto(n, g)}
    <2>1. 0 \in T
      <3>1. Upto(0, [k \in 0..0 |-> base])  OBVIOUS
      <3>. QED  BY <3>1
    <2>2. ASSUME NEW n \in T  PROVE n + 1 \in T
      <3>1. PICK g : Upto(n, g)  OBVIOUS
      <3>. DEFINE h == [k \in 0..n + 1 |-> IF k = n + 1 THEN step[<<n, g[n]>>] ELSE g[k]]
      <3>2. n \in Nat  OBVIOUS
      <3>3. h \in [0..n + 1 -> V]
        <4>1. step[<<n, g[n]>>] \in V  BY <3>1, <3>2
        <4>2. \A k \in 0..n + 1 : k # n + 1 => g[k] \in V  BY <3>1, <3>2
        <4>. QED  BY <4>1, <4>2
      <3>4. h[0] = base  BY <3>1, <3>2
      <3>5. ASSUME NEW k \in 0..n + 1 - 1  PROVE h[k + 1] = step[<<k, h[k]>>]
        <4>1. CASE k = n
          <5>1. k \in 0..n + 1 /\ k + 1 \in 0..n + 1 /\ k + 1 = n + 1 /\ k # n + 1
            BY <3>2, <4>1
          <5>2. h[k + 1] = step[<<n, g[n]>>] /\ h[k] = g[k]  BY <5>1
          <5>. QED  BY <4>1, <5>2
        <4>2. CASE k # n
          <5>1. k \in 0..n - 1 /\ k + 1 # n + 1 /\ k # n + 1 /\ k + 1 \in 0..n + 1 /\ k \in 0..n + 1
            BY <3>2, <4>2
          <5>2. h[k + 1] = g[k + 1] /\ h[k] = g[k]  BY <5>1
          <5>. QED  BY <3>1, <5>1, <5>2
        <4>. HIDE DEF h
        <4>. QED  BY <4>1, <4>2
      <3>. HIDE DEF h
      <3>6. Upto(n + 1, h)  BY <3>3, <3>4, <3>5
      <3>. QED  BY <3>2, <3>6
    <2>. HIDE DEF Upto
    <2>3. T = Nat  BY <2>1, <2>2, SetInduction, Zenon
    <2>. QED  BY <2>3
  <1>2. \A k \in Nat : \A m, n \in Nat : \A g, h :
            Upto(m, g) /\ Upto(n, h) /\ k <= m /\ k <= n => g[k] = h[k]
    <2>. DEFINE Same(k) == \A m, n \in Nat : \A g, h :
                  Upto(m, g) /\ Upto(n, h) /\ k <= m /\ k <= n => g[k] = h[k]
                T == {k \in Nat : Same(k)}
    <2>1. 0 \in T  OBVIOUS
    <2>2. ASSUME NEW k \in T  PROVE k + 1 \in T
      <3>1. k \in Nat /\ Same(k)  OBVIOUS
      <3>2. ASSUME NEW m \in Nat, NEW n \in Nat, NEW g, NEW h,
                   Upto(m, g), Upto(n, h), k + 1 <= m, k + 1 <= n
            PROVE  g[k + 1] = h[k + 1]
        <4>1. g[k] = h[k]
          <5>1. k <= m /\ k <= n  BY <3>1, <3>2
          <5>. HIDE DEF Upto
          <5>. QED  BY <3>1, <3>2, <5>1
        <4>2. k \in 0..m - 1 /\ k \in 0..n - 1  BY <3>1, <3>2
        <4>. QED  BY <3>2, <4>1, <4>2
      <3>3. k + 1 \in Nat  BY <3>1
      <3>4. Same(k + 1)
        <4>. HIDE DEF Upto
        <4>. QED  BY <3>2
      <3>. QED  BY <3>3, <3>4
    <2>. HIDE DEF Same
    <2>3. T = Nat  BY <2>1, <2>2, SetInduction, Zenon
    <2>4. \A k \in Nat : Same(k)  BY <2>3
    <2>. QED  BY <2>4 DEF Same
  <1>. DEFINE G(n) == CHOOSE g : Upto(n, g)
              f == [n \in Nat |-> G(n)[n]]
  <1>3. \A n \in Nat : Upto(n, G(n))  BY <1>1
  <1>. HIDE DEF G
  <1>4. \A n \in Nat : G(n)[n] \in V  BY <1>3
  <1>5. f \in [Nat -> V]  BY <1>4
  <1>6. f[0] = base  BY <1>3
  <1>7. ASSUME NEW n \in Nat  PROVE f[n + 1] = step[<<n, f[n]>>]
    <2>1. Upto(n, G(n)) /\ Upto(n + 1, G(n + 1))  BY <1>3
    <2>2. G(n + 1)[n] = G(n)[n]
      <3>. HIDE DEF Upto
      <3>. QED  BY <1>2, <2>1
    <2>3. G(n + 1)[n + 1] = step[<<n, G(n + 1)[n]>>]  BY <2>1
    <2>. QED  BY <2>2, <2>3
  <1>. HIDE DEF f
  <1>8. Iterates(f, V, base, step)  BY <1>5, <1>6, <1>7 DEF Iterates
  <1>. QED  BY <1>8

\* The powers of the base obey their equation, and are positive.
LEMMA PowerFacts ==
    /\ Power[0] = 1
    /\ \A n \in Nat : Power[n] \in Nat \ {0} /\ Power[n + 1] = Base * Power[n]
  <1>. DEFINE times == [p \in Nat \X Nat |-> Base * p[2]]
  <1>0. Base \in Nat \ {0}  BY AdcDmaAssumption
  <1>1. times \in [Nat \X Nat -> Nat]  BY <1>0
  <1>2. PICK f : Iterates(f, Nat, 1, times)
    <2>1. 1 \in Nat  OBVIOUS
    <2>. HIDE DEF times
    <2>2. times \in Steps(Nat)  BY <1>1 DEF Steps
    <2>. QED  BY <2>1, <2>2, NatRecursion
  <1>2a. /\ f \in [Nat -> Nat] /\ f[0] = 1
         /\ \A n \in Nat : f[n + 1] = times[<<n, f[n]>>]
    BY <1>2 DEF Iterates
  <1>3. f = [n \in Nat |-> IF n = 0 THEN 1 ELSE Base * f[n - 1]]
    <2>1. ASSUME NEW n \in Nat  PROVE f[n] = IF n = 0 THEN 1 ELSE Base * f[n - 1]
      <3>1. CASE n = 0  BY <1>2a, <3>1
      <3>2. CASE n # 0
        <4>1. n - 1 \in Nat /\ n - 1 + 1 = n  BY <3>2
        <4>2. f[n] = times[<<n - 1, f[n - 1]>>]  BY <1>2a, <4>1
        <4>3. f[n - 1] \in Nat  BY <1>2a, <4>1
        <4>. QED  BY <3>2, <4>1, <4>2, <4>3
      <3>. QED  BY <3>1, <3>2
    <2>. QED  BY <1>2a, <2>1
  <1>4. Power = [n \in Nat |-> IF n = 0 THEN 1 ELSE Base * Power[n - 1]]
    BY <1>3, Zenon DEF Power
  <1>5. Power[0] = 1  BY <1>4
  <1>6. \A n \in Nat : Power[n + 1] = Base * Power[n]
    <2>. SUFFICES ASSUME NEW n \in Nat PROVE Power[n + 1] = Base * Power[n]
      OBVIOUS
    <2>1. n + 1 \in Nat /\ n + 1 # 0 /\ n + 1 - 1 = n  OBVIOUS
    <2>. QED  BY <1>4, <2>1
  <1>7. \A n \in Nat : Power[n] \in Nat \ {0}
    <2>. DEFINE T == {n \in Nat : Power[n] \in Nat \ {0}}
    <2>1. 0 \in T  BY <1>5
    <2>2. ASSUME NEW n \in T  PROVE n + 1 \in T
      <3>1. n \in Nat /\ Power[n] \in Nat \ {0}  OBVIOUS
      <3>2. Base * Power[n] \in Nat \ {0}  BY <1>0, <3>1
      <3>. QED  BY <1>6, <3>1, <3>2
    <2>3. T = Nat
      <3>. HIDE DEF T
      <3>1. T \subseteq Nat  BY DEF T
      <3>. QED  BY <2>1, <2>2, <3>1, SetInduction, Zenon
    <2>. QED  BY <2>3
  <1>. QED  BY <1>5, <1>6, <1>7

\* The partial sums of the block obey their equation.
LEMMA SumToFacts ==
    ASSUME NEW samples \in [Index -> 0..FullScale]
    PROVE  /\ SumTo(samples)[0] = 0
           /\ \A n \in Index : SumTo(samples)[n + 1] = SumTo(samples)[n] + samples[n]
  <1>. USE DEF Index
  <1>. DEFINE sumTo == SumTo(samples)
  <1>. DEFINE more == [p \in Nat \X Int |->
                          IF p[1] \in Index THEN p[2] + samples[p[1]] ELSE p[2]]
  <1>0. Count \in Nat /\ \A n \in Index : samples[n] \in Int
    BY AdcDmaAssumption
  <1>1. more \in [Nat \X Int -> Int]  BY <1>0
  <1>2. PICK f : Iterates(f, Int, 0, more)
    <2>1. 0 \in Int  OBVIOUS
    <2>. HIDE DEF more
    <2>2. more \in Steps(Int)  BY <1>1 DEF Steps
    <2>. QED  BY <2>1, <2>2, NatRecursion
  <1>2a. /\ f \in [Nat -> Int] /\ f[0] = 0
         /\ \A n \in Nat : f[n + 1] = more[<<n, f[n]>>]
    BY <1>2 DEF Iterates
  <1>. DEFINE g == [n \in 0..Count |-> f[n]]
  <1>3. g = [n \in 0..Count |-> IF n = 0 THEN 0 ELSE g[n - 1] + samples[n - 1]]
    <2>1. ASSUME NEW n \in 0..Count
          PROVE  f[n] = IF n = 0 THEN 0 ELSE g[n - 1] + samples[n - 1]
      <3>1. CASE n = 0  BY <1>2a, <3>1
      <3>2. CASE n # 0
        <4>1. n - 1 \in Index /\ n - 1 \in Nat /\ n - 1 + 1 = n /\ n - 1 \in 0..Count
          BY <1>0, <3>2
        <4>2. f[n] = more[<<n - 1, f[n - 1]>>]  BY <1>2a, <4>1
        <4>3. f[n - 1] \in Int  BY <1>2a, <4>1
        <4>4. more[<<n - 1, f[n - 1]>>] = f[n - 1] + samples[n - 1]  BY <4>1, <4>3
        <4>. QED  BY <3>2, <4>1, <4>2, <4>4
      <3>. QED  BY <3>1, <3>2
    <2>. QED  BY <2>1
  <1>4. sumTo = [n \in 0..Count |-> IF n = 0 THEN 0 ELSE sumTo[n - 1] + samples[n - 1]]
    <2>. HIDE DEF g
    <2>. QED  BY <1>3, Zenon DEF SumTo
  <1>. HIDE DEF sumTo
  <1>5. sumTo[0] = 0  BY <1>0, <1>4
  <1>6. ASSUME NEW n \in Index  PROVE sumTo[n + 1] = sumTo[n] + samples[n]
    <2>. DEFINE m == n + 1
    <2>1. m \in 0..Count /\ m # 0 /\ m - 1 = n  BY <1>0
    <2>. HIDE DEF m
    <2>2. sumTo[m] = sumTo[m - 1] + samples[m - 1]  BY <1>4, <2>1
    <2>. QED  BY <2>1, <2>2 DEF m
  <1>. QED  BY <1>5, <1>6 DEF sumTo

\* The number of the first n digits is Base times that of one less, and a digit.
LEMMA NumberToFacts ==
    ASSUME NEW s \in Seq(Digit)
    PROVE  /\ NumberTo(s)[0] = 0
           /\ \A n \in 1..Len(s) : NumberTo(s)[n] = Base * NumberTo(s)[n - 1] + s[n]
           /\ \A n \in 0..Len(s) : NumberTo(s)[n] \in Nat
  <1>. DEFINE front == NumberTo(s)
              more == [p \in Nat \X Nat |->
                          IF p[1] < Len(s) THEN Base * p[2] + s[p[1] + 1] ELSE p[2]]
  <1>0. /\ Base \in Nat \ {0} /\ Len(s) \in Nat
        /\ \A n \in 1..Len(s) : s[n] \in Nat
    BY AdcDmaAssumption, ElementOfSeq DEF Digit
  <1>1. more \in [Nat \X Nat -> Nat]
    <2>1. ASSUME NEW k \in Nat, NEW v \in Nat
          PROVE  IF k < Len(s) THEN Base * v + s[k + 1] \in Nat ELSE v \in Nat
      <3>1. k < Len(s) => s[k + 1] \in Nat  BY <1>0
      <3>2. Base * v \in Nat  BY <1>0
      <3>. QED  BY <3>1, <3>2
    <2>. QED  BY <2>1
  <1>2. PICK f : Iterates(f, Nat, 0, more)
    <2>1. 0 \in Nat  OBVIOUS
    <2>. HIDE DEF more
    <2>2. more \in Steps(Nat)  BY <1>1 DEF Steps
    <2>. QED  BY <2>1, <2>2, NatRecursion
  <1>2a. /\ f \in [Nat -> Nat] /\ f[0] = 0
         /\ \A n \in Nat : f[n + 1] = more[<<n, f[n]>>]
    BY <1>2 DEF Iterates
  <1>. DEFINE g == [n \in 0..Len(s) |-> f[n]]
  <1>3. g = [n \in 0..Len(s) |-> IF n = 0 THEN 0 ELSE Base * g[n - 1] + s[n]]
    <2>1. ASSUME NEW n \in 0..Len(s)
          PROVE  f[n] = IF n = 0 THEN 0 ELSE Base * g[n - 1] + s[n]
      <3>1. CASE n = 0  BY <1>2a, <3>1
      <3>2. CASE n # 0
        <4>1. n - 1 < Len(s) /\ n - 1 \in Nat /\ n - 1 + 1 = n /\ n - 1 \in 0..Len(s)
          BY <1>0, <3>2
        <4>2. f[n] = more[<<n - 1, f[n - 1]>>]  BY <1>2a, <4>1
        <4>3. f[n - 1] \in Nat  BY <1>2a, <4>1
        <4>4. more[<<n - 1, f[n - 1]>>] = Base * f[n - 1] + s[n]  BY <4>1, <4>3
        <4>. QED  BY <3>2, <4>1, <4>2, <4>4
      <3>. QED  BY <3>1, <3>2
    <2>. QED  BY <2>1
  <1>4. front = [n \in 0..Len(s) |-> IF n = 0 THEN 0 ELSE Base * front[n - 1] + s[n]]
    <2>. HIDE DEF g
    <2>. QED  BY <1>3, Zenon DEF NumberTo
  <1>. HIDE DEF front
  <1>5. front[0] = 0  BY <1>0, <1>4
  <1>6. ASSUME NEW n \in 1..Len(s)  PROVE front[n] = Base * front[n - 1] + s[n]
    <2>1. n \in 0..Len(s) /\ n # 0  BY <1>0
    <2>. QED  BY <1>4, <2>1
  <1>7. \A n \in 0..Len(s) : front[n] \in Nat
    <2>. DEFINE T == {n \in Nat : n <= Len(s) => front[n] \in Nat}
    <2>1. 0 \in T  BY <1>5
    <2>2. ASSUME NEW n \in T  PROVE n + 1 \in T
      <3>1. n \in Nat /\ n + 1 - 1 = n  OBVIOUS
      <3>2. ASSUME n + 1 <= Len(s)  PROVE front[n + 1] \in Nat
        <4>1. front[n] \in Nat /\ n + 1 \in 1..Len(s)  BY <1>0, <3>1, <3>2
        <4>2. front[n + 1] = Base * front[n + 1 - 1] + s[n + 1]  BY <1>6, <4>1
        <4>3. front[n + 1] = Base * front[n] + s[n + 1]  BY <3>1, <4>2
        <4>4. Base \in Nat /\ s[n + 1] \in Nat  BY <1>0, <4>1
        <4>. HIDE DEF front
        <4>5. Base * front[n] \in Nat
          <5>. DEFINE v == front[n]
          <5>1. v \in Nat  BY <4>1
          <5>. HIDE DEF v
          <5>2. Base * v \in Nat  BY <4>4, <5>1
          <5>. QED  BY <5>2 DEF v
        <4>. QED  BY <4>3, <4>4, <4>5
      <3>. QED  BY <3>1, <3>2
    <2>3. T = Nat
      <3>. HIDE DEF T
      <3>1. T \subseteq Nat  BY DEF T
      <3>. QED  BY <2>1, <2>2, <3>1, SetInduction, Zenon
    <2>. QED  BY <1>0, <2>3
  <1>. QED  BY <1>5, <1>6, <1>7 DEF front

\* A digit more makes Base times the number, and the digit; no digit makes 0.
LEMMA NumberOfAppend ==
    ASSUME NEW s \in Seq(Digit), NEW d \in Digit
    PROVE  Number(Append(s, d)) = Base * Number(s) + d /\ Number(s) \in Nat
  <1>. DEFINE t == Append(s, d)
  <1>1. /\ t \in Seq(Digit) /\ Len(t) = Len(s) + 1 /\ Len(s) \in Nat
        /\ t[Len(s) + 1] = d /\ \A n \in 1..Len(s) : t[n] = s[n]
    BY AppendProperties
  <1>. HIDE DEF t
  <1>2. \A n \in 0..Len(s) : NumberTo(t)[n] = NumberTo(s)[n]
    <2>. DEFINE T == {n \in Nat : n <= Len(s) => NumberTo(t)[n] = NumberTo(s)[n]}
    <2>1. 0 \in T  BY <1>1, NumberToFacts
    <2>2. ASSUME NEW n \in T  PROVE n + 1 \in T
      <3>1. n \in Nat /\ n + 1 - 1 = n  OBVIOUS
      <3>2. ASSUME n + 1 <= Len(s)  PROVE NumberTo(t)[n + 1] = NumberTo(s)[n + 1]
        <4>1. n + 1 \in 1..Len(s) /\ n + 1 \in 1..Len(t)  BY <1>1, <3>1, <3>2
        <4>2. NumberTo(t)[n] = NumberTo(s)[n] /\ t[n + 1] = s[n + 1]
          BY <1>1, <3>1, <3>2, <4>1
        <4>3. NumberTo(t)[n + 1] = Base * NumberTo(t)[n + 1 - 1] + t[n + 1]
          <5>1. \A k \in 1..Len(t) : NumberTo(t)[k] = Base * NumberTo(t)[k - 1] + t[k]
            BY <1>1, NumberToFacts
          <5>. QED  BY <4>1, <5>1
        <4>4. NumberTo(s)[n + 1] = Base * NumberTo(s)[n + 1 - 1] + s[n + 1]
          BY <4>1, NumberToFacts
        <4>. QED  BY <3>1, <4>2, <4>3, <4>4
      <3>. QED  BY <3>1, <3>2
    <2>3. T = Nat
      <3>. HIDE DEF T
      <3>1. T \subseteq Nat  BY DEF T
      <3>. QED  BY <2>1, <2>2, <3>1, SetInduction, Zenon
    <2>. QED  BY <1>1, <2>3
  <1>3. Len(s) + 1 \in 1..Len(t) /\ Len(s) + 1 - 1 = Len(s) /\ Len(s) \in 0..Len(s)
    BY <1>1
  <1>4. NumberTo(t)[Len(s) + 1] = Base * NumberTo(t)[Len(s)] + t[Len(s) + 1]
    BY <1>1, <1>3, NumberToFacts
  <1>5. NumberTo(s)[Len(s)] \in Nat  BY <1>3, NumberToFacts
  <1>. QED  BY <1>1, <1>2, <1>3, <1>4, <1>5 DEF Number, t

\* No digit makes zero.
LEMMA NumberOfNone == Number(<<>>) = 0
  <1>. DEFINE none == <<>>
  <1>1. none \in Seq(Digit) /\ Len(none) = 0  OBVIOUS
  <1>. HIDE DEF none
  <1>2. NumberTo(none)[0] = 0  BY <1>1, NumberToFacts
  <1>. QED  BY <1>1, <1>2 DEF Number, none

\* A quotient by a product is the quotient of the quotient.
LEMMA QuotientOfQuotient ==
    ASSUME NEW n \in Nat, NEW p \in Nat \ {0}, NEW b \in Nat \ {0}
    PROVE  n \div (b * p) = (n \div p) \div b
  <1>. DEFINE q == n \div p
              u == q \div b
              d == b * p
              x == n \div d
              y == n % d
  <1>1. d \in Nat \ {0}  OBVIOUS
  <1>2. q \in Nat /\ u \in Nat  OBVIOUS
  <1>3. p * q <= n /\ n < p * q + p  OBVIOUS
  <1>4. b * u <= q /\ q + 1 <= b * u + b  BY <1>2
  <1>. HIDE DEF q, u
  <1>5. d * u <= n
    <2>1. p * (b * u) <= p * q
      <3>1. b * u \in Nat  BY <1>2
      <3>2. (b * u) * p <= q * p  BY <1>2, <1>4, <3>1, ProductMono
      <3>. QED  BY <1>2, <3>1, <3>2
    <2>2. p * (b * u) = d * u  BY <1>2
    <2>. QED  BY <1>2, <1>3, <2>1, <2>2
  <1>6. n < d * u + d
    <2>1. b * u + b \in Nat /\ q + 1 \in Nat  BY <1>2
    <2>2. (q + 1) * p <= (b * u + b) * p  BY <1>4, <2>1, ProductMono
    <2>3. (q + 1) * p = p * q + p  BY <1>2
    <2>4. (b * u + b) * p = d * u + d  BY <1>2
    <2>. QED  BY <1>2, <1>3, <2>2, <2>3, <2>4
  <1>. HIDE DEF d
  <1>7. x \in Nat /\ d * x <= n /\ n < d * x + d  BY <1>1
  <1>. HIDE DEF x
  <1>8. ASSUME NEW g \in Nat, NEW h \in Nat, g < h, d * h <= n, n < d * g + d
        PROVE  FALSE
    <2>1. (g + 1) * d <= h * d  BY <1>1, <1>8, ProductMono
    <2>2. (g + 1) * d = d * g + d /\ h * d = d * h  BY <1>1
    <2>. QED  BY <1>1, <1>8, <2>1, <2>2
  <1>9. x = u  BY <1>1, <1>2, <1>5, <1>6, <1>7, <1>8
  <1>. QED  BY <1>9 DEF x, d, u, q

\* What is left of a number once it has lost its last n digits.
Rest(number, n) == number \div Power[n]

\* A digit less is left after one more division.
LEMMA RestFacts ==
    ASSUME NEW number \in Nat
    PROVE  /\ Rest(number, 0) = number
           /\ \A n \in Nat : /\ Rest(number, n) \in Nat
                             /\ Rest(number, n + 1) = Rest(number, n) \div Base
                             /\ Rest(number, n + 1) \in Nat
                             /\ Rest(number, n) = Base * Rest(number, n + 1)
                                                  + (Rest(number, n) % Base)
  <1>0. Base \in Nat \ {0, 1}  BY AdcDmaAssumption
  <1>1. number \div 1 = number  OBVIOUS
  <1>2. Rest(number, 0) = number  BY <1>1, PowerFacts DEF Rest
  <1>3. ASSUME NEW n \in Nat
        PROVE  /\ Rest(number, n) \in Nat
               /\ Rest(number, n + 1) = Rest(number, n) \div Base
               /\ Rest(number, n + 1) \in Nat
               /\ Rest(number, n) = Base * Rest(number, n + 1) + (Rest(number, n) % Base)
    <2>. DEFINE p == Power[n]
                v == number \div p
    <2>1. p \in Nat \ {0} /\ Power[n + 1] = Base * p  BY PowerFacts
    <2>. HIDE DEF p
    <2>2. v \in Nat  BY <2>1
    <2>3. number \div (Base * p) = v \div Base
      <3>1. Base \in Nat \ {0}  BY <1>0
      <3>. HIDE DEF v
      <3>2. number \div (Base * p) = (number \div p) \div Base
        BY <2>1, <3>1, QuotientOfQuotient
      <3>. QED  BY <3>2 DEF v
    <2>. HIDE DEF v
    <2>4. v \div Base \in Nat /\ v = Base * (v \div Base) + (v % Base)  BY <1>0, <2>2
    <2>5. Rest(number, n) = v  BY DEF Rest, v, p
    <2>6. Rest(number, n + 1) = v \div Base  BY <2>1, <2>3 DEF Rest
    <2>. QED  BY <2>2, <2>4, <2>5, <2>6
  <1>. QED  BY <1>2, <1>3

\* The digits in buf are the last ones of the number, the very last one first.
LastDigits(number, b) ==
    \A k \in 1..Len(b) : b[k] = Rest(number, k - 1) % Base

\* The first loop of uart_putu: what is left of the number and its last digits,
\* the highest of which is not followed by zeros only.
Taking(number, v, b) ==
    /\ LastDigits(number, b)
    /\ v = Rest(number, Len(b))
    /\ Len(b) > 0 => Rest(number, Len(b) - 1) # 0

\* The second loop: the digits sent are those that buf has no longer.
Sending(number, b, sent) ==
    /\ LastDigits(number, b)
    /\ Number(sent) = Rest(number, Len(b))
    /\ sent = <<>> => Len(b) > 0 /\ (Len(b) > 1 => Rest(number, Len(b) - 1) # 0)
    /\ sent # <<>> => sent[1] # 0 \/ (Len(sent) = 1 /\ Len(b) = 0)

\* A number has been sent in full, without leading zeros.
Sent(number, sent) ==
    Number(sent) = number /\ sent # <<>> /\ (Len(sent) > 1 => sent[1] # 0)

\* A call of uart_putu starts with the whole number and no digit.
LEMMA TakeFirst == ASSUME NEW number \in Nat PROVE Taking(number, number, <<>>)
  <1>. DEFINE none == <<>>
  <1>1. Len(none) = 0  OBVIOUS
  <1>. HIDE DEF none
  <1>2. Taking(number, number, none)  BY <1>1, RestFacts DEF Taking, LastDigits
  <1>. QED  BY <1>2 DEF none

\* A turn of the first loop takes the next digit.
LEMMA TakeDigit ==
    ASSUME NEW number \in Nat, NEW v \in Nat, NEW b \in Seq(Digit), v # 0,
           Taking(number, v, b)
    PROVE  Taking(number, v \div Base, Append(b, v % Base))
  <1>0. Base \in Nat \ {0, 1} /\ Len(b) \in Nat  BY AdcDmaAssumption
  <1>1. v % Base \in Digit  BY <1>0 DEF Digit
  <1>. DEFINE c == Append(b, v % Base)
  <1>2. /\ Len(c) = Len(b) + 1 /\ c[Len(b) + 1] = v % Base
        /\ \A k \in 1..Len(b) : c[k] = b[k]
    BY <1>1, AppendProperties
  <1>. HIDE DEF c
  <1>3. v = Rest(number, Len(b))  BY DEF Taking
  <1>4. Len(c) - 1 = Len(b) /\ Len(b) + 1 - 1 = Len(b)  BY <1>0, <1>2
  <1>5. ASSUME NEW k \in 1..Len(c)  PROVE c[k] = Rest(number, k - 1) % Base
    <2>1. CASE k \in 1..Len(b)  BY <1>2, <2>1 DEF Taking, LastDigits
    <2>2. CASE k = Len(b) + 1  BY <1>2, <1>3, <1>4, <2>2
    <2>. QED  BY <1>0, <1>2, <2>1, <2>2
  <1>6. v \div Base = Rest(number, Len(c))  BY <1>0, <1>2, <1>3, RestFacts
  <1>7. Rest(number, Len(c) - 1) # 0  BY <1>3, <1>4
  <1>8. Taking(number, v \div Base, c)  BY <1>5, <1>6, <1>7 DEF Taking, LastDigits
  <1>. QED  BY <1>8 DEF c

\* All digits are taken when nothing is left, and a zero has one.
LEMMA TakenAll ==
    ASSUME NEW number \in Nat, NEW b \in Seq(Digit), Taking(number, 0, b)
    PROVE  Sending(number, IF b = <<>> THEN <<0>> ELSE b, <<>>)
  <1>0. Len(b) \in Nat /\ (b = <<>> <=> Len(b) = 0)  BY EmptySeq
  <1>1. 0 = Rest(number, Len(b))  BY DEF Taking
  <1>2. CASE b # <<>>
    <2>1. Len(b) > 0  BY <1>0, <1>2
    <2>. QED  BY <1>1, <1>2, <2>1, NumberOfNone DEF Taking, Sending
  <1>3. CASE b = <<>>
    <2>. DEFINE c == <<0>>
    <2>1. Len(c) = 1 /\ c[1] = 0  OBVIOUS
    <2>. HIDE DEF c
    <2>2. number = 0  BY <1>0, <1>1, <1>3, RestFacts
    <2>3. Base \in Nat \ {0, 1}  BY AdcDmaAssumption
    <2>4. Rest(number, 0) = 0  BY <2>2, RestFacts
    <2>5. 0 % Base = 0 /\ 0 \div Base = 0 /\ 1 - 1 = 0 /\ 0 + 1 = 1  BY <2>3
    <2>6. Rest(number, 1) = 0
      <3>1. Rest(number, 0 + 1) = Rest(number, 0) \div Base  BY RestFacts
      <3>. QED  BY <2>4, <2>5, <3>1
    <2>7. LastDigits(number, c)  BY <2>1, <2>4, <2>5 DEF LastDigits
    <2>8. Sending(number, c, <<>>)
      BY <2>1, <2>6, <2>7, NumberOfNone DEF Sending
    <2>. QED  BY <1>3, <2>8 DEF c
  <1>. QED  BY <1>2, <1>3

\* A turn of the second loop sends the next one.
LEMMA SendNext ==
    ASSUME NEW number \in Nat, NEW b \in Seq(Digit), b # <<>>, NEW sent \in Seq(Digit),
           Sending(number, b, sent)
    PROVE  Sending(number, SubSeq(b, 1, Len(b) - 1), Append(sent, b[Len(b)]))
  <1>. DEFINE n == Len(b) - 1
              c == SubSeq(b, 1, n)
              d == b[Len(b)]
              t == Append(sent, d)
  <1>0. Base \in Nat \ {0, 1}  BY AdcDmaAssumption
  <1>1. /\ Len(b) \in 1..Len(b) /\ d \in Digit /\ c \in Seq(Digit) /\ Len(c) = Len(b) - 1
    BY WithoutLast
  <1>2. n \in Nat /\ Len(b) = n + 1 /\ n + 1 - 1 = n  BY <1>1
  <1>3. \A k \in 1..n : c[k] = b[k]
    <2>1. \A k \in 1..n : b[k] \in Digit  BY <1>2, ElementOfSeq
    <2>. HIDE DEF n
    <2>2. \A k \in 1..n - 1 + 1 : c[k] = b[1 + k - 1]  BY <1>2, <2>1, SubSeqProperties
    <2>. QED  BY <1>2, <2>2
  <1>4. t \in Seq(Digit) /\ Number(t) = Base * Number(sent) + d /\ Number(sent) \in Nat
    BY <1>1, NumberOfAppend, AppendProperties
  <1>5. /\ t # <<>> /\ Len(t) = Len(sent) + 1 /\ t[Len(sent) + 1] = d
        /\ \A k \in 1..Len(sent) : t[k] = sent[k]
        /\ Len(sent) \in Nat
        /\ sent = <<>> <=> Len(sent) = 0
    BY <1>1, AppendProperties, EmptySeq
  <1>6. d = Rest(number, n) % Base  BY <1>1, <1>2 DEF Sending, LastDigits
  <1>7. Number(sent) = Rest(number, n + 1)  BY <1>2 DEF Sending
  <1>. HIDE DEF c, d, t, n
  <1>8. Number(t) = Rest(number, n)  BY <1>2, <1>4, <1>6, <1>7, RestFacts
  <1>9. LastDigits(number, c)
    BY <1>1, <1>2, <1>3 DEF Sending, LastDigits
  <1>10. t[1] # 0 \/ (Len(t) = 1 /\ Len(c) = 0)
    <2>1. CASE sent = <<>>
      <3>1. Len(t) = 1 /\ t[1] = d  BY <1>5, <2>1
      <3>2. CASE n = 0  BY <1>1, <1>2, <3>1, <3>2
      <3>3. CASE n # 0
        <4>1. Rest(number, n) # 0  BY <1>2, <2>1, <3>3 DEF Sending
        <4>2. Rest(number, n + 1) = 0  BY <1>7, <2>1, NumberOfNone
        <4>3. Rest(number, n) = Base * Rest(number, n + 1) + (Rest(number, n) % Base)
          BY <1>2, RestFacts
        <4>4. Rest(number, n) \in Nat  BY <1>2, RestFacts
        <4>5. Base * 0 = 0 /\ Rest(number, n) % Base \in Nat  BY <1>0, <4>4
        <4>6. d # 0  BY <1>6, <4>1, <4>2, <4>3, <4>5
        <4>. QED  BY <3>1, <4>6
      <3>. QED  BY <3>2, <3>3
    <2>2. CASE sent # <<>>
      <3>1. sent[1] # 0  BY <1>2, <2>2 DEF Sending
      <3>2. t[1] = sent[1]  BY <1>5, <2>2
      <3>. QED  BY <3>1, <3>2
    <2>. QED  BY <2>1, <2>2
  <1>11. Sending(number, c, t)
    <2>1. Len(c) = n  BY <1>1, <1>2
    <2>. QED  BY <1>5, <1>8, <1>9, <1>10, <2>1 DEF Sending
  <1>. QED  BY <1>11 DEF c, d, t, n

\* When buf is empty the number has been sent.
LEMMA SentAll ==
    ASSUME NEW number \in Nat, NEW sent \in Seq(Digit), Sending(number, <<>>, sent)
    PROVE  Sent(number, sent)
  <1>. DEFINE none == <<>>
  <1>1. Len(none) = 0 /\ none = <<>>  OBVIOUS
  <1>. HIDE DEF none
  <1>2. Sending(number, none, sent)  BY <1>1
  <1>3. Number(sent) = number  BY <1>1, <1>2, RestFacts DEF Sending
  <1>4. sent # <<>> /\ (sent[1] # 0 \/ Len(sent) = 1)  BY <1>1, <1>2 DEF Sending
  <1>. QED  BY <1>3, <1>4 DEF Sent

\* What has been summed is the sum of what is in RAM.
SumIsOfBlock ==
    /\ pc = "sum" => sum = SumTo(adc_samples)[i]
    /\ pc \in {"digits", "send", "print"} => sum = SumTo(adc_samples)[Count]

\* The first number of the line is the mean, the second is in millivolts.
Printed(place) == IF place = 1 THEN mean ELSE mv

\* How far the line is, in each loop of uart_putu and after it.
LineIsOfNumbers ==
    /\ pc \in {"digits", "send"} => Len(line) \in {1, 2}
    /\ pc = "digits" => /\ line[Len(line)] = <<>>
                        /\ Taking(Printed(Len(line)), value, buf)
    /\ pc = "send" => Sending(Printed(Len(line)), buf, line[Len(line)])
    /\ (pc \in {"digits", "send"} /\ Len(line) = 2) \/ pc = "print" => Sent(mean, line[1])
    /\ pc = "print" => Len(line) = 2 /\ Sent(mv, line[2])

\* Each turn of the loop of adc_mean adds the next sample.
LEMMA NextSum == IInv /\ SumIsOfBlock /\ [Next]_vars => SumIsOfBlock'
  <1>. SUFFICES ASSUME IInv, SumIsOfBlock, [Next]_vars PROVE SumIsOfBlock'
    OBVIOUS
  <1>1. adc_samples \in [Index -> 0..FullScale] /\ i \in 0..Count /\ Count \in Nat
    BY AdcDmaAssumption DEF IInv, TypeOK
  <1>2. CASE UNCHANGED vars  BY <1>2 DEF vars, cpu, SumIsOfBlock
  <1>3. CASE Next /\ ~Reading
    <2>1. pc' \notin {"sum", "digits", "send", "print"}
      BY <1>3 DEF Reading, Next, Cpu, Device, Convert, ForgetRequest, Transfer, Wait,
                  StopDma, ClearDone, AddSample, PrintBlock, uart_putu, PutDigit,
                  AllDigits, SendDigit, NumberSent, Restart, Rearm, Goto, cpu
    <2>. QED  BY <2>1 DEF SumIsOfBlock
  <1>4. CASE Next /\ Reading
    <2>0. adc_samples' = adc_samples  BY <1>4, ReadingIsStable
    <2>. USE DEF SumIsOfBlock, Goto, cpu, text
    <2>1. CASE ClearDone
      BY <1>1, <2>0, <2>1, SumToFacts DEF ClearDone, StartMean
    <2>2. CASE AddSample
      <3>1. i \in Index  BY <1>1, <2>2 DEF AddSample, Index
      <3>. QED  BY <1>1, <2>0, <2>2, <3>1, SumToFacts DEF AddSample
    <2>3. CASE PrintBlock  BY <2>0, <2>3 DEF PrintBlock
    <2>4. CASE uart_putu
      BY <2>0, <2>4 DEF uart_putu, PutDigit, AllDigits, SendDigit, NumberSent
    <2>5. CASE Wait \/ StopDma \/ Restart \/ Rearm
      BY <2>0, <2>5 DEF Wait, StopDma, Restart, Rearm
    <2>6. CASE Device  BY <2>0, <2>6 DEF Device, Convert, ForgetRequest, Transfer
    <2>. QED  BY <1>4, <2>1, <2>2, <2>3, <2>4, <2>5, <2>6 DEF Next, Cpu
  <1>. QED  BY <1>2, <1>3, <1>4

\* Both numbers fit into buf.
LEMMA PrintedFits ==
    ASSUME TypeOK, NEW place \in {1, 2}
    PROVE  Printed(place) \in Nat /\ Rest(Printed(place), BufSize) = 0
  <1>. DEFINE n == Printed(place)
              p == Power[BufSize]
  <1>1. BufSize \in Nat /\ FullScale \in Nat /\ VrefMv \in Nat  BY AdcDmaAssumption
  <1>2. p \in Nat \ {0}  BY <1>1, PowerFacts
  <1>3. n \in Nat /\ n < p
    BY <1>1, <1>2, NumbersFitBuf DEF TypeOK, Printed
  <1>. HIDE DEF n, p
  <1>4. n \div p = 0  BY <1>2, <1>3
  <1>. QED  BY <1>3, <1>4 DEF Rest, n, p

\* Every step of uart_putu, and of main around it, keeps the line on its way.
LEMMA NextLine == IInv /\ IInv' /\ LineIsOfNumbers /\ [Next]_vars => LineIsOfNumbers'
  <1>. SUFFICES ASSUME IInv, IInv', LineIsOfNumbers, [Next]_vars PROVE LineIsOfNumbers'
    OBVIOUS
  <1>1. /\ TypeOK /\ TypeOK' /\ value \in Nat /\ mean \in Nat /\ mv \in Nat
        /\ buf \in Seq(Digit) /\ line \in Seq(Seq(Digit)) /\ Len(buf) <= BufSize
        /\ mean' \in Nat /\ mv' \in Nat
    <2>1. TypeOK /\ TypeOK'  BY DEF IInv
    <2>2. FullScale \in Nat /\ VrefMv \in Nat  BY AdcDmaAssumption
    <2>3. mean \in Nat /\ mv \in Nat  BY <2>1, <2>2 DEF TypeOK
    <2>4. mean' \in Nat /\ mv' \in Nat  BY <2>1, <2>2 DEF TypeOK
    <2>. QED  BY <2>1, <2>3, <2>4, Zenon DEF TypeOK
  <1>2. CASE UNCHANGED vars \/ Convert \/ ForgetRequest \/ Transfer
    <2>1. UNCHANGED <<pc, mean, mv, value, buf, line>>
      BY <1>2 DEF vars, cpu, text, Convert, ForgetRequest, Transfer
    <2>. QED  BY <2>1 DEF LineIsOfNumbers, Printed
  <1>3. CASE Wait \/ StopDma \/ ClearDone \/ AddSample \/ Restart \/ Rearm
    <2>1. pc' \notin {"digits", "send", "print"}
      BY <1>3 DEF Wait, StopDma, ClearDone, AddSample, Restart, Rearm, Goto
    <2>. QED  BY <2>1 DEF LineIsOfNumbers
  <1>4. CASE PrintBlock
    <2>1. pc' = "digits" /\ value' = mean' /\ buf' = <<>> /\ line' = << <<>> >>
      BY <1>4 DEF PrintBlock, StartNumber, Goto
    <2>2. Len(line') = 1 /\ line'[1] = <<>>  BY <2>1
    <2>3. Taking(mean', value', buf')  BY <1>1, <2>1, TakeFirst
    <2>. QED  BY <2>1, <2>2, <2>3 DEF LineIsOfNumbers, Printed
  <1>5. CASE PutDigit
    <2>1. /\ pc = "digits" /\ value # 0 /\ UNCHANGED <<pc, mean, mv, line>>
          /\ buf' = Append(buf, value % Base) /\ value' = value \div Base
      BY <1>5 DEF PutDigit
    <2>. DEFINE n == Printed(Len(line))
    <2>2. n \in Nat /\ Printed(Len(line))' = n  BY <1>1, <2>1 DEF Printed
    <2>3. Taking(n, value, buf)  BY <2>1 DEF LineIsOfNumbers
    <2>. HIDE DEF n
    <2>4. Taking(n, value', buf')  BY <1>1, <2>1, <2>2, <2>3, TakeDigit
    <2>5. Taking(Printed(Len(line)), value, buf)'  BY <2>2, <2>4
    <2>. QED  BY <2>1, <2>5 DEF LineIsOfNumbers
  <1>6. CASE AllDigits
    <2>1. /\ pc = "digits" /\ pc' = "send" /\ UNCHANGED <<mean, mv, line>>
          /\ value = 0 \/ Len(buf) = BufSize
          /\ buf' = IF buf = <<>> THEN <<0>> ELSE buf
      BY <1>6 DEF AllDigits, DigitsDone, Goto
    <2>2. Len(line) \in {1, 2} /\ line[Len(line)] = <<>>  BY <2>1 DEF LineIsOfNumbers
    <2>. DEFINE n == Printed(Len(line))
    <2>3. n \in Nat /\ Printed(Len(line))' = n /\ Rest(n, BufSize) = 0
      BY <1>1, <2>1, <2>2, PrintedFits DEF Printed
    <2>4. Taking(n, value, buf)  BY <2>1 DEF LineIsOfNumbers
    <2>. HIDE DEF n
    <2>5. value = 0  BY <2>1, <2>3, <2>4 DEF Taking
    <2>6. Sending(n, buf', <<>>)  BY <1>1, <2>1, <2>3, <2>4, <2>5, TakenAll
    <2>7. Sending(Printed(Len(line)), buf, line[Len(line)])'
      BY <2>1, <2>2, <2>3, <2>6
    <2>. QED  BY <2>1, <2>2, <2>7 DEF LineIsOfNumbers
  <1>7. CASE SendDigit
    <2>1. /\ pc = "send" /\ buf # <<>> /\ UNCHANGED <<pc, mean, mv>>
          /\ line' = [line EXCEPT ![Len(line)] = Append(@, buf[Len(buf)])]
          /\ buf' = SubSeq(buf, 1, Len(buf) - 1)
      BY <1>7 DEF SendDigit
    <2>. DEFINE n == Printed(Len(line))
                m == Len(line)
                e == Append(line[m], buf[Len(buf)])
    <2>2. m \in {1, 2} /\ Sending(n, buf, line[m])  BY <2>1 DEF LineIsOfNumbers
    <2>3. n \in Nat  BY <1>1 DEF Printed
    <2>4. m \in 1..Len(line) /\ line[m] \in Seq(Digit)
      <3>1. m \in 1..Len(line)  BY <1>1, <2>2
      <3>. HIDE DEF m
      <3>. QED  BY <1>1, <3>1, ElementOfSeq
    <2>5. Sending(n, buf', e)
      <3>. HIDE DEF n, m
      <3>. QED  BY <1>1, <2>1, <2>2, <2>3, <2>4, SendNext
    <2>6. e \in Seq(Digit)  BY <1>1, <2>1, <2>4, WithoutLast, AppendProperties
    <2>7. Len(line') = m /\ line'[m] = e /\ (m = 2 => line'[1] = line[1])
      <3>1. line' = [line EXCEPT ![m] = e]  BY <2>1
      <3>. HIDE DEF m, e
      <3>2. Len(line') = Len(line) /\ \A j \in 1..Len(line) :
                line'[j] = IF j = m THEN e ELSE line[j]
        BY <1>1, <2>4, <2>6, <3>1, ExceptSeq
      <3>. QED  BY <2>2, <2>4, <3>2 DEF m
    <2>9. Printed(Len(line))' = n  BY <2>1, <2>7 DEF Printed
    <2>. HIDE DEF n, e
    <2>10. pc' = "send" /\ Len(line') \in {1, 2}  BY <2>1, <2>2, <2>7
    <2>11. Sending(Printed(Len(line)), buf, line[Len(line)])'  BY <2>5, <2>7, <2>9
    <2>12. Len(line') = 2 => Sent(mean', line'[1])
      BY <2>1, <2>7 DEF LineIsOfNumbers
    <2>. QED  BY <2>10, <2>11, <2>12 DEF LineIsOfNumbers
  <1>8. CASE NumberSent
    <2>1. pc = "send" /\ buf = <<>> /\ UNCHANGED <<mean, mv>>  BY <1>8 DEF NumberSent
    <2>. DEFINE m == Len(line)
    <2>2. Sending(Printed(m), <<>>, line[m])  BY <2>1 DEF LineIsOfNumbers
    <2>3. m \in {1, 2} /\ m \in 1..Len(line) /\ line[m] \in Seq(Digit)
      <3>0. m \in {1, 2}  BY <2>1 DEF LineIsOfNumbers
      <3>1. m \in 1..Len(line)  BY <3>0
      <3>. HIDE DEF m
      <3>. QED  BY <1>1, <3>0, <3>1, ElementOfSeq
    <2>4. Printed(m) \in Nat  BY <1>1 DEF Printed
    <2>5. Sent(Printed(m), line[m])
      <3>. HIDE DEF m
      <3>. QED  BY <2>2, <2>3, <2>4, SentAll
    <2>6. CASE m = 1 /\ pc' = "digits" /\ StartNumber(mv, line)
      <3>1. value' = mv' /\ buf' = <<>> /\ line' = Append(line, <<>>)
        BY <2>1, <2>6 DEF StartNumber
      <3>. DEFINE none == <<>>
      <3>2. none \in Seq(Digit)  OBVIOUS
      <3>3. Len(line') = 2 /\ line'[2] = none /\ line'[1] = line[1]
        <4>1. line' = Append(line, none) /\ Len(line) = 1  BY <2>6, <3>1
        <4>. HIDE DEF none
        <4>. DEFINE longer == Append(line, none)
        <4>2. /\ Len(longer) = Len(line) + 1 /\ longer[Len(line) + 1] = none
              /\ \A j \in 1..Len(line) : longer[j] = line[j]
          <5>1. line \in Seq(Seq(Digit))  BY <1>1
          <5>. QED  BY <3>2, <5>1, AppendProperties
        <4>3. 1 + 1 = 2 /\ 1 \in 1..1  OBVIOUS
        <4>. QED  BY <4>1, <4>2, <4>3
      <3>4. Taking(mv', value', buf')  BY <1>1, <3>1, TakeFirst
      <3>5. Sent(mean', line'[1])  BY <2>1, <2>5, <2>6, <3>3 DEF Printed
      <3>. QED  BY <2>6, <3>3, <3>4, <3>5 DEF LineIsOfNumbers, Printed
    <2>7. CASE m = 2 /\ pc' = "print" /\ UNCHANGED text
      <3>1. line' = line  BY <2>7 DEF text
      <3>2. Sent(mean, line[1])  BY <2>1, <2>7 DEF LineIsOfNumbers
      <3>3. Sent(mv, line[2])  BY <2>5, <2>7 DEF Printed
      <3>. QED  BY <2>1, <2>7, <3>1, <3>2, <3>3 DEF LineIsOfNumbers
    <2>. QED  BY <1>8, <2>6, <2>7 DEF NumberSent
  <1>. QED
    BY <1>2, <1>3, <1>4, <1>5, <1>6, <1>7, <1>8 DEF Next, Cpu, Device, uart_putu

\* The two numbers of every line that is printed are the rounded mean of the
\* samples in RAM and that in millivolts, digit by digit, in full and without
\* leading zeros: for every block length, every value converted, every base and
\* every buffer that the two numbers fit into.
THEOREM LineIsOfBlock == Spec => []MeanIsOfBlock
  <1>1. Init => SumIsOfBlock /\ LineIsOfNumbers /\ RoundedInv
    BY DEF Init, SumIsOfBlock, LineIsOfNumbers, RoundedInv
  <1>2. Spec => [](SumIsOfBlock /\ LineIsOfNumbers /\ RoundedInv)
    <2>1. IInv => TypeOK  BY DEF IInv
    <2>. QED
      BY <1>1, <2>1, NextSum, NextLine, NextRounded, Invariant, PTL DEF Spec
  <1>3. IInv /\ SumIsOfBlock /\ LineIsOfNumbers /\ NumbersAreNearest => MeanIsOfBlock
    <2>. SUFFICES ASSUME IInv, SumIsOfBlock, LineIsOfNumbers, NumbersAreNearest,
                         pc = "print"
                  PROVE  MeanIsOfBlock
      BY DEF MeanIsOfBlock
    <2>1. sum = SumTo(adc_samples)[Count]  BY DEF SumIsOfBlock
    <2>2. Sent(mean, line[1]) /\ Sent(mv, line[2])  BY DEF LineIsOfNumbers
    <2>3. /\ Near(2 * (mean * Count - sum), Count)
          /\ Near(2 * (mv * FullScale - mean * VrefMv), FullScale)
      BY DEF NumbersAreNearest
    <2>4. Number(line[1]) = mean /\ Number(line[2]) = mv  BY <2>2 DEF Sent
    <2>5. \A k \in 1..2 : line[k] # <<>> /\ (Len(line[k]) > 1 => line[k][1] # 0)
      BY <2>2 DEF Sent
    <2>. QED  BY <2>1, <2>3, <2>4, <2>5 DEF MeanIsOfBlock
  <1>. QED  BY <1>2, <1>3, Invariant, NearestPrinted, PTL

=============================================================================
