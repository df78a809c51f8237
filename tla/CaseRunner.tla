----------------------------- MODULE CaseRunner -----------------------------
(***************************************************************************)
(* The case loop of the ch32v0 selftest on a board that may have one fault: *)
(* the cases of CaseTables run one after the other by the CPU, the dma case *)
(* calls DmaTest, and SysTick and the timers count beside them.             *)
(***************************************************************************)
EXTENDS CaseTables, DmaTest, FiniteSets

CONSTANTS
    Wrap,                \* SysTick counts modulo this; 2^32 on the chip
    StartTicks,          \* what SysTick may read when a case that uses it starts
    Lag,                 \* ticks the CPU may take for a turn of a polling loop
    SlowPeriod, FastPeriod    \* the period of a timer that is slow, or fast

VARIABLES
    \* the CPU
    case, at,            \* the case of selftest_cases, the step of its table
    verdict,             \* what it will return
    saved,               \* its saved_* variables
    time,                \* its start and end, the start of the wait it is in
    look,                \* what a waiting loop looks at next
    results,             \* what the cases have returned
    \* the board
    regs, clocked,       \* the registers, the blocks that have a clock
    tick,                \* SysTick's counter
    cnt,                 \* the counters of the timers
    lag,                 \* ticks since the CPU last finished a turn
    \* for the properties only
    before               \* the registers when the case was called

cpu == <<case, at, verdict, saved, time, look, results, before>>
board == <<regs, clocked, tick, cnt, lag>>
vars == <<cpu, board, dmaVars>>

Now == selftest_cases[case]
Step == Now.steps[at]
CaseDone == at = Len(Now.steps) + 1
AllDone == case > Len(selftest_cases)
AtStep == ~AllDone /\ ~CaseDone

-----------------------------------------------------------------------------
(* The board (external).                                                   *)

\* One fault at most: of a DMA channel; a register bit stuck at a level; a
\* timer that is slow, or fast; a SysTick that stands, or counts by two.
NoFault == [kind |-> "none", channel |-> 0, reg |-> <<"", "">>, bit |-> "", level |-> 0]
AllBits ==
    UNION {UNION {{<<b, n, x>> : x \in BitsOf[b][n]} : n \in DOMAIN BitsOf[b]}
           : b \in DOMAIN BitsOf}
ChannelFault(k, c) == [NoFault EXCEPT !.kind = k, !.channel = c]
BitFault(x, l) ==
    [NoFault EXCEPT !.kind = "bit", !.reg = <<x[1], x[2]>>, !.bit = x[3], !.level = l]
RateFault(k, r) == [NoFault EXCEPT !.kind = k, !.reg = r]
BoardFaults ==
    {NoFault}
    \cup {ChannelFault(k, c) : k \in DmaFaults, c \in Channels}
    \cup {BitFault(x, l) : x \in AllBits, l \in {0, 1}}
    \cup {RateFault(k, <<t, "PSC">>) : k \in {"slow", "fast"}, t \in {"TIM1", "TIM2"}}
    \cup {RateFault(k, <<"SYSTICK", "CNT">>) : k \in {"stopped", "double"}}

ASSUME CaseRunnerAssumption ==
    /\ {Lag, FastPeriod} \subseteq Nat \ {0}
    /\ {Wrap, SlowPeriod, TIMER_PERIOD, TIMER_TOLERANCE, TIMER_WAIT,
        Millisecond, MsLow, MsHigh} \subseteq Nat
    /\ StartTicks \subseteq 0..Wrap - 1
    /\ FastPeriod < TIMER_PERIOD /\ TIMER_PERIOD < SlowPeriod
    /\ SlowPeriod < 2 * TIMER_PERIOD /\ 2 * TIMER_PERIOD <= TIMER_WAIT
    /\ {TIMER_WAIT + Lag, Millisecond + 2 * Lag} \subseteq 0..Wrap - 1

Stuck(r, bits) ==
    IF fault.kind # "bit" \/ fault.reg # r THEN bits
    ELSE IF fault.level = 1 THEN bits \cup {fault.bit} ELSE bits \ {fault.bit}

\* The registers as the start-up code leaves them.
Entry ==
    [b \in DOMAIN BitsOf |-> [n \in DOMAIN BitsOf[b] |->
        CASE b = "RCC" /\ n \in {"CTLR", "freq"} -> BitsOf[b][n]
          [] b = "RCC" /\ n = "CFGR0" -> {"SW", "SWS"}
          [] b = "SYSTICK" -> {"EN", "CLKSRC"}
          [] b = "GPIOC" /\ n = "CFGLR" -> {"CNF0"}
          [] b = "USART1" /\ n = "CTLR1" -> {"UE", "TE"}
          [] b = "USART1" /\ n = "BRR" -> {"417"}
          [] b = "USART1" /\ n = "STATR" -> {"TC"}
          [] b = "SPI1" /\ n = "CRCR" -> {"7"}
          [] b = "SPI1" /\ n = "STATR" -> {"TXE"}
          [] b = "ESIG" -> BitsOf[b][n]
          [] OTHER -> {}]]
\* usart_set_baudrate() divides the frequency of the bus, here that of USART1: a
\* wrong entry of it makes another number (external).
Baud(r, number, freq) ==
    IF r = <<"USART1", "BRR">> /\ "apb2" \notin freq THEN {} ELSE number
\* console_init() has called it too.
StartUp(r) == Stuck(r, Baud(r, Entry[r[1]][r[2]], Stuck(<<"RCC", "freq">>, Entry.RCC.freq)))
AlwaysClocked == {"RCC", "SYSTICK", "USART1", "ESIG", "EXTEN"}
Timers == {"TIM1", "TIM2"}

\* What a step of a table may name.
Registers == UNION {{<<b, n>> : n \in DOMAIN BitsOf[b]} : b \in DOMAIN BitsOf}
IsStep(s) ==
    /\ s.op \in {"write", "read", "save", "restore"} => s.reg \in Registers
    /\ s.op = "write" => s.bits \subseteq All(s.reg)
    /\ s.op = "clock" => s.block \in DOMAIN BitsOf
    /\ s.op \in {"update", "await"} => s.tim \in Timers
    /\ s.op = "convert" => /\ s.flag \in BitsOf.ADC1.STATR
                           /\ s.data \in Registers /\ "400..620" \in All(s.data)
    /\ s.op = "mark" => s.name \in {"start", "end"}

\* The tables are sequences of such steps, and a case undoes with its last ones.
ASSUME TablesAssumption ==
    /\ Len(selftest_cases) \in Nat
    /\ \A c \in 1..Len(selftest_cases) :
        LET k == selftest_cases[c]
        IN  /\ Len(k.steps) \in Nat /\ k.undo \in 1..Len(k.steps) + 1
            /\ \A i \in 1..Len(k.steps) : IsStep(k.steps[i])
    /\ \A r \in Registers : Entry[r[1]][r[2]] \subseteq All(r)

Value(r) == regs[r[1]][r[2]]
\* A block without a clock reads as zero and takes no write.
ReadBack(r) == IF r[1] \in clocked THEN Value(r) ELSE {}
\* The USART keeps CPOL and CPHA while its transmitter is on.
Locked(r) ==
    IF r = <<"USART1", "CTLR2">> /\ "TE" \in regs.USART1.CTLR1
    THEN {"CPOL", "CPHA"} ELSE {}
Stored(r, bits) == Stuck(r, (bits \ Locked(r)) \cup (Value(r) \cap Locked(r)))
Store(r, bits) ==
    regs' = IF r[1] \in clocked
            THEN [regs EXCEPT ![r[1]][r[2]] = Stored(r, bits)] ELSE regs
\* What a block itself sets in a register.
Raise(all, r, bits) == [all EXCEPT ![r[1]][r[2]] = Stuck(r, @ \cup bits)]

SysTickCounts == "EN" \in regs.SYSTICK.CTLR /\ fault.kind # "stopped"
Running == {t \in Timers \cap clocked : "CEN" \in regs[t].CTLR1}

-----------------------------------------------------------------------------
(* Time.                                                                   *)

\* A difference of two 32-bit readings.
Elapsed_Signed(now, since) == now - since
Elapsed(now, since) == (now - since) % Wrap

\* timer_clock_hz(), in units of 24 MHz: a timer of a divided bus has twice
\* the bus clock.  The entry of the bus is right (2) or half of it (1).
timer_clock_hz(pclk, ahb) == IF pclk # ahb THEN 2 * pclk ELSE pclk
ReloadOf(t) ==
    LET hz(entry) == IF entry \in regs.RCC.freq THEN 2 ELSE 1
        clock == timer_clock_hz(hz(IF t = "TIM1" THEN "apb2" ELSE "apb1"), hz("ahb"))
    IN  (TIMER_PERIOD * clock) \div 2
RealPeriod(t) ==
    LET rate == IF fault.reg = <<t, "PSC">> THEN fault.kind ELSE "none"
    IN  IF rate = "slow" THEN SlowPeriod
        ELSE IF \/ rate = "fast"
                \/ "4799" \notin regs[t].PSC \/ "period" \notin regs[t].ATRLR
             THEN FastPeriod
        ELSE ReloadOf(t)

\* What a number of ticks of the 48 MHz clock is taken for: the frequency that
\* qingke_delay_us(), timer_wait_update() and timer_period_test() multiply with
\* is right, or half of it.
Ticks(n) == IF "sysclk" \in regs.RCC.freq THEN n ELSE n \div 2

TakesTime == AtStep /\ Step.op \in {"delay", "mark", "await"}

\* A tick of the core clock.  The CPU is not slower than Lag says.
Tick ==
    /\ TakesTime /\ lag < Lag
    /\ lag' = lag + 1
    /\ tick' = IF SysTickCounts
               THEN (tick + IF fault.kind = "double" THEN 2 ELSE 1) % Wrap ELSE tick
    /\ LET over == {t \in Running : cnt[t] + 1 >= RealPeriod(t)}
       IN  /\ cnt' = [t \in Timers |-> IF t \notin Running THEN cnt[t]
                                      ELSE IF t \in over THEN 0 ELSE cnt[t] + 1]
           /\ regs' = IF over = {} THEN regs
                      ELSE [b \in DOMAIN regs |->
                              IF b \in over THEN Raise(regs, <<b, "INTFR">>, {"UIF"})[b]
                              ELSE regs[b]]
    /\ UNCHANGED <<cpu, clocked, dmaVars>>

-----------------------------------------------------------------------------
(* The steps of a case.                                                    *)

\* The case goes on, or returns, or undoes what it always undoes.
Judge_Returns(ok) ==
    /\ at' = IF ok THEN at + 1 ELSE Len(Now.steps) + 1
    /\ verdict' = IF ok THEN verdict ELSE "fail"
Judge(ok) ==
    /\ at' = IF ok THEN at + 1
             ELSE IF Now.always THEN Now.undo ELSE Len(Now.steps) + 1
    /\ verdict' = IF ok THEN verdict ELSE "fail"
GoOn == at' = at + 1 /\ UNCHANGED verdict
Keep == UNCHANGED <<case, results, before, dmaVars>>

WriteStep(s) ==
    /\ s.op = "write"
    /\ Store(s.reg, (ReadBack(s.reg) \ s.mask) \cup Baud(s.reg, s.bits, regs.RCC.freq))
    /\ GoOn
    /\ Keep /\ UNCHANGED <<saved, time, look, clocked, tick, cnt, lag>>

ReadStep(s) ==
    /\ s.op = "read"
    /\ Judge(ReadBack(s.reg) \cap s.mask = s.bits)
    /\ Keep /\ UNCHANGED <<saved, time, look, board>>

ClockStep(s) ==
    /\ s.op = "clock"
    /\ clocked' = IF s.on THEN clocked \cup {s.block} ELSE clocked \ {s.block}
    /\ GoOn
    /\ Keep /\ UNCHANGED <<saved, time, look, regs, tick, cnt, lag>>

SaveStep(s) ==
    /\ s.op = "save"
    /\ saved' = [r \in DOMAIN saved \cup {s.reg} |->
                    IF r = s.reg THEN ReadBack(r) ELSE saved[r]]
    /\ GoOn
    /\ Keep /\ UNCHANGED <<time, look, board>>

\* Of a case that fails before it has saved, nothing is restored.
RestoreStep(s) ==
    /\ s.op = "restore"
    /\ IF s.reg \in DOMAIN saved THEN Store(s.reg, saved[s.reg]) ELSE UNCHANGED regs
    /\ GoOn
    /\ Keep /\ UNCHANGED <<saved, time, look, clocked, tick, cnt, lag>>

\* An update event restarts the counter, and raises the flag unless only an
\* overflow may.
UpdateStep(s) ==
    /\ s.op = "update"
    /\ cnt' = [cnt EXCEPT ![s.tim] = 0]
    /\ regs' = IF "URS" \in regs[s.tim].CTLR1 THEN regs
               ELSE Raise(regs, <<s.tim, "INTFR">>, {"UIF"})
    /\ GoOn
    /\ Keep /\ UNCHANGED <<saved, time, look, clocked, tick, lag>>

\* The conversion of the wanted channel gives half the supply.
ConvertStep(s) ==
    /\ s.op = "convert"
    /\ LET done == Raise(regs, <<"ADC1", "STATR">>, {s.flag})
       IN  regs' = IF s.ch \in Value(s.sel)
                   THEN Raise(done, s.data, {"400..620"}) ELSE done
    /\ GoOn
    /\ Keep /\ UNCHANGED <<saved, time, look, clocked, tick, cnt, lag>>

MarkStep(s) ==
    /\ s.op = "mark"
    /\ time' = [time EXCEPT ![s.name] = tick]
    /\ lag' = 0
    /\ GoOn
    /\ Keep /\ UNCHANGED <<saved, look, regs, clocked, tick, cnt>>

WindowStep(s) ==
    /\ s.op = "window"
    /\ LET Bound(n) == IF s.us THEN Ticks(n) ELSE n
       IN  Judge(Elapsed(time.end, time.start) \in Bound(s.low)..Bound(s.high))
    /\ Keep /\ UNCHANGED <<saved, time, look, board>>

\* A loop that waits reads SysTick before its first turn.
StartWait(s) ==
    /\ s.op \in {"delay", "await"}
    /\ look = "start"
    /\ time' = [time EXCEPT !.wait = tick]
    /\ look' = "clock"
    /\ Keep /\ UNCHANGED <<at, verdict, saved, board>>

\* qingke_delay_us(): SysTick alone ends it (external).
DelayTurn(s) ==
    /\ s.op = "delay" /\ look = "clock"
    /\ lag' = 0
    /\ IF Elapsed(tick, time.wait) >= Ticks(s.ticks)
       THEN GoOn /\ look' = "start" ELSE UNCHANGED <<at, verdict, look>>
    /\ Keep /\ UNCHANGED <<saved, time, regs, clocked, tick, cnt>>

\* timer_wait_update(): each turn reads SysTick, then the flag.  A caller told
\* of a time-out stops the timer.
AwaitClock(s) ==
    /\ s.op = "await" /\ look = "clock"
    /\ IF Elapsed(tick, time.wait) < Ticks(TIMER_WAIT)
       THEN look' = "flag" /\ UNCHANGED <<at, verdict, regs>>
       ELSE /\ Judge(FALSE) /\ look' = "start"
            /\ Store(<<s.tim, "CTLR1">>, regs[s.tim].CTLR1 \ {"CEN"})
    /\ Keep /\ UNCHANGED <<saved, time, clocked, tick, cnt, lag>>

AwaitFlag(s) ==
    /\ s.op = "await" /\ look = "flag"
    /\ lag' = 0
    /\ IF "UIF" \in regs[s.tim].INTFR
       THEN GoOn /\ look' = "start" ELSE look' = "clock" /\ UNCHANGED <<at, verdict>>
    /\ Keep /\ UNCHANGED <<saved, time, regs, clocked, tick, cnt>>

\* The transfers of the dma case.
DmaStep(s) ==
    /\ s.op = "dma"
    /\ \/ (DmaCall \/ DmaCpu) /\ UNCHANGED <<at, verdict>>
       \/ DmaReturn /\ Judge(pc = "pass")
    /\ UNCHANGED <<case, saved, time, look, results, before, board>>

\* The case returns and the loop of run_normal_tests() calls the next one.
\* What SysTick then reads is not known; what the locals hold no longer matters.
NoTime == [start |-> 0, end |-> 0, wait |-> 0]
UsesTime(c) == \E i \in DOMAIN selftest_cases[c].steps :
    selftest_cases[c].steps[i].op \in {"delay", "mark", "await"}
Return ==
    /\ ~AllDone /\ CaseDone
    /\ results' = [results EXCEPT ![Now.name] = verdict]
    /\ case' = case + 1
    /\ at' = 1 /\ verdict' = "pass" /\ saved' = <<>> /\ time' = NoTime
    /\ before' = regs
    /\ tick' \in IF case' \in DOMAIN selftest_cases /\ UsesTime(case') THEN StartTicks ELSE {0}
    /\ lag' = 0 /\ cnt' = [t \in Timers |-> 0]
    /\ UNCHANGED <<look, regs, clocked, dmaVars>>

StepOf(s) ==
    \/ WriteStep(s) \/ ReadStep(s) \/ ClockStep(s) \/ SaveStep(s) \/ RestoreStep(s)
    \/ UpdateStep(s) \/ ConvertStep(s)
    \/ MarkStep(s) \/ WindowStep(s)
    \/ StartWait(s) \/ DelayTurn(s) \/ AwaitClock(s) \/ AwaitFlag(s)
    \/ DmaStep(s)
Cpu == Return \/ (AtStep /\ \E s \in {Step} : StepOf(s))

DmaMoves == pc = "poll" /\ Transfer /\ UNCHANGED <<cpu, board>>

Init ==
    /\ fault \in BoardFaults
    /\ regs = [b \in DOMAIN Entry |-> [n \in DOMAIN Entry[b] |-> StartUp(<<b, n>>)]]
    /\ clocked = AlwaysClocked
    /\ case = 1 /\ at = 1 /\ verdict = "pass" /\ saved = <<>>
    /\ time = NoTime /\ look = "start"
    /\ results = [c \in {selftest_cases[i].name : i \in DOMAIN selftest_cases} |-> "none"]
    /\ before = regs
    /\ tick = 0 /\ cnt = [t \in Timers |-> 0] /\ lag = 0
    /\ DmaIdle

Next == Cpu \/ Tick \/ DmaMoves

\* The CPU runs without interrupts, time passes, an enabled DMA channel moves
\* its data unless it is broken.
Spec == Init /\ [][Next]_vars /\ WF_vars(Cpu) /\ WF_vars(Tick) /\ WF_vars(DmaMoves)

-----------------------------------------------------------------------------
(* Properties.                                                             *)

TypeOK ==
    /\ case \in 1..Len(selftest_cases) + 1
    /\ ~AllDone => at \in 1..Len(Now.steps) + 1
    /\ verdict \in {"pass", "fail"}
    /\ \A c \in DOMAIN results : results[c] \in {"none", "pass", "fail"}
    /\ \A b \in DOMAIN BitsOf : \A n \in DOMAIN BitsOf[b] : regs[b][n] \subseteq BitsOf[b][n]
    /\ \A r \in DOMAIN saved : saved[r] \subseteq All(r)
    /\ clocked \subseteq DOMAIN BitsOf
    /\ {tick, time.start, time.end, time.wait} \subseteq 0..Wrap - 1
    /\ cnt \in [Timers -> 0..2 * TIMER_PERIOD] /\ lag \in 0..Lag
    /\ look \in {"start", "clock", "flag"}
    /\ DmaTypeOK
    /\ pc # "idle" => AtStep /\ Step.op = "dma"

FaultyBlock == IF fault.channel > 0 THEN "DMA1" ELSE fault.reg[1]

\* A failure is deserved and stays where it belongs: whatever SysTick reads
\* when a case starts, and however the CPU, the counters and the DMA engine
\* interleave, only a case of the faulty block fails.  The timers are judged
\* with SysTick and by the clock frequencies, the SysTick case by the frequency it
\* is told, the USART case by the divider made of one: they may fail with these.
Tested ==
    [rcc |-> {"RCC"}, systick |-> {"SYSTICK"}, gpio |-> {"GPIOC"}, usart |-> {"USART1"},
     dma |-> {"DMA1"}, timers |-> {"TIM1", "TIM2"}, adc |-> {"ADC1"}, spi |-> {"SPI1"},
     i2c |-> {"I2C1"}, esig |-> {"ESIG", "EXTEN"}]
JudgedWith(c) ==
    Tested[c] \cup (IF c \in {"systick", "usart", "timers"} THEN {"RCC"} ELSE {})
              \cup (IF c = "timers" THEN {"SYSTICK"} ELSE {})
FailIsDeserved ==
    \A c \in DOMAIN results : results[c] = "fail" => FaultyBlock \in JudgedWith(c)

\* A pass is earned.  A bit stuck at zero in the block of a case keeps the case
\* from passing, but for these, which no case sets and reads back.  Two of them
\* are in the README of the selftest: DMA of i2c1 and TC of usart1.
NotTried ==
    {<<"RCC", "CFGR0", p>> : p \in {"HPRE", "PPRE1", "PPRE2", "ADCPRE"}}
    \cup {<<"ADC1", "CTLR2", p>> : p \in {"ADON", "CONT", "CAL", "ALIGN"}}
    \cup {<<"EXTEN", "CTR", p>> : p \in {"LOCKUP_RSTF", "LDO_LOW"}}
    \cup {<<"USART1", "CTLR1", "UE">>, <<"USART1", "STATR", "TC">>, <<"DMA1", "CFGR7", "PL1">>,
          <<"SPI1", "CTLR1", "BR0">>, <<"SPI1", "CRCR", "7">>, <<"I2C1", "CTLR2", "DMAEN">>}
\* Nor with a bit stuck at one that the table has it read as clear.
MustClear ==
    {<<"RCC", "CFGR0", p>> : p \in {"HPRE", "PPRE1", "PPRE2", "ADCPRE"}}
    \cup {<<"GPIOC", "CFGLR", p>> : p \in {"MODE0", "CNF0"}}
    \cup {<<"USART1", "CTLR1", p>> : p \in {"M", "PCE", "PS"}}
    \cup {<<"DMA1", "CFGR7", p>> : p \in {"DIR", "PL1"}}
    \cup {<<"EXTEN", "CTR", p>> : p \in {"LOCKUP_RSTF", "LDO_LOW"}}
    \cup {<<t, "INTFR", "UIF">> : t \in {"TIM1", "TIM2"}}
    \cup {<<"SYSTICK", "CTLR", "EN">>, <<"GPIOC", "OUTDR", "0">>, <<"USART1", "CTLR2", "STOP">>,
          <<"ADC1", "CTLR2", "CAL">>, <<"SPI1", "CTLR1", "BR0">>}
\* A SysTick of a wrong rate passes its own case, which measures it with a delay
\* that SysTick ends; the timers then fail.
FaultyBit == <<fault.reg[1], fault.reg[2], fault.bit>>
MayPass(c) ==
    \/ FaultyBlock \notin Tested[c]
    \/ fault.kind = "double"
    \/ fault.kind = "bit" /\ fault.level = 0 /\ FaultyBit \in NotTried
    \/ fault.kind = "bit" /\ fault.level = 1 /\ FaultyBit \notin MustClear
    \/ fault.channel > 0 /\ DmaTolerates(fault)
PassIsEarned ==
    /\ \A c \in DOMAIN results : results[c] = "pass" => MayPass(c)
    /\ results.timers = "pass" => fault.kind # "double"

\* A case leaves the registers it saved as it found them when it passes, and the
\* console and the EXTEN block also when it fails.  Two things do not come back:
\* the reset value of the SPI's CRCR, which was saved without a clock, and the
\* CPOL and CPHA that a failed check left in the USART, which are written back
\* when the transmitter is on again.
SavedIsRestored ==
    ~AllDone /\ CaseDone /\ (verdict = "pass" \/ Now.name \in {"usart", "esig"}) =>
        \A r \in DOMAIN saved :
            LET lost == (IF r = <<"SPI1", "CRCR">> THEN {"7"} ELSE {})
                        \cup (IF verdict = "fail" THEN {"CPOL", "CPHA"} ELSE {})
            IN  Value(r) \ lost = before[r[1]][r[2]] \ lost

\* Every case returns, whatever else is broken, as long as SysTick counts: a
\* delay has no time-out of its own.
SysTickWorks ==
    /\ fault.kind # "stopped"
    /\ ~(fault.reg[1] = "SYSTICK" /\ fault.bit = "EN" /\ fault.level = 0)
CasesReturn == SysTickWorks => <>AllDone

=============================================================================
