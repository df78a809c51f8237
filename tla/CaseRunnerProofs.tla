-------------------------- MODULE CaseRunnerProofs --------------------------
(***************************************************************************)
(* Theorems about the self-test cases of CaseRunner.tla.                   *)
(***************************************************************************)
EXTENDS CaseAudit, TLAPS

-----------------------------------------------------------------------------
(* The constants and the registers.                                        *)

\* The constants, as the proofs use them.
LEMMA Constants ==
    /\ Lag \in Nat /\ Lag > 0 /\ FastPeriod \in Nat /\ FastPeriod > 0
    /\ Wrap \in Nat /\ SlowPeriod \in Nat /\ TIMER_PERIOD \in Nat
    /\ TIMER_TOLERANCE \in Nat /\ TIMER_WAIT \in Nat
    /\ Millisecond \in Nat /\ MsLow \in Nat /\ MsHigh \in Nat
    /\ StartTicks \subseteq 0..Wrap - 1
    /\ FastPeriod < TIMER_PERIOD /\ TIMER_PERIOD < SlowPeriod
    /\ SlowPeriod < 2 * TIMER_PERIOD /\ 2 * TIMER_PERIOD <= TIMER_WAIT
    /\ TIMER_WAIT + Lag < Wrap /\ Millisecond + 2 * Lag < Wrap
  BY CaseRunnerAssumption DEF CaseRunnerAssumption

\* The transfers of the dma case.
LEMMA Transfers ==
    /\ Elements \in Nat /\ DMA_TIMEOUT_LOOPS \in Nat /\ Len(Runs) \in Nat
    /\ Len(Runs) > 0
    /\ \A r \in 1..Len(Runs) :
          /\ Runs[r].count \in 2..Elements /\ Runs[r].size \in {8, 16, 32}
          /\ Runs[r].count < DMA_TIMEOUT_LOOPS
          /\ Runs[r].channel \in Nat \ {0}
<1>1. /\ Elements \in Nat /\ DMA_TIMEOUT_LOOPS \in Nat
      /\ Runs \in Seq([channel : Nat \ {0}, size : {8, 16, 32}, count : 2..Elements,
                       round : Nat])
      /\ Runs # <<>>
      /\ \A r \in DOMAIN Runs : Runs[r].count < DMA_TIMEOUT_LOOPS
  BY DmaTestAssumption DEF DmaTestAssumption
<1>2. Len(Runs) \in Nat /\ Len(Runs) > 0 /\ DOMAIN Runs = 1..Len(Runs)
  BY <1>1
<1> DEFINE J == [channel : Nat \ {0}, size : {8, 16, 32}, count : 2..Elements,
                 round : Nat]
<1>3. \A r \in 1..Len(Runs) : Runs[r] \in J
  <2>1. Runs \in Seq(J)
    BY <1>1
  <2> HIDE DEF J
  <2>2. QED
    BY <1>2, <2>1
<1>4. QED
  BY <1>1, <1>2, <1>3

\* The tables.
LEMMA Tables ==
    /\ Len(selftest_cases) \in Nat
    /\ \A c \in 1..Len(selftest_cases) :
          /\ Len(selftest_cases[c].steps) \in Nat
          /\ selftest_cases[c].undo \in 1..Len(selftest_cases[c].steps) + 1
          /\ \A i \in 1..Len(selftest_cases[c].steps) :
                IsStep(selftest_cases[c].steps[i])
    /\ \A r \in Registers : Entry[r[1]][r[2]] \subseteq All(r)
  BY TablesAssumption DEF TablesAssumption

\* A register is a block with one of its names.
LEMMA RegisterNames ==
    /\ \A b \in DOMAIN BitsOf : \A n \in DOMAIN BitsOf[b] : <<b, n>> \in Registers
    /\ \A r \in Registers : /\ r = <<r[1], r[2]>> /\ r[1] \in DOMAIN BitsOf
                            /\ r[2] \in DOMAIN BitsOf[r[1]]
                            /\ All(r) = BitsOf[r[1]][r[2]]
  BY DEF Registers, All

\* The registers of the blocks that act by themselves.
LEMMA TimerRegisters ==
    ASSUME NEW t \in Timers
    PROVE  /\ t \in DOMAIN BitsOf
           /\ <<t, "INTFR">> \in Registers /\ All(<<t, "INTFR">>) = {"UIF"}
           /\ <<t, "CTLR1">> \in Registers
<1>1. BitsOf.TIM1 = TimBits
  BY DEF BitsOf
<1>2. BitsOf.TIM2 = [TimBits EXCEPT !.CTLR2 = {}, !.BDTR = {}]
  BY DEF BitsOf
<1>3. TimBits.INTFR = {"UIF"} /\ {"INTFR", "CTLR1"} \subseteq DOMAIN TimBits
  BY DEF TimBits
<1>4. [TimBits EXCEPT !.CTLR2 = {}, !.BDTR = {}].INTFR = {"UIF"}
  BY DEF TimBits
<1>5. "TIM1" \in DOMAIN BitsOf /\ "TIM2" \in DOMAIN BitsOf
  BY DEF BitsOf
<1>6. /\ t \in DOMAIN BitsOf /\ BitsOf[t]["INTFR"] = {"UIF"}
      /\ {"INTFR", "CTLR1"} \subseteq DOMAIN BitsOf[t]
  BY <1>1, <1>2, <1>3, <1>4, <1>5 DEF Timers
<1>7. QED
  BY <1>6, RegisterNames DEF All

\* The status register of the ADC.
LEMMA AdcStatus ==
    <<"ADC1", "STATR">> \in Registers /\ All(<<"ADC1", "STATR">>) = BitsOf.ADC1.STATR
<1>1. "ADC1" \in DOMAIN BitsOf
  BY DEF BitsOf
<1>2. "STATR" \in DOMAIN BitsOf.ADC1
  BY DEF BitsOf
<1>3. QED
  BY <1>1, <1>2, RegisterNames DEF All

\* Every register holds some of its bits.
Fits(f) ==
    /\ DOMAIN f = DOMAIN BitsOf
    /\ \A b \in DOMAIN BitsOf :
          /\ DOMAIN f[b] = DOMAIN BitsOf[b]
          /\ \A n \in DOMAIN BitsOf[b] : f[b][n] \subseteq BitsOf[b][n]

\* What is broken: nothing, a DMA channel, a bit, a timer, or SysTick.
LEMMA FaultCases ==
    ASSUME fault \in BoardFaults
    PROVE  \/ fault = NoFault
           \/ \E k \in DmaFaults : \E c \in Channels : fault = ChannelFault(k, c)
           \/ \E x \in AllBits : \E l \in {0, 1} : fault = BitFault(x, l)
           \/ \E k \in {"slow", "fast"} : \E t \in Timers :
                 fault = RateFault(k, <<t, "PSC">>)
           \/ \E k \in {"stopped", "double"} :
                 fault = RateFault(k, <<"SYSTICK", "CNT">>)
<1>1. fault \in {NoFault}
          \cup {ChannelFault(k, c) : k \in DmaFaults, c \in Channels}
          \cup {BitFault(x, l) : x \in AllBits, l \in {0, 1}}
          \cup {RateFault(k, <<t, "PSC">>) : k \in {"slow", "fast"}, t \in Timers}
          \cup {RateFault(k, <<"SYSTICK", "CNT">>) : k \in {"stopped", "double"}}
  BY DEF BoardFaults, Timers
<1>2. QED
  BY <1>1

\* What each of them is.
LEMMA FaultFields ==
    /\ NoFault.kind = "none" /\ NoFault.channel = 0 /\ NoFault.reg = <<"", "">>
    /\ \A k, c : /\ ChannelFault(k, c).kind = k /\ ChannelFault(k, c).channel = c
                 /\ ChannelFault(k, c).reg = <<"", "">>
    /\ \A x, l : /\ BitFault(x, l).kind = "bit" /\ BitFault(x, l).channel = 0
                 /\ BitFault(x, l).reg = <<x[1], x[2]>> /\ BitFault(x, l).bit = x[3]
                 /\ BitFault(x, l).level = l
    /\ \A k, q : /\ RateFault(k, q).kind = k /\ RateFault(k, q).channel = 0
                 /\ RateFault(k, q).reg = q
  BY DEF NoFault, ChannelFault, BitFault, RateFault

\* A stuck bit is one of the register's.
LEMMA StuckBit ==
    ASSUME fault \in BoardFaults, fault.kind = "bit"
    PROVE  /\ fault.reg \in Registers /\ fault.bit \in All(fault.reg)
           /\ fault.level \in {0, 1} /\ fault.channel = 0
<1>1. \A k \in DmaFaults : k # "bit"
  BY DEF DmaFaults
<1>2. fault # NoFault
  BY FaultFields
<1>3. \A k \in DmaFaults : \A c : fault # ChannelFault(k, c)
  <2> SUFFICES ASSUME NEW k \in DmaFaults, NEW c, fault = ChannelFault(k, c)
               PROVE  FALSE
    OBVIOUS
  <2>1. ChannelFault(k, c).kind = k
    BY Zenon, FaultFields
  <2>2. QED
    BY <1>1, <2>1
<1>4. \A k \in {"slow", "fast", "stopped", "double"} : \A q : fault # RateFault(k, q)
  <2> SUFFICES ASSUME NEW k \in {"slow", "fast", "stopped", "double"}, NEW q,
                      fault = RateFault(k, q)
               PROVE  FALSE
    OBVIOUS
  <2>1. RateFault(k, q).kind = k
    BY Zenon, FaultFields
  <2>2. QED
    BY <2>1
<1>5. PICK x \in AllBits, l \in {0, 1} : fault = BitFault(x, l)
  BY <1>2, <1>3, <1>4, FaultCases
<1>6. x[1] \in DOMAIN BitsOf /\ x[2] \in DOMAIN BitsOf[x[1]] /\ x[3] \in BitsOf[x[1]][x[2]]
  BY DEF AllBits
<1> DEFINE q == <<x[1], x[2]>>
<1>7. fault.reg = q /\ fault.bit = x[3] /\ fault.level = l /\ fault.channel = 0
  <2>1. /\ BitFault(x, l).reg = <<x[1], x[2]>> /\ BitFault(x, l).bit = x[3]
        /\ BitFault(x, l).level = l /\ BitFault(x, l).channel = 0
    BY DEF BitFault, NoFault
  <2>2. QED
    BY <1>5, <2>1
<1>8. q \in Registers /\ q[1] = x[1] /\ q[2] = x[2]
  BY <1>6, RegisterNames
<1> HIDE DEF q
<1>9. x[3] \in All(q)
  BY <1>6, <1>8 DEF All
<1>10. QED
  BY <1>7, <1>8, <1>9

\* With it, a register still holds some of its bits.
LEMMA StuckFits ==
    ASSUME fault \in BoardFaults, NEW r \in Registers, NEW bits \in SUBSET All(r)
    PROVE  Stuck(r, bits) \subseteq All(r)
  BY StuckBit DEF Stuck

\* One register takes another value.
With(f, r, v) == [f EXCEPT ![r[1]][r[2]] = v]

\* It alone changes, and every register still holds some of its bits.
LEMMA OneRegister ==
    ASSUME NEW f, Fits(f), NEW r \in Registers, NEW v \in SUBSET All(r)
    PROVE  /\ Fits(With(f, r, v))
           /\ With(f, r, v)[r[1]][r[2]] = v
           /\ \A q \in Registers : q # r =>
                 With(f, r, v)[q[1]][q[2]] = f[q[1]][q[2]]
<1> DEFINE b == r[1]
           n == r[2]
           g == [f EXCEPT ![b] = [f[b] EXCEPT ![n] = v]]
<1>1. b \in DOMAIN BitsOf /\ n \in DOMAIN BitsOf[b] /\ v \subseteq BitsOf[b][n] /\ r = <<b, n>>
  BY RegisterNames
<1>2. With(f, r, v) = g
  BY DEF With
<1> HIDE DEF b, n
<1>3. DOMAIN g = DOMAIN BitsOf /\ g[b] = [f[b] EXCEPT ![n] = v]
      /\ \A c \in DOMAIN BitsOf : c # b => g[c] = f[c]
  BY <1>1 DEF Fits
<1>4. DOMAIN g[b] = DOMAIN BitsOf[b] /\ g[b][n] = v
      /\ \A m \in DOMAIN BitsOf[b] : m # n => g[b][m] = f[b][m]
  BY <1>1, <1>3 DEF Fits
<1> HIDE DEF g
<1>5. Fits(g)
  <2>1. ASSUME NEW c \in DOMAIN BitsOf
        PROVE  /\ DOMAIN g[c] = DOMAIN BitsOf[c]
               /\ \A m \in DOMAIN BitsOf[c] : g[c][m] \subseteq BitsOf[c][m]
    <3>1. CASE c = b
      BY <1>1, <1>4, <3>1 DEF Fits
    <3>2. CASE c # b
      BY <1>3, <3>2 DEF Fits
    <3>3. QED
      BY <3>1, <3>2
  <2>2. QED
    BY <1>3, <2>1 DEF Fits
<1>6. ASSUME NEW q \in Registers, q # r PROVE g[q[1]][q[2]] = f[q[1]][q[2]]
  <2>1. q[1] \in DOMAIN BitsOf /\ q[2] \in DOMAIN BitsOf[q[1]] /\ q = <<q[1], q[2]>>
    BY RegisterNames
  <2>2. q[1] # b \/ q[2] # n
    BY <1>1, <1>6, <2>1
  <2>3. QED
    BY <1>3, <1>4, <2>1, <2>2
<1>7. QED
  BY <1>2, <1>4, <1>5, <1>6 DEF b, n

\* What a write stores, and what a block itself sets, are bits of the register.
LEMMA StoredFits ==
    ASSUME fault \in BoardFaults, Fits(regs), NEW r \in Registers,
           NEW bits \in SUBSET All(r)
    PROVE  Stored(r, bits) \in SUBSET All(r)
<1>1. Value(r) \subseteq All(r)
  BY RegisterNames DEF Value, Fits
<1>2. (bits \ Locked(r)) \cup (Value(r) \cap Locked(r)) \in SUBSET All(r)
  BY <1>1
<1>3. QED
  BY <1>2, StuckFits DEF Stored

\* A write leaves every register with its bits.
LEMMA StoreFits ==
    ASSUME fault \in BoardFaults, Fits(regs), NEW r \in Registers,
           NEW bits \in SUBSET All(r), Store(r, bits)
    PROVE  Fits(regs')
<1>1. CASE r[1] \in clocked
  <2>1. regs' = With(regs, r, Stored(r, bits))
    BY <1>1 DEF Store, With
  <2>2. QED
    BY <2>1, StoredFits, OneRegister
<1>2. CASE r[1] \notin clocked
  BY <1>2 DEF Store
<1>3. QED
  BY <1>1, <1>2

\* And so does what a block itself sets.
LEMMA RaiseFits ==
    ASSUME fault \in BoardFaults, NEW f, Fits(f), NEW r \in Registers,
           NEW bits \in SUBSET All(r)
    PROVE  Fits(Raise(f, r, bits))
<1> DEFINE v == Stuck(r, f[r[1]][r[2]] \cup bits)
<1>1. f[r[1]][r[2]] \subseteq All(r)
  BY RegisterNames DEF Fits
<1>2. v \in SUBSET All(r)
  <2>1. f[r[1]][r[2]] \cup bits \in SUBSET All(r)
    BY <1>1
  <2>2. QED
    BY <2>1, StuckFits
<1>3. Raise(f, r, bits) = With(f, r, v)
  BY DEF Raise, With
<1> HIDE DEF v
<1>4. Fits(With(f, r, v))
  BY <1>2, OneRegister
<1>5. QED
  BY <1>3, <1>4

-----------------------------------------------------------------------------
(* Type correctness.                                                       *)

\* Where the CPU is.
PlaceInv ==
    /\ case \in 1..Len(selftest_cases) + 1
    /\ ~AllDone => at \in 1..Len(Now.steps) + 1
    /\ verdict \in {"pass", "fail"}
    /\ \A c \in DOMAIN results : results[c] \in {"none", "pass", "fail"}
    /\ look \in {"start", "clock", "flag"}
    /\ pc # "idle" => AtStep /\ Step.op = "dma"

\* What the board and the locals hold.
BoardInv ==
    /\ fault \in BoardFaults
    /\ Fits(regs)
    /\ clocked \subseteq DOMAIN BitsOf
    /\ \A r \in DOMAIN saved : r \in Registers /\ saved[r] \subseteq All(r)
    /\ tick \in 0..Wrap - 1
    /\ time \in [start : 0..Wrap - 1, end : 0..Wrap - 1, wait : 0..Wrap - 1]
    /\ cnt \in [Timers -> 0..2 * TIMER_PERIOD]
    /\ lag \in 0..Lag

\* The inductive invariant of the types.
TypeInv == PlaceInv /\ BoardInv /\ DmaTypeOK

\* The step the CPU is at is one of its table.
LEMMA StepIsOfTable ==
    ASSUME PlaceInv, AtStep
    PROVE  /\ case \in 1..Len(selftest_cases)
           /\ Len(Now.steps) \in Nat /\ at \in 1..Len(Now.steps)
           /\ Now.undo \in 1..Len(Now.steps) + 1
           /\ IsStep(Step)
  BY Tables DEF PlaceInv, AtStep, AllDone, CaseDone, Now, Step

\* A step that goes on or is judged stays in its table.
LEMMA StepStays ==
    ASSUME PlaceInv, AtStep, case' = case,
           \/ GoOn
           \/ Judge(TRUE)
           \/ Judge(FALSE)
           \/ UNCHANGED <<at, verdict>>
    PROVE  /\ ~AllDone' /\ at' \in 1..Len(Now'.steps) + 1
           /\ verdict' \in {"pass", "fail"}
<1>1. ~AllDone' /\ Now' = Now
  BY DEF AtStep, AllDone, Now
<1>2. Len(Now.steps) \in Nat /\ at \in 1..Len(Now.steps)
      /\ Now.undo \in 1..Len(Now.steps) + 1 /\ verdict \in {"pass", "fail"}
  BY StepIsOfTable DEF PlaceInv
<1>3. at' \in {at, at + 1, Now.undo, Len(Now.steps) + 1}
      /\ verdict' \in {verdict, "fail"}
  BY DEF GoOn, Judge
<1>4. QED
  BY <1>1, <1>2, <1>3

\* Every step of a case goes on, is judged or stays; only the dma step uses
\* the engine.
LEMMA StepForm ==
    ASSUME AtStep, StepOf(Step)
    PROVE  /\ case' = case /\ UNCHANGED <<results, before, fault>>
           /\ GoOn \/ Judge(TRUE) \/ Judge(FALSE) \/ UNCHANGED <<at, verdict>>
           /\ Step.op # "dma" => UNCHANGED dmaVars
<1>1. \A ok : Judge(ok) => Judge(TRUE) \/ Judge(FALSE)
  BY DEF Judge
<1>2. CASE WriteStep(Step)
  BY <1>2 DEF WriteStep, Keep, dmaVars
<1>3. CASE ReadStep(Step)
  BY <1>1, <1>3 DEF ReadStep, Keep, dmaVars
<1>4. CASE ClockStep(Step)
  BY <1>4 DEF ClockStep, Keep, dmaVars
<1>5. CASE SaveStep(Step)
  BY <1>5 DEF SaveStep, Keep, dmaVars
<1>6. CASE RestoreStep(Step)
  BY <1>6 DEF RestoreStep, Keep, dmaVars
<1>7. CASE UpdateStep(Step)
  BY <1>7 DEF UpdateStep, Keep, dmaVars
<1>8. CASE ConvertStep(Step)
  BY <1>8 DEF ConvertStep, Keep, dmaVars
<1>9. CASE MarkStep(Step)
  BY <1>9 DEF MarkStep, Keep, dmaVars
<1>10. CASE WindowStep(Step)
  BY <1>1, <1>10 DEF WindowStep, Keep, dmaVars
<1>11. CASE StartWait(Step)
  BY <1>11 DEF StartWait, Keep, dmaVars
<1>12. CASE DelayTurn(Step)
  BY <1>12 DEF DelayTurn, Keep, dmaVars
<1>13. CASE AwaitClock(Step)
  BY <1>13 DEF AwaitClock, Keep, dmaVars
<1>14. CASE AwaitFlag(Step)
  BY <1>14 DEF AwaitFlag, Keep, dmaVars
<1>15. CASE DmaStep(Step)
  <2>1. UNCHANGED fault
    BY <1>15 DEF DmaStep, DmaCall, DmaCpu, DmaReturn, dma_fill, Arm, Poll, TimeOut, Stop, Check
  <2>2. QED
    BY <1>1, <1>15, <2>1 DEF DmaStep
<1>16. QED
  BY <1>2, <1>3, <1>4, <1>5, <1>6, <1>7, <1>8, <1>9, <1>10, <1>11, <1>12, <1>13, <1>14,
     <1>15 DEF StepOf

\* The CPU stays in its place.
LEMMA StepPlace ==
    ASSUME TypeInv, AtStep, StepOf(Step)
    PROVE  PlaceInv'
<1>1. PlaceInv
  BY DEF TypeInv
<1>2. /\ ~AllDone' /\ at' \in 1..Len(Now'.steps) + 1 /\ verdict' \in {"pass", "fail"}
      /\ case' \in 1..Len(selftest_cases) + 1 /\ results' = results
  BY <1>1, StepForm, StepStays DEF PlaceInv
<1>3. look' \in {"start", "clock", "flag"}
  BY <1>1 DEF PlaceInv, StepOf, WriteStep, ReadStep, ClockStep, SaveStep, RestoreStep,
       UpdateStep, ConvertStep, MarkStep, WindowStep, StartWait, DelayTurn, AwaitClock,
       AwaitFlag, DmaStep
<1>4. pc' # "idle" => AtStep' /\ Step'.op = "dma"
  <2>1. CASE Step.op # "dma"
    BY <1>1, <2>1, StepForm DEF PlaceInv, dmaVars
  <2>2. CASE Step.op = "dma"
    <3>1. DmaStep(Step)
      BY <2>2 DEF StepOf, WriteStep, ReadStep, ClockStep, SaveStep, RestoreStep,
         UpdateStep, ConvertStep, MarkStep, WindowStep, StartWait, DelayTurn, AwaitClock,
         AwaitFlag
    <3>2. CASE DmaReturn
      BY <3>2 DEF DmaReturn
    <3>3. CASE UNCHANGED <<at, verdict>>
      BY <2>2, <3>1, <3>3 DEF DmaStep, AtStep, AllDone, CaseDone, Step, Now
    <3>4. QED
      BY <3>1, <3>2, <3>3 DEF DmaStep
  <2>3. QED
    BY <2>1, <2>2
<1>5. QED
  BY <1>1, <1>2, <1>3, <1>4 DEF PlaceInv

\* A block without a clock reads as zero, every other as it is.
LEMMA ReadBackFits ==
    ASSUME BoardInv, NEW r \in Registers
    PROVE  ReadBack(r) \subseteq All(r) /\ Value(r) \subseteq All(r)
  BY RegisterNames DEF ReadBack, Value, BoardInv, Fits

\* A baud rate is the number of the table, or another.
LEMMA BaudValue ==
    ASSUME NEW r, NEW v, NEW f
    PROVE  /\ Baud(r, v, f) \in {v, {}}
           /\ r # BaudRegister => Baud(r, v, f) = v
           /\ "apb2" \in f => Baud(r, v, f) = v
  BY DEF Baud, BaudRegister

\* Nor does a step of a case leave a register, a saved value or a time that
\* could not be.
LEMMA StepBoard ==
    ASSUME TypeInv, AtStep, StepOf(Step)
    PROVE  BoardInv'
<1>1. BoardInv /\ IsStep(Step) /\ UNCHANGED fault
  BY StepIsOfTable, StepForm DEF TypeInv
<1>2. Wrap \in Nat /\ Lag \in Nat /\ TIMER_PERIOD \in Nat
  BY Constants
<1>3. CASE WriteStep(Step)
  <2>1. Step.reg \in Registers /\ Step.bits \subseteq All(Step.reg)
    BY <1>1, <1>3 DEF WriteStep, IsStep
  <2>2. (ReadBack(Step.reg) \ Step.mask) \cup Baud(Step.reg, Step.bits, regs.RCC.freq)
           \in SUBSET All(Step.reg)
    BY <1>1, <2>1, ReadBackFits, BaudValue
  <2>3. Fits(regs')
    BY <1>1, <1>3, <2>1, <2>2, StoreFits DEF WriteStep, BoardInv
  <2>4. QED
    BY <1>1, <1>3, <2>3 DEF WriteStep, BoardInv
<1>4. CASE ReadStep(Step)
  BY <1>1, <1>4 DEF ReadStep, BoardInv, board
<1>5. CASE ClockStep(Step)
  <2>1. clocked' \subseteq DOMAIN BitsOf
    BY <1>1, <1>5 DEF ClockStep, IsStep, BoardInv
  <2>2. QED
    BY <1>1, <1>5, <2>1 DEF ClockStep, BoardInv
<1>6. CASE SaveStep(Step)
  <2>1. Step.reg \in Registers /\ ReadBack(Step.reg) \subseteq All(Step.reg)
    BY <1>1, <1>6, ReadBackFits DEF SaveStep, IsStep
  <2>2. /\ DOMAIN saved' = DOMAIN saved \cup {Step.reg}
        /\ \A r \in DOMAIN saved' :
             saved'[r] = IF r = Step.reg THEN ReadBack(r) ELSE saved[r]
    BY <1>6 DEF SaveStep
  <2>3. \A r \in DOMAIN saved' : r \in Registers /\ saved'[r] \subseteq All(r)
    BY <1>1, <2>1, <2>2 DEF BoardInv
  <2>4. QED
    BY <1>1, <1>6, <2>3 DEF SaveStep, BoardInv, board
<1>7. CASE RestoreStep(Step)
  <2>1. Fits(regs')
    BY <1>1, <1>7, StoreFits DEF RestoreStep, BoardInv
  <2>2. QED
    BY <1>1, <1>7, <2>1 DEF RestoreStep, BoardInv
<1>8. CASE UpdateStep(Step)
  <2>1. Step.tim \in Timers
    BY <1>1, <1>8 DEF UpdateStep, IsStep
  <2>2. Fits(Raise(regs, <<Step.tim, "INTFR">>, {"UIF"}))
    BY <1>1, <2>1, TimerRegisters, RaiseFits DEF BoardInv
  <2>3. Fits(regs')
    BY <1>1, <1>8, <2>2 DEF UpdateStep, BoardInv
  <2>4. cnt' \in [Timers -> 0..2 * TIMER_PERIOD]
    <3>1. 0 \in 0..2 * TIMER_PERIOD
      BY Constants
    <3>2. cnt \in [Timers -> 0..2 * TIMER_PERIOD] /\ cnt' = [cnt EXCEPT ![Step.tim] = 0]
      BY <1>1, <1>8 DEF UpdateStep, BoardInv
    <3>3. QED
      BY <2>1, <3>1, <3>2
  <2>5. QED
    BY <1>1, <1>8, <2>3, <2>4 DEF UpdateStep, BoardInv
<1>9. CASE ConvertStep(Step)
  <2>1. /\ Step.flag \in All(<<"ADC1", "STATR">>) /\ Step.data \in Registers
        /\ "400..620" \in All(Step.data)
    BY <1>1, <1>9, AdcStatus DEF ConvertStep, IsStep
  <2> DEFINE done == Raise(regs, <<"ADC1", "STATR">>, {Step.flag})
  <2>2. Fits(done)
    <3>1. {Step.flag} \in SUBSET All(<<"ADC1", "STATR">>)
      BY <2>1
    <3>2. QED
      BY <1>1, <3>1, AdcStatus, RaiseFits DEF BoardInv
  <2> HIDE DEF done
  <2>3. Fits(Raise(done, Step.data, {"400..620"}))
    <3>1. {"400..620"} \in SUBSET All(Step.data)
      BY <2>1
    <3>2. QED
      BY <1>1, <2>1, <2>2, <3>1, RaiseFits DEF BoardInv
  <2>4. regs' \in {done, Raise(done, Step.data, {"400..620"})}
    BY <1>9 DEF ConvertStep, done
  <2>5. QED
    BY <1>1, <1>9, <2>2, <2>3, <2>4 DEF ConvertStep, BoardInv
<1>10. CASE MarkStep(Step)
  <2>1. time' \in [start : 0..Wrap - 1, end : 0..Wrap - 1, wait : 0..Wrap - 1]
    BY <1>1, <1>10 DEF MarkStep, IsStep, BoardInv
  <2>2. lag' \in 0..Lag
    BY <1>2, <1>10 DEF MarkStep
  <2>3. QED
    BY <1>1, <1>10, <2>1, <2>2 DEF MarkStep, BoardInv
<1>11. CASE WindowStep(Step)
  BY <1>1, <1>11 DEF WindowStep, BoardInv, board
<1>12. CASE StartWait(Step)
  <2>1. time' \in [start : 0..Wrap - 1, end : 0..Wrap - 1, wait : 0..Wrap - 1]
    BY <1>1, <1>12 DEF StartWait, BoardInv
  <2>2. QED
    BY <1>1, <1>12, <2>1 DEF StartWait, BoardInv, board
<1>13. CASE DelayTurn(Step)
  BY <1>1, <1>2, <1>13 DEF DelayTurn, BoardInv
<1>14. CASE AwaitClock(Step)
  <2> DEFINE r == <<Step.tim, "CTLR1">>
  <2>1. Step.tim \in Timers
    BY <1>1, <1>14 DEF AwaitClock, IsStep
  <2>2. r \in Registers /\ Value(r) = regs[Step.tim].CTLR1
    BY <2>1, TimerRegisters DEF Value
  <2> HIDE DEF r
  <2>3. regs[Step.tim].CTLR1 \ {"CEN"} \in SUBSET All(r)
    BY <1>1, <2>2, ReadBackFits
  <2>4. Store(r, regs[Step.tim].CTLR1 \ {"CEN"}) => Fits(regs')
    BY <1>1, <2>2, <2>3, StoreFits DEF BoardInv
  <2>5. Fits(regs')
    BY <1>1, <1>14, <2>4 DEF AwaitClock, BoardInv, r
  <2>6. QED
    BY <1>1, <1>14, <2>5 DEF AwaitClock, BoardInv
<1>15. CASE AwaitFlag(Step)
  BY <1>1, <1>2, <1>15 DEF AwaitFlag, BoardInv
<1>16. CASE DmaStep(Step)
  BY <1>1, <1>16 DEF DmaStep, BoardInv, board
<1>17. QED
  BY <1>3, <1>4, <1>5, <1>6, <1>7, <1>8, <1>9, <1>10, <1>11, <1>12, <1>13, <1>14,
     <1>15, <1>16 DEF StepOf

\* The period of a timer, whatever its registers and the clock frequencies say.
LEMMA PeriodBound ==
    ASSUME BoardInv, NEW t \in Timers
    PROVE  RealPeriod(t) \in 0..2 * TIMER_PERIOD
<1> DEFINE hz(entry) == IF entry \in regs.RCC.freq THEN 2 ELSE 1
           clock == timer_clock_hz(hz(IF t = "TIM1" THEN "apb2" ELSE "apb1"), hz("ahb"))
<1>1. clock \in {1, 2, 4}
  BY DEF timer_clock_hz
<1>2. ReloadOf(t) = (TIMER_PERIOD * clock) \div 2
  BY DEF ReloadOf
<1> HIDE DEF clock
<1>3. ReloadOf(t) \in 0..2 * TIMER_PERIOD
  <2>1. TIMER_PERIOD \in Nat
    BY Constants
  <2>2. (TIMER_PERIOD * 1) \div 2 \in 0..2 * TIMER_PERIOD
    BY <2>1
  <2>3. (TIMER_PERIOD * 2) \div 2 \in 0..2 * TIMER_PERIOD
    BY <2>1
  <2>4. (TIMER_PERIOD * 4) \div 2 \in 0..2 * TIMER_PERIOD
    BY <2>1
  <2>5. QED
    BY <1>1, <1>2, <2>2, <2>3, <2>4
<1>4. QED
  BY <1>3, Constants DEF RealPeriod

\* Time leaves the registers, the clock and the counters within their bounds.
LEMMA TickBoard ==
    ASSUME TypeInv, Tick
    PROVE  PlaceInv' /\ BoardInv' /\ DmaTypeOK'
<1>1. PlaceInv /\ BoardInv /\ DmaTypeOK /\ UNCHANGED <<cpu, clocked, dmaVars>>
  BY DEF TypeInv, Tick
<1>2. PlaceInv'
  BY <1>1 DEF PlaceInv, cpu, dmaVars, AllDone, CaseDone, AtStep, Now, Step
<1>3. DmaTypeOK'
  BY <1>1 DEF DmaTypeOK, dmaVars, dma
<1>4. tick' \in 0..Wrap - 1
  <2>1. Wrap \in Nat /\ Wrap > 0 /\ tick \in 0..Wrap - 1
    BY <1>1, Constants DEF BoardInv
  <2>2. \A a \in Nat : a % Wrap \in 0..Wrap - 1
    BY <2>1
  <2>3. (tick + 1) % Wrap \in 0..Wrap - 1 /\ (tick + 2) % Wrap \in 0..Wrap - 1
    BY <2>1, <2>2
  <2>4. tick' \in {tick, (tick + 1) % Wrap, (tick + 2) % Wrap}
    BY DEF Tick
  <2>5. QED
    BY <2>1, <2>3, <2>4
<1>5. lag' \in 0..Lag
  BY <1>1, Constants DEF Tick, BoardInv
<1> DEFINE over == {t \in Running : cnt[t] + 1 >= RealPeriod(t)}
<1>6. /\ cnt' = [t \in Timers |-> IF t \notin Running THEN cnt[t]
                                ELSE IF t \in over THEN 0 ELSE cnt[t] + 1]
      /\ regs' = IF over = {} THEN regs
                 ELSE [b \in DOMAIN regs |->
                        IF b \in over THEN Raise(regs, <<b, "INTFR">>, {"UIF"})[b]
                        ELSE regs[b]]
  BY DEF Tick
<1>7. over \subseteq Timers
  BY DEF Running
<1>8. cnt' \in [Timers -> 0..2 * TIMER_PERIOD]
  <2>1. \A t \in Timers :
           /\ cnt[t] \in 0..2 * TIMER_PERIOD
           /\ t \in Running /\ t \notin over => cnt[t] + 1 < RealPeriod(t)
    BY <1>1, PeriodBound, Constants DEF BoardInv
  <2> HIDE DEF over
  <2>2. \A t \in Timers : cnt'[t] \in 0..2 * TIMER_PERIOD
    <3> SUFFICES ASSUME NEW t \in Timers PROVE cnt'[t] \in 0..2 * TIMER_PERIOD
      OBVIOUS
    <3>1. TIMER_PERIOD \in Nat /\ RealPeriod(t) \in 0..2 * TIMER_PERIOD
      BY <1>1, PeriodBound, Constants
    <3>2. cnt'[t] = IF t \notin Running THEN cnt[t]
                    ELSE IF t \in over THEN 0 ELSE cnt[t] + 1
      BY <1>6
    <3>3. QED
      BY <2>1, <3>1, <3>2
  <2>3. QED
    BY <1>6, <2>2
<1> HIDE DEF over
<1>9. Fits(regs')
  <2>1. CASE over = {}
    BY <1>1, <1>6, <2>1 DEF BoardInv
  <2>2. CASE over # {}
    <3> DEFINE g(b) == Raise(regs, <<b, "INTFR">>, {"UIF"})
    <3>1. \A b \in over : Fits(g(b))
      <4> SUFFICES ASSUME NEW b \in over PROVE Fits(g(b))
        OBVIOUS
      <4>1. b \in Timers /\ {"UIF"} \in SUBSET All(<<b, "INTFR">>)
        BY <1>7, TimerRegisters
      <4>2. QED
        BY <1>1, <4>1, TimerRegisters, RaiseFits DEF BoardInv
    <3>2. /\ DOMAIN regs' = DOMAIN BitsOf
          /\ \A b \in DOMAIN BitsOf :
                regs'[b] = IF b \in over THEN g(b)[b] ELSE regs[b]
      BY <1>1, <1>6, <2>2 DEF BoardInv, Fits
    <3> HIDE DEF g
    <3>3. \A b \in over : b \in DOMAIN BitsOf
      BY <1>7, TimerRegisters
    <3>4. QED
      BY <1>1, <3>1, <3>2, <3>3 DEF BoardInv, Fits
  <2>3. QED
    BY <2>1, <2>2
<1>10. BoardInv'
  BY <1>1, <1>4, <1>5, <1>8, <1>9 DEF BoardInv, cpu, dmaVars
<1>11. QED
  BY <1>2, <1>3, <1>10

\* The steps of the dma case keep to the transfers and the time-out.
LEMMA DmaTypes ==
    ASSUME DmaTypeOK, DmaCall \/ DmaCpu \/ DmaReturn \/ (pc = "poll" /\ Transfer)
    PROVE  DmaTypeOK'
<1>1. /\ run \in 1..Len(Runs) + 1 /\ timeout \in 0..DMA_TIMEOUT_LOOPS
      /\ cntr \in 0..Elements /\ {en, tcif, htif} \subseteq BOOLEAN
      /\ run = Len(Runs) + 1 => pc = "pass"
  BY DEF DmaTypeOK
<1>2. CASE DmaCall
  BY <1>1, <1>2 DEF DmaCall, DmaTypeOK, dma
<1>3. CASE dma_fill
  BY <1>1, <1>3 DEF dma_fill, DmaTypeOK, dma
<1>4. CASE Arm
  <2>1. run \in 1..Len(Runs)
    BY <1>1, <1>4, Transfers DEF Arm
  <2>2. cntr' \in 0..Elements
    BY <1>4, <2>1, Transfers DEF Arm, Job
  <2>3. timeout' \in 0..DMA_TIMEOUT_LOOPS /\ run' = run /\ run # Len(Runs) + 1
    BY <1>4, <2>1, Transfers DEF Arm
  <2>4. pc' = "poll" /\ en' = TRUE /\ tcif' = FALSE /\ htif' = FALSE
    BY <1>4 DEF Arm, ClearFlags
  <2>5. {en, tcif, htif}' \subseteq BOOLEAN
    BY <2>4
  <2>6. QED
    BY <1>1, <2>2, <2>3, <2>4, <2>5 DEF DmaTypeOK
<1>5. CASE Poll
  BY <1>1, <1>5, Transfers DEF Poll, DmaTypeOK, dma
<1>6. CASE TimeOut
  BY <1>1, <1>6 DEF TimeOut, GiveUp, DmaTypeOK, dma
<1>7. CASE Stop
  BY <1>1, <1>7 DEF Stop, DmaTypeOK
<1>8. CASE Check
  <2>1. run \in 1..Len(Runs) /\ Len(Runs) \in Nat
    BY <1>1, <1>8, Transfers DEF Check
  <2>2. QED
    BY <1>1, <1>8, <2>1 DEF Check, NextRun, DmaTypeOK, dma
<1>9. CASE DmaReturn
  <2>1. pc' = "idle" /\ run' = 1 /\ timeout' = 0 /\ cntr' = 0
        /\ en' = FALSE /\ tcif' = FALSE /\ htif' = FALSE
    BY <1>9 DEF DmaReturn
  <2>2. /\ 1 \in 1..Len(Runs) + 1 /\ 1 # Len(Runs) + 1
        /\ 0 \in 0..DMA_TIMEOUT_LOOPS /\ 0 \in 0..Elements
    BY Transfers
  <2>3. {en, tcif, htif}' \subseteq BOOLEAN
    BY <2>1
  <2>4. QED
    BY <2>1, <2>2, <2>3 DEF DmaTypeOK
<1>10. CASE pc = "poll" /\ Transfer
  <2>1. cntr' \in 0..Elements /\ tcif' \in BOOLEAN /\ htif' \in BOOLEAN
    BY <1>1, <1>10, Transfers DEF Transfer
  <2>2. QED
    BY <1>1, <1>10, <2>1 DEF Transfer, DmaTypeOK
<1>11. QED
  BY <1>2, <1>3, <1>4, <1>5, <1>6, <1>7, <1>8, <1>9, <1>10 DEF DmaCpu

\* The program starts within its types.
LEMMA InitTypeInv == Init => TypeInv
<1> SUFFICES ASSUME Init PROVE TypeInv
  OBVIOUS
<1>1. Len(selftest_cases) \in Nat
      /\ 1 <= Len(selftest_cases) => Len(selftest_cases[1].steps) \in Nat
  BY Tables
<1>2. PlaceInv
  BY <1>1 DEF Init, DmaIdle, PlaceInv, AllDone, Now
<1>3. Fits(regs)
  <2>1. fault \in BoardFaults
    BY DEF Init
  <2>2. \A b \in DOMAIN BitsOf : \A n \in DOMAIN BitsOf[b] :
           StartUp(<<b, n>>) \subseteq BitsOf[b][n]
    <3> SUFFICES ASSUME NEW b \in DOMAIN BitsOf, NEW n \in DOMAIN BitsOf[b]
                 PROVE  StartUp(<<b, n>>) \subseteq BitsOf[b][n]
      OBVIOUS
    <3> DEFINE r == <<b, n>>
    <3>1. r \in Registers /\ r[1] = b /\ r[2] = n
      BY RegisterNames
    <3> HIDE DEF r
    <3>2. Entry[b][n] \in SUBSET All(r) /\ All(r) = BitsOf[b][n]
      BY <3>1, Tables DEF All
    <3>3. PICK v : v = Baud(r, Entry[b][n], Stuck(<<"RCC", "freq">>, Entry.RCC.freq))
      OBVIOUS
    <3>4. v \in SUBSET All(r) /\ StartUp(r) = Stuck(r, v)
      BY <3>1, <3>2, <3>3, BaudValue DEF StartUp
    <3>5. QED
      BY <2>1, <3>1, <3>2, <3>4, StuckFits DEF r
  <2>3. regs = [b \in DOMAIN Entry |->
                  [n \in DOMAIN Entry[b] |-> StartUp(<<b, n>>)]]
    BY DEF Init
  <2>4. DOMAIN Entry = DOMAIN BitsOf
        /\ \A b \in DOMAIN BitsOf : DOMAIN Entry[b] = DOMAIN BitsOf[b]
    BY DEF Entry
  <2>5. QED
    BY <2>2, <2>3, <2>4 DEF Fits
<1>4. BoardInv
  <2>1. AlwaysClocked \subseteq DOMAIN BitsOf
    BY DEF AlwaysClocked, BitsOf
  <2>2. NoTime \in [start : 0..Wrap - 1, end : 0..Wrap - 1, wait : 0..Wrap - 1]
    BY Constants DEF NoTime
  <2>3. DOMAIN saved = {}
    BY DEF Init
  <2>4. tick \in 0..Wrap - 1 /\ lag \in 0..Lag /\ cnt \in [Timers -> 0..2 * TIMER_PERIOD]
    BY Constants DEF Init
  <2>5. QED
    BY <1>3, <2>1, <2>2, <2>3, <2>4 DEF Init, BoardInv
<1>5. DmaTypeOK
  <2>1. pc = "idle" /\ run = 1 /\ timeout = 0 /\ cntr = 0
        /\ en = FALSE /\ tcif = FALSE /\ htif = FALSE
    BY DEF Init, DmaIdle
  <2>2. /\ 1 \in 1..Len(Runs) + 1 /\ 1 # Len(Runs) + 1
        /\ 0 \in 0..DMA_TIMEOUT_LOOPS /\ 0 \in 0..Elements
    BY Transfers
  <2>3. {en, tcif, htif} \subseteq BOOLEAN
    BY <2>1
  <2>4. QED
    BY <2>1, <2>2, <2>3 DEF DmaTypeOK
<1>6. QED
  BY <1>2, <1>4, <1>5 DEF TypeInv

\* And no step leaves them.
LEMMA NextTypeInv == TypeInv /\ [Next]_vars => TypeInv'
<1> SUFFICES ASSUME TypeInv, [Next]_vars PROVE TypeInv'
  OBVIOUS
<1>1. PlaceInv /\ BoardInv /\ DmaTypeOK
  BY DEF TypeInv
<1>2. CASE Return
  <2>1. case \in 1..Len(selftest_cases) /\ Len(selftest_cases) \in Nat
    BY <1>1, <1>2, Tables DEF Return, PlaceInv, AllDone
  <2>2. case' = case + 1 /\ at' = 1 /\ verdict' = "pass" /\ UNCHANGED <<look, dmaVars>>
        /\ results' = [results EXCEPT ![Now.name] = verdict]
    BY <1>2 DEF Return
  <2>3. pc = "idle"
    BY <1>1, <1>2 DEF Return, PlaceInv, AtStep
  <2>4. PlaceInv'
    <3>1. case' \in 1..Len(selftest_cases) + 1
      BY <2>1, <2>2
    <3>2. ~AllDone' => at' \in 1..Len(Now'.steps) + 1
      BY <2>2, <3>1, Tables DEF AllDone, Now
    <3>3. \A c \in DOMAIN results' : results'[c] \in {"none", "pass", "fail"}
      BY <1>1, <2>2 DEF PlaceInv
    <3>4. pc' = "idle"
      BY <2>2, <2>3 DEF dmaVars
    <3>5. QED
      BY <1>1, <2>2, <3>1, <3>2, <3>3, <3>4 DEF PlaceInv
  <2>5. BoardInv'
    <3>1. NoTime \in [start : 0..Wrap - 1, end : 0..Wrap - 1, wait : 0..Wrap - 1]
      BY Constants DEF NoTime
    <3>2. DOMAIN saved' = {}
      BY <1>2 DEF Return
    <3>3. tick' \in 0..Wrap - 1
      BY <1>2, Constants DEF Return
    <3>4. lag' \in 0..Lag /\ cnt' \in [Timers -> 0..2 * TIMER_PERIOD]
      BY <1>2, Constants DEF Return
    <3>5. QED
      BY <1>1, <1>2, <3>1, <3>2, <3>3, <3>4 DEF Return, BoardInv, dmaVars
  <2>6. DmaTypeOK'
    BY <1>1, <2>2 DEF DmaTypeOK, dmaVars, dma
  <2>7. QED
    BY <2>4, <2>5, <2>6 DEF TypeInv
<1>3. CASE AtStep /\ StepOf(Step)
  <2>1. DmaTypeOK'
    <3>1. CASE Step.op # "dma"
      BY <1>1, <1>3, <3>1, StepForm DEF DmaTypeOK, dmaVars, dma
    <3>2. CASE Step.op = "dma"
      <4>1. DmaStep(Step)
        BY <1>3, <3>2 DEF StepOf, WriteStep, ReadStep, ClockStep, SaveStep, RestoreStep,
           UpdateStep, ConvertStep, MarkStep, WindowStep, StartWait, DelayTurn,
           AwaitClock, AwaitFlag
      <4>2. QED
        BY <1>1, <4>1, DmaTypes DEF DmaStep
    <3>3. QED
      BY <3>1, <3>2
  <2>2. QED
    BY <1>3, <2>1, StepPlace, StepBoard DEF TypeInv
<1>4. CASE Tick
  BY <1>4, TickBoard DEF TypeInv
<1>5. CASE DmaMoves
  <2>1. DmaTypeOK'
    BY <1>1, <1>5, DmaTypes DEF DmaMoves
  <2>2. PlaceInv'
    BY <1>1, <1>5 DEF DmaMoves, Transfer, PlaceInv, cpu, AllDone, CaseDone, AtStep, Now, Step
  <2>3. BoardInv'
    BY <1>1, <1>5 DEF DmaMoves, Transfer, BoardInv, cpu, board
  <2>4. QED
    BY <2>1, <2>2, <2>3 DEF TypeInv
<1>6. CASE UNCHANGED vars
  <2>1. PlaceInv'
    BY <1>1, <1>6 DEF vars, cpu, dmaVars, PlaceInv, AllDone, CaseDone, AtStep, Now, Step
  <2>2. BoardInv'
    BY <1>1, <1>6 DEF vars, cpu, board, dmaVars, BoardInv
  <2>3. DmaTypeOK'
    BY <1>1, <1>6 DEF vars, dmaVars, dma, DmaTypeOK
  <2>4. QED
    BY <2>1, <2>2, <2>3 DEF TypeInv
<1>7. QED
  BY <1>2, <1>3, <1>4, <1>5, <1>6 DEF Next, Cpu

\* Every variable keeps its type, for any timing of the board and any transfers:
\* no index past a table, no register with a bit it has not, no SysTick reading or
\* counter out of range.
THEOREM TypeCorrect == Spec => []TypeOK
<1>1. TypeInv => TypeOK
  <2> SUFFICES ASSUME TypeInv PROVE TypeOK
    OBVIOUS
  <2>1. PlaceInv /\ BoardInv /\ DmaTypeOK
    BY DEF TypeInv
  <2>2. {tick, time.start, time.end, time.wait} \subseteq 0..Wrap - 1
    BY <2>1 DEF BoardInv
  <2>3. \A b \in DOMAIN BitsOf : \A n \in DOMAIN BitsOf[b] : regs[b][n] \subseteq BitsOf[b][n]
    BY <2>1 DEF BoardInv, Fits
  <2>4. QED
    BY <2>1, <2>2, <2>3 DEF TypeOK, PlaceInv, BoardInv
<1>2. QED
  BY <1>1, InitTypeInv, NextTypeInv, PTL DEF Spec
-----------------------------------------------------------------------------
(* A pass is earned: the invariants.                                       *)

\* The fault is of a bit of register r; the bit x of r is stuck at level l.
FaultOf(r) == fault.kind = "bit" /\ fault.reg = r
StuckAt(r, x, l) == FaultOf(r) /\ fault.bit = x /\ fault.level = l

\* A stuck bit is at its level, the clock frequencies are right unless one of
\* them is stuck, and what is not chosen is not converted.
FaultInv ==
    /\ fault.kind = "bit" => (fault.bit \in Value(fault.reg) <=> fault.level = 1)
    /\ ~FaultOf(<<"RCC", "freq">>) => Value(<<"RCC", "freq">>) = All(<<"RCC", "freq">>)
    /\ \A v \in Converts :
          StuckAt(<<"ADC1", v[1]>>, v[2], 0) => "400..620" \notin Value(<<"ADC1", v[3]>>)

\* While no check has failed, the blocks are clocked as the table says.
ClockInv ==
    /\ AlwaysClocked \subseteq clocked
    /\ ~AllDone /\ verdict = "pass" =>
          \A b \in DOMAIN BitsOf : ClockedAt(case, at, b) => b \in clocked

\* Only a waiting loop looks at something next.
LookInv == look # "start" => AtStep /\ Step.op \in {"delay", "await"}

\* A fault that transfer r cannot hide.
Breaks(r) ==
    /\ fault.channel = Runs[r].channel
    /\ \/ fault.kind \in {"stuck", "early", "nohalf", "nostep"}
       \/ fault.kind = "narrow" /\ Runs[r].size > 8

\* What the faulty channel has not done.
Undone ==
    /\ Kind = "stuck" => cntr = Job.count
    /\ Kind = "early" => cntr > 1 \/ (cntr = 1 /\ tcif)
    /\ Kind = "nohalf" => ~htif
    /\ Kind = "nostep" => \A i \in Index : i > 0 => dst[i] = Zero
    /\ Kind = "narrow" /\ Job.size > 8 => \A i \in Index : dst[i] = Zero \/ ~dst[i].whole

\* The transfers that are done did not show the fault, the one that runs shows it.
TransferInv ==
    /\ DOMAIN dst = Index
    /\ pc = "idle" => run = 1
    /\ \A r \in 1..run - 1 : ~Breaks(r)
    /\ pc = "pass" => run = Len(Runs) + 1
    /\ pc \in {"arm", "poll", "stop", "check"} => src = [i \in Index |-> Pattern(i, Job.round)]
    /\ pc = "arm" => dst = [i \in Index |-> Zero]
    /\ pc \in {"poll", "stop", "check"} => Undone

\* A delay by a SysTick that stands does not end.
DelayInv ==
    fault.kind = "stopped" /\ look = "clock" /\ ~AllDone /\ Step.op = "delay" =>
        time.wait = tick

\* The ticks of SysTick in a tick of the core.
Rate == IF ~SysTickCounts THEN 0 ELSE IF fault.kind = "double" THEN 2 ELSE 1
\* SysTick read x when e ticks had passed since the start of the measurement.
ReadAfter(x, e) == time.start + Rate * e \in {x, x + Wrap, x + 2 * Wrap}

\* The update flag of a timer; that its bit, or that of CEN, is not the faulty one.
Flag(t) == "UIF" \in Value(<<t, "INTFR">>)
SoundFlag(t) == ~FaultOf(<<t, "INTFR">>)
SoundEnable(t) == ~FaultOf(<<t, "CTLR1">>)

\* The timer as timer_period_test() sets it up.
SetUpInv(k, t) ==
    /\ at \in k + 2..k + 18 => t \in clocked
    /\ at \in k + 4..k + 18 /\ ~FaultOf(<<t, "PSC">>) => "4799" \in Value(<<t, "PSC">>)
    /\ at \in k + 5..k + 18 /\ ~FaultOf(<<t, "ATRLR">>) => "period" \in Value(<<t, "ATRLR">>)
    /\ at \in k + 9..k + 17 => cnt[t] < RealPeriod(t)
    /\ at \in k + 11..k + 16 /\ SoundEnable(t) => "CEN" \in Value(<<t, "CTLR1">>)
    /\ at = k + 10 /\ SoundFlag(t) => ~Flag(t)
    /\ at = k + 11 /\ StuckAt(<<t, "CTLR1">>, "CEN", 0) => ~Flag(t)
    /\ at \in k + 12..k + 18 => ~StuckAt(<<t, "INTFR">>, "UIF", 0)

\* The first update is noticed soon after the counter has restarted.
FirstInv(k, t) ==
    SoundFlag(t) /\ 2 * Lag <= RealPeriod(t) =>
        /\ at = k + 11 /\ Flag(t) => cnt[t] < lag
        /\ at = k + 12 => cnt[t] < Lag /\ lag = 0
        /\ at = k + 13 => ~Flag(t) /\ cnt[t] < Lag + lag

\* The wait for the second, e ticks after the start, d of them in the wait.
WaitInv(t, e, d) ==
    /\ ReadAfter(tick, e)
    /\ SoundFlag(t) /\ 2 * Lag <= RealPeriod(t) =>
          IF Flag(t) THEN e > RealPeriod(t) - 2 * Lag ELSE cnt[t] < 2 * Lag + e
    /\ SoundEnable(t) => IF Flag(t) THEN e < RealPeriod(t) + lag ELSE e <= cnt[t]
    /\ IF look = "start" THEN e <= lag /\ d = 0
       ELSE d <= e /\ e <= Lag + d /\ ReadAfter(time.wait, e - d)
    /\ look = "clock" => Rate * d < TIMER_WAIT + Rate * (Lag + lag)
    /\ look = "flag" => Rate * d < TIMER_WAIT + Rate * lag

\* What is measured, e ticks of the core, when the timer takes q for a period
\* and the CPU has been late by l ticks since it saw the update.
MeasuredIn(t, e, l) ==
    /\ SoundFlag(t) /\ 2 * Lag <= RealPeriod(t) => e > RealPeriod(t) - 2 * Lag
    /\ SoundEnable(t) => e < RealPeriod(t) + Lag + l
    /\ Rate * e < TIMER_WAIT + Rate * (2 * Lag + l)

\* The second update is noticed, and marked, a period after the first.
SecondInv(k, t) ==
    /\ at = k + 14 => \E e, d \in Nat : WaitInv(t, e, d)
    /\ at = k + 15 => \E e \in Nat : ReadAfter(tick, e) /\ MeasuredIn(t, e, lag)
    /\ at \in k + 16..k + 18 => \E e \in Nat : ReadAfter(time.end, e) /\ MeasuredIn(t, e, Lag)

\* All of this, in the tables where timer_period_test() is.
PeriodInv ==
    ~AllDone /\ verdict = "pass" =>
        \A t \in Timers : \A k \in 0..Len(Now.steps) :
            PeriodTestAt(case, k, t) => SetUpInv(k, t) /\ FirstInv(k, t) /\ SecondInv(k, t)

\* The period that timer_period_test(t) measures is wrong.
WrongPeriod(t) ==
    \/ fault.kind \in {"slow", "fast"} /\ fault.reg = <<t, "PSC">>
    \/ StuckAt(<<t, "PSC">>, "4799", 0) \/ StuckAt(<<t, "ATRLR">>, "period", 0)
    \/ fault.kind = "double"

\* The fault does not let step i of case c pass.
Blocks(c, i) ==
    LET s == StepsOf(c)[i]
    IN  \/ /\ fault.kind = "bit" /\ fault.level = 0
           /\ Wants(s, fault.reg, fault.bit)
        \/ /\ fault.kind = "bit" /\ fault.level = 1
           /\ Refuses(s, fault.reg, fault.bit) /\ ClockedAt(c, i, fault.reg[1])
        \/ /\ s.op = "dma" /\ \E r \in 1..Len(Runs) : Breaks(r)
        \/ /\ s.op = "delay" /\ s.ticks \in Nat \ {0} /\ fault.kind = "stopped"
        \/ \E v \in Converts : /\ StuckAt(<<"ADC1", v[1]>>, v[2], 0)
                               /\ Wants(s, <<"ADC1", v[3]>>, "400..620")
        \/ \E t \in Timers : \E k \in 0..Len(StepsOf(c)) :
              /\ PeriodTestAt(c, k, t)
              /\ \/ i = k + 11 /\ StuckAt(<<t, "CTLR1">>, "CEN", 0)
                 \/ i = k + 18 /\ WrongPeriod(t)

\* A case that has not failed has no such step behind it.
TriedInv ==
    /\ ~AllDone /\ verdict = "pass" => \A i \in 1..at - 1 : ~Blocks(case, i)
    /\ PassIsEarned /\ "timers" \in DOMAIN results

\* The inductive invariant.
EarnedInv == FaultInv /\ ClockInv /\ LookInv /\ TransferInv /\ DelayInv /\ PeriodInv /\ TriedInv
-----------------------------------------------------------------------------
(* How the registers change.                                               *)

\* The operation of a step says which action makes it.
LEMMA OpStep ==
    ASSUME AtStep, StepOf(Step)
    PROVE  /\ Step.op = "write" => WriteStep(Step)
           /\ Step.op = "read" => ReadStep(Step)
           /\ Step.op = "clock" => ClockStep(Step)
           /\ Step.op = "update" => UpdateStep(Step)
           /\ Step.op = "mark" => MarkStep(Step)
           /\ Step.op = "window" => WindowStep(Step)
           /\ Step.op = "await" => StartWait(Step) \/ AwaitClock(Step) \/ AwaitFlag(Step)
           /\ Step.op = "delay" => StartWait(Step) \/ DelayTurn(Step)
           /\ Step.op = "dma" => DmaStep(Step)
  BY DEF StepOf, WriteStep, ReadStep, ClockStep, SaveStep, RestoreStep, UpdateStep,
     ConvertStep, MarkStep, WindowStep, StartWait, DelayTurn, AwaitClock, AwaitFlag, DmaStep

\* A stuck bit is at its level, the others are as wanted.
LEMMA StuckBits ==
    ASSUME NEW r, NEW v, NEW x
    PROVE  x \in Stuck(r, v) <=>
               IF FaultOf(r) /\ fault.bit = x THEN fault.level = 1 ELSE x \in v
  BY DEF Stuck, FaultOf

\* With right clock frequencies, numbers of ticks and baud rates are those of the
\* tables.
LEMMA SoundTicks ==
    ASSUME FaultInv, ~FaultOf(<<"RCC", "freq">>)
    PROVE  (\A n : Ticks(n) = n) /\ \A r, v : Baud(r, v, regs.RCC.freq) = v
<1>1. Value(<<"RCC", "freq">>) = All(<<"RCC", "freq">>)
  BY DEF FaultInv
<1>2. BitsOf.RCC.freq = {"sysclk", "ahb", "apb1", "apb2", "adc"}
  BY DEF BitsOf
<1>3. "sysclk" \in regs.RCC.freq /\ "apb2" \in regs.RCC.freq
  BY <1>1, <1>2 DEF Value, All
<1>4. QED
  BY <1>3, BaudValue DEF Ticks

\* A fault of a timer or of SysTick is not one of a clock frequency.
LEMMA WrongIsTimer ==
    ASSUME NEW t \in Timers, WrongPeriod(t)
    PROVE  ~FaultOf(<<"RCC", "freq">>)
  BY DEF WrongPeriod, StuckAt, FaultOf, Timers

\* A write that meets no lock stores what is written.
LEMMA StoredBits ==
    ASSUME NEW r, r # <<"USART1", "CTLR2">>, NEW bits
    PROVE  Stored(r, bits) = Stuck(r, bits)
  BY DEF Stored, Locked

\* A store changes one register.
LEMMA StoreValue ==
    ASSUME BoardInv, NEW q \in Registers, NEW bits \in SUBSET All(q), Store(q, bits),
           NEW r \in Registers
    PROVE  /\ q[1] \in clocked => Value(q)' = Stored(q, bits)
           /\ r # q \/ q[1] \notin clocked => Value(r)' = Value(r)
<1>1. CASE q[1] \in clocked
  <2>1. regs' = With(regs, q, Stored(q, bits))
    BY <1>1 DEF Store, With
  <2>2. Stored(q, bits) \in SUBSET All(q) /\ Fits(regs)
    BY StoredFits DEF BoardInv
  <2>3. QED
    BY <1>1, <2>1, <2>2, OneRegister DEF Value
<1>2. CASE q[1] \notin clocked
  BY <1>2 DEF Store, Value
<1>3. QED
  BY <1>1, <1>2

\* And so does what a block itself sets.
LEMMA RaiseValue ==
    ASSUME fault \in BoardFaults, NEW f, Fits(f), NEW q \in Registers,
           NEW bits \in SUBSET All(q), NEW r \in Registers
    PROVE  /\ Raise(f, q, bits)[q[1]][q[2]] = Stuck(q, f[q[1]][q[2]] \cup bits)
           /\ r # q => Raise(f, q, bits)[r[1]][r[2]] = f[r[1]][r[2]]
<1> DEFINE v == Stuck(q, f[q[1]][q[2]] \cup bits)
<1>1. f[q[1]][q[2]] \subseteq All(q)
  BY RegisterNames DEF Fits
<1>2. v \in SUBSET All(q)
  <2>1. f[q[1]][q[2]] \cup bits \in SUBSET All(q)
    BY <1>1
  <2>2. QED
    BY <2>1, StuckFits
<1>3. Raise(f, q, bits) = With(f, q, v)
  BY DEF Raise, With
<1>5. v = Stuck(q, f[q[1]][q[2]] \cup bits)
  OBVIOUS
<1> HIDE DEF v
<1>4. /\ With(f, q, v)[q[1]][q[2]] = v
      /\ r # q => With(f, q, v)[r[1]][r[2]] = f[r[1]][r[2]]
  BY <1>2, OneRegister
<1>6. QED
  BY <1>3, <1>4, <1>5

\* The ways a step of a case changes a register.
Written(r) ==
    /\ Step.op = "write" /\ Step.reg = r /\ r[1] \in clocked
    /\ Value(r)' = Stored(r, (ReadBack(r) \ Step.mask) \cup Baud(r, Step.bits, regs.RCC.freq))
Restored(r) == Step.op = "restore" /\ Step.reg = r /\ Value(r)' = Stored(r, saved[r])
Updated(r) ==
    /\ Step.op = "update" /\ r = <<Step.tim, "INTFR">>
    /\ Value(r)' = Stuck(r, Value(r) \cup {"UIF"})
Converted(r) ==
    /\ Step.op = "convert"
    /\ r = <<"ADC1", "STATR">> \/ (r = Step.data /\ Step.ch \in Value(Step.sel))
    /\ \E v : Value(r)' = Stuck(r, v)
Stopped(r) ==
    /\ Step.op = "await" /\ r = <<Step.tim, "CTLR1">> /\ verdict' = "fail"
    /\ Value(r)' = Stored(r, Value(r) \ {"CEN"})

\* A register that a step changes is changed in one of these.
LEMMA StepRegisters ==
    ASSUME TypeInv, AtStep, StepOf(Step), NEW r \in Registers
    PROVE  \/ Value(r)' = Value(r)
           \/ Written(r) \/ Restored(r) \/ Updated(r) \/ Converted(r) \/ Stopped(r)
<1>1. BoardInv /\ IsStep(Step)
  BY StepIsOfTable DEF TypeInv
<1>2. CASE WriteStep(Step)
  <2>1. Step.reg \in Registers /\ Step.bits \subseteq All(Step.reg)
    BY <1>1, <1>2 DEF WriteStep, IsStep
  <2>2. (ReadBack(Step.reg) \ Step.mask) \cup Baud(Step.reg, Step.bits, regs.RCC.freq)
           \in SUBSET All(Step.reg)
    BY <1>1, <2>1, ReadBackFits, BaudValue
  <2>3. Store(Step.reg, (ReadBack(Step.reg) \ Step.mask)
                           \cup Baud(Step.reg, Step.bits, regs.RCC.freq))
    BY <1>2 DEF WriteStep
  <2>4. QED
    BY <1>1, <1>2, <2>1, <2>2, <2>3, StoreValue DEF WriteStep, Written
<1>3. CASE RestoreStep(Step)
  <2>1. CASE Step.reg \in DOMAIN saved
    <3>1. Step.reg \in Registers /\ saved[Step.reg] \in SUBSET All(Step.reg)
      BY <1>1, <2>1 DEF BoardInv
    <3>2. Store(Step.reg, saved[Step.reg])
      BY <1>3, <2>1 DEF RestoreStep
    <3>3. QED
      BY <1>1, <1>3, <3>1, <3>2, StoreValue DEF RestoreStep, Restored
  <2>2. CASE Step.reg \notin DOMAIN saved
    BY <1>3, <2>2 DEF RestoreStep, Value
  <2>3. QED
    BY <2>1, <2>2
<1>4. CASE UpdateStep(Step)
  <2> DEFINE q == <<Step.tim, "INTFR">>
  <2>1. q \in Registers /\ {"UIF"} \in SUBSET All(q)
    BY <1>1, <1>4, TimerRegisters DEF UpdateStep, IsStep
  <2>2. regs' = regs \/ regs' = Raise(regs, q, {"UIF"})
    BY <1>4 DEF UpdateStep
  <2>3. Step.op = "update"
    BY <1>4 DEF UpdateStep
  <2> HIDE DEF q
  <2>4. /\ Raise(regs, q, {"UIF"})[q[1]][q[2]] = Stuck(q, Value(q) \cup {"UIF"})
        /\ r # q => Raise(regs, q, {"UIF"})[r[1]][r[2]] = Value(r)
    BY <1>1, <2>1, RaiseValue DEF BoardInv, Value
  <2>5. r = q => Updated(r) \/ Value(r)' = Value(r)
    BY <2>2, <2>3, <2>4 DEF Updated, Value, q
  <2>6. QED
    BY <2>2, <2>4, <2>5 DEF Value
<1>5. CASE ConvertStep(Step)
  <2> DEFINE q == <<"ADC1", "STATR">>
             done == Raise(regs, q, {Step.flag})
             all == Raise(done, Step.data, {"400..620"})
  <2>1. Step.op = "convert" /\ regs' = IF Step.ch \in Value(Step.sel) THEN all ELSE done
    BY <1>5 DEF ConvertStep
  <2>2. /\ {Step.flag} \in SUBSET All(q) /\ Step.data \in Registers
        /\ {"400..620"} \in SUBSET All(Step.data) /\ q \in Registers
    BY <1>1, <2>1, AdcStatus DEF IsStep
  <2> HIDE DEF q
  <2>3. Fits(done)
    BY <1>1, <2>2, RaiseFits DEF BoardInv
  <2>4. /\ done[q[1]][q[2]] = Stuck(q, regs[q[1]][q[2]] \cup {Step.flag})
        /\ r # q => done[r[1]][r[2]] = Value(r)
    BY <1>1, <2>2, RaiseValue DEF BoardInv, Value, done
  <2> HIDE DEF done
  <2>5. /\ all[Step.data[1]][Step.data[2]]
             = Stuck(Step.data, done[Step.data[1]][Step.data[2]] \cup {"400..620"})
        /\ r # Step.data => all[r[1]][r[2]] = done[r[1]][r[2]]
    BY <1>1, <2>2, <2>3, RaiseValue DEF BoardInv
  <2> HIDE DEF all
  <2>6. CASE r # q /\ (r # Step.data \/ Step.ch \notin Value(Step.sel))
    BY <2>1, <2>4, <2>5, <2>6 DEF Value
  <2>7. CASE r = q \/ (r = Step.data /\ Step.ch \in Value(Step.sel))
    <3>1. \E v : regs'[r[1]][r[2]] = Stuck(r, v)
      BY <2>1, <2>4, <2>5, <2>7
    <3>2. \E v : Value(r)' = Stuck(r, v)
      BY <3>1 DEF Value
    <3>3. QED
      BY <2>1, <2>7, <3>2 DEF Converted, q
  <2>8. QED
    BY <2>6, <2>7
<1>6. CASE AwaitClock(Step)
  <2>1. <<Step.tim, "CTLR1">> \in Registers
    BY <1>1, <1>6, TimerRegisters DEF AwaitClock, IsStep
  <2>2. PICK q \in Registers : q = <<Step.tim, "CTLR1">>
    BY <2>1
  <2>3. Step.op = "await" /\ regs[Step.tim].CTLR1 = Value(q)
    BY <1>6, <2>2 DEF AwaitClock, Value
  <2>4. regs' = regs \/ (verdict' = "fail" /\ Store(q, Value(q) \ {"CEN"}))
    BY <1>6, <2>2, <2>3 DEF AwaitClock, Judge
  <2>5. Value(q) \ {"CEN"} \in SUBSET All(q)
    BY <1>1, ReadBackFits
  <2>6. CASE regs' = regs
    BY <2>6 DEF Value
  <2>7. CASE verdict' = "fail" /\ Store(q, Value(q) \ {"CEN"})
    <3>1. /\ q[1] \in clocked => Value(q)' = Stored(q, Value(q) \ {"CEN"})
          /\ r # q \/ q[1] \notin clocked => Value(r)' = Value(r)
      BY <1>1, <2>5, <2>7, StoreValue
    <3>2. QED
      BY <2>2, <2>3, <2>7, <3>1 DEF Stopped
  <2>8. QED
    BY <2>4, <2>6, <2>7
<1>7. CASE UNCHANGED regs
  BY <1>7 DEF Value
<1>8. QED
  BY <1>2, <1>3, <1>4, <1>5, <1>6, <1>7 DEF StepOf, ReadStep, ClockStep, SaveStep, MarkStep,
     WindowStep, StartWait, DelayTurn, AwaitFlag, DmaStep, board

\* The timers that overflow in a tick.
Over == {t \in Running : cnt[t] + 1 >= RealPeriod(t)}
\* They set their flag, and nothing else changes.
LEMMA TickRegisters ==
    ASSUME TypeInv, Tick, NEW r \in Registers
    PROVE  Value(r)' = IF r[1] \in Over /\ r[2] = "INTFR" THEN Stuck(r, Value(r) \cup {"UIF"})
                       ELSE Value(r)
<1>1. BoardInv /\ Over \subseteq Timers
  BY DEF TypeInv, Over, Running
<1>2. regs' = IF Over = {} THEN regs
              ELSE [b \in DOMAIN regs |->
                      IF b \in Over THEN Raise(regs, <<b, "INTFR">>, {"UIF"})[b]
                      ELSE regs[b]]
  BY DEF Tick, Over
<1> HIDE DEF Over
<1>3. r[1] \in DOMAIN regs /\ r = <<r[1], r[2]>>
  BY <1>1, RegisterNames DEF BoardInv, Fits
<1>4. CASE r[1] \notin Over
  BY <1>2, <1>3, <1>4 DEF Value
<1>5. CASE r[1] \in Over
  <2> DEFINE q == <<r[1], "INTFR">>
  <2>1. q \in Registers /\ {"UIF"} \in SUBSET All(q)
    BY <1>1, <1>5, TimerRegisters
  <2>2. regs'[r[1]][r[2]] = Raise(regs, q, {"UIF"})[r[1]][r[2]]
    BY <1>2, <1>3, <1>5
  <2>3. q = r <=> r[2] = "INTFR"
    BY <1>3
  <2> HIDE DEF q
  <2>4. /\ Raise(regs, q, {"UIF"})[q[1]][q[2]] = Stuck(q, Value(q) \cup {"UIF"})
        /\ r # q => Raise(regs, q, {"UIF"})[r[1]][r[2]] = Value(r)
    BY <1>1, <2>1, RaiseValue DEF BoardInv, Value
  <2>5. QED
    BY <1>5, <2>2, <2>3, <2>4 DEF Value
<1>6. QED
  BY <1>4, <1>5


\* The fault stays what it is.
LEMMA FaultStays == ASSUME [Next]_vars PROVE fault' = fault
<1>1. CASE Return
  BY <1>1 DEF Return, dmaVars
<1>2. CASE AtStep /\ StepOf(Step)
  BY <1>2, StepForm
<1>3. CASE Tick
  BY <1>3 DEF Tick, dmaVars
<1>4. CASE DmaMoves
  BY <1>4 DEF DmaMoves, Transfer
<1>5. CASE UNCHANGED vars
  BY <1>5 DEF vars, dmaVars
<1>6. QED
  BY <1>1, <1>2, <1>3, <1>4, <1>5 DEF Next, Cpu

\* Whatever changes a register, a stuck bit stays at its level.
LEMMA RegisterNext ==
    ASSUME TypeInv, [Next]_vars, NEW r \in Registers
    PROVE  Value(r)' = Value(r) \/ \E v : Value(r)' = Stuck(r, v)
<1>1. \A w : Stored(r, w) = Stuck(r, (w \ Locked(r)) \cup (Value(r) \cap Locked(r)))
  BY DEF Stored
<1>2. CASE Return
  BY <1>2 DEF Return, Value
<1>3. CASE AtStep /\ StepOf(Step)
  BY <1>1, <1>3, StepRegisters DEF Written, Restored, Updated, Converted, Stopped
<1>4. CASE Tick
  BY <1>4, TickRegisters
<1>5. CASE DmaMoves \/ UNCHANGED vars
  BY <1>5 DEF DmaMoves, vars, board, Value
<1>6. QED
  BY <1>2, <1>3, <1>4, <1>5 DEF Next, Cpu

\* Only a step of the tables, or a timer, changes a register.
LEMMA RegisterCause ==
    ASSUME TypeInv, [Next]_vars, NEW r \in Registers, Value(r)' # Value(r)
    PROVE  \/ /\ AtStep /\ StepOf(Step)
              /\ Written(r) \/ Restored(r) \/ Updated(r) \/ Converted(r) \/ Stopped(r)
           \/ Tick /\ r[1] \in Over /\ r[2] = "INTFR"
<1>1. CASE Return
  BY <1>1 DEF Return, Value
<1>2. CASE AtStep /\ StepOf(Step)
  BY <1>2, StepRegisters
<1>3. CASE Tick
  BY <1>3, TickRegisters
<1>4. CASE DmaMoves \/ UNCHANGED vars
  BY <1>4 DEF DmaMoves, vars, board, Value
<1>5. QED
  BY <1>1, <1>2, <1>3, <1>4 DEF Next, Cpu

\* The step the CPU is at, in the table of its case.
LEMMA StepOfCase ==
    ASSUME PlaceInv, AtStep
    PROVE  /\ case \in CaseIndex /\ at \in StepIndex(case) /\ StepsOf(case)[at] = Step
           /\ StepsOf(case) = Now.steps /\ Len(StepsOf(case)) \in Nat
  BY StepIsOfTable DEF CaseIndex, StepIndex, StepsOf, Step, Now

\* The registers that are not of a table's steps alone.
LEMMA SpecialRegisters ==
    /\ <<"RCC", "freq">> \in Registers /\ "400..620" \notin All(<<"RCC", "freq">>)
    /\ \A v \in Converts : /\ <<"ADC1", v[1]>> \in Registers
                           /\ <<"ADC1", v[3]>> \in Registers
                           /\ v[1] # v[3] /\ v[3] \notin {"STATR", "CTLR1", "INTFR"}
<1>1. "RCC" \in DOMAIN BitsOf /\ "ADC1" \in DOMAIN BitsOf
  BY DEF BitsOf
<1>2. "freq" \in DOMAIN BitsOf.RCC
      /\ BitsOf.RCC.freq = {"sysclk", "ahb", "apb1", "apb2", "adc"}
  BY DEF BitsOf
<1>3. {"RSQR3", "ISQR", "RDATAR", "IDATAR1"} \subseteq DOMAIN BitsOf.ADC1
  BY DEF BitsOf
<1>4. <<"RCC", "freq">> \in Registers /\ "400..620" \notin All(<<"RCC", "freq">>)
  BY <1>1, <1>2, RegisterNames DEF All
<1>5. ASSUME NEW v \in Converts
      PROVE  /\ v[1] \in {"RSQR3", "ISQR"} /\ v[3] \in {"RDATAR", "IDATAR1"}
  BY DEF Converts
<1>6. \A n \in {"RSQR3", "ISQR", "RDATAR", "IDATAR1"} : <<"ADC1", n>> \in Registers
  BY <1>1, <1>3, RegisterNames
<1>7. QED
  BY <1>4, <1>5, <1>6

\* FaultInv is inductive.
LEMMA FaultNext ==
    ASSUME TypeInv, FaultInv, [Next]_vars
    PROVE  FaultInv'
<1>1. fault' = fault /\ PlaceInv /\ BoardInv /\ fault \in BoardFaults
  BY FaultStays DEF TypeInv, BoardInv
<1>2. ASSUME fault.kind = "bit"
      PROVE  fault.bit \in Value(fault.reg)' <=> fault.level = 1
  <2>1. fault.reg \in Registers
    BY <1>1, <1>2, StuckBit
  <2>2. PICK r \in Registers : r = fault.reg
    BY <2>1
  <2>3. fault.bit \in Value(r) <=> fault.level = 1
    BY <1>2, <2>2 DEF FaultInv
  <2>4. Value(r)' = Value(r) \/ \E v : Value(r)' = Stuck(r, v)
    BY RegisterNext
  <2>5. \A v : fault.bit \in Stuck(r, v) <=> fault.level = 1
    BY <1>2, <2>2 DEF Stuck
  <2>6. fault.bit \in Value(r)' <=> fault.level = 1
    BY <2>3, <2>4, <2>5
  <2>7. QED
    BY <1>1, <2>2, <2>6
<1>3. ASSUME ~FaultOf(<<"RCC", "freq">>)
      PROVE  Value(<<"RCC", "freq">>)' = All(<<"RCC", "freq">>)
  <2> DEFINE r == <<"RCC", "freq">>
  <2>1. r \in Registers /\ "400..620" \notin All(r)
    BY SpecialRegisters
  <2>2. r[1] = "RCC" /\ r[2] = "freq" /\ r # BaudRegister /\ \A t, n : n # "freq" => r # <<t, n>>
    BY DEF BaudRegister
  <2>3. Value(r) = All(r) /\ ~FaultOf(r)
    BY <1>3 DEF FaultInv
  <2>4. \A w : Stored(r, w) = w
    BY <2>2, <2>3, StoredBits DEF Stuck, FaultOf
  <2>5. AtStep => /\ Step.op \in {"write", "restore"} /\ Step.reg = r =>
                         Step.op = "write" /\ Step.bits = All(r)
                  /\ Step.op = "convert" => Step.data # r
    BY <1>1, <2>1, StepOfCase, StepIsOfTable, PeriodsAreTried DEF PeriodsAreTried, IsStep
  <2> HIDE DEF r
  <2>6. ReadBack(r) \subseteq All(r)
    BY <1>1, <2>1, ReadBackFits
  <2>7. ASSUME Value(r)' # Value(r) PROVE Value(r)' = All(r)
    <3>1. AtStep /\ Written(r)
      BY <2>1, <2>2, <2>5, <2>7, RegisterCause DEF Restored, Updated, Converted, Stopped
    <3>2. Baud(r, Step.bits, regs.RCC.freq) = Step.bits
      BY <2>2, BaudValue
    <3>3. QED
      BY <2>4, <2>5, <2>6, <3>1, <3>2 DEF Written
  <2>8. QED
    BY <2>3, <2>7 DEF r
<1>4. ASSUME NEW v \in Converts, StuckAt(<<"ADC1", v[1]>>, v[2], 0)
      PROVE  "400..620" \notin Value(<<"ADC1", v[3]>>)'
  <2>1. PICK r \in Registers : r = <<"ADC1", v[3]>>
    BY SpecialRegisters
  <2>2. PICK q \in Registers : q = <<"ADC1", v[1]>>
    BY SpecialRegisters
  <2>3. "400..620" \notin Value(r) /\ v[2] \notin Value(q)
    BY <1>4, <2>1, <2>2 DEF FaultInv, StuckAt, FaultOf
  <2>4. r # <<"ADC1", "STATR">> /\ \A t : r # <<t, "CTLR1">> /\ r # <<t, "INTFR">>
    BY <2>1, SpecialRegisters
  <2>5. AtStep => /\ Step.op \in {"write", "restore"} => Step.reg # r
                  /\ Step.op = "convert" /\ Step.data = r => Step.sel = q /\ Step.ch = v[2]
    BY <1>1, <2>1, <2>2, StepOfCase, ConversionsAreTried DEF ConversionsAreTried
  <2>6. Value(r)' = Value(r)
    <3>1. r[2] # "INTFR"
      BY <2>1, SpecialRegisters
    <3>2. QED
      BY <2>3, <2>4, <2>5, <3>1, RegisterCause DEF Written, Restored, Updated, Converted, Stopped
  <2>7. QED
    BY <2>1, <2>3, <2>6
<1>5. QED
  BY <1>1, <1>2, <1>3, <1>4 DEF FaultInv, FaultOf, StuckAt

\* The start-up code leaves what Entry says, but for a baud rate of a wrong clock
\* frequency.
LEMMA StartUpIs ==
    ASSUME NEW r, r # BaudRegister \/ ~FaultOf(<<"RCC", "freq">>)
    PROVE  StartUp(r) = Stuck(r, Entry[r[1]][r[2]])
<1>1. CASE r # BaudRegister
  BY <1>1, BaudValue DEF StartUp
<1>2. CASE ~FaultOf(<<"RCC", "freq">>)
  <2>1. Stuck(<<"RCC", "freq">>, Entry.RCC.freq) = Entry.RCC.freq
    BY <1>2 DEF Stuck, FaultOf
  <2>2. Entry.RCC.freq = {"sysclk", "ahb", "apb1", "apb2", "adc"}
    BY DEF Entry, BitsOf
  <2>3. QED
    BY <2>1, <2>2, BaudValue DEF StartUp
<1>3. QED
  BY <1>1, <1>2

\* What a register holds when the program starts.
LEMMA InitValue ==
    ASSUME Init, NEW r \in Registers
    PROVE  Value(r) = StartUp(r)
<1>1. r[1] \in DOMAIN Entry /\ r[2] \in DOMAIN Entry[r[1]] /\ r = <<r[1], r[2]>>
  BY RegisterNames DEF Entry
<1>2. regs = [b \in DOMAIN Entry |-> [n \in DOMAIN Entry[b] |-> StartUp(<<b, n>>)]]
  BY DEF Init
<1>3. QED
  BY <1>1, <1>2 DEF Value

\* And FaultInv holds then.
LEMMA InitFault == ASSUME Init PROVE FaultInv
<1>1. fault \in BoardFaults
  BY DEF Init
<1>2. ASSUME fault.kind = "bit" PROVE fault.bit \in Value(fault.reg) <=> fault.level = 1
  <2>1. fault.reg \in Registers
    BY <1>1, <1>2, StuckBit
  <2>2. QED
    BY <1>2, <2>1, InitValue DEF StartUp, Stuck
<1>3. ASSUME ~FaultOf(<<"RCC", "freq">>)
      PROVE  Value(<<"RCC", "freq">>) = All(<<"RCC", "freq">>)
  <2>1. Entry.RCC.freq = BitsOf.RCC.freq
    BY SpecialRegisters, RegisterNames DEF Entry
  <2>2. Value(<<"RCC", "freq">>) = Stuck(<<"RCC", "freq">>, Entry.RCC.freq)
    BY SpecialRegisters, InitValue, StartUpIs DEF BaudRegister
  <2>3. QED
    BY <1>3, <2>1, <2>2 DEF Stuck, FaultOf, All
<1>4. ASSUME NEW v \in Converts, StuckAt(<<"ADC1", v[1]>>, v[2], 0)
      PROVE  "400..620" \notin Value(<<"ADC1", v[3]>>)
  <2>1. PICK r \in Registers : r = <<"ADC1", v[3]>>
    BY SpecialRegisters
  <2>2. v[3] \in {"RDATAR", "IDATAR1"}
    BY DEF Converts
  <2>3. Entry[r[1]][r[2]] = {}
    BY <2>1, <2>2, RegisterNames DEF Entry
  <2>4. ~FaultOf(r)
    BY <1>4, <2>1, SpecialRegisters DEF StuckAt, FaultOf
  <2>5. QED
    BY <2>1, <2>3, <2>4, InitValue, StartUpIs DEF Stuck, FaultOf, BaudRegister
<1>5. QED
  BY <1>2, <1>3, <1>4 DEF FaultInv

\* LookInv is inductive.
LEMMA LookNext == ASSUME TypeInv, LookInv, [Next]_vars PROVE LookInv'
<1>1. PlaceInv
  BY DEF TypeInv
<1>2. CASE Return
  BY <1>2 DEF Return, LookInv, AtStep
<1>3. CASE AtStep /\ StepOf(Step)
  <2>1. UNCHANGED <<at, case>> => AtStep' /\ Step' = Step
    BY <1>3 DEF AtStep, AllDone, CaseDone, Step, Now
  <2>2. case' = case
    BY <1>3, StepForm
  <2>3. CASE look' = look /\ Step.op \notin {"delay", "await"}
    BY <2>3 DEF LookInv
  <2>4. CASE UNCHANGED at /\ Step.op \in {"delay", "await"}
    BY <2>1, <2>2, <2>4 DEF LookInv
  <2>5. CASE look' = "start"
    BY <2>5 DEF LookInv
  <2>6. QED
    BY <1>3, <2>3, <2>4, <2>5 DEF StepOf, WriteStep, ReadStep, ClockStep, SaveStep,
       RestoreStep, UpdateStep, ConvertStep, MarkStep, WindowStep, StartWait, DelayTurn,
       AwaitClock, AwaitFlag, DmaStep
<1>4. CASE Tick \/ DmaMoves \/ UNCHANGED vars
  BY <1>4 DEF Tick, DmaMoves, vars, cpu, LookInv, AtStep, AllDone, CaseDone, Step, Now
<1>5. QED
  BY <1>2, <1>3, <1>4 DEF Next, Cpu

\* A step of a case goes to the next one only with the verdict it had.
LEMMA StepGoes ==
    ASSUME PlaceInv, AtStep, StepOf(Step), verdict' = "pass"
    PROVE  verdict = "pass" /\ case' = case /\ (at' = at \/ at' = at + 1)
<1>1. case' = case /\ (GoOn \/ Judge(TRUE) \/ Judge(FALSE) \/ UNCHANGED <<at, verdict>>)
  BY StepForm
<1>2. QED
  BY <1>1 DEF GoOn, Judge

\* A step adds to the clocked blocks, or takes from them, the one it says.
LEMMA ClockedAfter ==
    ASSUME NEW c, NEW i \in Nat, i > 0, NEW b, b \notin AlwaysClocked, ClockedAt(c, i + 1, b)
    PROVE  \/ SetsClock(StepsOf(c)[i], b, TRUE)
           \/ ClockedAt(c, i, b) /\ ~SetsClock(StepsOf(c)[i], b, FALSE)
<1>1. PICK n : n = i + 1
  OBVIOUS
<1>2. PICK j \in 1..i :
         /\ SetsClock(StepsOf(c)[j], b, TRUE)
         /\ \A m \in j + 1..i : ~SetsClock(StepsOf(c)[m], b, FALSE)
  <2>1. ClockedAt(c, n, b)
    BY Zenon, <1>1
  <2>2. \E j \in 1..n - 1 :
           /\ SetsClock(StepsOf(c)[j], b, TRUE)
           /\ \A m \in j + 1..n - 1 : ~SetsClock(StepsOf(c)[m], b, FALSE)
    BY Zenon, <2>1 DEF ClockedAt
  <2>3. n - 1 = i
    BY <1>1
  <2>4. QED
    BY Zenon, <2>2, <2>3
<1>3. CASE j = i
  BY <1>2, <1>3
<1>4. CASE j # i
  <2>1. j \in 1..i - 1 /\ i \in j + 1..i /\ j + 1..i - 1 \subseteq j + 1..i
    BY <1>4
  <2>2. QED
    BY <1>2, <2>1 DEF ClockedAt
<1>5. QED
  BY <1>3, <1>4

\* ClockInv is inductive.
LEMMA ClockNext == ASSUME TypeInv, ClockInv, [Next]_vars PROVE ClockInv'
<1>1. PlaceInv /\ AlwaysClocked \subseteq clocked
  BY DEF TypeInv, ClockInv
<1>2. CASE Return
  <2>1. clocked' = clocked /\ at' = 1
    BY <1>2 DEF Return
  <2>2. \A c, b : ClockedAt(c, 1, b) => b \in AlwaysClocked
    BY DEF ClockedAt
  <2>3. QED
    BY <1>1, <2>1, <2>2 DEF ClockInv
<1>3. CASE AtStep /\ StepOf(Step)
  <2>1. /\ case \in CaseIndex /\ at \in StepIndex(case) /\ StepsOf(case)[at] = Step
        /\ at \in Nat /\ at >= 1
    BY <1>1, <1>3, StepOfCase DEF StepIndex
  <2>2. \A b \in AlwaysClocked : ~SetsClock(Step, b, FALSE)
    BY <2>1, BitsAreTried DEF BitsAreTried
  <2>3. /\ \A b : SetsClock(Step, b, TRUE) => b \in clocked'
        /\ \A b \in clocked : ~SetsClock(Step, b, FALSE) => b \in clocked'
    <3>1. CASE ClockStep(Step)
      BY <3>1 DEF ClockStep, SetsClock
    <3>2. CASE clocked' = clocked /\ Step.op # "clock"
      BY <3>2 DEF SetsClock
    <3>3. QED
      BY <1>3, <3>1, <3>2 DEF StepOf, WriteStep, ReadStep, ClockStep, SaveStep,
         RestoreStep, UpdateStep, ConvertStep, MarkStep, WindowStep, StartWait, DelayTurn,
         AwaitClock, AwaitFlag, DmaStep, board
  <2>4. AlwaysClocked \subseteq clocked'
    BY <1>1, <2>2, <2>3
  <2>5. ASSUME verdict' = "pass", NEW b \in DOMAIN BitsOf, ClockedAt(case', at', b)
        PROVE  b \in clocked'
    <3>1. verdict = "pass" /\ case' = case /\ (at' = at \/ at' = at + 1)
      BY <1>1, <1>3, <2>5, StepGoes
    <3>2. ClockedAt(case, at, b) => b \in clocked
      BY <1>3, <3>1 DEF ClockInv, AtStep
    <3>3. CASE b \in AlwaysClocked
      BY <2>4, <3>3
    <3>4. CASE at' = at /\ b \notin AlwaysClocked
      <4>1. b \in clocked
        BY <2>5, <3>1, <3>2, <3>4
      <4>2. CASE ~SetsClock(Step, b, FALSE)
        BY <2>3, <4>1, <4>2
      <4>3. CASE SetsClock(Step, b, FALSE)
        <5>1. ClockStep(Step)
          BY <1>3, <4>3, OpStep DEF SetsClock
        <5>2. QED
          BY <2>1, <3>4, <5>1 DEF ClockStep, GoOn
      <4>4. QED
        BY <4>2, <4>3
    <3>5. CASE at' = at + 1 /\ b \notin AlwaysClocked
      <4>1. ClockedAt(case, at + 1, b)
        BY Zenon, <2>5, <3>1, <3>5
      <4>4. at \in Nat /\ at > 0
        BY <2>1
      <4>5. \/ SetsClock(StepsOf(case)[at], b, TRUE)
            \/ ClockedAt(case, at, b) /\ ~SetsClock(StepsOf(case)[at], b, FALSE)
        BY Zenon, <3>5, <4>1, <4>4, ClockedAfter
      <4>2. \/ SetsClock(Step, b, TRUE)
            \/ ClockedAt(case, at, b) /\ ~SetsClock(Step, b, FALSE)
        BY Zenon, <2>1, <4>5
      <4>3. QED
        BY <2>3, <3>2, <4>2
    <3>6. QED
      BY <3>1, <3>3, <3>4, <3>5
  <2>6. QED
    BY <2>4, <2>5 DEF ClockInv
<1>4. CASE Tick \/ DmaMoves \/ UNCHANGED vars
  <2>1. UNCHANGED <<clocked, case, at, verdict>>
    BY <1>4 DEF Tick, DmaMoves, vars, cpu, board
  <2>2. QED
    BY <2>1 DEF ClockInv, AllDone
<1>5. QED
  BY <1>2, <1>3, <1>4 DEF Next, Cpu

\* DelayInv is inductive.
LEMMA DelayNext == ASSUME TypeInv, LookInv, DelayInv, [Next]_vars PROVE DelayInv'
<1>1. fault' = fault /\ PlaceInv
  BY FaultStays DEF TypeInv
<1>2. SUFFICES ASSUME fault.kind = "stopped", look' = "clock", ~AllDone', Step'.op = "delay"
               PROVE  time'.wait = tick'
  BY <1>1 DEF DelayInv
<1>3. CASE Return
  BY <1>2, <1>3 DEF Return, LookInv, AtStep
<1>4. CASE AtStep /\ StepOf(Step)
  <2>1. case' = case
    BY <1>4, StepForm
  <2>2. CASE StartWait(Step)
    <3>1. time' = [time EXCEPT !.wait = tick] /\ tick' = tick
      BY <2>2 DEF StartWait, board
    <3>2. "wait" \in DOMAIN time
      BY DEF TypeInv, BoardInv
    <3>3. QED
      BY <3>1, <3>2
  <2>3. CASE Step.op = "delay" /\ ~StartWait(Step)
    <3>1. DelayTurn(Step)
      BY <1>4, <2>3, OpStep
    <3>2. UNCHANGED <<at, verdict, look>> /\ time' = time /\ tick' = tick
      BY <1>2, <3>1 DEF DelayTurn
    <3>3. QED
      BY <1>2, <1>4, <2>1, <2>3, <3>2 DEF DelayInv, AtStep
  <2>4. CASE Step.op = "await" /\ ~StartWait(Step)
    <3>1. at' = at
      BY <1>2, <1>4, <2>4, OpStep DEF AwaitClock, AwaitFlag
    <3>2. QED
      BY <1>2, <2>1, <2>4, <3>1 DEF Step, Now
  <2>5. CASE Step.op \notin {"delay", "await"}
    <3>1. look = "start"
      BY <2>5 DEF LookInv
    <3>2. look' = look
      BY <1>4, <2>5 DEF StepOf, WriteStep, ReadStep, ClockStep, SaveStep,
         RestoreStep, UpdateStep, ConvertStep, MarkStep, WindowStep, StartWait, DelayTurn,
         AwaitClock, AwaitFlag, DmaStep
    <3>3. QED
      BY <1>2, <3>1, <3>2
  <2>6. QED
    BY <2>2, <2>3, <2>4, <2>5
<1>5. CASE Tick \/ DmaMoves \/ UNCHANGED vars
  <2>1. UNCHANGED <<look, case, at, time>>
    BY <1>5 DEF Tick, DmaMoves, vars, cpu
  <2>2. tick' = tick
    BY <1>2, <1>5 DEF Tick, DmaMoves, vars, board, SysTickCounts
  <2>3. QED
    BY <1>2, <2>1, <2>2 DEF DelayInv, AllDone, Step, Now
<1>6. QED
  BY <1>3, <1>4, <1>5 DEF Next, Cpu

\* LookInv, ClockInv and DelayInv hold when the program starts.
LEMMA InitPlaces == ASSUME Init PROVE LookInv /\ ClockInv /\ DelayInv
<1>1. look = "start" /\ clocked = AlwaysClocked /\ at = 1
  BY DEF Init
<1>2. \A c, b : ClockedAt(c, 1, b) => b \in AlwaysClocked
  BY DEF ClockedAt
<1>3. QED
  BY <1>1, <1>2 DEF LookInv, ClockInv, DelayInv

-----------------------------------------------------------------------------
(* The transfers.                                                          *)

\* The transfer that is made, and what is on its channel.
LEMMA JobFacts ==
    ASSUME run \in 1..Len(Runs)
    PROVE  /\ Job.count \in Nat /\ Job.count >= 2 /\ Job.size \in {8, 16, 32}
           /\ Elements \in Nat /\ Elements >= 2 /\ Job.count <= Elements
           /\ 0 \in Index /\ 1 \in Index
           /\ Breaks(run) => /\ Kind = fault.kind
                             /\ \/ Kind \in {"stuck", "early", "nohalf", "nostep"}
                                \/ Kind = "narrow" /\ Job.size > 8
<1>1. /\ Job.count \in Nat /\ Job.count >= 2 /\ Job.size \in {8, 16, 32}
      /\ Elements \in Nat /\ Elements >= 2 /\ Job.count <= Elements
  BY Transfers DEF Job
<1>2. QED
  BY <1>1 DEF Index, Breaks, Kind, Job

\* A transfer of a broken engine ends with something wrong.
LEMMA BadIsSeen ==
    ASSUME DmaTypeOK, TransferInv, pc = "check", Breaks(run)
    PROVE  ~Good
<1>1. run \in 1..Len(Runs)
  BY Transfers DEF DmaTypeOK
<1>2. /\ Job.count \in Nat /\ Job.count >= 2 /\ 0 \in Index /\ 1 \in Index
      /\ \/ Kind \in {"stuck", "early", "nohalf", "nostep"}
         \/ Kind = "narrow" /\ Job.size > 8
  BY <1>1, JobFacts
<1>3. Undone /\ src = [i \in Index |-> Pattern(i, Job.round)] /\ cntr \in Nat
  BY DEF TransferInv, DmaTypeOK
<1>4. SUFFICES ASSUME Good PROVE FALSE
  OBVIOUS
<1>5. cntr = 0 /\ htif /\ dst[0] = src[0] /\ dst[1] = src[1]
  BY <1>2, <1>4 DEF Good, dma_verify
<1>6. src[0].whole /\ src[0] # Zero /\ src[1] # Zero
  BY <1>2, <1>3 DEF Pattern, Zero
<1>7. QED
  BY <1>2, <1>3, <1>5, <1>6 DEF Undone

\* A move of the engine leaves undone what it cannot do.
LEMMA MoveUndone ==
    ASSUME DmaTypeOK, TransferInv, pc = "poll", Transfer
    PROVE  DOMAIN dst' = Index /\ Undone'
<1>1. run \in 1..Len(Runs)
  BY Transfers DEF DmaTypeOK
<1>2. /\ Job.count \in Nat /\ Undone /\ src = [i \in Index |-> Pattern(i, Job.round)]
      /\ DOMAIN dst = Index /\ cntr \in Nat /\ tcif \in BOOLEAN
  BY <1>1, JobFacts DEF TransferInv, DmaTypeOK
<1>3. /\ UNCHANGED <<pc, run, timeout, src, en, fault>> /\ Kind' = Kind /\ Job' = Job
      /\ cntr > 0 /\ Kind # "stuck" /\ ~(Kind = "early" /\ tcif) /\ cntr' = cntr - 1
  BY DEF Transfer, Kind, Job
<1> DEFINE to == IF Kind = "nostep" THEN 0 ELSE Moved
           low == Kind = "narrow" /\ Job.size > 8
           e == [src[Moved] EXCEPT !.whole = ~low]
<1>4. dst' = [dst EXCEPT ![to] = e]
  BY DEF Transfer
<1>5. Kind = "early" => cntr' > 1 \/ (cntr' = 1 /\ tcif')
  <2>1. ASSUME Kind = "early" PROVE cntr > 1
    BY <1>2, <1>3, <2>1 DEF Undone
  <2>2. Kind = "early" /\ cntr' = 1 => tcif'
    BY <1>3 DEF Transfer
  <2>3. QED
    BY <1>2, <1>3, <2>1, <2>2
<1>6. Kind = "nohalf" => ~htif'
  BY <1>2 DEF Transfer, Undone
<1>7. Kind = "nostep" => \A i \in Index : i > 0 => dst'[i] = Zero
  BY <1>2, <1>4 DEF Undone
<1>8. low => \A i \in Index : dst'[i] = Zero \/ ~dst'[i].whole
  <2> SUFFICES ASSUME low, NEW i \in Index PROVE dst'[i] = Zero \/ ~dst'[i].whole
    OBVIOUS
  <2>1. dst[i] = Zero \/ ~dst[i].whole
    BY <1>2 DEF Undone
  <2>2. CASE i = Moved
    <3>1. dst'[i] = e
      BY <1>2, <1>4, <2>2
    <3>2. src[Moved] = Pattern(Moved, Job.round)
      BY <1>2, <2>2
    <3>3. ~e.whole
      BY <3>2 DEF Pattern
    <3>4. QED
      BY <3>1, <3>3
  <2>3. CASE i # Moved
    BY <1>2, <1>4, <2>1, <2>3
  <2>4. QED
    BY <2>2, <2>3
<1>9. DOMAIN dst' = Index
  BY <1>2, <1>4
<1> HIDE DEF e, to
<1>10. QED
  BY <1>3, <1>5, <1>6, <1>7, <1>8, <1>9 DEF Undone

\* TransferInv is inductive.
LEMMA TransferStep ==
    ASSUME DmaTypeOK, TransferInv, DmaCall \/ DmaCpu \/ DmaReturn \/ (pc = "poll" /\ Transfer)
    PROVE  TransferInv'
<1>1. /\ DOMAIN dst = Index /\ Len(Runs) \in Nat /\ run \in 1..Len(Runs) + 1
      /\ \A r \in 1..run - 1 : ~Breaks(r)
      /\ pc # "pass" => run \in 1..Len(Runs)
  BY Transfers DEF TransferInv, DmaTypeOK
<1>2. fault' = fault /\ \A r : Breaks(r)' <=> Breaks(r)
  <2>1. fault' = fault
    BY DEF DmaCall, DmaCpu, dma_fill, Arm, Poll, TimeOut, Stop, Check, DmaReturn, Transfer
  <2>2. QED
    BY <2>1 DEF Breaks
<1>3. CASE DmaCall
  <2>1. /\ UNCHANGED <<run, src, dst, cntr, tcif, htif>> /\ pc = "idle" /\ pc' = "fill"
    BY <1>3 DEF DmaCall, dma
  <2>2. QED
    BY <1>1, <1>2, <2>1 DEF TransferInv
<1>4. CASE dma_fill
  <2>1. /\ UNCHANGED run /\ pc = "fill" /\ pc' = "arm" /\ Job' = Job
        /\ src' = [i \in Index |-> Pattern(i, Job.round)] /\ dst' = [i \in Index |-> Zero]
    BY <1>4 DEF dma_fill, Job
  <2>2. QED
    BY <1>1, <1>2, <2>1 DEF TransferInv
<1>5. CASE Arm
  <2>1. /\ UNCHANGED <<run, src, dst>> /\ pc = "arm" /\ pc' = "poll" /\ Job' = Job
        /\ Kind' = Kind /\ cntr' = Job.count /\ ~htif'
    BY <1>2, <1>5 DEF Arm, Job, Kind, ClearFlags
  <2>2. Job.count >= 2 /\ Job.count \in Nat
    BY <1>1, <2>1, JobFacts
  <2>3. dst' = [i \in Index |-> Zero]
    BY <2>1 DEF TransferInv
  <2>4. Undone'
    BY <2>1, <2>2, <2>3 DEF Undone
  <2>5. QED
    BY <1>1, <1>2, <2>1, <2>4 DEF TransferInv
<1>6. CASE Poll \/ TimeOut \/ Stop
  <2>1. /\ UNCHANGED <<run, src, dst, cntr, tcif, htif>> /\ pc \in {"poll", "stop"}
        /\ pc' \in {"poll", "stop", "check"} /\ Job' = Job /\ Kind' = Kind
    BY <1>2, <1>6 DEF Poll, TimeOut, GiveUp, Stop, dma, Job, Kind
  <2>2. Undone'
    BY <2>1 DEF TransferInv, Undone
  <2>3. QED
    BY <1>1, <1>2, <2>1, <2>2 DEF TransferInv
<1>7. CASE Check
  <2>1. CASE ~Good
    <3>1. UNCHANGED <<run, dst>> /\ pc' = "fail"
      BY <1>7, <2>1 DEF Check
    <3>2. QED
      BY <1>1, <1>2, <3>1 DEF TransferInv
  <2>2. CASE Good
    <3>1. run' = run + 1 /\ pc' = NextRun /\ UNCHANGED dst /\ pc = "check"
      BY <1>7, <2>2 DEF Check
    <3>2. ~Breaks(run)
      BY <2>2, <3>1, BadIsSeen
    <3>3. \A r \in 1..run' - 1 : ~Breaks(r)
      BY <1>1, <3>1, <3>2
    <3>4. pc' \in {"fill", "pass"} /\ (pc' = "pass" => run' = Len(Runs) + 1)
      BY <1>1, <3>1 DEF NextRun
    <3>5. QED
      BY <1>1, <1>2, <3>1, <3>3, <3>4 DEF TransferInv
  <2>3. QED
    BY <2>1, <2>2
<1>8. CASE DmaReturn
  <2>1. run' = 1 /\ pc' = "idle" /\ dst' = [i \in Index |-> Zero]
    BY <1>8 DEF DmaReturn
  <2>2. QED
    BY <2>1 DEF TransferInv
<1>9. CASE pc = "poll" /\ Transfer
  <2>1. UNCHANGED <<pc, run, src>> /\ Job' = Job
    BY <1>9 DEF Transfer, Job
  <2>2. QED
    BY <1>1, <1>2, <1>9, <2>1, MoveUndone DEF TransferInv
<1>10. QED
  BY <1>3, <1>4, <1>5, <1>6, <1>7, <1>8, <1>9 DEF DmaCpu

\* Only the dma case and the engine change what the transfers use.
LEMMA DmaCause ==
    ASSUME [Next]_vars
    PROVE  \/ UNCHANGED dmaVars
           \/ DmaCall \/ DmaCpu \/ DmaReturn \/ (pc = "poll" /\ Transfer)
<1>1. CASE AtStep /\ StepOf(Step)
  <2>1. CASE Step.op = "dma"
    BY <1>1, <2>1, OpStep DEF DmaStep
  <2>2. CASE Step.op # "dma"
    BY <1>1, <2>2, StepForm
  <2>3. QED
    BY <2>1, <2>2
<1>2. QED
  BY <1>1 DEF Next, Cpu, Return, Tick, DmaMoves, vars

\* The other steps leave the engine alone.
LEMMA TransferNext == ASSUME TypeInv, TransferInv, [Next]_vars PROVE TransferInv'
<1>1. CASE UNCHANGED dmaVars
  <2>1. UNCHANGED <<pc, run, src, dst, cntr, tcif, htif, fault>>
    BY <1>1 DEF dmaVars, dma
  <2>2. QED
    BY <2>1 DEF TransferInv, Breaks, Undone, Kind, Job
<1>2. CASE DmaCall \/ DmaCpu \/ DmaReturn \/ (pc = "poll" /\ Transfer)
  BY <1>2, TransferStep DEF TypeInv
<1>3. QED
  BY <1>1, <1>2, DmaCause

\* TransferInv holds when the program starts.
LEMMA InitTransfer == ASSUME Init PROVE TransferInv
  BY DEF Init, DmaIdle, TransferInv

-----------------------------------------------------------------------------
(* The period of a timer: the table, the registers and the time.           *)

\* The step is a write of these bits under this mask.
WritesTo(r, mask, bits) ==
    Step.op = "write" /\ Step.reg = r /\ Step.mask = mask /\ Step.bits = bits

\* The steps of timer_period_test(t), when its table is at them.
LEMMA PeriodSteps ==
    ASSUME PlaceInv, AtStep, NEW k, NEW t, PeriodTestAt(case, k, t)
    PROVE  /\ k \in Nat /\ at \in Nat
           /\ at = k + 1 => Step.op = "clock" /\ Step.block = t /\ Step.on
           /\ at = k + 2 => WritesTo(<<t, "CTLR1">>, {"CEN"}, {})
           /\ at = k + 3 => WritesTo(<<t, "PSC">>, All(<<t, "PSC">>), {"4799"})
           /\ at = k + 4 => WritesTo(<<t, "ATRLR">>, All(<<t, "ATRLR">>), {"period"})
           /\ at = k + 5 => WritesTo(<<t, "CTLR1">>, {"URS"}, {"URS"})
           /\ at = k + 6 => WritesTo(<<t, "CNT">>, All(<<t, "CNT">>), {})
           /\ at \in {k + 7, k + 9, k + 12, k + 16} => WritesTo(<<t, "INTFR">>, {"UIF"}, {})
           /\ at = k + 8 => Step.op = "update" /\ Step.tim = t
           /\ at = k + 10 => WritesTo(<<t, "CTLR1">>, {"CEN"}, {"CEN"})
           /\ at \in {k + 11, k + 14} => Step.op = "await" /\ Step.tim = t
           /\ at = k + 13 => Step.op = "mark" /\ Step.name = "start"
           /\ at = k + 15 => Step.op = "mark" /\ Step.name = "end"
           /\ at = k + 17 => WritesTo(<<t, "CTLR1">>, {"CEN"}, {})
           /\ at = k + 18 => /\ Step.op = "window" /\ Step.low = TIMER_PERIOD - TIMER_TOLERANCE
                             /\ Step.high = TIMER_PERIOD + TIMER_TOLERANCE /\ Step.us
<1>1. StepsOf(case)[at] = Step /\ at \in Nat
  BY StepOfCase DEF StepIndex
<1>2. k \in Nat
  BY DEF PeriodTestAt
<1>3. ASSUME NEW i, NEW r, NEW m, NEW b, at = k + i,
             StepsOf(case)[k + i] = [op |-> "write", reg |-> r, mask |-> m, bits |-> b]
      PROVE  WritesTo(r, m, b)
  BY <1>1, <1>3 DEF WritesTo
<1>4. at = k + 2 => WritesTo(<<t, "CTLR1">>, {"CEN"}, {})
  BY Zenon, <1>3 DEF PeriodTestAt
<1>5. at = k + 3 => WritesTo(<<t, "PSC">>, All(<<t, "PSC">>), {"4799"})
  BY Zenon, <1>3 DEF PeriodTestAt
<1>6. at = k + 4 => WritesTo(<<t, "ATRLR">>, All(<<t, "ATRLR">>), {"period"})
  BY Zenon, <1>3 DEF PeriodTestAt
<1>7. at = k + 5 => WritesTo(<<t, "CTLR1">>, {"URS"}, {"URS"})
  BY Zenon, <1>3 DEF PeriodTestAt
<1>8. at = k + 6 => WritesTo(<<t, "CNT">>, All(<<t, "CNT">>), {})
  BY Zenon, <1>3 DEF PeriodTestAt
<1>9. at = k + 7 => WritesTo(<<t, "INTFR">>, {"UIF"}, {})
  BY Zenon, <1>3 DEF PeriodTestAt
<1>10. at = k + 9 => WritesTo(<<t, "INTFR">>, {"UIF"}, {})
  BY Zenon, <1>3 DEF PeriodTestAt
<1>11. at = k + 10 => WritesTo(<<t, "CTLR1">>, {"CEN"}, {"CEN"})
  BY Zenon, <1>3 DEF PeriodTestAt
<1>12. at = k + 12 => WritesTo(<<t, "INTFR">>, {"UIF"}, {})
  BY Zenon, <1>3 DEF PeriodTestAt
<1>13. at = k + 16 => WritesTo(<<t, "INTFR">>, {"UIF"}, {})
  BY Zenon, <1>3 DEF PeriodTestAt
<1>14. at = k + 17 => WritesTo(<<t, "CTLR1">>, {"CEN"}, {})
  BY Zenon, <1>3 DEF PeriodTestAt
<1>15. /\ at = k + 1 => Step = [op |-> "clock", block |-> t, on |-> TRUE]
       /\ at = k + 8 => Step = [op |-> "update", tim |-> t]
       /\ at \in {k + 11, k + 14} => Step = [op |-> "await", tim |-> t]
       /\ at = k + 13 => Step = [op |-> "mark", name |-> "start"]
       /\ at = k + 15 => Step = [op |-> "mark", name |-> "end"]
       /\ at = k + 18 => Step = [op |-> "window", low |-> TIMER_PERIOD - TIMER_TOLERANCE,
                                 high |-> TIMER_PERIOD + TIMER_TOLERANCE, us |-> TRUE]
  BY Zenon, <1>1 DEF PeriodTestAt
<1>16. QED
  BY <1>1, <1>2, <1>4, <1>5, <1>6, <1>7, <1>8, <1>9, <1>10, <1>11, <1>12, <1>13, <1>14, <1>15

\* So at the steps of the test.
LEMMA PeriodOps ==
    ASSUME PlaceInv, AtStep, NEW k, NEW t, PeriodTestAt(case, k, t), at \in k + 2..k + 18
    PROVE  /\ Step.op \in {"write", "update", "await", "mark", "window"}
           /\ Step.op = "write" =>
                 \/ Step.reg = <<t, "PSC">> /\ at = k + 3
                 \/ Step.reg = <<t, "ATRLR">> /\ at = k + 4
                 \/ Step.reg = <<t, "CNT">> /\ at = k + 6
                 \/ Step.reg = <<t, "CTLR1">> /\ at \in {k + 2, k + 5, k + 10, k + 17}
                 \/ Step.reg = <<t, "INTFR">> /\ at \in {k + 7, k + 9, k + 12, k + 16}
           /\ Step.op = "update" => at = k + 8 /\ Step.tim = t
           /\ Step.op = "await" => at \in {k + 11, k + 14}
           /\ Step.op = "mark" => at \in {k + 13, k + 15}
<1>1. k \in Nat /\ at \in Nat
  BY PeriodSteps
<1>2. CASE at \in {k + 2, k + 3, k + 4, k + 5, k + 6, k + 7}
  BY <1>1, <1>2, PeriodSteps DEF WritesTo
<1>3. CASE at \in {k + 8, k + 9, k + 10, k + 11, k + 12, k + 13}
  BY <1>1, <1>3, PeriodSteps DEF WritesTo
<1>4. CASE at \in {k + 14, k + 15, k + 16, k + 17, k + 18}
  BY <1>1, <1>4, PeriodSteps DEF WritesTo
<1>5. QED
  BY <1>1, <1>2, <1>3, <1>4

\* The registers of the test.
LEMMA PeriodRegisters ==
    ASSUME NEW t \in Timers
    PROVE  /\ \A n \in {"CTLR1", "PSC", "ATRLR", "INTFR"} : <<t, n>> \in Registers
           /\ <<"SYSTICK", "CTLR">> \in Registers /\ <<"RCC", "freq">> \in Registers
           /\ t \notin {"SYSTICK", "RCC", "USART1"}
<1>1. BitsOf.TIM1 = TimBits
  BY DEF BitsOf
<1>2. BitsOf.TIM2 = [TimBits EXCEPT !.CTLR2 = {}, !.BDTR = {}]
  BY DEF BitsOf
<1>3. {"CTLR1", "PSC", "ATRLR", "INTFR"} \subseteq DOMAIN TimBits
  BY DEF TimBits
<1>4. "TIM1" \in DOMAIN BitsOf /\ "TIM2" \in DOMAIN BitsOf /\ "SYSTICK" \in DOMAIN BitsOf
  BY DEF BitsOf
<1>5. "CTLR" \in DOMAIN BitsOf.SYSTICK
  BY DEF BitsOf
<1>6. {"CTLR1", "PSC", "ATRLR", "INTFR"} \subseteq DOMAIN BitsOf[t]
  BY <1>1, <1>2, <1>3 DEF Timers
<1>7. QED
  BY <1>4, <1>5, <1>6, RegisterNames, SpecialRegisters DEF Timers

\* A write to a block with a clock stores what it says.
LEMMA WriteStores ==
    ASSUME TypeInv, AtStep, StepOf(Step), NEW r \in Registers, r[1] \in clocked,
           r[1] # "USART1",
           NEW mask, NEW bits, WritesTo(r, mask, bits)
    PROVE  Value(r)' = Stuck(r, (Value(r) \ mask) \cup bits)
<1>1. BoardInv /\ IsStep(Step)
  BY StepIsOfTable DEF TypeInv
<1>2. ReadBack(r) = Value(r)
  BY DEF ReadBack
<1>3. Store(r, (Value(r) \ mask) \cup bits)
  <2>1. WriteStep(Step) /\ Step.reg = r /\ Step.mask = mask /\ Step.bits = bits
    BY OpStep DEF WritesTo
  <2>2. Baud(r, bits, regs.RCC.freq) = bits
    BY BaudValue DEF BaudRegister
  <2>3. QED
    BY <1>2, <2>1, <2>2 DEF WriteStep
<1>4. (Value(r) \ mask) \cup bits \in SUBSET All(r)
  <2>1. bits \subseteq All(r)
    BY <1>1 DEF WritesTo, IsStep
  <2>2. Value(r) \subseteq All(r)
    BY <1>1, RegisterNames DEF BoardInv, Fits, Value
  <2>3. QED
    BY <2>1, <2>2
<1>5. Value(r)' = Stored(r, (Value(r) \ mask) \cup bits)
  BY <1>1, <1>3, <1>4, StoreValue
<1>6. QED
  BY <1>5, StoredBits

\* No other register changes.
LEMMA PeriodFrame ==
    ASSUME TypeInv, AtStep, StepOf(Step), verdict' = "pass", NEW k, NEW t \in Timers,
           PeriodTestAt(case, k, t), at \in k + 2..k + 18, NEW r \in Registers,
           Step.op = "write" => Step.reg # r,
           Step.op = "update" => r # <<t, "INTFR">>
    PROVE  Value(r)' = Value(r)
<1>1. PlaceInv
  BY DEF TypeInv
<1>2. /\ Step.op \in {"write", "update", "await", "mark", "window"}
      /\ Step.op = "update" => Step.tim = t
  BY <1>1, PeriodOps
<1>3. QED
  BY <1>2, StepRegisters DEF Written, Restored, Updated, Converted, Stopped

\* A period is some ticks, and depends on what is set up.
LEMMA PeriodValue ==
    ASSUME BoardInv, NEW t \in Timers
    PROVE  RealPeriod(t) \in Nat /\ RealPeriod(t) > 0
<1> DEFINE hz(entry) == IF entry \in regs.RCC.freq THEN 2 ELSE 1
           clock == timer_clock_hz(hz(IF t = "TIM1" THEN "apb2" ELSE "apb1"), hz("ahb"))
<1>1. clock \in {1, 2, 4}
  BY DEF timer_clock_hz
<1>2. ReloadOf(t) = (TIMER_PERIOD * clock) \div 2
  BY DEF ReloadOf
<1> HIDE DEF clock
<1>3. ReloadOf(t) > 0
  <2>1. TIMER_PERIOD \in Nat /\ TIMER_PERIOD > 1
    BY Constants
  <2>2. (TIMER_PERIOD * 1) \div 2 > 0
    BY <2>1
  <2>3. (TIMER_PERIOD * 2) \div 2 > 0
    BY <2>1
  <2>4. (TIMER_PERIOD * 4) \div 2 > 0
    BY <2>1
  <2>5. QED
    BY <1>1, <1>2, <2>2, <2>3, <2>4
<1>4. RealPeriod(t) \in {SlowPeriod, FastPeriod, ReloadOf(t)}
  BY DEF RealPeriod
<1>5. RealPeriod(t) > 0
  BY <1>3, <1>4, Constants
<1>6. QED
  BY <1>5, PeriodBound, Constants

\* The rate of SysTick.
LEMMA RateValue == Rate \in {0, 1, 2}
  BY DEF Rate

\* As long as no register that a period depends on changes, it stays.
LEMMA PeriodSame ==
    ASSUME fault' = fault, NEW t \in Timers,
           \A r \in {<<t, "PSC">>, <<t, "ATRLR">>, <<"RCC", "freq">>, <<"SYSTICK", "CTLR">>} :
              Value(r)' = Value(r)
    PROVE  RealPeriod(t)' = RealPeriod(t) /\ Rate' = Rate
<1>1. /\ Value(<<t, "PSC">>)' = Value(<<t, "PSC">>)
      /\ Value(<<t, "ATRLR">>)' = Value(<<t, "ATRLR">>)
      /\ Value(<<"RCC", "freq">>)' = Value(<<"RCC", "freq">>)
      /\ Value(<<"SYSTICK", "CTLR">>)' = Value(<<"SYSTICK", "CTLR">>)
  BY Zenon
<1>2. /\ regs'[t].PSC = regs[t].PSC /\ regs'[t].ATRLR = regs[t].ATRLR
      /\ regs'.RCC.freq = regs.RCC.freq /\ regs'.SYSTICK.CTLR = regs.SYSTICK.CTLR
  BY <1>1 DEF Value
<1>3. ReloadOf(t)' = ReloadOf(t)
  BY <1>2 DEF ReloadOf
<1>4. RealPeriod(t)' = RealPeriod(t)
  BY <1>2, <1>3 DEF RealPeriod
<1>5. Rate' = Rate
  BY <1>2 DEF Rate, SysTickCounts
<1>6. QED
  BY <1>4, <1>5

\* What a step of the test leaves alone.
LEMMA PeriodMoves ==
    ASSUME PlaceInv, AtStep, StepOf(Step), verdict' = "pass", NEW k, NEW t,
           PeriodTestAt(case, k, t), at \in k + 1..k + 18
    PROVE  /\ case' = case /\ fault' = fault /\ verdict = "pass"
           /\ Step.op # "await" => at' = at + 1 /\ UNCHANGED <<tick, look>>
           /\ Step.op = "await" => at' = at \/ at' = at + 1
           /\ Step.op \notin {"await", "mark"} => UNCHANGED <<time, lag>>
           /\ Step.op # "update" => UNCHANGED cnt
           /\ at # k + 1 => UNCHANGED clocked
<1>1. case' = case /\ fault' = fault /\ verdict = "pass" /\ (at' = at \/ at' = at + 1)
  BY StepForm, StepGoes
<1>2. CASE at = k + 1
  <2>1. ClockStep(Step)
    BY <1>2, PeriodSteps, OpStep
  <2>2. QED
    BY <1>1, <1>2, <2>1 DEF ClockStep, GoOn
<1>3. CASE at # k + 1
  <2>1. Step.op \in {"write", "update", "await", "mark", "window"}
    <3>1. k \in Nat /\ at \in Nat
      BY PeriodSteps
    <3>2. at \in k + 2..k + 18
      BY <1>3, <3>1
    <3>3. QED
      BY <3>2, PeriodOps
  <2>2. CASE WriteStep(Step)
    BY <1>1, <2>2 DEF WriteStep, GoOn
  <2>3. CASE UpdateStep(Step)
    BY <1>1, <2>3 DEF UpdateStep, GoOn
  <2>4. CASE MarkStep(Step)
    BY <1>1, <2>4 DEF MarkStep, GoOn
  <2>5. CASE WindowStep(Step)
    BY <1>1, <2>5 DEF WindowStep, Judge, board
  <2>6. CASE StartWait(Step) \/ AwaitClock(Step) \/ AwaitFlag(Step)
    BY <1>1, <2>1, <2>6 DEF StartWait, AwaitClock, AwaitFlag, board
  <2>7. QED
    BY <2>1, <2>2, <2>3, <2>4, <2>5, <2>6, OpStep
<1>4. QED
  BY <1>2, <1>3

\* Nor does it change the period it measures, once that is set up, or what
\* tells the time.
LEMMA PeriodKept ==
    ASSUME TypeInv, AtStep, StepOf(Step), verdict' = "pass", NEW k, NEW t \in Timers,
           PeriodTestAt(case, k, t), at \in k + 5..k + 18
    PROVE  RealPeriod(t)' = RealPeriod(t) /\ Rate' = Rate
<1>1. PlaceInv /\ k \in Nat /\ at \in Nat
  BY PeriodSteps DEF TypeInv
<1>2. at \in k + 2..k + 18 /\ at \in k + 1..k + 18 /\ at # k + 3 /\ at # k + 4
  BY <1>1
<1>3. ASSUME NEW r \in Registers,
             r \in {<<t, "PSC">>, <<t, "ATRLR">>, <<"RCC", "freq">>, <<"SYSTICK", "CTLR">>}
      PROVE  Value(r)' = Value(r)
  <2>1. r # <<t, "INTFR">> /\ r # <<t, "CNT">> /\ r # <<t, "CTLR1">>
    BY <1>3
  <2>4. Step.op = "write" => Step.reg # r
    <3>2. Step.op = "write" => \/ Step.reg = <<t, "CNT">> \/ Step.reg = <<t, "CTLR1">>
                               \/ Step.reg = <<t, "INTFR">>
      BY <1>1, <1>2, PeriodOps
    <3>3. QED
      BY <2>1, <3>2
  <2>5. QED
    BY <1>2, <2>1, <2>4, PeriodFrame
<1>4. \A r \in {<<t, "PSC">>, <<t, "ATRLR">>, <<"RCC", "freq">>, <<"SYSTICK", "CTLR">>} :
         Value(r)' = Value(r)
  BY <1>3, PeriodRegisters
<1>5. fault' = fault
  BY <1>1, <1>2, PeriodMoves
<1>6. QED
  BY <1>4, <1>5, PeriodSame

\* What a step does to the flag and the enable bit of its timer.
LEMMA PeriodBits ==
    ASSUME TypeInv, AtStep, StepOf(Step), verdict' = "pass", NEW k, NEW t \in Timers,
           PeriodTestAt(case, k, t), at \in k + 9..k + 18, t \in clocked
    PROVE  /\ at \in {k + 9, k + 12, k + 16} /\ SoundFlag(t) => ~Flag(t)'
           /\ at \notin {k + 9, k + 12, k + 16} => Value(<<t, "INTFR">>)' = Value(<<t, "INTFR">>)
           /\ at = k + 10 /\ SoundEnable(t) => "CEN" \in Value(<<t, "CTLR1">>)'
           /\ at \notin {k + 10, k + 17} => Value(<<t, "CTLR1">>)' = Value(<<t, "CTLR1">>)
<1>1. PlaceInv /\ k \in Nat /\ at \in Nat
  BY PeriodSteps DEF TypeInv
<1>2. at \in k + 2..k + 18 /\ at # k + 8
  BY <1>1
<1>3. ASSUME at \in {k + 9, k + 12, k + 16}, SoundFlag(t) PROVE ~Flag(t)'
  <2>1. WritesTo(<<t, "INTFR">>, {"UIF"}, {})
    BY <1>1, <1>3, PeriodSteps
  <2>2. PICK r \in Registers : r = <<t, "INTFR">> /\ r[1] # "USART1"
    BY PeriodRegisters
  <2>3. Value(r)' = Stuck(r, (Value(r) \ {"UIF"}) \cup {})
    BY <2>1, <2>2, WriteStores
  <2>4. QED
    BY <1>3, <2>2, <2>3 DEF SoundFlag, FaultOf, Stuck, Flag
<1>4. ASSUME at = k + 10, SoundEnable(t) PROVE "CEN" \in Value(<<t, "CTLR1">>)'
  <2>1. WritesTo(<<t, "CTLR1">>, {"CEN"}, {"CEN"})
    BY <1>1, <1>4, PeriodSteps
  <2>2. PICK r \in Registers : r = <<t, "CTLR1">> /\ r[1] # "USART1"
    BY PeriodRegisters
  <2>3. Value(r)' = Stuck(r, (Value(r) \ {"CEN"}) \cup {"CEN"})
    BY <2>1, <2>2, WriteStores
  <2>4. QED
    BY <1>4, <2>2, <2>3 DEF SoundEnable, FaultOf, Stuck
<1>5. ASSUME NEW n \in {"INTFR", "CTLR1"}, Step.op = "write" => Step.reg # <<t, n>>
      PROVE  Value(<<t, n>>)' = Value(<<t, n>>)
  <2>1. PICK r \in Registers : r = <<t, n>>
    BY PeriodRegisters
  <2>2. Step.op # "update"
    BY <1>1, <1>2, PeriodOps
  <2>3. QED
    BY <1>2, <1>5, <2>1, <2>2, PeriodFrame
<1>6. ASSUME at \notin {k + 9, k + 12, k + 16} PROVE Value(<<t, "INTFR">>)' = Value(<<t, "INTFR">>)
  <2>1. Step.op = "write" => Step.reg # <<t, "INTFR">>
    BY <1>1, <1>2, <1>6, PeriodOps
  <2>2. QED
    BY <1>5, <2>1
<1>7. ASSUME at \notin {k + 10, k + 17} PROVE Value(<<t, "CTLR1">>)' = Value(<<t, "CTLR1">>)
  <2>1. Step.op = "write" => Step.reg # <<t, "CTLR1">>
    BY <1>1, <1>2, <1>7, PeriodOps
  <2>2. QED
    BY <1>5, <2>1
<1>8. QED
  BY <1>3, <1>4, <1>6, <1>7

\* The timer counts; its counter reaches the period.
Counts(t) == t \in clocked /\ "CEN" \in Value(<<t, "CTLR1">>)
Overflows(t) == Counts(t) /\ cnt[t] + 1 >= RealPeriod(t)

\* What a tick does to a timer and to SysTick.
LEMMA PeriodTick ==
    ASSUME TypeInv, Tick, NEW t \in Timers
    PROVE  /\ lag < Lag /\ lag' = lag + 1
           /\ UNCHANGED <<case, at, verdict, time, look, clocked, fault>>
           /\ RealPeriod(t)' = RealPeriod(t) /\ Rate' = Rate
           /\ tick' = IF tick + Rate < Wrap THEN tick + Rate ELSE tick + Rate - Wrap
           /\ \A n \in {"CTLR1", "PSC", "ATRLR"} : Value(<<t, n>>)' = Value(<<t, n>>)
           /\ cnt'[t] = IF ~Counts(t) THEN cnt[t] ELSE IF Overflows(t) THEN 0 ELSE cnt[t] + 1
           /\ Overflows(t) => Flag(t)' \/ StuckAt(<<t, "INTFR">>, "UIF", 0)
           /\ ~Overflows(t) => Value(<<t, "INTFR">>)' = Value(<<t, "INTFR">>)
<1>1. BoardInv
  BY DEF TypeInv
<1>2. /\ lag < Lag /\ lag' = lag + 1
      /\ UNCHANGED <<case, at, verdict, time, look, clocked, fault>>
  BY DEF Tick, cpu, dmaVars
<1>3. t \in Running <=> Counts(t)
  BY DEF Running, Counts, Value
<1>4. t \in Over <=> Overflows(t)
  BY <1>3 DEF Over, Overflows
<1>5. \A r \in Registers : r[2] # "INTFR" \/ r[1] \notin Over => Value(r)' = Value(r)
  BY TickRegisters
<1>6. \A n \in {"CTLR1", "PSC", "ATRLR"} : Value(<<t, n>>)' = Value(<<t, n>>)
  <2> SUFFICES ASSUME NEW n \in {"CTLR1", "PSC", "ATRLR"}
               PROVE  Value(<<t, n>>)' = Value(<<t, n>>)
    OBVIOUS
  <2>1. PICK r \in Registers : r = <<t, n>>
    BY PeriodRegisters
  <2>2. r[2] # "INTFR"
    BY <2>1
  <2>3. QED
    BY <1>5, <2>1, <2>2
<1>7. RealPeriod(t)' = RealPeriod(t) /\ Rate' = Rate
  <2>1. ASSUME NEW q \in {<<"RCC", "freq">>, <<"SYSTICK", "CTLR">>} PROVE Value(q)' = Value(q)
    <3>1. PICK r \in Registers : r = q
      BY PeriodRegisters
    <3>2. r[2] # "INTFR"
      BY <3>1
    <3>3. QED
      BY <1>5, <3>1, <3>2
  <2>2. Value(<<t, "PSC">>)' = Value(<<t, "PSC">>) /\ Value(<<t, "ATRLR">>)' = Value(<<t, "ATRLR">>)
    BY <1>6
  <2>3. \A r \in {<<t, "PSC">>, <<t, "ATRLR">>, <<"RCC", "freq">>, <<"SYSTICK", "CTLR">>} :
           Value(r)' = Value(r)
    BY Zenon, <2>1, <2>2
  <2>4. QED
    BY Zenon, <1>2, <2>3, PeriodSame
<1>8. tick' = IF tick + Rate < Wrap THEN tick + Rate ELSE tick + Rate - Wrap
  <2>1. Wrap \in Nat /\ Wrap > 2 /\ tick \in 0..Wrap - 1
    BY <1>1, Constants DEF BoardInv
  <2>2. tick' = IF Rate = 0 THEN tick ELSE (tick + Rate) % Wrap
    BY DEF Tick, Rate
  <2>3. \A a \in 0..Wrap - 1 : a % Wrap = a /\ (a + Wrap) % Wrap = a
    BY <2>1
  <2>4. tick + Rate >= Wrap => tick + Rate - Wrap \in 0..Wrap - 1
    BY <2>1, RateValue
  <2>5. CASE tick + Rate < Wrap
    <3>1. tick + Rate \in 0..Wrap - 1
      BY <2>1, <2>5, RateValue
    <3>2. QED
      BY <2>1, <2>2, <2>3, <2>5, <3>1
  <2>6. CASE ~(tick + Rate < Wrap)
    <3>1. tick + Rate - Wrap \in 0..Wrap - 1 /\ Rate # 0
      BY <2>1, <2>6, RateValue
    <3>2. tick + Rate = (tick + Rate - Wrap) + Wrap
      BY <2>1, RateValue
    <3>3. (tick + Rate) % Wrap = tick + Rate - Wrap
      BY <2>3, <3>1, <3>2
    <3>4. QED
      BY <2>2, <2>6, <3>1, <3>3
  <2>7. QED
    BY <2>5, <2>6
<1>9. cnt'[t] = IF ~Counts(t) THEN cnt[t] ELSE IF Overflows(t) THEN 0 ELSE cnt[t] + 1
  <2>1. cnt'[t] = IF t \notin Running THEN cnt[t] ELSE IF t \in Over THEN 0 ELSE cnt[t] + 1
    BY DEF Tick, Over
  <2>2. QED
    BY <1>3, <1>4, <2>1
<1>10. PICK r \in Registers : r = <<t, "INTFR">> /\ All(r) = {"UIF"}
  BY TimerRegisters
<1>11. r[1] = t /\ r[2] = "INTFR"
  BY <1>10
<1>12. ASSUME Overflows(t) PROVE Flag(t)' \/ StuckAt(<<t, "INTFR">>, "UIF", 0)
  <2>1. Value(r)' = Stuck(r, Value(r) \cup {"UIF"})
    BY <1>4, <1>11, <1>12, TickRegisters
  <2>2. FaultOf(r) => fault.bit = "UIF" /\ fault.level \in {0, 1}
    BY <1>1, <1>10, StuckBit DEF FaultOf, BoardInv
  <2>3. "UIF" \in Value(r)' \/ StuckAt(r, "UIF", 0)
    BY <2>1, <2>2 DEF Stuck, FaultOf, StuckAt
  <2>4. QED
    BY <1>10, <2>3 DEF Flag
<1>13. ASSUME ~Overflows(t) PROVE Value(<<t, "INTFR">>)' = Value(<<t, "INTFR">>)
  BY <1>4, <1>5, <1>10, <1>11, <1>13
<1>14. QED
  BY <1>2, <1>6, <1>7, <1>8, <1>9, <1>12, <1>13

\* Time passes in the test only at these steps.
LEMMA PeriodTimed ==
    ASSUME PlaceInv, Tick, NEW k, NEW t, PeriodTestAt(case, k, t), at \in k + 1..k + 18
    PROVE  at \in {k + 11, k + 13, k + 14, k + 15}
<1>1. AtStep /\ Step.op \in {"delay", "mark", "await"}
  BY DEF Tick, TakesTime
<1>2. k \in Nat /\ at \in Nat
  BY <1>1, PeriodSteps
<1>3. at # k + 1
  BY <1>1, PeriodSteps
<1>4. at \in k + 2..k + 18
  BY <1>2, <1>3
<1>5. QED
  BY <1>1, <1>4, PeriodOps

-----------------------------------------------------------------------------
(* The period of a timer: the invariant.                                   *)

\* The steps of the test set the timer up.
LEMMA SetUpStep ==
    ASSUME TypeInv, FaultInv, AtStep, StepOf(Step), verdict' = "pass",
           NEW k, NEW t \in Timers, PeriodTestAt(case, k, t), SetUpInv(k, t)
    PROVE  SetUpInv(k, t)'
<1>1. PlaceInv /\ BoardInv /\ k \in Nat /\ at \in Nat
  BY PeriodSteps DEF TypeInv
<1>2. at' = at \/ at' = at + 1
  BY <1>1, StepGoes
<1>3. CASE at \notin k + 1..k + 18
  BY <1>1, <1>2, <1>3 DEF SetUpInv
<1>4. CASE at \in k + 1..k + 18
  <2>1. /\ fault' = fault /\ (Step.op # "await" => at' = at + 1)
        /\ Step.op # "update" => UNCHANGED cnt
        /\ at # k + 1 => UNCHANGED clocked
    BY <1>1, <1>4, PeriodMoves
  <2>2. at' \in k + 2..k + 18 => t \in clocked'
    <3>1. CASE at = k + 1
      <4>1. ClockStep(Step) /\ Step.block = t /\ Step.on
        BY <1>1, <3>1, PeriodSteps, OpStep
      <4>2. QED
        BY <4>1 DEF ClockStep
    <3>2. CASE at # k + 1
      BY <1>1, <1>4, <2>1, <3>2 DEF SetUpInv
    <3>3. QED
      BY <3>1, <3>2
  <2>3. at # k + 1 => t \in clocked /\ at \in k + 2..k + 18
    BY <1>1, <1>4 DEF SetUpInv
  <2>4. ASSUME NEW n \in {"PSC", "ATRLR"}, at # k + 1, at # k + 3 \/ n # "PSC",
               at # k + 4 \/ n # "ATRLR"
        PROVE  Value(<<t, n>>)' = Value(<<t, n>>)
    <3>1. PICK r \in Registers : r = <<t, n>>
      BY PeriodRegisters
    <3>2. Step.op = "write" => Step.reg # r
      BY <1>1, <2>3, <2>4, <3>1, PeriodOps
    <3>3. r # <<t, "INTFR">>
      BY <3>1
    <3>4. QED
      BY <2>3, <2>4, <3>1, <3>2, <3>3, PeriodFrame
  <2>5. ASSUME at' \in k + 4..k + 18, ~FaultOf(<<t, "PSC">>) PROVE "4799" \in Value(<<t, "PSC">>)'
    <3>1. at # k + 1 /\ at # k + 2
      BY <1>1, <1>2, <2>5
    <3>2. CASE at = k + 3
      <4>1. PICK r \in Registers : r = <<t, "PSC">> /\ r[1] # "USART1"
        BY PeriodRegisters
      <4>2. WritesTo(r, All(r), {"4799"})
        BY <1>1, <3>2, <4>1, PeriodSteps
      <4>3. Value(r)' = Stuck(r, (Value(r) \ All(r)) \cup {"4799"})
        BY <2>3, <3>1, <4>1, <4>2, WriteStores
      <4>4. QED
        BY <2>5, <4>1, <4>3 DEF Stuck, FaultOf
    <3>3. CASE at # k + 3
      BY <1>1, <1>4, <2>4, <2>5, <3>1, <3>3 DEF SetUpInv
    <3>4. QED
      BY <3>2, <3>3
  <2>6. ASSUME at' \in k + 5..k + 18, ~FaultOf(<<t, "ATRLR">>)
        PROVE  "period" \in Value(<<t, "ATRLR">>)'
    <3>1. at # k + 1 /\ at # k + 2 /\ at # k + 3
      BY <1>1, <1>2, <2>6
    <3>2. CASE at = k + 4
      <4>1. PICK r \in Registers : r = <<t, "ATRLR">> /\ r[1] # "USART1"
        BY PeriodRegisters
      <4>2. WritesTo(r, All(r), {"period"})
        BY <1>1, <3>2, <4>1, PeriodSteps
      <4>3. Value(r)' = Stuck(r, (Value(r) \ All(r)) \cup {"period"})
        BY <2>3, <3>1, <4>1, <4>2, WriteStores
      <4>4. QED
        BY <2>6, <4>1, <4>3 DEF Stuck, FaultOf
    <3>3. CASE at # k + 4
      BY <1>1, <1>4, <2>4, <2>6, <3>1, <3>3 DEF SetUpInv
    <3>4. QED
      BY <3>2, <3>3
  <2>7. ASSUME at' \in k + 9..k + 17 PROVE (cnt[t] < RealPeriod(t))'
    <3>1. at \in k + 5..k + 18
      BY <1>1, <1>2, <1>4, <2>7
    <3>2. RealPeriod(t)' = RealPeriod(t) /\ RealPeriod(t) > 0
      BY <1>1, <3>1, PeriodKept, PeriodValue
    <3>3. CASE at = k + 8
      <4>1. UpdateStep(Step) /\ Step.tim = t /\ t \in DOMAIN cnt
        BY <1>1, <3>3, PeriodSteps, OpStep DEF BoardInv
      <4>2. cnt'[t] = 0
        BY <4>1 DEF UpdateStep
      <4>3. QED
        BY <3>2, <4>2
    <3>4. CASE at # k + 8
      <4>1. Step.op # "update" /\ at \in k + 9..k + 17
        <5>1. Step.op # "update"
          BY <1>1, <3>1, <3>4, PeriodOps
        <5>2. at # k + 18
          BY <1>1, <1>2, <2>1, <2>7, PeriodSteps
        <5>3. at \in k + 9..k + 17
          <6>1. at # k + 5 /\ at # k + 6 /\ at # k + 7
            BY <1>1, <1>2, <2>7
          <6>2. QED
            BY <1>1, <3>1, <3>4, <5>2, <6>1
        <5>4. QED
          BY <5>1, <5>3
      <4>2. QED
        BY <2>1, <3>2, <4>1 DEF SetUpInv
    <3>5. QED
      BY <3>3, <3>4
  <2>8. ASSUME at' \in k + 11..k + 16, SoundEnable(t) PROVE "CEN" \in Value(<<t, "CTLR1">>)'
    <3>1. at \in k + 10..k + 16 /\ at \in k + 9..k + 18 /\ t \in clocked
      BY <1>1, <1>2, <2>3, <2>8
    <3>2. CASE at = k + 10
      BY <2>8, <3>1, <3>2, PeriodBits
    <3>3. CASE at # k + 10
      <4>1. Value(<<t, "CTLR1">>)' = Value(<<t, "CTLR1">>)
        <5>1. at \notin {k + 10, k + 17}
          BY <1>1, <3>1, <3>3
        <5>2. QED
          BY <3>1, <5>1, PeriodBits
      <4>2. QED
        BY <1>1, <2>8, <3>1, <3>3, <4>1 DEF SetUpInv
    <3>4. QED
      BY <3>2, <3>3
  <2>9. ASSUME at' = k + 10, SoundFlag(t) PROVE ~Flag(t)'
    <3>1. at = k + 9
      <4>1. at = k + 9 \/ at = k + 10
        BY <1>1, <1>2, <2>9
      <4>2. at = k + 10 => WritesTo(<<t, "CTLR1">>, {"CEN"}, {"CEN"})
        BY Zenon, <1>1, PeriodSteps
      <4>3. at = k + 10 => at' = at + 1
        BY <2>1, <4>2 DEF WritesTo
      <4>4. QED
        BY <1>1, <2>9, <4>1, <4>3
    <3>2. at \in k + 9..k + 18 /\ t \in clocked
      BY <1>1, <2>3, <3>1
    <3>3. QED
      BY <2>9, <3>1, <3>2, PeriodBits
  <2>10. ASSUME at' = k + 11, StuckAt(<<t, "CTLR1">>, "CEN", 0) PROVE ~Flag(t)'
    <3>1. at \in {k + 10, k + 11} /\ at \in k + 9..k + 18 /\ t \in clocked
      BY <1>1, <1>2, <2>3, <2>10
    <3>2. Value(<<t, "INTFR">>)' = Value(<<t, "INTFR">>)
      <4>1. at \notin {k + 9, k + 12, k + 16}
        BY <1>1, <3>1
      <4>2. QED
        BY <3>1, <4>1, PeriodBits
    <3>3. SoundFlag(t)
      BY <2>10 DEF StuckAt, FaultOf, SoundFlag
    <3>4. QED
      BY <2>10, <3>1, <3>2, <3>3 DEF SetUpInv, Flag
  <2>11. ASSUME at' \in k + 12..k + 18 PROVE ~StuckAt(<<t, "INTFR">>, "UIF", 0)
    <3>1. CASE at = k + 11
      <4>1. AwaitFlag(Step) /\ Step.tim = t
        <5>1. Step.op = "await" /\ Step.tim = t /\ at' # at
          <6>1. at \in {k + 11, k + 14}
            BY <3>1
          <6>2. Step.op = "await" /\ Step.tim = t
            BY Zenon, <1>1, <6>1, PeriodSteps
          <6>3. at' # at
            BY <1>1, <2>11, <3>1
          <6>4. QED
            BY <6>2, <6>3
        <5>2. ~StartWait(Step)
          BY <5>1 DEF StartWait
        <5>3. ~AwaitClock(Step)
          BY <5>1 DEF AwaitClock, Judge
        <5>4. QED
          BY <5>1, <5>2, <5>3, OpStep
      <4>2. at' # at
        BY <1>1, <2>11, <3>1
      <4>3. "UIF" \in Value(<<t, "INTFR">>)
        BY <4>1, <4>2 DEF AwaitFlag, Value
      <4>4. QED
        BY <4>3 DEF FaultInv, StuckAt, FaultOf
    <3>2. CASE at # k + 11
      BY <1>1, <1>2, <1>4, <2>11, <3>2 DEF SetUpInv
    <3>3. QED
      BY <3>1, <3>2
  <2>12. (~FaultOf(<<t, "PSC">>))' = ~FaultOf(<<t, "PSC">>)
         /\ (~FaultOf(<<t, "ATRLR">>))' = ~FaultOf(<<t, "ATRLR">>)
         /\ SoundFlag(t)' = SoundFlag(t) /\ SoundEnable(t)' = SoundEnable(t)
         /\ StuckAt(<<t, "CTLR1">>, "CEN", 0)' = StuckAt(<<t, "CTLR1">>, "CEN", 0)
         /\ StuckAt(<<t, "INTFR">>, "UIF", 0)' = StuckAt(<<t, "INTFR">>, "UIF", 0)
    BY <2>1 DEF FaultOf, SoundFlag, SoundEnable, StuckAt
  <2>13. QED
    BY <2>2, <2>5, <2>6, <2>7, <2>8, <2>9, <2>10, <2>11, <2>12 DEF SetUpInv
<1>5. QED
  BY <1>3, <1>4

\* Nor does time undo it.
LEMMA SetUpTick ==
    ASSUME TypeInv, FaultInv, Tick, NEW k, NEW t \in Timers, PeriodTestAt(case, k, t),
           SetUpInv(k, t)
    PROVE  SetUpInv(k, t)'
<1>1. PlaceInv /\ BoardInv
  BY DEF TypeInv
<1>2. AtStep
  BY DEF Tick, TakesTime
<1>3. k \in Nat /\ at \in Nat
  BY <1>1, <1>2, PeriodSteps
<1>4. /\ UNCHANGED <<case, at, clocked, fault>> /\ RealPeriod(t)' = RealPeriod(t)
      /\ \A n \in {"CTLR1", "PSC", "ATRLR"} : Value(<<t, n>>)' = Value(<<t, n>>)
      /\ cnt'[t] = IF ~Counts(t) THEN cnt[t] ELSE IF Overflows(t) THEN 0 ELSE cnt[t] + 1
      /\ ~Overflows(t) => Value(<<t, "INTFR">>)' = Value(<<t, "INTFR">>)
  BY PeriodTick
<1>5. cnt[t] \in Nat /\ RealPeriod(t) \in Nat /\ RealPeriod(t) > 0
  BY <1>1, PeriodValue, Constants DEF BoardInv
<1>6. cnt[t] < RealPeriod(t) => (cnt[t] < RealPeriod(t))'
  BY <1>4, <1>5 DEF Overflows
<1>7. at = k + 11 /\ StuckAt(<<t, "CTLR1">>, "CEN", 0) =>
        Value(<<t, "INTFR">>)' = Value(<<t, "INTFR">>)
  <2>1. ASSUME StuckAt(<<t, "CTLR1">>, "CEN", 0) PROVE ~Overflows(t)
    BY <2>1 DEF FaultInv, StuckAt, FaultOf, Overflows, Counts
  <2>2. QED
    BY <1>4, <2>1
<1>8. at # k + 10
  <2>1. at \in k + 1..k + 18 => at \in {k + 11, k + 13, k + 14, k + 15}
    BY <1>1, PeriodTimed
  <2>2. QED
    BY <1>3, <2>1
<1>9. /\ (~FaultOf(<<t, "PSC">>))' = ~FaultOf(<<t, "PSC">>)
      /\ (~FaultOf(<<t, "ATRLR">>))' = ~FaultOf(<<t, "ATRLR">>)
      /\ SoundFlag(t)' = SoundFlag(t) /\ SoundEnable(t)' = SoundEnable(t)
      /\ StuckAt(<<t, "CTLR1">>, "CEN", 0)' = StuckAt(<<t, "CTLR1">>, "CEN", 0)
      /\ StuckAt(<<t, "INTFR">>, "UIF", 0)' = StuckAt(<<t, "INTFR">>, "UIF", 0)
  BY <1>4 DEF FaultOf, SoundFlag, SoundEnable, StuckAt
<1>10. QED
  BY <1>4, <1>6, <1>7, <1>8, <1>9 DEF SetUpInv, Flag

\* The first update: the steps.
LEMMA FirstStep ==
    ASSUME TypeInv, FaultInv, AtStep, StepOf(Step), verdict' = "pass",
           NEW k, NEW t \in Timers, PeriodTestAt(case, k, t), SetUpInv(k, t), FirstInv(k, t)
    PROVE  FirstInv(k, t)'
<1>1. PlaceInv /\ BoardInv /\ k \in Nat /\ at \in Nat /\ Lag \in Nat /\ Lag > 0
  BY PeriodSteps, Constants DEF TypeInv
<1>2. at' = at \/ at' = at + 1
  BY <1>1, StepGoes
<1>3. CASE at \notin k + 10..k + 13
  BY <1>1, <1>2, <1>3 DEF FirstInv
<1>4. CASE at \in k + 10..k + 13
  <2>1. at \in k + 1..k + 18 /\ at \in k + 5..k + 18 /\ at \in k + 9..k + 18 /\ t \in clocked
    BY <1>1, <1>4 DEF SetUpInv
  <2>2. /\ fault' = fault /\ RealPeriod(t)' = RealPeriod(t)
        /\ Step.op # "await" => at' = at + 1
        /\ Step.op \notin {"await", "mark"} => UNCHANGED lag
        /\ Step.op # "update" => UNCHANGED cnt
    BY <1>1, <2>1, PeriodMoves, PeriodKept
  <2>3. SoundFlag(t)' = SoundFlag(t)
    BY <2>2 DEF SoundFlag, FaultOf
  <2>4. lag \in Nat /\ lag <= Lag
    BY <1>1 DEF BoardInv
  <2>5. at # k + 12 => Value(<<t, "INTFR">>)' = Value(<<t, "INTFR">>)
    <3>1. at # k + 12 => at \notin {k + 9, k + 12, k + 16}
      BY <1>1, <1>4
    <3>2. QED
      BY <2>1, <3>1, PeriodBits
  <2>6. SUFFICES ASSUME SoundFlag(t), 2 * Lag <= RealPeriod(t)
                 PROVE  (/\ at = k + 11 /\ Flag(t) => cnt[t] < lag
                         /\ at = k + 12 => cnt[t] < Lag /\ lag = 0
                         /\ at = k + 13 => ~Flag(t) /\ cnt[t] < Lag + lag)'
    BY <2>2, <2>3 DEF FirstInv
  <2>7. CASE at = k + 10
    <3>1. ~Flag(t) /\ at' = k + 11
      <4>1. WritesTo(<<t, "CTLR1">>, {"CEN"}, {"CEN"})
        BY Zenon, <1>1, <2>7, PeriodSteps
      <4>2. at' = at + 1
        BY <2>2, <4>1 DEF WritesTo
      <4>3. QED
        BY <1>1, <2>6, <2>7, <4>2 DEF SetUpInv
    <3>2. ~Flag(t)'
      BY <1>1, <2>5, <2>7, <3>1 DEF Flag
    <3>3. QED
      BY <1>1, <3>1, <3>2
  <2>8. CASE at = k + 11
    <3>1. Step.op = "await" /\ Step.tim = t
      <4>1. at \in {k + 11, k + 14}
        BY <2>8
      <4>2. QED
        BY Zenon, <1>1, <4>1, PeriodSteps
    <3>2. cnt' = cnt /\ Value(<<t, "INTFR">>)' = Value(<<t, "INTFR">>)
      BY <1>1, <2>2, <2>5, <2>8, <3>1
    <3>3. CASE StartWait(Step) \/ AwaitClock(Step)
      <4>1. at' = at /\ lag' = lag
        BY <3>3 DEF StartWait, AwaitClock, Judge, board
      <4>2. QED
        BY <1>1, <2>6, <2>8, <3>2, <4>1 DEF FirstInv, Flag
    <3>4. CASE AwaitFlag(Step)
      <4>1. lag' = 0 /\ IF Flag(t) THEN at' = at + 1 ELSE at' = at
        BY <3>1, <3>4 DEF AwaitFlag, GoOn, Flag, Value
      <4>2. (Flag(t)' <=> Flag(t)) /\ cnt'[t] = cnt[t] /\ cnt[t] \in Nat
        BY <1>1, <3>2, Constants DEF Flag, BoardInv
      <4>3. Flag(t) => cnt[t] < lag
        BY <2>6, <2>8 DEF FirstInv
      <4>4. QED
        BY <1>1, <2>4, <2>8, <4>1, <4>2, <4>3
    <3>5. QED
      BY <3>1, <3>3, <3>4, OpStep
  <2>9. CASE at = k + 12
    <3>1. WritesTo(<<t, "INTFR">>, {"UIF"}, {})
      <4>1. at \in {k + 7, k + 9, k + 12, k + 16}
        BY <2>9
      <4>2. QED
        BY Zenon, <1>1, <4>1, PeriodSteps
    <3>2. at' = at + 1 /\ lag' = lag /\ cnt' = cnt
      BY <2>2, <3>1 DEF WritesTo
    <3>3. ~Flag(t)'
      <4>1. at \in {k + 9, k + 12, k + 16}
        BY <2>9
      <4>2. QED
        BY <2>1, <2>6, <4>1, PeriodBits
    <3>4. cnt[t] < Lag /\ lag = 0
      BY <2>6, <2>9 DEF FirstInv
    <3>5. QED
      BY <1>1, <2>9, <3>2, <3>3, <3>4
  <2>10. CASE at = k + 13
    <3>1. Step.op = "mark"
      BY Zenon, <1>1, <2>10, PeriodSteps
    <3>2. at' = at + 1
      BY <2>2, <3>1
    <3>3. QED
      BY <1>1, <2>10, <3>2
  <2>11. QED
    BY <1>1, <1>4, <2>7, <2>8, <2>9, <2>10
<1>5. QED
  BY <1>3, <1>4

\* The first update: time.
LEMMA FirstTick ==
    ASSUME TypeInv, Tick, NEW k, NEW t \in Timers, PeriodTestAt(case, k, t),
           SetUpInv(k, t), FirstInv(k, t)
    PROVE  FirstInv(k, t)'
<1>1. PlaceInv /\ BoardInv /\ Lag \in Nat /\ Lag > 0
  BY Constants DEF TypeInv
<1>2. AtStep
  BY DEF Tick, TakesTime
<1>3. k \in Nat /\ at \in Nat
  BY <1>1, <1>2, PeriodSteps
<1>4. /\ UNCHANGED <<case, at, fault>> /\ RealPeriod(t)' = RealPeriod(t)
      /\ lag < Lag /\ lag' = lag + 1
      /\ cnt'[t] = IF ~Counts(t) THEN cnt[t] ELSE IF Overflows(t) THEN 0 ELSE cnt[t] + 1
      /\ ~Overflows(t) => Value(<<t, "INTFR">>)' = Value(<<t, "INTFR">>)
  BY PeriodTick
<1>5. cnt[t] \in Nat /\ RealPeriod(t) \in Nat /\ lag \in Nat
  BY <1>1, PeriodValue, Constants DEF BoardInv
<1>6. SoundFlag(t)' = SoundFlag(t)
  BY <1>4 DEF SoundFlag, FaultOf
<1>7. SUFFICES ASSUME SoundFlag(t), 2 * Lag <= RealPeriod(t)
               PROVE  (/\ at = k + 11 /\ Flag(t) => cnt[t] < lag
                       /\ at = k + 12 => cnt[t] < Lag /\ lag = 0
                       /\ at = k + 13 => ~Flag(t) /\ cnt[t] < Lag + lag)'
  BY <1>4, <1>6 DEF FirstInv
<1>8. at # k + 12
  <2>1. at \in k + 1..k + 18 => at \in {k + 11, k + 13, k + 14, k + 15}
    BY <1>1, PeriodTimed
  <2>2. QED
    BY <1>3, <2>1
<1>9. ~Overflows(t) => (Flag(t)' <=> Flag(t))
  BY <1>4 DEF Flag
<1>10. CASE at = k + 11
  <2>1. Flag(t) => cnt[t] < lag
    BY <1>7, <1>10 DEF FirstInv
  <2>2. Flag(t)' => cnt'[t] < lag'
    <3>1. CASE Overflows(t)
      BY <1>4, <1>5, <3>1 DEF Overflows
    <3>2. CASE ~Overflows(t)
      <4>1. cnt'[t] <= cnt[t] + 1
        BY <1>4, <1>5, <3>2
      <4>2. cnt'[t] \in Nat
        BY <1>4, <1>5, <3>2
      <4>3. QED
        BY <1>4, <1>5, <1>9, <2>1, <3>2, <4>1, <4>2
    <3>3. QED
      BY <3>1, <3>2
  <2>3. QED
    BY <1>3, <1>4, <1>10, <2>2
<1>11. CASE at = k + 13
  <2>1. ~Flag(t) /\ cnt[t] < Lag + lag
    BY <1>7, <1>11 DEF FirstInv
  <2>2. ~Overflows(t)
    BY <1>1, <1>4, <1>5, <1>7, <2>1 DEF Overflows
  <2>3. QED
    BY <1>1, <1>3, <1>4, <1>5, <1>9, <1>11, <2>1, <2>2
<1>12. QED
  BY <1>4, <1>8, <1>10, <1>11

\* The tolerance, the lag and the wrap of SysTick, as the proofs use them.
LEMMA Timing ==
    /\ Lag \in Nat /\ Lag > 0 /\ Wrap \in Nat /\ Wrap > 2 /\ Lag < Wrap
    /\ TIMER_WAIT \in Nat /\ TIMER_WAIT > 0 /\ TIMER_WAIT < Wrap
    /\ TIMER_PERIOD \in Nat /\ TIMER_TOLERANCE \in Nat /\ FastPeriod \in Nat
    /\ SlowPeriod \in Nat
    /\ FastPeriod + 2 * Lag <= TIMER_PERIOD - TIMER_TOLERANCE
    /\ TIMER_PERIOD + TIMER_TOLERANCE + 2 * Lag <= SlowPeriod
    /\ TIMER_PERIOD + TIMER_TOLERANCE < 2 * (TIMER_PERIOD - 2 * Lag + 1)
    /\ TIMER_WAIT + 4 * Lag <= Wrap
    /\ TIMER_WAIT + 6 * Lag <= Wrap + TIMER_PERIOD - TIMER_TOLERANCE
    /\ TIMER_PERIOD < Wrap
  BY Constants, TimingAssumption DEF TimingAssumption

\* The ticks of SysTick in some ticks of the core.
LEMMA RateTimes ==
    ASSUME NEW e \in Nat
    PROVE  /\ Rate * e \in Nat /\ Rate * (e + 1) = Rate * e + Rate
           /\ Rate = 0 => Rate * e = 0
           /\ Rate = 1 => Rate * e = e
           /\ Rate = 2 => Rate * e = 2 * e
<1>1. CASE Rate = 0
  BY <1>1
<1>2. CASE Rate = 1
  BY <1>2
<1>3. CASE Rate = 2
  BY <1>3
<1>4. QED
  BY <1>1, <1>2, <1>3, RateValue

\* SysTick goes on from what it read.
LEMMA ReadTick ==
    ASSUME NEW x \in 0..Wrap - 1, time.start \in 0..Wrap - 1, NEW e \in Nat, ReadAfter(x, e),
           Rate * (e + 1) < 2 * Wrap,
           NEW y, y = IF x + Rate < Wrap THEN x + Rate ELSE x + Rate - Wrap
    PROVE  ReadAfter(y, e + 1)
<1> DEFINE a == Rate * e
           b == Rate * (e + 1)
<1>1. a \in Nat /\ b = a + Rate
  BY RateTimes
<1>2. time.start + a \in {x, x + Wrap, x + 2 * Wrap} /\ b < 2 * Wrap
  BY DEF ReadAfter
<1> HIDE DEF a, b
<1>3. time.start + b \in {y, y + Wrap, y + 2 * Wrap}
  BY <1>1, <1>2, RateValue, Timing
<1>4. QED
  BY <1>3 DEF ReadAfter, b

\* The time-out of a wait is not longer than with the right frequency.
LEMMA WaitTicks == Ticks(TIMER_WAIT) \in Nat /\ Ticks(TIMER_WAIT) <= TIMER_WAIT
  BY Timing DEF Ticks

\* A wait is not longer than the way around SysTick.
LEMMA WaitBound ==
    ASSUME BoardInv, look \in {"start", "clock", "flag"}, NEW t, NEW e \in Nat, NEW d \in Nat,
           WaitInv(t, e, d)
    PROVE  /\ Rate * e < TIMER_WAIT + Rate * (2 * Lag + lag)
           /\ look # "start" => Rate * d < TIMER_WAIT + Rate * (Lag + lag)
<1>1. lag \in Nat /\ Lag \in Nat /\ TIMER_WAIT \in Nat /\ TIMER_WAIT > 0 /\ Rate \in {0, 1, 2}
  BY RateValue, Timing DEF BoardInv
<1>2. /\ look = "start" => e <= lag
      /\ look # "start" => e <= Lag + d
      /\ look = "clock" => Rate * d < TIMER_WAIT + Rate * (Lag + lag)
      /\ look = "flag" => Rate * d < TIMER_WAIT + Rate * lag
  BY DEF WaitInv
<1>3. CASE Rate = 0
  BY <1>1, <1>2, <1>3
<1>4. CASE Rate = 1
  BY <1>1, <1>2, <1>4
<1>5. CASE Rate = 2
  BY <1>1, <1>2, <1>5
<1>6. QED
  BY <1>1, <1>3, <1>4, <1>5

\* Nor is a tick more.
LEMMA TickBound ==
    ASSUME lag \in Nat, lag < Lag, NEW e \in Nat, Rate * e < TIMER_WAIT + Rate * (2 * Lag + lag)
    PROVE  Rate * (e + 1) < 2 * Wrap /\ Rate * (e + 1) < TIMER_WAIT + Rate * (2 * Lag + (lag + 1))
<1>1. CASE Rate = 0
  BY <1>1, Timing
<1>2. CASE Rate = 1
  BY <1>2, Timing
<1>3. CASE Rate = 2
  BY <1>3, Timing
<1>4. QED
  BY <1>1, <1>2, <1>3, RateValue

\* The second update: time.
LEMMA SecondTick ==
    ASSUME TypeInv, FaultInv, Tick, NEW k, NEW t \in Timers, PeriodTestAt(case, k, t),
           SetUpInv(k, t), SecondInv(k, t)
    PROVE  SecondInv(k, t)'
<1>1. PlaceInv /\ BoardInv /\ Lag \in Nat /\ Lag > 0
  BY Constants DEF TypeInv
<1>2. AtStep
  BY DEF Tick, TakesTime
<1>3. k \in Nat /\ at \in Nat
  BY <1>1, <1>2, PeriodSteps
<1>4. /\ UNCHANGED <<case, at, fault, time, look>> /\ RealPeriod(t)' = RealPeriod(t)
      /\ Rate' = Rate
      /\ tick' = IF tick + Rate < Wrap THEN tick + Rate ELSE tick + Rate - Wrap
      /\ lag < Lag /\ lag' = lag + 1
      /\ cnt'[t] = IF ~Counts(t) THEN cnt[t] ELSE IF Overflows(t) THEN 0 ELSE cnt[t] + 1
      /\ Overflows(t) => Flag(t)' \/ StuckAt(<<t, "INTFR">>, "UIF", 0)
      /\ ~Overflows(t) => Value(<<t, "INTFR">>)' = Value(<<t, "INTFR">>)
  BY PeriodTick
<1>5. /\ cnt[t] \in Nat /\ RealPeriod(t) \in Nat /\ lag \in Nat
      /\ tick \in 0..Wrap - 1 /\ time.start \in 0..Wrap - 1
  BY <1>1, PeriodValue, Constants DEF BoardInv
<1>6. (SoundFlag(t)' <=> SoundFlag(t)) /\ (SoundEnable(t)' <=> SoundEnable(t))
  BY <1>4 DEF SoundFlag, SoundEnable, FaultOf
<1>7. ~Overflows(t) => (Flag(t)' <=> Flag(t))
  BY <1>4 DEF Flag
<1>8. ASSUME NEW e \in Nat, ReadAfter(tick, e), Rate * (e + 1) < 2 * Wrap
      PROVE  ReadAfter(tick, e + 1)'
  <2>1. ReadAfter(tick', e + 1)
    BY <1>4, <1>5, <1>8, ReadTick
  <2>2. QED
    BY <1>4, <2>1 DEF ReadAfter
<1>9. CASE at = k + 14
  <2>1. PICK e \in Nat, d \in Nat : WaitInv(t, e, d)
    BY <1>9 DEF SecondInv
  <2>2. look \in {"start", "clock", "flag"}
    BY <1>1 DEF PlaceInv
  <2>3. PICK d2 \in Nat : d2 = IF look = "start" THEN 0 ELSE d + 1
    OBVIOUS
  <2>4. ReadAfter(tick, e + 1)'
    <3>1. Rate * (e + 1) < 2 * Wrap
      BY <1>1, <1>4, <1>5, <2>1, <2>2, WaitBound, TickBound
    <3>2. QED
      BY <1>8, <2>1, <3>1 DEF WaitInv
  <2>5. t \in clocked /\ (SoundEnable(t) => Counts(t)) /\ cnt[t] < RealPeriod(t)
        /\ ~StuckAt(<<t, "INTFR">>, "UIF", 0)
    BY <1>3, <1>9 DEF SetUpInv, Counts
  <2>6. Overflows(t) => Flag(t)'
    BY <1>4, <2>5
  <2>7. ASSUME SoundFlag(t), 2 * Lag <= RealPeriod(t)
        PROVE  IF Flag(t)' THEN e + 1 > RealPeriod(t) - 2 * Lag ELSE cnt'[t] < 2 * Lag + (e + 1)
    <3>1. IF Flag(t) THEN e > RealPeriod(t) - 2 * Lag ELSE cnt[t] < 2 * Lag + e
      BY <2>1, <2>7 DEF WaitInv
    <3>2. CASE Overflows(t)
      <4>1. cnt[t] + 1 >= RealPeriod(t)
        BY <3>2 DEF Overflows
      <4>2. QED
        BY <1>1, <1>5, <2>6, <3>1, <3>2, <4>1
    <3>3. CASE ~Overflows(t)
      <4>1. cnt'[t] = cnt[t] \/ cnt'[t] = cnt[t] + 1
        BY <1>4, <3>3
      <4>2. QED
        BY <1>1, <1>5, <1>7, <3>1, <3>3, <4>1
    <3>4. QED
      BY <3>2, <3>3
  <2>8. ASSUME SoundEnable(t)
        PROVE  IF Flag(t)' THEN e + 1 < RealPeriod(t) + (lag + 1) ELSE e + 1 <= cnt'[t]
    <3>1. IF Flag(t) THEN e < RealPeriod(t) + lag ELSE e <= cnt[t]
      BY <2>1, <2>8 DEF WaitInv
    <3>2. Counts(t)
      BY <2>5, <2>8
    <3>3. CASE Overflows(t)
      BY <1>5, <2>5, <2>6, <3>1, <3>3
    <3>4. CASE ~Overflows(t)
      BY <1>4, <1>5, <1>7, <3>1, <3>2, <3>4
    <3>5. QED
      BY <3>3, <3>4
  <2>9. /\ look = "start" => e + 1 <= lag + 1 /\ d2 = 0
        /\ look # "start" => /\ d2 <= e + 1 /\ e + 1 <= Lag + d2
                             /\ ReadAfter(time.wait, e + 1 - d2)'
    <3>1. /\ look = "start" => e <= lag
          /\ look # "start" => d <= e /\ e <= Lag + d /\ ReadAfter(time.wait, e - d)
      BY <2>1 DEF WaitInv
    <3>2. look # "start" => e + 1 - d2 = e - d
      BY <2>3
    <3>3. look # "start" => ReadAfter(time.wait, e + 1 - d2)'
      BY <1>4, <3>1, <3>2 DEF ReadAfter
    <3>4. QED
      BY <1>1, <1>5, <2>3, <3>1, <3>3
  <2>10. /\ look = "clock" => Rate * d2 < TIMER_WAIT + Rate * (Lag + (lag + 1))
         /\ look = "flag" => Rate * d2 < TIMER_WAIT + Rate * (lag + 1)
    <3>1. /\ look = "clock" => Rate * d < TIMER_WAIT + Rate * (Lag + lag) /\ d2 = d + 1
          /\ look = "flag" => Rate * d < TIMER_WAIT + Rate * lag /\ d2 = d + 1
      BY <2>1, <2>3 DEF WaitInv
    <3>2. CASE Rate = 0
      BY <1>5, <3>1, <3>2, Timing
    <3>3. CASE Rate = 1
      BY <1>5, <3>1, <3>3, Timing
    <3>4. CASE Rate = 2
      BY <1>5, <3>1, <3>4, Timing
    <3>5. QED
      BY <3>2, <3>3, <3>4, RateValue
  <2>11. WaitInv(t, e + 1, d2)'
    <3>1. (SoundFlag(t) /\ 2 * Lag <= RealPeriod(t) =>
             IF Flag(t) THEN e + 1 > RealPeriod(t) - 2 * Lag ELSE cnt[t] < 2 * Lag + (e + 1))'
      BY <1>4, <1>6, <2>7
    <3>2. (SoundEnable(t) => IF Flag(t) THEN e + 1 < RealPeriod(t) + lag ELSE e + 1 <= cnt[t])'
      BY <1>4, <1>6, <2>8
    <3>3. (IF look = "start" THEN e + 1 <= lag /\ d2 = 0
           ELSE d2 <= e + 1 /\ e + 1 <= Lag + d2 /\ ReadAfter(time.wait, e + 1 - d2))'
      BY <1>4, <2>9
    <3>4. (look = "clock" => Rate * d2 < TIMER_WAIT + Rate * (Lag + lag))'
      BY <1>4, <2>10
    <3>5. (look = "flag" => Rate * d2 < TIMER_WAIT + Rate * lag)'
      BY <1>4, <2>10
    <3>6. QED
      BY <2>4, <3>1, <3>2, <3>3, <3>4, <3>5 DEF WaitInv
  <2>12. \E a, b \in Nat : WaitInv(t, a, b)'
    <3>1. e + 1 \in Nat
      OBVIOUS
    <3>2. QED
      BY Zenon, <2>11, <3>1
  <2>13. QED
    BY <1>3, <1>4, <1>9, <2>12 DEF SecondInv
<1>10. CASE at = k + 15
  <2>1. PICK e \in Nat : ReadAfter(tick, e) /\ MeasuredIn(t, e, lag)
    BY <1>3, <1>10 DEF SecondInv
  <2>2. Rate * e < TIMER_WAIT + Rate * (2 * Lag + lag)
    BY <2>1 DEF MeasuredIn
  <2>3. /\ Rate * (e + 1) < 2 * Wrap
        /\ Rate * (e + 1) < TIMER_WAIT + Rate * (2 * Lag + (lag + 1))
    BY <1>4, <1>5, <2>2, TickBound
  <2>4. ReadAfter(tick, e + 1)'
    BY <1>8, <2>1, <2>3
  <2>5. MeasuredIn(t, e + 1, lag)'
    BY <1>1, <1>4, <1>5, <1>6, <2>1, <2>3 DEF MeasuredIn
  <2>6. e + 1 \in Nat
    OBVIOUS
  <2>7. \E a \in Nat : (ReadAfter(tick, a) /\ MeasuredIn(t, a, lag))'
    BY <2>4, <2>5, <2>6
  <2>8. QED
    BY <1>3, <1>4, <1>10, <2>7 DEF SecondInv
<1>11. CASE at \notin {k + 14, k + 15}
  <2>1. at \in k + 1..k + 18 => at \in {k + 11, k + 13, k + 14, k + 15}
    BY <1>1, PeriodTimed
  <2>2. at \notin k + 14..k + 18
    BY <1>3, <1>11, <2>1
  <2>3. QED
    BY <1>3, <1>4, <2>2 DEF SecondInv
<1>12. QED
  BY <1>9, <1>10, <1>11

\* The loop that waits knows how long it has waited.
LEMMA WaitTime ==
    ASSUME BoardInv, NEW e \in Nat, NEW d \in Nat, d <= e, ReadAfter(tick, e),
           ReadAfter(time.wait, e - d), Rate * d < Wrap
    PROVE  Elapsed(tick, time.wait) = Rate * d
<1> DEFINE a == Rate * e
           b == Rate * (e - d)
           c == Rate * d
           W == Wrap
<1>1. W \in Nat /\ W > 0 /\ tick \in 0..W - 1 /\ time.wait \in 0..W - 1
  BY Timing DEF BoardInv
<1>2. a \in Nat /\ c \in Nat /\ b = a - c
  <2>1. CASE Rate = 0
    BY <2>1
  <2>2. CASE Rate = 1
    BY <2>2
  <2>3. CASE Rate = 2
    BY <2>3
  <2>4. QED
    BY <2>1, <2>2, <2>3, RateValue
<1>3. /\ time.start + a \in {tick, tick + W, tick + 2 * W}
      /\ time.start + b \in {time.wait, time.wait + W, time.wait + 2 * W}
      /\ c < W
  BY DEF ReadAfter
<1>4. time.start \in 0..W - 1
  BY DEF BoardInv
<1>5. Elapsed(tick, time.wait) = (tick - time.wait) % W
  BY DEF Elapsed
<1> HIDE DEF a, b, c, W
<1>6. tick - time.wait \in {c, c - W}
  BY <1>1, <1>2, <1>3, <1>4
<1>7. c % W = c /\ (c - W) % W = c
  BY <1>1, <1>2, <1>3
<1>8. Elapsed(tick, time.wait) = c
  BY <1>5, <1>6, <1>7
<1>9. QED
  BY <1>8 DEF c

\* The second update: the start of the measurement.
LEMMA SecondStart ==
    ASSUME TypeInv, LookInv, AtStep, StepOf(Step), verdict' = "pass",
           NEW k, NEW t \in Timers, PeriodTestAt(case, k, t), SetUpInv(k, t), FirstInv(k, t),
           at = k + 13
    PROVE  at' = k + 14 /\ WaitInv(t, 0, 0)'
<1>1. PlaceInv /\ BoardInv /\ k \in Nat /\ at \in Nat /\ Lag \in Nat /\ Lag > 0
  BY PeriodSteps, Constants DEF TypeInv
<1>2. at \in k + 1..k + 18 /\ at \in k + 5..k + 18 /\ at \in k + 9..k + 18 /\ t \in clocked
      /\ at \in k + 9..k + 17
  BY <1>1 DEF SetUpInv
<1>3. Step.op = "mark" /\ Step.name = "start"
  BY Zenon, <1>1, PeriodSteps
<1>4. MarkStep(Step)
  BY <1>3, OpStep
<1>5. /\ at' = at + 1 /\ fault' = fault /\ RealPeriod(t)' = RealPeriod(t) /\ Rate' = Rate
      /\ cnt' = cnt /\ tick' = tick /\ look' = look
  BY <1>1, <1>2, <1>3, PeriodMoves, PeriodKept
<1>6. time' = [time EXCEPT !.start = tick] /\ lag' = 0
  BY <1>3, <1>4 DEF MarkStep
<1>7. time'.start = tick
  BY <1>1, <1>6 DEF BoardInv
<1>8. look = "start"
  BY <1>3 DEF LookInv
<1>9. Value(<<t, "INTFR">>)' = Value(<<t, "INTFR">>)
  <2>1. at \notin {k + 9, k + 12, k + 16}
    BY <1>1
  <2>2. QED
    BY <1>2, <2>1, PeriodBits
<1>10. (Flag(t)' <=> Flag(t)) /\ (SoundFlag(t)' <=> SoundFlag(t))
  BY <1>5, <1>9 DEF Flag, SoundFlag, FaultOf
<1>11. /\ RealPeriod(t) \in Nat /\ RealPeriod(t) > 0 /\ cnt[t] \in Nat /\ lag \in Nat
       /\ lag <= Lag /\ tick \in 0..Wrap - 1
  BY <1>1, PeriodValue, Constants DEF BoardInv
<1>12. Rate * 0 = 0
  BY RateValue
<1>13. ReadAfter(tick, 0)'
  <2>1. tick + 0 \in {tick, tick + Wrap, tick + 2 * Wrap}
    BY <1>11, Timing
  <2>2. time'.start + Rate' * 0 \in {tick', tick' + Wrap, tick' + 2 * Wrap}
    BY <1>5, <1>7, <1>12, <2>1
  <2>3. QED
    BY <2>2 DEF ReadAfter
<1>14. (SoundFlag(t) /\ 2 * Lag <= RealPeriod(t) =>
             IF Flag(t) THEN 0 > RealPeriod(t) - 2 * Lag ELSE cnt[t] < 2 * Lag + 0)'
  <2>1. SoundFlag(t) /\ 2 * Lag <= RealPeriod(t) => ~Flag(t) /\ cnt[t] < Lag + lag
    BY DEF FirstInv
  <2>2. QED
    BY <1>1, <1>5, <1>10, <1>11, <2>1
<1>15. (IF Flag(t) THEN 0 < RealPeriod(t) + lag ELSE 0 <= cnt[t])'
  BY <1>5, <1>6, <1>11
<1>16. QED
  BY <1>1, <1>5, <1>6, <1>8, <1>13, <1>14, <1>15 DEF WaitInv

\* The second update: the wait.
LEMMA SecondWait ==
    ASSUME TypeInv, AtStep, StepOf(Step), verdict' = "pass",
           NEW k, NEW t \in Timers, PeriodTestAt(case, k, t), SetUpInv(k, t),
           at = k + 14, NEW e \in Nat, NEW d \in Nat, WaitInv(t, e, d)
    PROVE  \/ at' = k + 14 /\ (WaitInv(t, e, d) \/ WaitInv(t, e, 0))'
           \/ at' = k + 15 /\ (ReadAfter(tick, e) /\ MeasuredIn(t, e, lag))'
<1>1. PlaceInv /\ BoardInv /\ k \in Nat /\ at \in Nat /\ Lag \in Nat /\ Lag > 0
  BY PeriodSteps, Constants DEF TypeInv
<1>2. at \in k + 1..k + 18 /\ at \in k + 5..k + 18 /\ at \in k + 9..k + 18 /\ t \in clocked
  BY <1>1 DEF SetUpInv
<1>3. Step.op = "await" /\ Step.tim = t
  <2>1. at \in {k + 11, k + 14}
    OBVIOUS
  <2>2. QED
    BY Zenon, <1>1, <2>1, PeriodSteps
<1>4. /\ fault' = fault /\ RealPeriod(t)' = RealPeriod(t) /\ Rate' = Rate /\ cnt' = cnt
  BY <1>1, <1>2, <1>3, PeriodMoves, PeriodKept
<1>5. Value(<<t, "INTFR">>)' = Value(<<t, "INTFR">>)
  <2>1. at \notin {k + 9, k + 12, k + 16}
    BY <1>1
  <2>2. QED
    BY <1>2, <2>1, PeriodBits
<1>6. /\ (Flag(t)' <=> Flag(t)) /\ (SoundFlag(t)' <=> SoundFlag(t))
      /\ (SoundEnable(t)' <=> SoundEnable(t))
  BY <1>4, <1>5 DEF Flag, SoundFlag, SoundEnable, FaultOf
<1>7. /\ RealPeriod(t) \in Nat /\ RealPeriod(t) > 0 /\ cnt[t] \in Nat /\ lag \in Nat
      /\ lag <= Lag /\ tick \in 0..Wrap - 1
  BY <1>1, PeriodValue, Constants DEF BoardInv
<1>8. Rate * 0 = 0
  BY RateValue
<1>9. /\ ReadAfter(tick, e)
      /\ SoundFlag(t) /\ 2 * Lag <= RealPeriod(t) =>
             IF Flag(t) THEN e > RealPeriod(t) - 2 * Lag ELSE cnt[t] < 2 * Lag + e
      /\ SoundEnable(t) => IF Flag(t) THEN e < RealPeriod(t) + lag ELSE e <= cnt[t]
  BY DEF WaitInv
<1>10. look \in {"start", "clock", "flag"}
  BY <1>1 DEF PlaceInv
<1>11. CASE StartWait(Step)
  <2>1. /\ look = "start" /\ look' = "clock" /\ time' = [time EXCEPT !.wait = tick]
        /\ UNCHANGED <<at, tick, lag>>
    BY <1>11 DEF StartWait, board
  <2>2. time'.start = time.start /\ time'.wait = tick
    BY <1>1, <2>1 DEF BoardInv
  <2>3. ReadAfter(tick, e)' /\ ReadAfter(time.wait, e - 0)'
    <3>1. e - 0 = e
      OBVIOUS
    <3>2. QED
      BY <1>4, <1>9, <2>1, <2>2, <3>1 DEF ReadAfter
  <2>4. e <= lag
    BY <2>1 DEF WaitInv
  <2>5. (Rate * 0 < TIMER_WAIT + Rate * (Lag + lag))'
    <3>1. CASE Rate = 0
      BY <1>4, <1>7, <2>1, <3>1, Timing
    <3>2. CASE Rate = 1
      BY <1>4, <1>7, <2>1, <3>2, Timing
    <3>3. CASE Rate = 2
      BY <1>4, <1>7, <2>1, <3>3, Timing
    <3>4. QED
      BY <3>1, <3>2, <3>3, RateValue
  <2>6. (0 <= e /\ e <= Lag + 0 /\ ReadAfter(time.wait, e - 0))'
    BY <1>1, <1>7, <2>3, <2>4
  <2>7. WaitInv(t, e, 0)'
    BY <1>4, <1>6, <1>9, <2>1, <2>3, <2>5, <2>6 DEF WaitInv
  <2>8. QED
    BY <2>1, <2>7
<1>12. CASE AwaitClock(Step)
  <2>1. /\ look = "clock" /\ look' = "flag" /\ UNCHANGED <<at, time, tick, lag>>
        /\ Elapsed(tick, time.wait) < Ticks(TIMER_WAIT)
    BY <1>12 DEF AwaitClock, Judge
  <2>2. /\ d <= e /\ e <= Lag + d /\ ReadAfter(time.wait, e - d)
        /\ Rate * d < TIMER_WAIT + Rate * (Lag + lag)
    BY <2>1 DEF WaitInv
  <2>3. Rate * d < Wrap
    <3>1. CASE Rate = 0
      BY <3>1, Timing
    <3>2. CASE Rate = 1
      BY <1>7, <2>2, <3>2, Timing
    <3>3. CASE Rate = 2
      BY <1>7, <2>2, <3>3, Timing
    <3>4. QED
      BY <3>1, <3>2, <3>3, RateValue
  <2>4. Rate * d < TIMER_WAIT
    <3>1. Elapsed(tick, time.wait) = Rate * d
      BY <1>1, <1>9, <2>2, <2>3, WaitTime
    <3>2. PICK c : c = Rate * d
      OBVIOUS
    <3>3. c \in Nat
      BY <3>2, RateTimes
    <3>4. PICK w : w = Ticks(TIMER_WAIT)
      OBVIOUS
    <3>5. c < w /\ w \in Nat /\ w <= TIMER_WAIT
      BY <2>1, <3>1, <3>2, <3>4, WaitTicks
    <3>6. QED
      BY <3>2, <3>3, <3>5, Timing
  <2>5. Rate * d < TIMER_WAIT + Rate * lag
    <3>1. CASE Rate = 0
      BY <1>7, <2>4, <3>1, Timing
    <3>2. CASE Rate = 1
      BY <1>7, <2>4, <3>2, Timing
    <3>3. CASE Rate = 2
      BY <1>7, <2>4, <3>3, Timing
    <3>4. QED
      BY <3>1, <3>2, <3>3, RateValue
  <2>6. ReadAfter(tick, e)' /\ ReadAfter(time.wait, e - d)'
    BY <1>4, <1>9, <2>1, <2>2 DEF ReadAfter
  <2>7. (d <= e /\ e <= Lag + d /\ ReadAfter(time.wait, e - d))'
    BY <2>2, <2>6
  <2>8. (Rate * d < TIMER_WAIT + Rate * lag)'
    BY <1>4, <2>1, <2>5
  <2>9. WaitInv(t, e, d)'
    BY <1>4, <1>6, <1>9, <2>1, <2>6, <2>7, <2>8 DEF WaitInv
  <2>10. QED
    BY <2>1, <2>9
<1>13. CASE AwaitFlag(Step)
  <2>1. /\ look = "flag" /\ UNCHANGED <<time, tick>> /\ lag' = 0
        /\ IF Flag(t) THEN at' = at + 1 ELSE at' = at /\ look' = "clock"
    BY <1>3, <1>13 DEF AwaitFlag, GoOn, Flag, Value
  <2>2. /\ d <= e /\ e <= Lag + d /\ ReadAfter(time.wait, e - d)
        /\ Rate * d < TIMER_WAIT + Rate * lag
    BY <2>1 DEF WaitInv
  <2>3. ReadAfter(tick, e)' /\ ReadAfter(time.wait, e - d)'
    BY <1>4, <1>9, <2>1, <2>2 DEF ReadAfter
  <2>4. CASE Flag(t)
    <3>1. Rate * e < TIMER_WAIT + Rate * (2 * Lag + 0)
      <4>1. CASE Rate = 0
        BY <2>2, <4>1, Timing
      <4>2. CASE Rate = 1
        BY <1>7, <2>2, <4>2, Timing
      <4>3. CASE Rate = 2
        BY <1>7, <2>2, <4>3, Timing
      <4>4. QED
        BY <4>1, <4>2, <4>3, RateValue
    <3>2. (SoundFlag(t) /\ 2 * Lag <= RealPeriod(t) => e > RealPeriod(t) - 2 * Lag)'
      BY <1>4, <1>6, <1>9, <2>4
    <3>3. (SoundEnable(t) => e < RealPeriod(t) + Lag + lag)'
      BY <1>1, <1>4, <1>6, <1>7, <1>9, <2>1, <2>4
    <3>4. (Rate * e < TIMER_WAIT + Rate * (2 * Lag + lag))'
      BY <1>4, <2>1, <3>1
    <3>5. MeasuredIn(t, e, lag)'
      BY <3>2, <3>3, <3>4 DEF MeasuredIn
    <3>6. QED
      BY <1>1, <2>1, <2>3, <2>4, <3>5
  <2>5. CASE ~Flag(t)
    <3>1. Rate * d < TIMER_WAIT + Rate * (Lag + 0)
      <4>1. CASE Rate = 0
        BY <2>2, <4>1, Timing
      <4>2. CASE Rate = 1
        BY <1>7, <2>2, <4>2, Timing
      <4>3. CASE Rate = 2
        BY <1>7, <2>2, <4>3, Timing
      <4>4. QED
        BY <4>1, <4>2, <4>3, RateValue
    <3>2. (Rate * d < TIMER_WAIT + Rate * (Lag + lag))'
      BY <1>4, <2>1, <3>1
    <3>3. (d <= e /\ e <= Lag + d /\ ReadAfter(time.wait, e - d))'
      BY <2>2, <2>3
    <3>4. WaitInv(t, e, d)'
      BY <1>4, <1>6, <1>9, <2>1, <2>3, <2>5, <3>2, <3>3 DEF WaitInv
    <3>5. QED
      BY <2>1, <2>5, <3>4
  <2>6. QED
    BY <2>4, <2>5
<1>14. QED
  BY <1>3, <1>11, <1>12, <1>13, OpStep

\* The second update: the steps.
LEMMA SecondStep ==
    ASSUME TypeInv, FaultInv, LookInv, AtStep, StepOf(Step), verdict' = "pass",
           NEW k, NEW t \in Timers, PeriodTestAt(case, k, t),
           SetUpInv(k, t), FirstInv(k, t), SecondInv(k, t)
    PROVE  SecondInv(k, t)'
<1>1. PlaceInv /\ BoardInv /\ k \in Nat /\ at \in Nat /\ Lag \in Nat /\ Lag > 0
  BY PeriodSteps, Constants DEF TypeInv
<1>2. CASE at \notin k + 13..k + 17
  <2>1. at' \notin k + 14..k + 18
    <3>1. CASE at = k + 18
      <4>1. at \in k + 1..k + 18 /\ Step.op = "window"
        <5>1. Step.op = "window"
          BY Zenon, <1>1, <3>1, PeriodSteps
        <5>2. QED
          BY <1>1, <3>1, <5>1
      <4>2. at' = at + 1
        BY <1>1, <4>1, PeriodMoves
      <4>3. QED
        BY <1>1, <3>1, <4>2
    <3>2. CASE at # k + 18
      <4>1. at' = at \/ at' = at + 1
        BY <1>1, StepGoes
      <4>2. QED
        BY <1>1, <1>2, <3>2, <4>1
    <3>3. QED
      BY <3>1, <3>2
  <2>2. at' # k + 14 /\ at' # k + 15 /\ at' \notin k + 16..k + 18
    BY <1>1, <2>1
  <2>3. QED
    BY <2>2 DEF SecondInv
<1>3. CASE at = k + 13
  <2>1. at' = k + 14 /\ WaitInv(t, 0, 0)'
    BY <1>3, SecondStart
  <2>2. \E a, b \in Nat : WaitInv(t, a, b)'
    <3>1. 0 \in Nat
      OBVIOUS
    <3>2. QED
      BY Zenon, <2>1, <3>1
  <2>3. QED
    BY <1>1, <2>1, <2>2 DEF SecondInv
<1>4. CASE at = k + 14
  <2>1. PICK e \in Nat, d \in Nat : WaitInv(t, e, d)
    BY <1>4 DEF SecondInv
  <2>2. \/ at' = k + 14 /\ (WaitInv(t, e, d)' \/ WaitInv(t, e, 0)')
        \/ at' = k + 15 /\ ReadAfter(tick, e)' /\ MeasuredIn(t, e, lag)'
    BY <1>4, <2>1, SecondWait
  <2>3. CASE at' = k + 14 /\ (WaitInv(t, e, d)' \/ WaitInv(t, e, 0)')
    <3>1. \E a, b \in Nat : WaitInv(t, a, b)'
      <4>1. 0 \in Nat
        OBVIOUS
      <4>2. QED
        BY Zenon, <2>3, <4>1
    <3>2. QED
      BY <1>1, <2>3, <3>1 DEF SecondInv
  <2>4. CASE at' = k + 15 /\ ReadAfter(tick, e)' /\ MeasuredIn(t, e, lag)'
    BY <1>1, <2>4 DEF SecondInv
  <2>5. QED
    BY <2>2, <2>3, <2>4
<1>5. CASE at \in k + 15..k + 17
  <2>1. at \in k + 1..k + 18 /\ at \in k + 5..k + 18 /\ at # k + 14 /\ at # k + 13 /\ at # k + 11
        /\ at \in k + 2..k + 18
    BY <1>1, <1>5
  <2>2. Step.op # "await"
    BY <1>1, <1>5, <2>1, PeriodOps
  <2>3. /\ at' = at + 1 /\ fault' = fault /\ RealPeriod(t)' = RealPeriod(t) /\ Rate' = Rate
        /\ Step.op # "mark" => UNCHANGED <<time, lag>>
        /\ tick' = tick
    BY <1>1, <2>1, <2>2, PeriodMoves, PeriodKept
  <2>4. (SoundFlag(t)' <=> SoundFlag(t)) /\ (SoundEnable(t)' <=> SoundEnable(t))
    BY <2>3 DEF SoundFlag, SoundEnable, FaultOf
  <2>5. /\ RealPeriod(t) \in Nat /\ lag \in Nat /\ lag <= Lag
    BY <1>1, PeriodValue, Constants DEF BoardInv
  <2>6. CASE at = k + 15
    <3>1. PICK e \in Nat : ReadAfter(tick, e) /\ MeasuredIn(t, e, lag)
      BY <1>1, <2>6 DEF SecondInv
    <3>2. MarkStep(Step) /\ Step.name = "end"
      <4>1. Step.op = "mark" /\ Step.name = "end"
        BY Zenon, <1>1, <2>6, PeriodSteps
      <4>2. QED
        BY <4>1, OpStep
    <3>3. time' = [time EXCEPT !.end = tick]
      BY <3>2 DEF MarkStep
    <3>4. time'.start = time.start /\ time'.end = tick
      BY <1>1, <3>3 DEF BoardInv
    <3>5. ReadAfter(time.end, e)'
      BY <2>3, <3>1, <3>4 DEF ReadAfter
    <3>6. /\ SoundFlag(t) /\ 2 * Lag <= RealPeriod(t) => e > RealPeriod(t) - 2 * Lag
          /\ SoundEnable(t) => e < RealPeriod(t) + Lag + Lag
          /\ Rate * e < TIMER_WAIT + Rate * (2 * Lag + Lag)
      <4>1. Rate * e < TIMER_WAIT + Rate * (2 * Lag + lag)
        BY <3>1 DEF MeasuredIn
      <4>2. Rate * e < TIMER_WAIT + Rate * (2 * Lag + Lag)
        <5>1. CASE Rate = 0
          BY <2>5, <4>1, <5>1, Timing
        <5>2. CASE Rate = 1
          BY <2>5, <4>1, <5>2, Timing
        <5>3. CASE Rate = 2
          BY <2>5, <4>1, <5>3, Timing
        <5>4. QED
          BY <5>1, <5>2, <5>3, RateValue
      <4>3. QED
        BY <1>1, <2>5, <3>1, <4>2 DEF MeasuredIn
    <3>7. MeasuredIn(t, e, Lag)'
      BY <2>3, <2>4, <3>6 DEF MeasuredIn
    <3>8. \E a \in Nat : ReadAfter(time.end, a)' /\ MeasuredIn(t, a, Lag)'
      BY Zenon, <3>5, <3>7
    <3>9. QED
      BY <1>1, <2>3, <2>6, <3>8 DEF SecondInv
  <2>7. CASE at # k + 15
    <3>1. PICK e \in Nat : ReadAfter(time.end, e) /\ MeasuredIn(t, e, Lag)
      BY <1>1, <1>5, <2>7 DEF SecondInv
    <3>2. time' = time
      <4>1. Step.op # "mark"
        BY <1>1, <2>1, <2>7, PeriodOps
      <4>2. QED
        BY <2>3, <4>1
    <3>3. ReadAfter(time.end, e)' /\ MeasuredIn(t, e, Lag)'
      BY <2>3, <2>4, <3>1, <3>2 DEF ReadAfter, MeasuredIn
    <3>4. \E a \in Nat : ReadAfter(time.end, a)' /\ MeasuredIn(t, a, Lag)'
      BY Zenon, <3>3
    <3>5. QED
      BY <1>1, <1>5, <2>3, <2>7, <3>4 DEF SecondInv
  <2>8. QED
    BY <2>6, <2>7
<1>6. QED
  BY <1>1, <1>2, <1>3, <1>4, <1>5

\* Of the second update, what stays when nothing moves.
LEMMA SecondIdle ==
    ASSUME BoardInv, NEW k, NEW t \in Timers, SecondInv(k, t), UNCHANGED <<cpu, board, fault>>
    PROVE  SecondInv(k, t)'
<1>1. /\ UNCHANGED <<at, tick, time, look, lag, cnt, regs, fault>>
  BY DEF cpu, board
<1>2. RealPeriod(t)' = RealPeriod(t) /\ Rate' = Rate
  BY <1>1, PeriodSame DEF Value
<1>3. /\ Flag(t)' <=> Flag(t)
      /\ SoundFlag(t)' <=> SoundFlag(t)
      /\ SoundEnable(t)' <=> SoundEnable(t)
  BY <1>1 DEF Flag, Value, SoundFlag, SoundEnable, FaultOf
<1>4. ASSUME NEW e \in Nat
      PROVE  /\ ReadAfter(tick, e)' <=> ReadAfter(tick, e)
             /\ ReadAfter(time.end, e)' <=> ReadAfter(time.end, e)
             /\ MeasuredIn(t, e, lag)' <=> MeasuredIn(t, e, lag)
             /\ MeasuredIn(t, e, Lag)' <=> MeasuredIn(t, e, Lag)
  BY <1>1, <1>2, <1>3 DEF ReadAfter, MeasuredIn
<1>5. ASSUME NEW e \in Nat, NEW d \in Nat
      PROVE  WaitInv(t, e, d)' <=> WaitInv(t, e, d)
  BY <1>1, <1>2, <1>3 DEF ReadAfter, WaitInv
<1>6. at = k + 14 => \E e, d \in Nat : WaitInv(t, e, d)'
  <2>1. at = k + 14 => \E e, d \in Nat : WaitInv(t, e, d)
    BY DEF SecondInv
  <2>2. QED
    BY Zenon, <1>5, <2>1
<1>7. at = k + 15 => \E e \in Nat : ReadAfter(tick, e)' /\ MeasuredIn(t, e, lag)'
  <2>1. at = k + 15 => \E e \in Nat : ReadAfter(tick, e) /\ MeasuredIn(t, e, lag)
    BY DEF SecondInv
  <2>2. QED
    BY Zenon, <1>4, <2>1
<1>8. at \in k + 16..k + 18 => \E e \in Nat : ReadAfter(time.end, e)' /\ MeasuredIn(t, e, Lag)'
  <2>1. at \in k + 16..k + 18 => \E e \in Nat : ReadAfter(time.end, e) /\ MeasuredIn(t, e, Lag)
    BY DEF SecondInv
  <2>2. QED
    BY Zenon, <1>4, <2>1
<1>9. QED
  BY <1>1, <1>6, <1>7, <1>8 DEF SecondInv

\* And of the rest.
LEMMA SetUpIdle ==
    ASSUME BoardInv, NEW k, NEW t \in Timers, SetUpInv(k, t), FirstInv(k, t),
           UNCHANGED <<cpu, board, fault>>
    PROVE  SetUpInv(k, t)' /\ FirstInv(k, t)'
<1>1. UNCHANGED <<at, lag, cnt, regs, fault, clocked>>
  BY DEF cpu, board
<1>2. RealPeriod(t)' = RealPeriod(t)
  BY <1>1, PeriodSame DEF Value
<1>3. \A n \in {"PSC", "ATRLR", "CTLR1", "INTFR"} : Value(<<t, n>>)' = Value(<<t, n>>)
  BY <1>1 DEF Value
<1>4. /\ Flag(t)' <=> Flag(t)
      /\ SoundFlag(t)' <=> SoundFlag(t)
      /\ SoundEnable(t)' <=> SoundEnable(t)
      /\ FaultOf(<<t, "PSC">>)' <=> FaultOf(<<t, "PSC">>)
      /\ FaultOf(<<t, "ATRLR">>)' <=> FaultOf(<<t, "ATRLR">>)
      /\ StuckAt(<<t, "CTLR1">>, "CEN", 0)' <=> StuckAt(<<t, "CTLR1">>, "CEN", 0)
      /\ StuckAt(<<t, "INTFR">>, "UIF", 0)' <=> StuckAt(<<t, "INTFR">>, "UIF", 0)
  BY <1>1 DEF Flag, Value, SoundFlag, SoundEnable, FaultOf, StuckAt
<1>5. SetUpInv(k, t)'
  BY <1>1, <1>2, <1>3, <1>4 DEF SetUpInv
<1>6. FirstInv(k, t)'
  BY <1>1, <1>2, <1>4 DEF FirstInv
<1>7. QED
  BY <1>5, <1>6

\* PeriodInv is inductive.
LEMMA PeriodNext ==
    ASSUME TypeInv, FaultInv, LookInv, PeriodInv, [Next]_vars
    PROVE  PeriodInv'
<1>1. PlaceInv /\ BoardInv
  BY DEF TypeInv
<1>2. SUFFICES ASSUME ~AllDone', verdict' = "pass", NEW t \in Timers, NEW k \in Nat,
                      PeriodTestAt(case', k, t)
               PROVE  (SetUpInv(k, t) /\ FirstInv(k, t) /\ SecondInv(k, t))'
  <2>1. \A q, m : PeriodTestAt(case', m, q) => m \in Nat
    BY DEF PeriodTestAt
  <2>2. QED
    BY <2>1 DEF PeriodInv
<1>3. CASE Return
  <2>1. at' = 1
    BY <1>3 DEF Return
  <2>2. \A m \in 2..18 : at' # k + m
    BY <2>1
  <2>3. /\ at' \notin k + 2..k + 18 /\ at' \notin k + 4..k + 18 /\ at' \notin k + 5..k + 18
        /\ at' \notin k + 9..k + 17 /\ at' \notin k + 11..k + 16 /\ at' \notin k + 12..k + 18
        /\ at' \notin k + 16..k + 18 /\ at' # k + 10 /\ at' # k + 11 /\ at' # k + 12
        /\ at' # k + 13 /\ at' # k + 14 /\ at' # k + 15
    BY <2>1
  <2>4. QED
    BY <2>3 DEF SetUpInv, FirstInv, SecondInv
<1>4. ASSUME case' = case, verdict = "pass"
      PROVE  /\ PeriodTestAt(case, k, t)
             /\ SetUpInv(k, t) /\ FirstInv(k, t) /\ SecondInv(k, t)
  <2>1. ~AllDone /\ PeriodTestAt(case, k, t)
    BY <1>2, <1>4 DEF AllDone
  <2>2. k + 18 <= Len(Now.steps) /\ Len(Now.steps) \in Nat
    <3>1. Len(StepsOf(case)) \in Nat /\ StepsOf(case) = Now.steps
      BY <1>1, <2>1, Tables DEF StepsOf, Now, PlaceInv, AllDone
    <3>2. QED
      BY <2>1, <3>1 DEF PeriodTestAt
  <2>3. k \in 0..Len(Now.steps)
    BY <2>2
  <2>4. QED
    BY <1>4, <2>1, <2>3 DEF PeriodInv
<1>5. CASE AtStep /\ StepOf(Step)
  <2>1. case' = case /\ verdict = "pass"
    BY <1>1, <1>2, <1>5, StepGoes
  <2>2. PeriodTestAt(case, k, t) /\ SetUpInv(k, t) /\ FirstInv(k, t) /\ SecondInv(k, t)
    BY <1>4, <2>1
  <2>3. QED
    BY <1>2, <1>5, <2>2, SetUpStep, FirstStep, SecondStep
<1>6. CASE Tick
  <2>1. case' = case /\ verdict = "pass"
    BY <1>2, <1>6 DEF Tick, cpu
  <2>2. PeriodTestAt(case, k, t) /\ SetUpInv(k, t) /\ FirstInv(k, t) /\ SecondInv(k, t)
    BY <1>4, <2>1
  <2>3. QED
    BY <1>6, <2>2, SetUpTick, FirstTick, SecondTick
<1>7. CASE DmaMoves \/ UNCHANGED vars
  <2>1. UNCHANGED <<cpu, board, fault>>
    BY <1>7 DEF DmaMoves, Transfer, vars, dmaVars
  <2>2. case' = case /\ verdict = "pass"
    BY <1>2, <2>1 DEF cpu
  <2>3. PeriodTestAt(case, k, t) /\ SetUpInv(k, t) /\ FirstInv(k, t) /\ SecondInv(k, t)
    BY <1>4, <2>2
  <2>4. QED
    BY <1>1, <2>1, <2>3, SetUpIdle, SecondIdle
<1>8. QED
  BY <1>3, <1>5, <1>6, <1>7 DEF Next, Cpu

\* PeriodInv holds when the program starts.
LEMMA InitPeriod == ASSUME Init PROVE PeriodInv
<1> SUFFICES ASSUME NEW t \in Timers, NEW k \in Nat
             PROVE  SetUpInv(k, t) /\ FirstInv(k, t) /\ SecondInv(k, t)
  BY DEF PeriodInv, PeriodTestAt
<1>1. at = 1
  BY DEF Init
<1>2. /\ at \notin k + 2..k + 18 /\ at \notin k + 4..k + 18 /\ at \notin k + 5..k + 18
      /\ at \notin k + 9..k + 17 /\ at \notin k + 11..k + 16 /\ at \notin k + 12..k + 18
      /\ at \notin k + 16..k + 18 /\ at # k + 10 /\ at # k + 11 /\ at # k + 12
      /\ at # k + 13 /\ at # k + 14 /\ at # k + 15
  BY <1>1
<1>3. QED
  BY <1>2 DEF SetUpInv, FirstInv, SecondInv

-----------------------------------------------------------------------------
(* A pass is earned.                                                       *)

\* A measurement that is within the tolerance is of a good period.
LEMMA GoodPeriod ==
    ASSUME BoardInv, FaultInv, NEW k, NEW t \in Timers, at = k + 18, k \in Nat,
           SetUpInv(k, t), SecondInv(k, t),
           Elapsed(time.end, time.start)
               \in TIMER_PERIOD - TIMER_TOLERANCE..TIMER_PERIOD + TIMER_TOLERANCE
    PROVE  ~WrongPeriod(t)
<1>1. at \in k + 4..k + 18 /\ at \in k + 5..k + 18 /\ at \in k + 16..k + 18
  OBVIOUS
<1>2. PICK e \in Nat : ReadAfter(time.end, e) /\ MeasuredIn(t, e, Lag)
  BY <1>1 DEF SecondInv
<1>3. /\ SoundFlag(t) /\ 2 * Lag <= RealPeriod(t) => e > RealPeriod(t) - 2 * Lag
      /\ SoundEnable(t) => e < RealPeriod(t) + Lag + Lag
      /\ Rate * e < TIMER_WAIT + Rate * (2 * Lag + Lag)
  BY <1>2 DEF MeasuredIn
<1> DEFINE c == Rate * e
           W == Wrap
           low == TIMER_PERIOD - TIMER_TOLERANCE
           high == TIMER_PERIOD + TIMER_TOLERANCE
<1>4. c \in low..high
  <2>1. /\ time.start \in 0..W - 1 /\ time.end \in 0..W - 1 /\ c \in Nat
        /\ W \in Nat /\ W > 0 /\ low \in Int /\ high \in Int
    BY RateTimes, Timing DEF BoardInv
  <2>2. time.start + c \in {time.end, time.end + W, time.end + 2 * W}
    BY <1>2 DEF ReadAfter
  <2>3. c < W + low
    <3>1. CASE Rate = 0
      BY <3>1, Timing
    <3>2. CASE Rate = 1
      BY <1>3, <3>2, Timing
    <3>3. CASE Rate = 2
      BY <1>3, <3>3, Timing
    <3>4. QED
      BY <3>1, <3>2, <3>3, RateValue
  <2>4. (time.end - time.start) % W \in low..high
    BY DEF Elapsed
  <2>5. low < W
    BY Timing
  <2> HIDE DEF c, W, low, high
  <2>6. CASE c < W
    <3>1. time.end - time.start \in {c, c - W}
      BY <2>1, <2>2, <2>6
    <3>2. c % W = c /\ (c - W) % W = c
      BY <2>1, <2>6
    <3>3. QED
      BY <2>4, <3>1, <3>2
  <2>7. CASE c >= W
    <3>1. time.end - time.start \in {c - W, c - 2 * W}
      BY <2>1, <2>2, <2>7
    <3>2. c - W \in Nat /\ c - W < W
      BY <2>1, <2>3, <2>5, <2>7
    <3>3. (c - W) % W = c - W /\ (c - 2 * W) % W = c - W
      BY <2>1, <3>2
    <3>4. c - W < low
      BY <2>1, <2>3
    <3>5. QED
      BY <2>1, <2>4, <3>1, <3>3, <3>4
  <2>8. QED
    BY <2>1, <2>6, <2>7
<1>5. Rate # 0
  <2>1. Rate = 0 => c = 0
    BY RateTimes
  <2>2. QED
    BY <1>4, <2>1, Timing
<1>6. low <= 2 * e /\ (Rate = 1 => e \in low..high) /\ (Rate = 2 => 2 * e <= high)
  <2>1. CASE Rate = 1
    BY <1>4, <2>1, Timing
  <2>2. CASE Rate = 2
    BY <1>4, <2>2, Timing
  <2>3. QED
    BY <1>5, <2>1, <2>2, RateValue
<1>7. Rate = 2 <=> fault.kind = "double"
  BY <1>5 DEF Rate
<1>8. ASSUME fault.kind = "slow", fault.reg = <<t, "PSC">> PROVE FALSE
  <2>1. RealPeriod(t) = SlowPeriod
    BY <1>8 DEF RealPeriod
  <2>2. SoundFlag(t)
    BY <1>8 DEF SoundFlag, FaultOf
  <2>3. Rate = 1
    BY <1>5, <1>7, <1>8, RateValue
  <2>4. QED
    BY <1>3, <1>6, <2>1, <2>2, <2>3, Timing
<1>9. ASSUME RealPeriod(t) = FastPeriod, SoundEnable(t), fault.kind # "double" PROVE FALSE
  <2>1. Rate = 1
    BY <1>5, <1>7, <1>9, RateValue
  <2>2. QED
    BY <1>3, <1>6, <1>9, <2>1, Timing
<1>10. ASSUME fault.kind = "fast", fault.reg = <<t, "PSC">> PROVE FALSE
  <2>1. RealPeriod(t) = FastPeriod
    BY <1>10 DEF RealPeriod
  <2>2. SoundEnable(t)
    BY <1>10 DEF SoundEnable, FaultOf
  <2>3. QED
    BY <1>9, <1>10, <2>1, <2>2
<1>11. ASSUME StuckAt(<<t, "PSC">>, "4799", 0) PROVE FALSE
  <2>1. "4799" \notin regs[t].PSC /\ fault.kind = "bit" /\ fault.reg = <<t, "PSC">>
    BY <1>11 DEF FaultInv, StuckAt, FaultOf, Value
  <2>2. RealPeriod(t) = FastPeriod
    BY <2>1 DEF RealPeriod
  <2>3. SoundEnable(t)
    BY <2>1 DEF SoundEnable, FaultOf
  <2>4. QED
    BY <1>9, <2>1, <2>2, <2>3
<1>12. ASSUME StuckAt(<<t, "ATRLR">>, "period", 0) PROVE FALSE
  <2>1. "period" \notin regs[t].ATRLR /\ fault.kind = "bit" /\ fault.reg = <<t, "ATRLR">>
    BY <1>12 DEF FaultInv, StuckAt, FaultOf, Value
  <2>2. RealPeriod(t) = FastPeriod
    BY <2>1 DEF RealPeriod
  <2>3. SoundEnable(t)
    BY <2>1 DEF SoundEnable, FaultOf
  <2>4. QED
    BY <1>9, <2>1, <2>2, <2>3
<1>13. ASSUME fault.kind = "double" PROVE FALSE
  <2>1. SoundFlag(t) /\ \A r : ~FaultOf(r)
    BY <1>13 DEF SoundFlag, FaultOf
  <2>2. "4799" \in regs[t].PSC /\ "period" \in regs[t].ATRLR
    BY <1>1, <2>1 DEF SetUpInv, Value
  <2>3. {"apb1", "apb2", "ahb"} \subseteq regs.RCC.freq
    <3>1. Value(<<"RCC", "freq">>) = All(<<"RCC", "freq">>)
      BY <2>1 DEF FaultInv
    <3>2. BitsOf.RCC.freq = {"sysclk", "ahb", "apb1", "apb2", "adc"}
      BY DEF BitsOf
    <3>3. QED
      BY <3>1, <3>2 DEF Value, All
  <2>4. ReloadOf(t) = TIMER_PERIOD
    <3>1. ReloadOf(t) = (TIMER_PERIOD * 2) \div 2
      BY <2>3 DEF ReloadOf, timer_clock_hz
    <3>2. QED
      BY <3>1, Timing
  <2>5. RealPeriod(t) = TIMER_PERIOD
    BY <1>13, <2>2, <2>4 DEF RealPeriod
  <2>6. Rate = 2
    BY <1>7, <1>13
  <2>7. QED
    BY <1>3, <1>6, <2>1, <2>5, <2>6, Timing
<1>14. QED
  BY <1>8, <1>10, <1>11, <1>12, <1>13 DEF WrongPeriod

\* A step that the fault does not let pass is not passed.
LEMMA StepTried ==
    ASSUME TypeInv, FaultInv, ClockInv, TransferInv, DelayInv, PeriodInv,
           AtStep, StepOf(Step), verdict' = "pass", at' = at + 1
    PROVE  ~Blocks(case, at)
<1>1. PlaceInv /\ BoardInv /\ at \in Nat /\ verdict = "pass" /\ StepsOf(case)[at] = Step
      /\ StepsOf(case) = Now.steps
  BY StepOfCase, StepGoes DEF TypeInv, StepIndex
<1>2. ASSUME Step.op = "read"
      PROVE  ReadBack(Step.reg) \cap Step.mask = Step.bits
  BY <1>2, OpStep DEF ReadStep, Judge
<1>3. \A r, x : Wants(Step, r, x) => x \in Value(r)
  BY <1>2 DEF Wants, ReadBack
<1>4. ~(fault.kind = "bit" /\ fault.level = 0 /\ Wants(Step, fault.reg, fault.bit))
  BY <1>3 DEF FaultInv
<1>5. ASSUME fault.kind = "bit", fault.level = 1, Refuses(Step, fault.reg, fault.bit),
             ClockedAt(case, at, fault.reg[1])
      PROVE  FALSE
  <2>1. fault.reg[1] \in DOMAIN BitsOf
    BY <1>1, <1>5, StuckBit, RegisterNames DEF BoardInv
  <2>2. fault.reg[1] \in clocked
    BY <1>1, <1>5, <2>1 DEF ClockInv, AtStep
  <2>3. fault.bit \in Value(fault.reg)
    BY <1>5 DEF FaultInv
  <2>4. QED
    BY <1>2, <1>5, <2>2, <2>3 DEF Refuses, ReadBack
<1>6. ASSUME Step.op = "dma", NEW r \in 1..Len(Runs), Breaks(r) PROVE FALSE
  <2>1. at' # at
    BY <1>1
  <2>2. pc = "pass"
    BY <1>6, <2>1, OpStep DEF DmaStep, Judge
  <2>3. run = Len(Runs) + 1 /\ \A q \in 1..run - 1 : ~Breaks(q)
    BY <2>2 DEF TransferInv
  <2>4. QED
    BY <1>6, <2>3, Transfers
<1>7. ASSUME Step.op = "delay", Step.ticks \in Nat \ {0}, fault.kind = "stopped" PROVE FALSE
  <2>1. at' # at
    BY <1>1
  <2>2. look = "clock" /\ Elapsed(tick, time.wait) >= Ticks(Step.ticks)
    BY <1>7, <2>1, OpStep DEF StartWait, DelayTurn
  <2>3. time.wait = tick
    BY <1>7, <2>2 DEF DelayInv, AtStep
  <2>4. Elapsed(tick, time.wait) = 0
    BY <1>1, <2>3, Timing DEF Elapsed, BoardInv
  <2>5. ~FaultOf(<<"RCC", "freq">>)
    BY <1>7 DEF FaultOf
  <2>6. Ticks(Step.ticks) = Step.ticks
    BY <1>3, <2>5, SoundTicks
  <2>7. QED
    BY <1>7, <2>2, <2>4, <2>6
<1>8. ASSUME NEW v \in Converts, StuckAt(<<"ADC1", v[1]>>, v[2], 0),
             Wants(Step, <<"ADC1", v[3]>>, "400..620")
      PROVE  FALSE
  BY <1>3, <1>8 DEF FaultInv
<1>9. ASSUME NEW t \in Timers, NEW k \in 0..Len(StepsOf(case)), PeriodTestAt(case, k, t)
      PROVE  /\ ~(at = k + 11 /\ StuckAt(<<t, "CTLR1">>, "CEN", 0))
             /\ ~(at = k + 18 /\ WrongPeriod(t))
  <2>1. k \in Nat
    BY <1>1, <1>9, PeriodSteps
  <2>2. SetUpInv(k, t) /\ SecondInv(k, t)
    BY <1>1, <1>9 DEF PeriodInv, AtStep
  <2>3. ASSUME at = k + 11, StuckAt(<<t, "CTLR1">>, "CEN", 0) PROVE FALSE
    <3>1. at \in {k + 11, k + 14} /\ at' # at
      BY <1>1, <2>3
    <3>2. Step.op = "await" /\ Step.tim = t
      BY Zenon, <1>1, <1>9, <3>1, PeriodSteps
    <3>3. Flag(t)
      BY <3>1, <3>2, OpStep DEF StartWait, AwaitClock, Judge, AwaitFlag, Flag, Value
    <3>4. QED
      BY <2>2, <2>3, <3>3 DEF SetUpInv
  <2>4. ASSUME at = k + 18, WrongPeriod(t) PROVE FALSE
    <3>1. /\ Step.op = "window" /\ Step.low = TIMER_PERIOD - TIMER_TOLERANCE
          /\ Step.high = TIMER_PERIOD + TIMER_TOLERANCE /\ Step.us
      BY Zenon, <1>1, <1>9, <2>4, PeriodSteps
    <3>2. Elapsed(time.end, time.start) \in Ticks(Step.low)..Ticks(Step.high)
      BY <3>1, OpStep DEF WindowStep, Judge
    <3>3. ~FaultOf(<<"RCC", "freq">>)
      BY <2>4, WrongIsTimer
    <3>4. Ticks(Step.low) = Step.low /\ Ticks(Step.high) = Step.high
      BY <1>3, <3>3, SoundTicks
    <3>5. QED
      BY <1>1, <2>1, <2>2, <2>4, <3>1, <3>2, <3>4, GoodPeriod
  <2>5. QED
    BY <2>3, <2>4
<1>10. QED
  BY <1>1, <1>4, <1>5, <1>6, <1>7, <1>8, <1>9 DEF Blocks

\* What a case tries does not change.
LEMMA BlocksSame ==
    ASSUME fault' = fault, NEW c, NEW i
    PROVE  Blocks(c, i)' <=> Blocks(c, i)
  BY DEF Blocks, Breaks, StuckAt, WrongPeriod, FaultOf

\* A timer whose period is measured is in a table with all the test.
LEMMA MeasuredIn18 ==
    ASSUME NEW c \in CaseIndex, NEW t \in Timers, t \in Tested[selftest_cases[c].name],
           \A i \in StepIndex(c) : ~Blocks(c, i)
    PROVE  ~StuckAt(<<t, "CTLR1">>, "CEN", 0) /\ ~WrongPeriod(t)
<1>1. PICK k \in 0..Len(StepsOf(c)) : PeriodTestAt(c, k, t)
  BY PeriodsAreTried DEF PeriodsAreTried
<1>2. k \in Nat /\ k + 18 <= Len(StepsOf(c))
  BY <1>1 DEF PeriodTestAt
<1>3. Len(StepsOf(c)) \in Nat
  BY Tables DEF StepsOf, CaseIndex
<1>4. k + 11 \in StepIndex(c) /\ k + 18 \in StepIndex(c)
  BY <1>2, <1>3 DEF StepIndex
<1>5. ~Blocks(c, k + 11) /\ ~Blocks(c, k + 18)
  BY Zenon, <1>4
<1>6. StuckAt(<<t, "CTLR1">>, "CEN", 0) => Blocks(c, k + 11)
  <2>1. PICK i : i = k + 11
    OBVIOUS
  <2>2. StuckAt(<<t, "CTLR1">>, "CEN", 0) => Blocks(c, i)
    BY Zenon, <1>1, <2>1 DEF Blocks
  <2>3. QED
    BY Zenon, <2>1, <2>2
<1>7. WrongPeriod(t) => Blocks(c, k + 18)
  <2>1. PICK i : i = k + 18
    OBVIOUS
  <2>2. WrongPeriod(t) => Blocks(c, i)
    BY Zenon, <1>1, <2>1 DEF Blocks
  <2>3. QED
    BY Zenon, <2>1, <2>2
<1>8. QED
  BY <1>5, <1>6, <1>7

\* A case whose steps the fault lets pass may pass.
LEMMA CaseTried ==
    ASSUME fault \in BoardFaults, NEW c \in CaseIndex, \A i \in StepIndex(c) : ~Blocks(c, i)
    PROVE  /\ MayPass(selftest_cases[c].name)
           /\ selftest_cases[c].name = "timers" => fault.kind # "double"
<1> DEFINE name == selftest_cases[c].name
           tested == Tested[name]
<1>1. tested \subseteq DOMAIN BitsOf /\ "" \notin DOMAIN BitsOf
  <2>1. tested \subseteq DOMAIN BitsOf
    BY BitsAreTried DEF BitsAreTried
  <2>2. "" \notin DOMAIN BitsOf
    BY DEF BitsOf
  <2>3. QED
    BY <2>1, <2>2
<1>2. \A t \in Timers : t \in tested => ~StuckAt(<<t, "CTLR1">>, "CEN", 0) /\ ~WrongPeriod(t)
  BY MeasuredIn18
<1>3. name = "timers" => fault.kind # "double"
  <2>1. Tested.timers = {"TIM1", "TIM2"}
    BY DEF Tested
  <2>2. name = "timers" => ~WrongPeriod("TIM1")
    BY <1>2, <2>1 DEF Timers
  <2>3. QED
    BY <2>2 DEF WrongPeriod
<1> HIDE DEF name, tested
<1>4. SUFFICES ASSUME FaultyBlock \in tested PROVE MayPass(name)
  BY <1>3 DEF MayPass, tested, name
<1>5. CASE fault = NoFault
  <2>1. fault.channel = 0 /\ fault.reg[1] = ""
    BY <1>5 DEF NoFault
  <2>2. fault.channel = 0 /\ fault.reg[1] \notin tested
    BY Zenon, <1>1, <2>1
  <2>3. QED
    BY <1>4, <2>2 DEF FaultyBlock
<1>6. ASSUME NEW k \in DmaFaults, NEW ch \in Channels, fault = ChannelFault(k, ch)
      PROVE  MayPass(name)
  <2>1. fault.kind = k /\ fault.channel = ch
    <3>1. ChannelFault(k, ch).kind = k /\ ChannelFault(k, ch).channel = ch
      BY DEF ChannelFault, NoFault
    <3>2. QED
      BY <1>6, <3>1
  <2>2. PICK r \in DOMAIN Runs : Runs[r].channel = ch
    BY DEF Channels
  <2>3. DOMAIN Runs = 1..Len(Runs) /\ r \in 1..Len(Runs)
    BY <2>2, DmaTestAssumption DEF DmaTestAssumption
  <2>4. ch > 0 /\ "DMA1" \in tested
    <3>1. ch \in Nat
      BY <2>2, <2>3, Transfers
    <3>2. ChannelFault(k, ch).channel = ch /\ ChannelFault(k, ch).reg[1] = ""
      BY DEF ChannelFault, NoFault
    <3>3. fault.channel = ch /\ fault.reg[1] \notin tested
      BY Zenon, <1>1, <1>6, <3>2
    <3>4. ch > 0 /\ FaultyBlock = "DMA1"
      BY <1>4, <3>1, <3>3 DEF FaultyBlock
    <3>5. QED
      BY <1>4, <3>4
  <2>5. PICK i \in StepIndex(c) : StepsOf(c)[i].op = "dma"
    BY <2>4, UsesAreTried DEF UsesAreTried, tested, name
  <2>6. \A q \in 1..Len(Runs) : ~Breaks(q)
    <3>1. ~Blocks(c, i)
      OBVIOUS
    <3>2. QED
      BY Zenon, <2>5, <3>1 DEF Blocks
  <2>7. k \in {"slow", "narrow"}
    BY <2>1, <2>2, <2>3, <2>6 DEF Breaks, DmaFaults
  <2>8. k = "narrow" => ~TriedWide(ch)
    BY <2>1, <2>3, <2>6 DEF Breaks, TriedWide
  <2>9. DmaTolerates(fault)
    BY <2>1, <2>7, <2>8 DEF DmaTolerates
  <2>10. QED
    BY <2>1, <2>4, <2>9 DEF MayPass
<1>7. ASSUME NEW x \in AllBits, NEW l \in {0, 1}, fault = BitFault(x, l) PROVE MayPass(name)
  <2>1. /\ fault.kind = "bit" /\ fault.channel = 0 /\ fault.reg = <<x[1], x[2]>>
        /\ fault.bit = x[3] /\ fault.level = l
    <3>1. /\ BitFault(x, l).kind = "bit" /\ BitFault(x, l).channel = 0
          /\ BitFault(x, l).reg = <<x[1], x[2]>> /\ BitFault(x, l).bit = x[3]
          /\ BitFault(x, l).level = l
      BY DEF BitFault, NoFault
    <3>2. QED
      BY <1>7, <3>1
  <2>2. x = <<x[1], x[2], x[3]>>
    BY DEF AllBits
  <2>3. FaultyBit = x /\ x[1] \in tested
    BY <1>4, <2>1, <2>2 DEF FaultyBit, FaultyBlock
  <2>4. ASSUME NEW i \in StepIndex(c), Wants(StepsOf(c)[i], <<x[1], x[2]>>, x[3]) PROVE l = 1
    <3>1. ~Blocks(c, i)
      OBVIOUS
    <3>2. ~(fault.kind = "bit" /\ fault.level = 0 /\ Wants(StepsOf(c)[i], fault.reg, fault.bit))
      BY Zenon, <3>1 DEF Blocks
    <3>3. QED
      BY <2>1, <2>4, <3>2
  <2>5. CASE l = 0
    <3>1. CASE x \in NotTried
      BY <2>1, <2>3, <2>5, <3>1 DEF MayPass
    <3>2. CASE x \notin NotTried \cup TriedByUse
      <4>1. \E i \in StepIndex(c) : Wants(StepsOf(c)[i], <<x[1], x[2]>>, x[3])
        BY <2>3, <3>2, BitsAreTried DEF BitsAreTried, tested, name
      <4>2. QED
        BY <2>4, <2>5, <4>1
    <3>3. CASE x \in TriedByUse
      <4>1. \/ \E t \in Timers : x \in {<<t, "CTLR1", "CEN">>, <<t, "PSC", "4799">>,
                                        <<t, "ATRLR", "period">>}
            \/ \E v \in Converts : x = <<"ADC1", v[1], v[2]>>
        BY <3>3 DEF TriedByUse
      <4>2. ASSUME NEW t \in Timers, x \in {<<t, "CTLR1", "CEN">>, <<t, "PSC", "4799">>,
                                            <<t, "ATRLR", "period">>}
            PROVE  FALSE
        <5>1. t \in tested
          BY <2>3, <4>2
        <5>2. ~StuckAt(<<t, "CTLR1">>, "CEN", 0) /\ ~WrongPeriod(t)
          BY <1>2, <5>1
        <5>3. QED
          BY <2>1, <2>5, <4>2, <5>2 DEF WrongPeriod, StuckAt, FaultOf
      <4>3. ASSUME NEW v \in Converts, x = <<"ADC1", v[1], v[2]>> PROVE FALSE
        <5>1. "ADC1" \in tested /\ StuckAt(<<"ADC1", v[1]>>, v[2], 0)
          BY <2>1, <2>3, <2>5, <4>3 DEF StuckAt, FaultOf
        <5>2. PICK i \in StepIndex(c) : Wants(StepsOf(c)[i], <<"ADC1", v[3]>>, "400..620")
          BY <5>1, ConversionsAreTried DEF ConversionsAreTried, tested, name
        <5>3. ~Blocks(c, i)
          OBVIOUS
        <5>4. QED
          BY Zenon, <5>1, <5>2, <5>3 DEF Blocks
      <4>4. QED
        BY <4>1, <4>2, <4>3
    <3>4. QED
      BY <3>1, <3>2, <3>3
  <2>6. CASE l = 1
    <3>1. CASE x \notin MustClear
      BY <2>1, <2>3, <2>6, <3>1 DEF MayPass
    <3>2. CASE x \in MustClear
      <4>1. PICK i \in StepIndex(c) : /\ Refuses(StepsOf(c)[i], <<x[1], x[2]>>, x[3])
                                      /\ ClockedAt(c, i, x[1])
        BY <2>3, <3>2, BitsAreTried DEF BitsAreTried, tested, name
      <4>2. ~Blocks(c, i)
        OBVIOUS
      <4>3. fault.reg[1] = x[1]
        BY <2>1
      <4>4. ~(/\ fault.kind = "bit" /\ fault.level = 1
              /\ Refuses(StepsOf(c)[i], fault.reg, fault.bit) /\ ClockedAt(c, i, fault.reg[1]))
        BY Zenon, <4>2 DEF Blocks
      <4>5. QED
        BY <2>1, <2>6, <4>1, <4>3, <4>4
    <3>3. QED
      BY <3>1, <3>2
  <2>7. QED
    BY <2>5, <2>6
<1>8. ASSUME NEW k \in {"slow", "fast"}, NEW t \in Timers, fault = RateFault(k, <<t, "PSC">>)
      PROVE  MayPass(name)
  <2>1. fault.kind = k /\ fault.channel = 0 /\ fault.reg = <<t, "PSC">>
    <3>1. /\ RateFault(k, <<t, "PSC">>).kind = k /\ RateFault(k, <<t, "PSC">>).channel = 0
          /\ RateFault(k, <<t, "PSC">>).reg = <<t, "PSC">>
      BY DEF RateFault, NoFault
    <3>2. QED
      BY <1>8, <3>1
  <2>2. t \in tested
    BY <1>4, <2>1 DEF FaultyBlock
  <2>3. QED
    BY <1>2, <2>1, <2>2 DEF WrongPeriod
<1>9. ASSUME NEW k \in {"stopped", "double"}, fault = RateFault(k, <<"SYSTICK", "CNT">>)
      PROVE  MayPass(name)
  <2>1. fault.kind = k /\ fault.channel = 0 /\ fault.reg = <<"SYSTICK", "CNT">>
    <3>1. /\ RateFault(k, <<"SYSTICK", "CNT">>).kind = k
          /\ RateFault(k, <<"SYSTICK", "CNT">>).channel = 0
          /\ RateFault(k, <<"SYSTICK", "CNT">>).reg = <<"SYSTICK", "CNT">>
      BY DEF RateFault, NoFault
    <3>2. QED
      BY <1>9, <3>1
  <2>2. "SYSTICK" \in tested
    BY <1>4, <2>1 DEF FaultyBlock
  <2>3. k # "stopped"
    <3>1. PICK i \in StepIndex(c) :
             StepsOf(c)[i].op = "delay" /\ StepsOf(c)[i].ticks \in Nat \ {0}
      BY <2>2, UsesAreTried DEF UsesAreTried, tested, name
    <3>2. ~Blocks(c, i)
      OBVIOUS
    <3>3. fault.kind # "stopped"
      BY Zenon, <3>1, <3>2 DEF Blocks
    <3>4. QED
      BY <2>1, <3>3
  <2>4. QED
    BY <2>1, <2>3 DEF MayPass
<1>10. QED
  BY <1>5, <1>6, <1>7, <1>8, <1>9, FaultCases

\* TriedInv is inductive.
LEMMA TriedNext ==
    ASSUME TypeInv, FaultInv, ClockInv, TransferInv, DelayInv, PeriodInv, TriedInv,
           [Next]_vars
    PROVE  TriedInv'
<1>1. PlaceInv /\ BoardInv /\ fault' = fault /\ fault \in BoardFaults
  BY FaultStays DEF TypeInv, BoardInv
<1>2. \A c, i : Blocks(c, i)' <=> Blocks(c, i)
  BY <1>1, BlocksSame
<1>3. \A n : MayPass(n)' <=> MayPass(n)
  BY <1>1 DEF MayPass, FaultyBlock, FaultyBit
<1>4. (fault.kind # "double")' <=> fault.kind # "double"
  BY <1>1
<1>5. CASE Return
  <2>1. /\ at' = 1 /\ results' = [results EXCEPT ![Now.name] = verdict]
        /\ ~AllDone /\ at = Len(Now.steps) + 1
    BY <1>5 DEF Return, CaseDone
  <2>2. case \in CaseIndex /\ StepsOf(case) = Now.steps /\ Len(Now.steps) \in Nat
    BY <1>1, <2>1, Tables DEF PlaceInv, AllDone, CaseIndex, StepsOf, Now
  <2>3. ASSUME verdict = "pass"
        PROVE  MayPass(Now.name) /\ (Now.name = "timers" => fault.kind # "double")
    <3>1. \A i \in 1..at - 1 : ~Blocks(case, i)
      BY <2>1, <2>3 DEF TriedInv
    <3>2. at - 1 = Len(StepsOf(case))
      BY <2>1, <2>2
    <3>3. \A i \in StepIndex(case) : ~Blocks(case, i)
      BY <3>1, <3>2 DEF StepIndex
    <3>4. QED
      BY <1>1, <2>2, <3>3, CaseTried DEF Now
  <2>4. \A i \in 1..at' - 1 : FALSE
    BY <2>1
  <2>5. DOMAIN results' = DOMAIN results
        /\ \A n \in DOMAIN results : results'[n] = IF n = Now.name THEN verdict ELSE results[n]
    BY <2>1
  <2>6. PassIsEarned'
    BY <1>3, <1>4, <2>3, <2>5 DEF TriedInv, PassIsEarned
  <2>7. QED
    BY <2>4, <2>5, <2>6 DEF TriedInv
<1>6. ASSUME results' = results, case' = case,
             verdict' = "pass" /\ ~AllDone => verdict = "pass" /\ \A i \in 1..at' - 1 :
                                                  i \in 1..at - 1 \/ ~Blocks(case, i)
      PROVE  TriedInv'
  <2>1. PassIsEarned'
    BY <1>3, <1>4, <1>6 DEF TriedInv, PassIsEarned
  <2>2. AllDone' <=> AllDone
    BY <1>6 DEF AllDone
  <2>3. PICK c : c = case
    OBVIOUS
  <2>4. c = case'
    BY <1>6, <2>3
  <2>5. ~AllDone' /\ verdict' = "pass" => \A i \in 1..at' - 1 : ~Blocks(c, i)
    BY <1>6, <2>2, <2>3 DEF TriedInv
  <2>6. ~AllDone' /\ verdict' = "pass" => \A i \in 1..at' - 1 : ~Blocks(c, i)'
    BY <1>2, <2>5
  <2>7. ~AllDone' /\ verdict' = "pass" => (\A i \in 1..at - 1 : ~Blocks(case, i))'
    BY Zenon, <2>4, <2>6 DEF Blocks
  <2>8. "timers" \in DOMAIN results'
    BY <1>6 DEF TriedInv
  <2>9. QED
    BY <2>1, <2>7, <2>8 DEF TriedInv
<1>7. CASE AtStep /\ StepOf(Step)
  <2>1. case' = case /\ results' = results
    BY <1>7, StepForm
  <2>2. ASSUME verdict' = "pass", NEW i \in 1..at' - 1
        PROVE  verdict = "pass" /\ (i \in 1..at - 1 \/ ~Blocks(case, i))
    <3>1. verdict = "pass" /\ (at' = at \/ at' = at + 1) /\ at \in Nat
      BY <1>1, <1>7, <2>2, StepGoes, StepOfCase DEF StepIndex
    <3>2. i \in 1..at - 1 \/ (i = at /\ at' = at + 1)
      BY <2>2, <3>1
    <3>3. at' = at + 1 => ~Blocks(case, at)
      BY <1>7, <2>2, StepTried
    <3>4. QED
      BY <3>1, <3>2, <3>3
  <2>3. verdict' = "pass" => verdict = "pass"
    BY <1>1, <1>7, StepGoes
  <2>4. QED
    BY <1>6, <2>1, <2>2, <2>3
<1>8. CASE Tick \/ DmaMoves \/ UNCHANGED vars
  <2>1. UNCHANGED <<results, case, at, verdict>>
    BY <1>8 DEF Tick, DmaMoves, vars, cpu
  <2>2. QED
    BY <1>6, <2>1
<1>9. QED
  BY <1>5, <1>7, <1>8 DEF Next, Cpu

\* TriedInv holds when the program starts.
LEMMA InitTried == ASSUME Init PROVE TriedInv
<1>1. at = 1 /\ results = [c \in {selftest_cases[i].name : i \in DOMAIN selftest_cases} |-> "none"]
  BY DEF Init
<1>2. \A c \in DOMAIN results : results[c] = "none"
  BY <1>1
<1>3. DOMAIN selftest_cases = CaseIndex
  BY DEF CaseIndex, selftest_cases
<1>4. "timers" \in DOMAIN results
  BY <1>1, <1>3, PeriodsAreTried DEF PeriodsAreTried
<1>5. \A i \in 1..at - 1 : FALSE
  BY <1>1
<1>6. QED
  BY <1>2, <1>4, <1>5 DEF TriedInv, PassIsEarned

\* A pass is earned, for every fault of the board, every timing of it that the
\* assumptions allow, and any transfers: a case of the faulty block passes only
\* with one of the faults it is known not to see.
THEOREM PassEarned == Spec => []PassIsEarned
<1> DEFINE I == TypeInv /\ EarnedInv
<1>1. Init => I
  BY InitTypeInv, InitFault, InitPlaces, InitTransfer, InitPeriod, InitTried DEF EarnedInv
<1>2. I /\ [Next]_vars => I'
  BY NextTypeInv, FaultNext, ClockNext, LookNext, TransferNext, DelayNext, PeriodNext,
     TriedNext DEF EarnedInv
<1>3. I => PassIsEarned
  BY DEF EarnedInv, TriedInv
<1> HIDE DEF I
<1>4. QED
  BY <1>1, <1>2, <1>3, PTL DEF Spec

-----------------------------------------------------------------------------
(* What is saved comes back: the invariants.                               *)

\* No case before c, and no step of case c before the i-th, touches register r.
Untouched(r, c, i) ==
    /\ \A d \in 1..c - 1 : \A j \in StepIndex(d) : ~Touches(StepsOf(d)[j], r)
    /\ \A j \in 1..i - 1 : ~Touches(StepsOf(c)[j], r)

\* What the start-up code leaves in a register; what was in it when the case was
\* called.
First(r) == StartUp(r)
Before(r) == before[r[1]][r[2]]

\* It is what Entry says, or another baud rate.
LEMMA FirstIs ==
    ASSUME NEW r
    PROVE  /\ \E w \in {StartValue(r), {}} : First(r) = Stuck(r, w)
           /\ r # BaudRegister => First(r) = Stuck(r, StartValue(r))
  BY BaudValue, StartUpIs DEF First, StartUp, StartValue

\* Until a step touches it, a register holds that, and a timer has no clock.
UntouchedInv ==
    /\ \A r \in Registers :
          /\ Untouched(r, case, 1) => Before(r) = First(r)
          /\ Untouched(r, case, at) => Value(r) = First(r)
    /\ \A t \in Timers : Untouched(<<t, "INTFR">>, case, at) => t \notin clocked

\* What is saved of a register is what it held, but for what is lost of it.
SavedInv ==
    ~AllDone =>
        /\ verdict = "fail" => at >= Now.undo
        /\ \A r \in DOMAIN saved :
              /\ \E i \in StepIndex(case) : Saves(StepsOf(case)[i], r)
              /\ Stuck(r, saved[r]) \ Lost(r) = First(r) \ Lost(r)

\* The CPOL and CPHA of the USART are clear when the table has cleared them.
LockInv ==
    /\ StuckAt(UsartMode, "TE", 1) => ClockMode \cap Value(UsartClock) = {}
    /\ ~AllDone =>
          \A k, j \in StepIndex(case) : UnlockAt(case, k, j) =>
              /\ at \in k + 1..j /\ ~StuckAt(UsartMode, "TE", 1) => "TE" \notin Value(UsartMode)
              /\ at > j /\ verdict = "pass" =>
                    \A x \in ClockMode : x \in Value(UsartClock) => StuckAt(UsartClock, x, 1)

\* The saved registers that the last steps have written back hold what they held.
LostNow(r) == Lost(r) \cup IF verdict = "fail" THEN ClockMode ELSE {}
RestoredInv ==
    ~AllDone /\ (verdict = "pass" \/ Now.always) =>
        \A r \in DOMAIN saved : \A i \in Now.undo..at - 1 :
            Restores(StepsOf(case)[i], r) => Value(r) \ LostNow(r) = First(r) \ LostNow(r)

\* The inductive invariant.
UndoneInv == UntouchedInv /\ SavedInv /\ LockInv /\ RestoredInv

-----------------------------------------------------------------------------
(* A register until it is touched.                                         *)

\* A step of a case stays where it is and changes nothing that matters here, goes
\* on, or fails and leaves the checks behind.
Stays == at' = at /\ UNCHANGED <<verdict, regs, clocked, saved>>
Fails ==
    /\ at' = IF Now.always THEN Now.undo ELSE Len(Now.steps) + 1
    /\ verdict' = "fail" /\ at < Now.undo /\ UNCHANGED <<saved, clocked>>
    /\ Step.op \in {"read", "window", "await", "dma"}
LEMMA StepMoves ==
    ASSUME PlaceInv, AtStep, StepOf(Step)
    PROVE  case' = case /\ before' = before /\ (Stays \/ GoOn \/ Fails)
<1>1. case' = case /\ before' = before
  BY StepForm
<1>2. /\ case \in CaseIndex /\ at \in 1..Len(Now.steps) /\ Len(Now.steps) \in Nat
      /\ StepsOf(case)[at] = Step /\ StepsOf(case) = Now.steps
      /\ Now.undo \in 1..Len(Now.steps) + 1
  BY StepOfCase, StepIsOfTable
<1>3. Step.op \in {"read", "window", "await", "dma"} => at < Now.undo
  <2>1. at \in Now.undo..Len(StepsOf(case)) => Step.op \in {"write", "restore", "clock"}
    BY <1>2, SavesAreUndone DEF SavesAreUndone, Now
  <2>2. QED
    BY <1>2, <2>1
<1>4. CASE WriteStep(Step) \/ ClockStep(Step) \/ SaveStep(Step) \/ RestoreStep(Step)
           \/ UpdateStep(Step) \/ ConvertStep(Step) \/ MarkStep(Step)
  <2>1. GoOn
    BY Zenon, <1>4 DEF WriteStep, ClockStep, SaveStep, RestoreStep, UpdateStep, ConvertStep,
       MarkStep
  <2>2. QED
    BY <1>1, <2>1
<1>5. CASE ReadStep(Step) \/ WindowStep(Step)
  BY <1>1, <1>3, <1>5 DEF ReadStep, WindowStep, Judge, GoOn, Fails, board
<1>6. CASE StartWait(Step) \/ DelayTurn(Step) \/ AwaitFlag(Step)
  BY <1>1, <1>6 DEF StartWait, DelayTurn, AwaitFlag, GoOn, Stays, board
<1>7. CASE AwaitClock(Step)
  BY <1>1, <1>3, <1>7 DEF AwaitClock, Judge, Stays, Fails
<1>8. CASE DmaStep(Step)
  BY <1>1, <1>3, <1>8 DEF DmaStep, Judge, Stays, GoOn, Fails, board
<1>9. QED
  BY <1>1, <1>4, <1>5, <1>6, <1>7, <1>8 DEF StepOf

\* The CPU only goes forward.
LEMMA StepForward ==
    ASSUME PlaceInv, AtStep, StepOf(Step)
    PROVE  at \in Nat /\ at' \in Nat /\ at' >= at /\ (at' = at => Stays)
<1>1. /\ at \in 1..Len(Now.steps) /\ Len(Now.steps) \in Nat
      /\ Now.undo \in 1..Len(Now.steps) + 1
  BY StepIsOfTable
<1>2. Stays \/ GoOn \/ Fails
  BY StepMoves
<1>3. QED
  BY <1>1, <1>2 DEF Stays, GoOn, Fails

\* What changes a register touches it.
LEMMA TouchedCause ==
    ASSUME TypeInv, AtStep, StepOf(Step), NEW r \in Registers, Value(r)' # Value(r)
    PROVE  Touches(Step, r)
  BY StepRegisters DEF Touches, Written, Restored, Updated, Converted, Stopped

\* A block is clocked by a step that says so.
LEMMA ClockedCause ==
    ASSUME [Next]_vars, NEW b, b \in clocked', b \notin clocked
    PROVE  AtStep /\ StepOf(Step) /\ Step.op = "clock" /\ Step.block = b
<1>1. CASE AtStep /\ StepOf(Step)
  BY <1>1 DEF StepOf, WriteStep, ReadStep, ClockStep, SaveStep, RestoreStep, UpdateStep,
     ConvertStep, MarkStep, WindowStep, StartWait, DelayTurn, AwaitClock, AwaitFlag, DmaStep,
     board
<1>2. CASE Return \/ Tick \/ DmaMoves \/ UNCHANGED vars
  BY <1>2 DEF Return, Tick, DmaMoves, vars, board
<1>3. QED
  BY <1>1, <1>2 DEF Next, Cpu

\* A register untouched after a step was untouched before it, and not by this step.
LEMMA UntouchedBack ==
    ASSUME PlaceInv, AtStep, StepOf(Step), NEW r, Untouched(r, case', at')
    PROVE  Untouched(r, case, at) /\ (Touches(Step, r) => Stays)
<1>1. /\ at \in StepIndex(case) /\ Len(StepsOf(case)) \in Nat /\ StepsOf(case)[at] = Step
      /\ at \in Nat /\ at >= 1
  BY StepOfCase DEF StepIndex
<1>2. at' \in Nat /\ at' >= at /\ (at' = at => Stays) /\ case' = case
  BY StepForward, StepMoves
<1>3. PICK n : n = at'
  OBVIOUS
<1>8. PICK c : c = case'
  OBVIOUS
<1>9. n \in Nat /\ n >= at /\ c = case
  BY <1>2, <1>3, <1>8
<1>4. /\ \A d \in 1..c - 1 : \A j \in StepIndex(d) : ~Touches(StepsOf(d)[j], r)
      /\ \A j \in 1..n - 1 : ~Touches(StepsOf(c)[j], r)
  BY <1>3, <1>8 DEF Untouched
<1>5. Untouched(r, case, at)
  <2>1. \A j \in 1..at - 1 : j \in 1..n - 1
    BY <1>1, <1>9
  <2>2. QED
    BY <1>9, <1>4, <2>1 DEF Untouched
<1>6. ASSUME at' # at PROVE ~Touches(Step, r)
  <2>1. n # at
    BY <1>3, <1>6
  <2>3. at \in 1..n - 1
    BY <1>1, <1>9, <2>1
  <2>2. QED
    BY <1>1, <1>4, <1>9, <2>3
<1>7. QED
  BY <1>2, <1>5, <1>6

\* And what no step of a case has touched when it returns, it leaves untouched.
LEMMA UntouchedReturn ==
    ASSUME PlaceInv, Return, NEW r, Untouched(r, case', 1)
    PROVE  Untouched(r, case, at) /\ Untouched(r, case, 1)
<1>1. /\ case' = case + 1 /\ case \in 1..Len(selftest_cases) /\ Len(selftest_cases) \in Nat
      /\ at = Len(StepsOf(case)) + 1 /\ Len(StepsOf(case)) \in Nat
  BY Tables DEF Return, PlaceInv, AllDone, CaseDone, StepsOf, Now
<1>2. PICK c : c = case'
  OBVIOUS
<1>3. \A d \in 1..c - 1 : \A j \in StepIndex(d) : ~Touches(StepsOf(d)[j], r)
  BY <1>2 DEF Untouched
<1>4. case \in 1..c - 1 /\ \A d \in 1..case - 1 : d \in 1..c - 1
  BY <1>1, <1>2
<1>5. \A j \in 1..at - 1 : j \in StepIndex(case)
  BY <1>1 DEF StepIndex
<1>6. QED
  BY <1>3, <1>4, <1>5 DEF Untouched

\* UntouchedInv is inductive.
LEMMA UntouchedNext ==
    ASSUME TypeInv, UntouchedInv, [Next]_vars
    PROVE  UntouchedInv'
<1>1. PlaceInv /\ fault' = fault /\ \A r : First(r)' = First(r)
  <2>1. fault' = fault
    BY FaultStays
  <2>2. QED
    BY <2>1 DEF TypeInv, First, StartUp, Baud, Stuck, Entry
<1>2. CASE Return
  <2>1. /\ at' = 1 /\ UNCHANGED <<regs, clocked>> /\ before' = regs
    BY <1>2 DEF Return
  <2>2. \A r : Untouched(r, case', 1) => Untouched(r, case, at)
    BY <1>1, <1>2, UntouchedReturn
  <2>3. \A r \in Registers : Untouched(r, case', 1) => Before(r)' = First(r) /\ Value(r)' = First(r)
    BY <2>1, <2>2 DEF UntouchedInv, Before, Value
  <2>4. \A t \in Timers : Untouched(<<t, "INTFR">>, case', 1) => t \notin clocked'
    BY <2>1, <2>2 DEF UntouchedInv
  <2>5. QED
    BY <1>1, <2>1, <2>3, <2>4 DEF UntouchedInv
<1>3. CASE AtStep /\ StepOf(Step)
  <2>1. case' = case /\ before' = before
    BY <1>1, <1>3, StepMoves
  <2>2. ASSUME NEW r \in Registers, Untouched(r, case', at')
        PROVE  Value(r)' = First(r)
    <3>1. Value(r) = First(r) /\ (Touches(Step, r) => Stays)
      BY <1>1, <1>3, <2>2, UntouchedBack DEF UntouchedInv
    <3>2. Stays => Value(r)' = Value(r)
      BY DEF Stays, Value
    <3>3. ~Touches(Step, r) => Value(r)' = Value(r)
      BY <1>3, TouchedCause
    <3>4. QED
      BY <3>1, <3>2, <3>3
  <2>3. ASSUME NEW t \in Timers, Untouched(<<t, "INTFR">>, case', at')
        PROVE  t \notin clocked'
    <3>1. t \notin clocked /\ (Touches(Step, <<t, "INTFR">>) => Stays)
      BY <1>1, <1>3, <2>3, UntouchedBack DEF UntouchedInv
    <3>2. ASSUME t \in clocked' PROVE FALSE
      <4>1. Step.op = "clock" /\ Step.block = t
        BY <3>1, <3>2, ClockedCause
      <4>2. Stays
        BY <3>1, <4>1 DEF Touches
      <4>3. QED
        BY <3>1, <3>2, <4>2 DEF Stays
    <3>3. QED
      BY <3>2
  <2>4. \A r \in Registers : Untouched(r, case', 1) => Before(r)' = First(r)
    BY <2>1 DEF UntouchedInv, Before
  <2>5. QED
    BY <1>1, <2>2, <2>3, <2>4 DEF UntouchedInv
<1>4. CASE Tick \/ DmaMoves \/ UNCHANGED vars
  <2>1. UNCHANGED <<clocked, case, at, before>>
    BY <1>4 DEF Tick, DmaMoves, vars, cpu, board
  <2>2. ASSUME NEW r \in Registers, Untouched(r, case, at) PROVE Value(r)' = Value(r)
    <3>1. CASE Tick
      <4>1. r = <<r[1], r[2]>>
        BY RegisterNames
      <4>2. r[1] \in Timers /\ r[2] = "INTFR" => r[1] \notin clocked
        BY <2>2, <4>1 DEF UntouchedInv
      <4>3. ~(r[1] \in Over /\ r[2] = "INTFR")
        BY <4>2 DEF Over, Running
      <4>4. QED
        BY <3>1, <4>3, TickRegisters
    <3>2. CASE DmaMoves \/ UNCHANGED vars
      BY <3>2 DEF DmaMoves, vars, board, Value
    <3>3. QED
      BY <1>4, <3>1, <3>2
  <2>3. \A r : Before(r)' = Before(r)
    BY <2>1 DEF Before
  <2>4. \A r \in Registers : Untouched(r, case, at) => Value(r)' = First(r)
    BY <2>2 DEF UntouchedInv
  <2>5. QED
    BY <1>1, <2>1, <2>3, <2>4 DEF UntouchedInv
<1>5. QED
  BY <1>2, <1>3, <1>4 DEF Next, Cpu

-----------------------------------------------------------------------------
(* What is saved.                                                          *)

\* A saved register is of the case, saved and restored as its table says.
LEMMA SavedRegister ==
    ASSUME PlaceInv, SavedInv, ~AllDone, NEW r \in DOMAIN saved
    PROVE  /\ Untouched(r, case, 1)
           /\ \E j \in Now.undo..Len(StepsOf(case)) : Restores(StepsOf(case)[j], r)
           /\ r = UsartClock => \E k, j \in StepIndex(case) : UnlockAt(case, k, j)
<1>1. case \in CaseIndex
  BY Tables DEF PlaceInv, AllDone, CaseIndex
<1>2. PICK i \in StepIndex(case) : Saves(StepsOf(case)[i], r)
  BY DEF SavedInv
<1>3. StepsOf(case)[i].op = "save" /\ StepsOf(case)[i].reg = r
  BY <1>2 DEF Saves
<1>4. /\ \A d \in 1..case - 1 : \A j \in StepIndex(d) : ~Touches(StepsOf(d)[j], r)
      /\ \E j \in Now.undo..Len(StepsOf(case)) : Restores(StepsOf(case)[j], r)
  BY <1>1, <1>3, SavesAreUndone DEF SavesAreUndone, Now
<1>5. \A j \in 1..1 - 1 : FALSE
  OBVIOUS
<1>6. r = UsartClock => \E k, j \in StepIndex(case) : UnlockAt(case, k, j)
  BY <1>1, <1>2, LockIsLifted DEF LockIsLifted
<1>7. QED
  BY <1>4, <1>5, <1>6 DEF Untouched

\* What is read of an untouched register is what it holds, or what is lost of it.
LEMMA SavedValue ==
    ASSUME NEW r, NEW v, v = First(r) \/ (v = {} /\ StartValue(r) \subseteq Lost(r))
    PROVE  Stuck(r, v) \ Lost(r) = First(r) \ Lost(r)
<1>1. PICK w : First(r) = Stuck(r, w) /\ w \in {StartValue(r), {}}
  BY FirstIs
<1>2. QED
  BY <1>1 DEF Stuck

\* SavedInv is inductive.
LEMMA SavedNext ==
    ASSUME TypeInv, ClockInv, UntouchedInv, SavedInv, [Next]_vars
    PROVE  SavedInv'
<1>1. PlaceInv /\ fault' = fault
  BY FaultStays DEF TypeInv
<1>2. \A r, v : First(r)' = First(r) /\ Stuck(r, v)' = Stuck(r, v)
  BY <1>1 DEF First, StartUp, Baud, Stuck, Entry
<1>3. CASE Return
  <2>1. saved' = <<>> /\ verdict' = "pass"
    BY <1>3 DEF Return
  <2>2. QED
    BY <2>1 DEF SavedInv
<1>4. CASE AtStep /\ StepOf(Step)
  <2>1. /\ case' = case /\ Now' = Now /\ ~AllDone /\ at \in 1..Len(Now.steps)
        /\ Len(Now.steps) \in Nat /\ Now.undo \in 1..Len(Now.steps) + 1
        /\ case \in CaseIndex /\ at \in StepIndex(case) /\ StepsOf(case)[at] = Step
    BY <1>1, <1>4, StepMoves, StepIsOfTable, StepOfCase DEF Now, AtStep
  <2>2. verdict' = "fail" => at' >= Now.undo
    <3>1. Stays \/ GoOn \/ Fails
      BY <1>1, <1>4, StepMoves
    <3>2. QED
      BY <2>1, <3>1 DEF SavedInv, Stays, GoOn, Fails
  <2>3. CASE saved' = saved
    BY <1>2, <2>1, <2>2, <2>3 DEF SavedInv
  <2>4. CASE SaveStep(Step)
    <3> DEFINE r == Step.reg
    <3>1. Step.op = "save" /\ r \in Registers /\ IsStep(Step)
      BY <1>1, <1>4, <2>4, StepIsOfTable DEF SaveStep, IsStep
    <3>2. /\ at < Now.undo /\ Untouched(r, case, at)
          /\ ClockedAt(case, at, r[1]) \/ StartValue(r) \subseteq Lost(r)
      BY <2>1, <3>1, SavesAreUndone DEF SavesAreUndone, Untouched, Now
    <3>3. verdict = "pass"
      BY <1>1, <2>1, <3>2 DEF SavedInv, PlaceInv
    <3>4. ClockedAt(case, at, r[1]) => r[1] \in clocked
      BY <2>1, <3>1, <3>3, RegisterNames DEF ClockInv
    <3>5. Value(r) = First(r)
      BY <3>1, <3>2 DEF UntouchedInv
    <3>6. ReadBack(r) = First(r) \/ (ReadBack(r) = {} /\ StartValue(r) \subseteq Lost(r))
      BY <3>2, <3>4, <3>5 DEF ReadBack
    <3>7. Stuck(r, ReadBack(r)) \ Lost(r) = First(r) \ Lost(r)
      BY Zenon, <3>6, SavedValue
    <3>8. /\ DOMAIN saved' = DOMAIN saved \cup {r}
          /\ \A q \in DOMAIN saved' : saved'[q] = IF q = r THEN ReadBack(q) ELSE saved[q]
      BY <2>4 DEF SaveStep
    <3>9. Saves(StepsOf(case)[at], r)
      BY <2>1, <3>1 DEF Saves
    <3> HIDE DEF r
    <3>10. ASSUME NEW q \in DOMAIN saved'
           PROVE  /\ \E i \in StepIndex(case) : Saves(StepsOf(case)[i], q)
                  /\ Stuck(q, saved'[q]) \ Lost(q) = First(q) \ Lost(q)
      <4>1. CASE q = r
        BY <2>1, <3>7, <3>8, <3>9, <4>1
      <4>2. CASE q # r
        BY <2>1, <3>8, <4>2 DEF SavedInv
      <4>3. QED
        BY <4>1, <4>2
    <3>11. QED
      BY <1>2, <2>1, <2>2, <3>10 DEF SavedInv
  <2>5. QED
    BY <1>4, <2>3, <2>4 DEF StepOf, WriteStep, ReadStep, ClockStep, RestoreStep, UpdateStep,
       ConvertStep, MarkStep, WindowStep, StartWait, DelayTurn, AwaitClock, AwaitFlag, DmaStep
<1>5. CASE Tick \/ DmaMoves \/ UNCHANGED vars
  <2>1. UNCHANGED <<case, at, verdict, saved>> /\ Now' = Now
    BY <1>5 DEF Tick, DmaMoves, vars, cpu, Now
  <2>2. QED
    BY <1>2, <2>1 DEF SavedInv, AllDone
<1>6. QED
  BY <1>3, <1>4, <1>5 DEF Next, Cpu

-----------------------------------------------------------------------------
(* The lock of the USART.                                                  *)

\* The registers it is about.
LEMMA UsartRegisters ==
    /\ UsartMode \in Registers /\ UsartClock \in Registers /\ UsartMode # UsartClock
    /\ UsartMode # BaudRegister /\ UsartClock # BaudRegister
    /\ UsartMode[1] = "USART1" /\ UsartClock[1] = "USART1"
    /\ UsartMode[2] = "CTLR1" /\ UsartClock[2] = "CTLR2"
    /\ StartValue(UsartClock) = {} /\ Lost(UsartClock) = {} /\ "USART1" \in AlwaysClocked
    /\ "USART1" \notin Timers
    /\ ClockMode = {"CPOL", "CPHA"}
<1>1. "USART1" \in DOMAIN BitsOf /\ {"CTLR1", "CTLR2"} \subseteq DOMAIN BitsOf.USART1
  BY DEF BitsOf
<1>2. <<"USART1", "CTLR1">> \in Registers /\ <<"USART1", "CTLR2">> \in Registers
  BY <1>1, RegisterNames
<1>3. Entry["USART1"]["CTLR2"] = {}
  BY <1>1 DEF Entry
<1>4. QED
  BY <1>2, <1>3 DEF UsartMode, UsartClock, BaudRegister, ClockMode, StartValue, Lost,
     AlwaysClocked, Timers

\* The lock is on while the transmitter is.
LEMMA UsartLock ==
    /\ \A r : Locked(r) \subseteq ClockMode /\ (r # UsartClock => Locked(r) = {})
    /\ "TE" \in Value(UsartMode) => Locked(UsartClock) = ClockMode
    /\ "TE" \notin Value(UsartMode) => Locked(UsartClock) = {}
<1>1. Value(UsartMode) = regs.USART1.CTLR1
  BY DEF Value, UsartMode
<1>2. QED
  BY <1>1 DEF Locked, UsartClock, ClockMode

\* What a write leaves of a bit.
LEMMA StoredBit ==
    ASSUME NEW r, NEW bits, NEW x
    PROVE  x \in Stored(r, bits) <=>
               IF FaultOf(r) /\ fault.bit = x THEN fault.level = 1
               ELSE IF x \in Locked(r) THEN x \in Value(r) ELSE x \in bits
  BY StuckBits DEF Stored

\* A step that writes a register, with a clock.
LEMMA WriteValue ==
    ASSUME BoardInv, IsStep(Step), AtStep, StepOf(Step), Step.op = "write",
           NEW r \in Registers, Step.reg = r
    PROVE  /\ r[1] \in clocked =>
                  Value(r)' = Stored(r, (Value(r) \ Step.mask)
                                           \cup Baud(r, Step.bits, regs.RCC.freq))
           /\ r[1] \notin clocked => Value(r)' = Value(r)
<1>1. WriteStep(Step) /\ Step.bits \subseteq All(r)
  BY OpStep DEF IsStep
<1>2. PICK v : v = (ReadBack(r) \ Step.mask) \cup Baud(r, Step.bits, regs.RCC.freq)
  OBVIOUS
<1>3. v \in SUBSET All(r)
  BY <1>1, <1>2, ReadBackFits, BaudValue
<1>4. Store(r, v)
  BY <1>1, <1>2 DEF WriteStep
<1>5. /\ r[1] \in clocked => Value(r)' = Stored(r, v)
      /\ r[1] \notin clocked => Value(r)' = Value(r)
  BY <1>3, <1>4, StoreValue
<1>6. r[1] \in clocked => ReadBack(r) = Value(r)
  BY DEF ReadBack
<1>7. QED
  BY <1>2, <1>5, <1>6

\* One that writes no baud rate.
LEMMA WriteSets ==
    ASSUME BoardInv, IsStep(Step), AtStep, StepOf(Step), Step.op = "write",
           NEW r \in Registers, Step.reg = r, r[1] \in clocked, r # BaudRegister
    PROVE  Value(r)' = Stored(r, (Value(r) \ Step.mask) \cup Step.bits)
<1>1. Baud(r, Step.bits, regs.RCC.freq) = Step.bits
  BY BaudValue
<1>2. QED
  BY <1>1, WriteValue

\* A step that restores one.
LEMMA RestoreValue ==
    ASSUME BoardInv, AtStep, StepOf(Step), Step.op = "restore", NEW r \in Registers, Step.reg = r
    PROVE  IF r \in DOMAIN saved /\ r[1] \in clocked THEN Value(r)' = Stored(r, saved[r])
           ELSE Value(r)' = Value(r)
<1>1. RestoreStep(Step)
  BY DEF StepOf, WriteStep, ReadStep, ClockStep, SaveStep, RestoreStep, UpdateStep,
     ConvertStep, MarkStep, WindowStep, StartWait, DelayTurn, AwaitClock, AwaitFlag, DmaStep
<1>2. CASE r \in DOMAIN saved
  <2>1. saved[r] \in SUBSET All(r) /\ Store(r, saved[r])
    BY <1>1, <1>2 DEF RestoreStep, BoardInv
  <2>2. QED
    BY <1>2, <2>1, StoreValue
<1>3. CASE r \notin DOMAIN saved
  BY <1>1, <1>3 DEF RestoreStep, Value
<1>4. QED
  BY <1>2, <1>3

\* Only a write or a restore changes the second control register; the lock keeps
\* the clock mode.
LEMMA LockKeeps ==
    ASSUME TypeInv, FaultInv, [Next]_vars, StuckAt(UsartMode, "TE", 1),
           ClockMode \cap Value(UsartClock) = {}
    PROVE  ClockMode \cap Value(UsartClock)' = {}
<1>1. PlaceInv /\ UsartClock \in Registers /\ "TE" \in Value(UsartMode)
  BY UsartRegisters DEF TypeInv, FaultInv, StuckAt, FaultOf
<1>2. Locked(UsartClock) = ClockMode /\ ~FaultOf(UsartClock)
  BY <1>1, UsartLock, UsartRegisters DEF StuckAt, FaultOf
<1>3. AtStep => (Step.op = "convert" => Step.data[1] = "ADC1")
  BY <1>1, StepOfCase, LockIsLifted DEF LockIsLifted
<1>4. PICK r \in Registers : r = UsartClock
  BY <1>1
<1>5. r[1] = "USART1" /\ r[2] = "CTLR2"
  BY <1>4, UsartRegisters
<1>6. CASE Value(r)' # Value(r)
  <2>1. \E bits : Value(r)' = Stored(r, bits)
    <3>1. AtStep /\ (Written(r) \/ Restored(r) \/ Updated(r) \/ Converted(r) \/ Stopped(r))
      BY <1>5, <1>6, RegisterCause
    <3>2. ~Updated(r) /\ ~Stopped(r) /\ ~Converted(r)
      BY <1>3, <1>5, <3>1 DEF Updated, Stopped, Converted
    <3>3. QED
      BY <3>1, <3>2 DEF Written, Restored
  <2>2. PICK bits : Value(r)' = Stored(r, bits)
    BY <2>1
  <2>3. \A x \in ClockMode : x \in Stored(r, bits) => x \in Value(r)
    BY <1>2, <1>4, StoredBit
  <2>4. ClockMode \cap Value(r)' = {}
    BY <1>4, <2>2, <2>3
  <2>5. QED
    BY <1>4, <2>4
<1>7. CASE Value(r)' = Value(r)
  BY <1>4, <1>7
<1>8. QED
  BY <1>6, <1>7

\* Between the two steps the transmitter is off, behind them the clock mode is
\* clear.
LockAt(k, j) ==
    /\ at \in k + 1..j /\ ~StuckAt(UsartMode, "TE", 1) => "TE" \notin Value(UsartMode)
    /\ at > j /\ verdict = "pass" =>
          \A x \in ClockMode : x \in Value(UsartClock) => StuckAt(UsartClock, x, 1)
LEMMA LockStep ==
    ASSUME TypeInv, FaultInv, ClockInv, SavedInv, LockInv, AtStep, StepOf(Step), fault' = fault,
           NEW k \in StepIndex(case), NEW j \in StepIndex(case), UnlockAt(case, k, j), LockAt(k, j)
    PROVE  LockAt(k, j)'
<1>1. /\ PlaceInv /\ BoardInv /\ IsStep(Step) /\ at \in 1..Len(Now.steps)
      /\ Len(Now.steps) \in Nat /\ Now.undo \in 1..Len(Now.steps) + 1
      /\ StepsOf(case)[at] = Step /\ StepsOf(case) = Now.steps
      /\ k \in Nat /\ j \in Nat /\ k >= 1 /\ k < j /\ j < Now.undo
  BY StepIsOfTable, StepOfCase DEF TypeInv, StepIndex, UnlockAt, Now
<1>2. \A r, x : StuckAt(r, x, 1)' <=> StuckAt(r, x, 1)
  BY DEF StuckAt, FaultOf
<1>3. CASE Stays
  BY <1>2, <1>3 DEF Stays, LockAt, Value
<1>4. CASE Fails
  BY <1>1, <1>4 DEF Fails, LockAt
<1>5. CASE GoOn
  <2>1. at' = at + 1 /\ verdict' = verdict
    BY <1>5 DEF GoOn
  <2>2. PICK m \in Registers : m = UsartMode
    BY UsartRegisters
  <2>3. PICK q \in Registers : q = UsartClock
    BY UsartRegisters
  <2>4. m[1] \in clocked /\ q[1] \in clocked /\ q # m /\ m # BaudRegister /\ q # BaudRegister
    BY <2>2, <2>3, UsartRegisters DEF ClockInv
  <2>5. ASSUME at' \in k + 1..j, ~StuckAt(m, "TE", 1) PROVE "TE" \notin Value(m)'
    <3>1. ASSUME Step.op = "write", Step.reg = m, "TE" \notin Step.bits,
                 "TE" \notin Value(m) \/ "TE" \in Step.mask
          PROVE  "TE" \notin Value(m)'
      <4>1. Value(m)' = Stored(m, (Value(m) \ Step.mask) \cup Step.bits)
        BY <1>1, <2>4, <3>1, WriteSets
      <4>2. PICK bits : bits = (Value(m) \ Step.mask) \cup Step.bits
        OBVIOUS
      <4>3. "TE" \notin bits /\ "TE" \notin Locked(m)
        BY <2>2, <3>1, <4>2, UsartLock, UsartRegisters
      <4>4. FaultOf(m) /\ fault.bit = "TE" => fault.level # 1
        BY <2>5 DEF StuckAt
      <4>5. "TE" \notin Stored(m, bits)
        BY <4>3, <4>4, StoredBit
      <4>6. QED
        BY <4>1, <4>2, <4>5
    <3>2. CASE at = k
      BY <1>1, <2>2, <3>1, <3>2 DEF UnlockAt
    <3>3. CASE at # k
      <4>1. at \in k + 1..j - 1 /\ at \in k + 1..j
        BY <1>1, <2>1, <2>5, <3>3
      <4>2. "TE" \notin Value(m)
        BY <2>2, <2>5, <4>1 DEF LockAt
      <4>3. Touches(Step, m) => Step.op = "write" /\ Step.reg = m /\ "TE" \notin Step.bits
        BY <1>1, <2>2, <4>1 DEF UnlockAt
      <4>4. CASE Touches(Step, m)
        BY <3>1, <4>2, <4>3, <4>4
      <4>5. CASE ~Touches(Step, m)
        BY <4>2, <4>5, TouchedCause
      <4>6. QED
        BY <4>4, <4>5
    <3>4. QED
      BY <3>2, <3>3
  <2>6. ASSUME at' > j, verdict = "pass", NEW x \in ClockMode, x \in Value(q)'
        PROVE  StuckAt(q, x, 1)
    <3>1. CASE at = j
      <4>1. /\ Step.op = "write" /\ Step.reg = q /\ ClockMode \subseteq Step.mask \ Step.bits
            /\ at \in k + 1..j
        BY <1>1, <2>3, <3>1 DEF UnlockAt
      <4>2. Value(q)' = Stored(q, (Value(q) \ Step.mask) \cup Step.bits)
        BY <1>1, <2>4, <4>1, WriteSets
      <4>3. PICK bits : bits = (Value(q) \ Step.mask) \cup Step.bits
        OBVIOUS
      <4>4. x \notin bits
        BY <4>1, <4>3
      <4>5. CASE StuckAt(m, "TE", 1)
        <5>1. ClockMode \cap Value(q) = {} /\ "TE" \in Value(m)
          BY <2>2, <2>3, <4>5 DEF LockInv, FaultInv, StuckAt, FaultOf
        <5>2. Locked(q) = ClockMode
          BY <2>2, <2>3, <5>1, UsartLock
        <5>3. x \in Stored(q, bits)
          BY <2>6, <4>2, <4>3
        <5>4. FaultOf(q) /\ fault.bit = x /\ fault.level = 1
          BY <5>1, <5>2, <5>3, StoredBit
        <5>5. QED
          BY <5>4 DEF StuckAt
      <4>6. CASE ~StuckAt(m, "TE", 1)
        <5>1. Locked(q) = {}
          BY <2>2, <2>3, <4>1, <4>6, UsartLock DEF LockAt
        <5>2. x \in Stored(q, bits)
          BY <2>6, <4>2, <4>3
        <5>3. FaultOf(q) /\ fault.bit = x /\ fault.level = 1
          BY <4>4, <5>1, <5>2, StoredBit
        <5>4. QED
          BY <5>3 DEF StuckAt
      <4>7. QED
        BY <4>5, <4>6
    <3>2. CASE at > j
      <4>1. x \in Value(q) => StuckAt(q, x, 1)
        BY <2>3, <2>6, <3>2 DEF LockAt
      <4>2. at \in j + 1..Len(StepsOf(case))
        BY <1>1, <3>2
      <4>3. Touches(Step, q) => \/ Restores(Step, q)
                                \/ /\ Step.op = "write" /\ Step.reg = q
                                   /\ ClockMode \cap Step.bits = {}
        BY <1>1, <2>3, <4>2 DEF UnlockAt
      <4>4. CASE ~Touches(Step, q)
        BY <2>6, <4>1, <4>4, TouchedCause
      <4>5. CASE Step.op = "write" /\ Step.reg = q /\ ClockMode \cap Step.bits = {}
        <5>1. Value(q)' = Stored(q, (Value(q) \ Step.mask) \cup Step.bits)
          BY <1>1, <2>4, <4>5, WriteSets
        <5>2. PICK bits : bits = (Value(q) \ Step.mask) \cup Step.bits
          OBVIOUS
        <5>3. x \in Stored(q, bits) /\ (x \in bits => x \in Value(q))
          BY <2>6, <4>5, <5>1, <5>2
        <5>4. (FaultOf(q) /\ fault.bit = x /\ fault.level = 1) \/ x \in Value(q)
          BY <5>3, StoredBit
        <5>5. QED
          BY <4>1, <5>4 DEF StuckAt
      <4>6. CASE Restores(Step, q)
        <5>1. IF q \in DOMAIN saved /\ q[1] \in clocked THEN Value(q)' = Stored(q, saved[q])
              ELSE Value(q)' = Value(q)
          BY <1>1, <4>6, RestoreValue DEF Restores
        <5>2. CASE q \notin DOMAIN saved
          BY <2>6, <4>1, <5>1, <5>2
        <5>3. CASE q \in DOMAIN saved
          <6>1. x \in Stored(q, saved[q])
            BY <2>4, <2>6, <5>1, <5>3
          <6>2. Stuck(q, saved[q]) = Stuck(q, {})
            <7>1. Stuck(q, saved[q]) \ Lost(q) = First(q) \ Lost(q)
              BY <5>3 DEF SavedInv, AtStep
            <7>2. QED
              BY <2>3, <2>4, <7>1, FirstIs, UsartRegisters
          <6>3. x \in Stuck(q, saved[q]) => FaultOf(q) /\ fault.bit = x /\ fault.level = 1
            BY <6>2, StuckBits
          <6>4. x \in saved[q] => \/ FaultOf(q) /\ fault.bit = x
                                  \/ x \in Stuck(q, saved[q])
            BY StuckBits
          <6>5. (FaultOf(q) /\ fault.bit = x /\ fault.level = 1) \/ x \in Value(q)
            BY <6>1, <6>3, <6>4, StoredBit
          <6>6. QED
            BY <4>1, <6>5 DEF StuckAt
        <5>4. QED
          BY <5>2, <5>3
      <4>7. QED
        BY <4>3, <4>4, <4>5, <4>6
    <3>3. QED
      BY <1>1, <2>1, <2>6, <3>1, <3>2
  <2>7. QED
    BY <1>2, <2>1, <2>2, <2>3, <2>5, <2>6 DEF LockAt
<1>6. QED
  BY <1>1, <1>3, <1>4, <1>5, StepMoves

\* LockInv is inductive.
LEMMA LockNext ==
    ASSUME TypeInv, FaultInv, ClockInv, SavedInv, LockInv, [Next]_vars
    PROVE  LockInv'
<1>1. PlaceInv /\ fault' = fault
  BY FaultStays DEF TypeInv
<1>2. \A r, x, l : StuckAt(r, x, l)' <=> StuckAt(r, x, l)
  BY <1>1 DEF StuckAt, FaultOf
<1>3. StuckAt(UsartMode, "TE", 1) => ClockMode \cap Value(UsartClock)' = {}
  BY LockKeeps DEF LockInv
<1>4. SUFFICES ASSUME ~AllDone', NEW k \in StepIndex(case'), NEW j \in StepIndex(case'),
                      UnlockAt(case', k, j)
               PROVE  LockAt(k, j)'
  BY <1>2, <1>3 DEF LockInv, LockAt
<1>5. CASE Return
  <2>1. at' = 1 /\ case' \in CaseIndex
    BY <1>1, <1>4, <1>5, Tables DEF Return, PlaceInv, AllDone, CaseIndex
  <2>2. k >= 1 /\ j >= 1 /\ k \in Nat /\ j \in Nat
    BY DEF StepIndex
  <2>3. QED
    BY <2>1, <2>2 DEF LockAt
<1>6. CASE AtStep /\ StepOf(Step)
  <2>1. case' = case
    BY <1>1, <1>6, StepMoves
  <2>2. k \in StepIndex(case) /\ j \in StepIndex(case) /\ UnlockAt(case, k, j)
    BY <1>4, <2>1
  <2>3. LockAt(k, j)
    BY <1>6, <2>2 DEF LockInv, LockAt, AtStep
  <2>4. QED
    BY <1>1, <1>6, <2>2, <2>3, LockStep
<1>7. CASE Tick \/ DmaMoves \/ UNCHANGED vars
  <2>1. UNCHANGED <<case, at, verdict>>
    BY <1>7 DEF Tick, DmaMoves, vars, cpu
  <2>2. ASSUME NEW r \in Registers, r[2] # "INTFR" PROVE Value(r)' = Value(r)
    BY <1>7, <2>2, TickRegisters DEF DmaMoves, vars, board, Value
  <2>3. Value(UsartMode)' = Value(UsartMode) /\ Value(UsartClock)' = Value(UsartClock)
    BY <2>2, UsartRegisters
  <2>4. k \in StepIndex(case) /\ j \in StepIndex(case) /\ UnlockAt(case, k, j) /\ ~AllDone
    BY <1>4, <2>1 DEF AllDone
  <2>5. LockAt(k, j)
    BY <2>4 DEF LockInv, LockAt
  <2>6. QED
    BY <1>2, <2>1, <2>3, <2>5 DEF LockAt
<1>8. QED
  BY <1>5, <1>6, <1>7 DEF Next, Cpu

-----------------------------------------------------------------------------
(* What is saved comes back.                                               *)

\* A restored register is not spoiled by a later step of the undoing.
LEMMA UndoKeeps ==
    ASSUME TypeInv, SavedInv, AtStep, StepOf(Step), NEW r \in Registers,
           NEW i \in Now.undo..at - 1, Restores(StepsOf(case)[i], r),
           NEW lost, Value(r) \ lost = First(r) \ lost
    PROVE  Value(r)' \ lost = First(r) \ lost
<1>1. /\ BoardInv /\ IsStep(Step) /\ case \in CaseIndex /\ at \in 1..Len(StepsOf(case))
      /\ StepsOf(case)[at] = Step /\ Len(StepsOf(case)) \in Nat /\ Now.undo \in Nat
  BY StepIsOfTable, StepOfCase DEF TypeInv, StepIndex
<1>2. at \in Now.undo..Len(StepsOf(case))
  BY <1>1
<1>3. StepsOf(case)[i].op = "restore" /\ StepsOf(case)[i].reg = r
  BY DEF Restores
<1>4. Touches(Step, r) =>
          /\ Step.op = "write" /\ Step.mask = Step.bits /\ Step.bits \subseteq StartValue(r)
          /\ r # BaudRegister
  BY <1>1, <1>2, <1>3, SavesAreUndone DEF SavesAreUndone, Now
<1>5. CASE Value(r)' = Value(r)
  BY <1>5
<1>6. CASE Value(r)' # Value(r)
  <2>1. Touches(Step, r)
    BY <1>6, TouchedCause DEF TypeInv
  <2>2. /\ Step.op = "write" /\ Step.mask = Step.bits /\ Step.bits \subseteq StartValue(r)
        /\ r # BaudRegister
    BY <1>4, <2>1
  <2>3. Step.reg = r
    BY <2>1, <2>2 DEF Touches
  <2>4. Value(r)' = Stored(r, (Value(r) \ Step.mask) \cup Baud(r, Step.bits, regs.RCC.freq))
    BY <1>1, <1>6, <2>2, <2>3, WriteValue
  <2>5. PICK bits : bits = (Value(r) \ Step.mask) \cup Baud(r, Step.bits, regs.RCC.freq)
    OBVIOUS
  <2>6. \A x : x \in bits <=> (x \in Value(r) \/ x \in Step.bits)
    BY <2>2, <2>5, BaudValue
  <2>7. ASSUME NEW x, x \notin lost PROVE x \in Stored(r, bits) <=> x \in First(r)
    <3>1. x \in Value(r) <=> x \in First(r)
      BY <2>7
    <3>2. x \in First(r) <=>
              IF FaultOf(r) /\ fault.bit = x THEN fault.level = 1 ELSE x \in StartValue(r)
      BY <2>2, FirstIs, StuckBits
    <3>3. x \in Stored(r, bits) <=>
              IF FaultOf(r) /\ fault.bit = x THEN fault.level = 1
              ELSE IF x \in Locked(r) THEN x \in Value(r) ELSE x \in bits
      BY StoredBit
    <3>4. x \in Step.bits => x \in StartValue(r)
      BY <2>2
    <3>5. QED
      BY <2>6, <3>1, <3>2, <3>3, <3>4
  <2>8. QED
    BY <2>4, <2>5, <2>7
<1>7. QED
  BY <1>5, <1>6

\* What is written back to a register is what it held, but for what is lost.
LEMMA RestoreIs ==
    ASSUME TypeInv, ClockInv, SavedInv, AtStep, StepOf(Step), GoOn, LockInv', fault' = fault,
           case' = case, NEW r \in DOMAIN saved, Restores(Step, r), at >= Now.undo,
           verdict = "pass" \/ Now.always
    PROVE  Value(r)' \ LostNow(r) = First(r) \ LostNow(r)
<1>1. /\ PlaceInv /\ BoardInv /\ case \in CaseIndex /\ at \in 1..Len(StepsOf(case))
      /\ StepsOf(case)[at] = Step /\ Len(StepsOf(case)) \in Nat /\ Now.undo \in Nat
      /\ r \in Registers /\ Step.op = "restore" /\ Step.reg = r /\ ~AllDone
  BY StepIsOfTable, StepOfCase DEF TypeInv, StepIndex, BoardInv, Restores, AtStep
<1>2. at \in Now.undo..Len(StepsOf(case))
  BY <1>1
<1>3. IF Now.always THEN r[1] \in AlwaysClocked ELSE ClockedAt(case, at, r[1])
  BY <1>1, <1>2, SavesAreUndone DEF SavesAreUndone, Now
<1>4. r[1] \in clocked
  BY <1>1, <1>3, RegisterNames DEF ClockInv
<1>5. Value(r)' = Stored(r, saved[r])
  BY <1>1, <1>4, RestoreValue
<1>6. Stuck(r, saved[r]) \ Lost(r) = First(r) \ Lost(r)
  BY <1>1 DEF SavedInv
<1>7. ASSUME NEW x, x \notin LostNow(r), r = UsartClock => x \notin ClockMode
      PROVE  x \in Value(r)' <=> x \in First(r)
  <2>1. x \notin Lost(r) /\ x \notin Locked(r)
    BY <1>7, UsartLock DEF LostNow
  <2>2. x \in Stuck(r, saved[r]) <=> x \in First(r)
    BY <1>6, <2>1
  <2>3. x \in Stored(r, saved[r]) <=> x \in Stuck(r, saved[r])
    BY <2>1, StoredBit, StuckBits
  <2>4. QED
    BY <1>5, <2>2, <2>3
<1>8. ASSUME NEW x \in ClockMode, x \notin LostNow(r), r = UsartClock
      PROVE  x \in Value(r)' <=> x \in First(r)
  <2>1. verdict = "pass" /\ verdict' = "pass" /\ at' = at + 1 /\ ~AllDone'
    BY <1>1, <1>8 DEF LostNow, PlaceInv, GoOn, AllDone
  <2>2. PICK k \in StepIndex(case), j \in StepIndex(case) : UnlockAt(case, k, j)
    BY <1>1, <1>8, SavedRegister
  <2>3. at' > j
    BY <1>1, <2>1, <2>2 DEF UnlockAt, Now, StepIndex
  <2>4. x \in Value(UsartClock)' => StuckAt(UsartClock, x, 1)'
    <3>1. k \in StepIndex(case') /\ j \in StepIndex(case') /\ UnlockAt(case', k, j)
      BY <2>2
    <3>2. QED
      BY <2>1, <2>3, <3>1 DEF LockInv
  <2>5. x \in Value(r)' => FaultOf(r) /\ fault.bit = x /\ fault.level = 1
    BY <1>8, <2>4 DEF StuckAt, FaultOf
  <2>6. FaultOf(r) /\ fault.bit = x /\ fault.level = 1 => x \in Stored(r, saved[r])
    BY StoredBit
  <2>7. x \in First(r) <=> FaultOf(r) /\ fault.bit = x /\ fault.level = 1
    <3>1. x \in Stuck(r, {}) <=>
              IF FaultOf(r) /\ fault.bit = x THEN fault.level = 1 ELSE x \in {}
      BY StuckBits
    <3>2. First(r) = Stuck(r, {})
      BY <1>8, UsartRegisters, FirstIs
    <3>3. QED
      BY <3>1, <3>2
  <2>8. QED
    BY <1>5, <2>5, <2>6, <2>7
<1>9. QED
  BY <1>7, <1>8

\* RestoredInv is inductive.
LEMMA RestoredNext ==
    ASSUME TypeInv, ClockInv, SavedInv, LockInv', RestoredInv, [Next]_vars
    PROVE  RestoredInv'
<1>1. PlaceInv /\ BoardInv /\ fault' = fault
  BY FaultStays DEF TypeInv
<1>2. \A r : First(r)' = First(r)
  BY <1>1 DEF First, StartUp, Baud, Stuck, Entry
<1>3. CASE Return
  <2>1. saved' = <<>>
    BY <1>3 DEF Return
  <2>2. QED
    BY <2>1 DEF RestoredInv
<1>4. CASE AtStep /\ StepOf(Step)
  <2>1. /\ case' = case /\ Now' = Now /\ ~AllDone /\ at \in 1..Len(StepsOf(case))
        /\ Len(StepsOf(case)) \in Nat /\ Now.undo \in Nat
        /\ case \in CaseIndex /\ StepsOf(case)[at] = Step
    BY <1>1, <1>4, StepMoves, StepIsOfTable, StepOfCase DEF Now, AtStep, StepIndex
  <2>2. CASE Stays
    BY <1>2, <2>1, <2>2 DEF Stays, RestoredInv, LostNow, Value
  <2>3. CASE Fails
    <3>1. at' = Now.undo \/ ~Now.always
      BY <2>3 DEF Fails
    <3>2. verdict' = "fail" /\ Now.undo..Now.undo - 1 = {}
      BY <2>1, <2>3 DEF Fails
    <3>3. QED
      BY <2>1, <3>1, <3>2 DEF RestoredInv
  <2>4. CASE GoOn
    <3>1. at' = at + 1 /\ verdict' = verdict /\ \A r : LostNow(r)' = LostNow(r)
      BY <2>4 DEF GoOn, LostNow
    <3>2. SUFFICES ASSUME verdict = "pass" \/ Now.always, NEW r \in DOMAIN saved',
                          NEW i \in Now.undo..at, Restores(StepsOf(case)[i], r)
                   PROVE  Value(r)' \ LostNow(r) = First(r) \ LostNow(r)
      <4>1. at' - 1 = at
        BY <2>1, <3>1
      <4>2. QED
        BY <1>2, <2>1, <3>1, <4>1 DEF RestoredInv
    <3>3. Step.op \in {"write", "restore", "clock"}
      <4>1. at \in Now.undo..Len(StepsOf(case))
        BY <2>1
      <4>2. QED
        BY <2>1, <4>1, SavesAreUndone DEF SavesAreUndone, Now
    <3>4. saved' = saved
      BY <1>4, <3>3 DEF StepOf, WriteStep, ReadStep, ClockStep, SaveStep, RestoreStep,
         UpdateStep, ConvertStep, MarkStep, WindowStep, StartWait, DelayTurn, AwaitClock,
         AwaitFlag, DmaStep
    <3>5. CASE i = at
      BY <1>1, <1>4, <2>1, <2>4, <3>2, <3>4, <3>5, RestoreIs
    <3>6. CASE i # at
      <4>1. i \in Now.undo..at - 1 /\ r \in Registers
        BY <1>1, <2>1, <3>4, <3>6 DEF BoardInv
      <4>2. Value(r) \ LostNow(r) = First(r) \ LostNow(r)
        BY <2>1, <3>2, <3>4, <4>1 DEF RestoredInv
      <4>3. QED
        BY <1>4, <3>2, <4>1, <4>2, UndoKeeps
    <3>7. QED
      BY <3>5, <3>6
  <2>5. QED
    BY <1>1, <1>4, <2>2, <2>3, <2>4, StepMoves
<1>5. CASE Tick \/ DmaMoves \/ UNCHANGED vars
  <2>1. UNCHANGED <<case, at, verdict, saved>> /\ Now' = Now /\ \A r : LostNow(r)' = LostNow(r)
    BY <1>5 DEF Tick, DmaMoves, vars, cpu, Now, LostNow
  <2>2. CASE regs' = regs
    BY <1>2, <2>1, <2>2 DEF RestoredInv, AllDone, Value
  <2>3. CASE Tick
    <3>1. at \notin Now.undo..Len(StepsOf(case))
      BY <1>1, <2>3, StepOfCase, SavesAreUndone DEF SavesAreUndone, Now, Tick, TakesTime
    <3>2. at \in 1..Len(StepsOf(case)) /\ Len(StepsOf(case)) \in Nat /\ Now.undo \in Nat
      BY <1>1, <2>3, StepOfCase, StepIsOfTable DEF Tick, TakesTime, StepIndex
    <3>3. Now.undo..at - 1 = {}
      BY <3>1, <3>2
    <3>4. QED
      BY <2>1, <3>3 DEF RestoredInv
  <2>4. QED
    BY <1>5, <2>2, <2>3 DEF DmaMoves, vars, board
<1>6. QED
  BY <1>3, <1>4, <1>5 DEF Next, Cpu

\* The invariants hold when the program starts.
LEMMA InitUndone == ASSUME Init PROVE UndoneInv
<1>1. /\ case = 1 /\ at = 1 /\ verdict = "pass" /\ saved = <<>> /\ before = regs
      /\ clocked = AlwaysClocked /\ fault \in BoardFaults
  BY DEF Init
<1>2. \A r \in Registers : Value(r) = First(r) /\ Before(r) = First(r)
  BY <1>1, InitValue DEF First, Before, Value
<1>3. UntouchedInv
  BY <1>1, <1>2 DEF UntouchedInv, Timers, AlwaysClocked
<1>4. SavedInv /\ RestoredInv
  BY <1>1 DEF SavedInv, RestoredInv
<1>5. LockInv
  <2>1. ASSUME StuckAt(UsartMode, "TE", 1) PROVE ClockMode \cap Value(UsartClock) = {}
    <3>1. ~FaultOf(UsartClock)
      BY <2>1, UsartRegisters DEF StuckAt, FaultOf
    <3>2. Value(UsartClock) = {}
      BY <1>2, <3>1, FirstIs, UsartRegisters DEF Stuck, FaultOf
    <3>3. QED
      BY <3>2
  <2>2. \A k, j \in StepIndex(1) : 1 \notin k + 1..j /\ ~(1 > j)
    <3>1. \A k, j \in Nat : k >= 1 /\ j >= 1 => 1 \notin k + 1..j /\ ~(1 > j)
      OBVIOUS
    <3>2. 1 \in CaseIndex => Len(StepsOf(1)) \in Nat
      BY Tables DEF CaseIndex, StepsOf
    <3>3. QED
      BY <3>1 DEF StepIndex
  <2>3. QED
    BY <1>1, <2>1, <2>2 DEF LockInv
<1>6. QED
  BY <1>3, <1>4, <1>5 DEF UndoneInv

\* Whatever is broken on the board, however long the steps take and whatever SysTick
\* reads, a case that passes leaves the registers it saved as it found them, and the
\* console and the EXTEN block are left so by a case that fails too, but for what
\* SavedIsRestored says is lost.
THEOREM SavedRestored == Spec => []SavedIsRestored
<1> DEFINE Inv == TypeInv /\ FaultInv /\ ClockInv /\ UndoneInv
<1>1. Init => Inv
  BY InitTypeInv, InitFault, InitPlaces, InitUndone
<1>2. Inv /\ [Next]_vars => Inv'
  <2> SUFFICES ASSUME Inv, [Next]_vars PROVE Inv'
    OBVIOUS
  <2>1. TypeInv' /\ FaultInv' /\ ClockInv'
    BY NextTypeInv, FaultNext, ClockNext
  <2>2. UntouchedInv' /\ SavedInv' /\ LockInv'
    BY UntouchedNext, SavedNext, LockNext DEF UndoneInv
  <2>3. RestoredInv'
    BY <2>2, RestoredNext DEF UndoneInv
  <2>4. QED
    BY <2>1, <2>2, <2>3 DEF UndoneInv
<1>3. Inv => SavedIsRestored
  <2> SUFFICES ASSUME Inv PROVE SavedIsRestored
    OBVIOUS
  <2> SUFFICES ASSUME ~AllDone, CaseDone, NEW r \in DOMAIN saved,
                      verdict = "pass" \/ Now.name \in {"usart", "esig"}
               PROVE  Value(r) \ LostNow(r) = Before(r) \ LostNow(r)
    BY Zenon DEF SavedIsRestored, LostNow, Lost, Before, ClockMode
  <2>1. PlaceInv /\ r \in Registers /\ case \in CaseIndex
    BY Tables DEF TypeInv, BoardInv, PlaceInv, AllDone, CaseIndex
  <2>2. verdict = "pass" \/ Now.always
    BY <2>1, SavesAreUndone DEF SavesAreUndone, Now
  <2>3. /\ Untouched(r, case, 1)
        /\ \E j \in Now.undo..Len(StepsOf(case)) : Restores(StepsOf(case)[j], r)
    BY <2>1, SavedRegister DEF UndoneInv
  <2>4. Before(r) = First(r)
    BY <2>1, <2>3 DEF UndoneInv, UntouchedInv
  <2>5. at - 1 = Len(StepsOf(case))
    BY <2>1, Tables DEF CaseDone, StepsOf, Now, CaseIndex
  <2>6. Value(r) \ LostNow(r) = First(r) \ LostNow(r)
    BY <2>2, <2>3, <2>5 DEF UndoneInv, RestoredInv
  <2>7. QED
    BY <2>4, <2>6
<1>4. QED
  BY <1>1, <1>2, <1>3, PTL DEF Spec

-----------------------------------------------------------------------------
(* A failure is deserved: the invariants.                                  *)

\* The blocks that the case is judged with are sound; register r is under test.
Sound == FaultyBlock \notin JudgedWith(Now.name)
UnderTest(r) == r[1] \in Tested[Now.name]

\* The registers under test hold what is expected, but for the flag of a timer that
\* may have been enabled.
FoundInv ==
    ~AllDone /\ Sound /\ at <= Now.undo =>
        \A r \in Registers :
            UnderTest(r) /\ Steady(case, at, r) => Value(r) = Expected[case][at][r]

\* A sound SysTick is enabled, but while its own case turns it off.
SysTickInv ==
    ~AllDone /\ FaultyBlock \notin {"SYSTICK", "RCC"} /\ "SYSTICK" \notin Tested[Now.name] =>
        "EN" \in Value(SysTick)

\* SysTick read from, then now, d ticks later.
Since(from, now, d) == from + d \in {now, now + Wrap}

\* The first wait for a timer has lasted d ticks.
FirstWait(t, d) ==
    Since(time.wait, tick, d) /\ IF Flag(t) THEN d < TIMER_PERIOD + lag ELSE d <= cnt[t]

\* The delay that is measured has lasted d ticks, the measurement e ticks.
DelayWait(e, d) ==
    /\ Since(time.start, tick, e) /\ d <= e /\ e <= Lag + d
    /\ IF look = "start" THEN e <= lag /\ d = 0
       ELSE Since(time.wait, tick, d) /\ d < Millisecond + lag
DelayOver(now, e, l) ==
    Since(time.start, now, e) /\ Millisecond <= e /\ e < Millisecond + 2 * Lag + l
DelayTest(k) ==
    /\ at = k + 2 => \E e, d \in Nat : DelayWait(e, d)
    /\ at = k + 3 => \E e \in Nat : DelayOver(tick, e, lag)
    /\ at = k + 4 => \E e \in Nat : DelayOver(time.end, e, Lag)

\* The waits of the tables where they are.
WaitsInv ==
    ~AllDone /\ Sound =>
        /\ \A t \in Timers : \A k \in 0..Len(Now.steps) :
              /\ t \in Tested[Now.name] /\ PeriodTestAt(case, k, t)
              /\ at = k + 11 /\ look # "start"
              => \E d \in Nat : FirstWait(t, d)
        /\ \A k \in 0..Len(Now.steps) :
              "SYSTICK" \in Tested[Now.name] /\ DelayTestAt(case, k) => DelayTest(k)

\* A sound channel moves an element in less than a turn of the loop, sets its flags
\* and copies what it moves.
MovesInv ==
    fault.channel = 0 =>
        /\ pc # "fail"
        /\ pc = "poll" =>
              /\ cntr <= Job.count /\ timeout <= Job.count
              /\ tcif <=> cntr = 0
              /\ ~tcif => timeout <= Moved + 1
              /\ cntr <= Job.count \div 2 => htif
              /\ \A i \in 0..Moved - 1 : dst[i] = src[i]
        /\ pc \in {"stop", "check"} => Good

\* A case has not failed when the blocks it is judged with are sound.
SoundInv == (~AllDone /\ Sound => verdict = "pass") /\ FailIsDeserved

\* The inductive invariant.
DeservedInv == FoundInv /\ SysTickInv /\ WaitsInv /\ MovesInv /\ SoundInv

-----------------------------------------------------------------------------
(* What a sound case finds in the registers.                               *)

\* What is under test is not broken.
LEMMA SoundRegister ==
    ASSUME fault \in BoardFaults, Sound, NEW r, UnderTest(r)
    PROVE  ~FaultOf(r) /\ \A v : Stuck(r, v) = v
<1>1. SUFFICES ASSUME FaultOf(r) PROVE FALSE
  BY DEF Stuck, FaultOf
<1>2. fault.channel = 0 /\ fault.reg = r
  BY <1>1, StuckBit DEF FaultOf
<1>3. FaultyBlock = r[1]
  BY <1>2 DEF FaultyBlock
<1>4. QED
  BY <1>3 DEF Sound, UnderTest, JudgedWith

\* A read of the registers under test, and one of the clock frequencies.
ReadsFound ==
    /\ UnderTest(Step.reg) /\ ClockedAt(case, at, Step.reg[1]) /\ Steady(case, at, Step.reg)
    /\ Expected[case][at][Step.reg] \cap Step.mask = Step.bits
ReadsFreq ==
    /\ Step.reg = <<"RCC", "freq">> /\ "RCC" \in JudgedWith(Now.name)
    /\ Step.mask = Step.bits /\ Step.bits \subseteq All(Step.reg)

\* A case that is judged with the clock frequencies finds them right.
LEMMA SoundFreq ==
    ASSUME fault \in BoardFaults, FaultyBlock # "RCC"
    PROVE  ~FaultOf(<<"RCC", "freq">>)
<1> SUFFICES ASSUME FaultOf(<<"RCC", "freq">>) PROVE FALSE
  OBVIOUS
<1>1. fault.channel = 0 /\ fault.reg = <<"RCC", "freq">>
  BY StuckBit DEF FaultOf
<1>2. QED
  BY <1>1 DEF FaultyBlock

\* What the audit says of the step that the case is at.
LEMMA StepIsRight ==
    ASSUME PlaceInv, AtStep
    PROVE  /\ \A r \in Registers : Touches(Step, r) => UnderTest(r)
           /\ Step.op = "convert" => /\ Step.sel \in Registers /\ UnderTest(Step.sel)
                                     /\ Step.sel[2] # "INTFR"
                                     /\ Step.data # <<"ADC1", "STATR">>
           /\ Step.op = "write" => ClockedAt(case, at, Step.reg[1])
           /\ Step.op = "restore" => at >= Now.undo
           /\ Step.op = "dma" => "DMA1" \in Tested[Now.name]
           /\ "USART1" \in Tested[Now.name] => "RCC" \in JudgedWith(Now.name)
           /\ Step.op = "read" => ReadsFound \/ ReadsFreq
           /\ Expected[case][at + 1] = After(Expected[case][at], Step)
<1>1. /\ case \in CaseIndex /\ at \in StepIndex(case) /\ StepsOf(case)[at] = Step
  BY StepOfCase
<1>2. Expected[case][at + 1] = After(Expected[case][at], Step)
  BY <1>1, ExpectedSteps DEF ExpectedSteps
<1>3. QED
  BY <1>1, <1>2, ChecksAreRight DEF ChecksAreRight, ReadsFound, ReadsFreq, UnderTest, Now

\* A register that is not the flag of a timer is steady.
LEMMA FoundValue ==
    ASSUME FoundInv, ~AllDone, Sound, at <= Now.undo, NEW r \in Registers, UnderTest(r),
           r[2] # "INTFR"
    PROVE  Value(r) = Expected[case][at][r]
  BY DEF FoundInv, Steady

\* What a step makes of a register that it does not touch.
LEMMA AfterSame ==
    ASSUME NEW f, NEW r \in Registers, ~Touches(Step, r)
    PROVE  After(f, Step)[r] = f[r]
<1>1. /\ ~(Step.op = "write" /\ Step.reg = r)
      /\ ~(Step.op = "update" /\ r = <<Step.tim, "INTFR">>)
      /\ ~(Step.op = "convert" /\ r = <<"ADC1", "STATR">>)
      /\ ~(Step.op = "convert" /\ r = Step.data)
  BY DEF Touches
<1>2. QED
  BY <1>1 DEF After

\* A written register under test.
LEMMA FoundWrite ==
    ASSUME TypeInv, FaultInv, ClockInv, FoundInv, Sound, verdict = "pass", AtStep,
           StepOf(Step), at <= Now.undo, NEW r \in Registers, Step.op = "write",
           Step.reg = r, Value(r) = Expected[case][at][r]
    PROVE  Value(r)' = After(Expected[case][at], Step)[r]
<1>1. PlaceInv /\ BoardInv /\ fault \in BoardFaults /\ ~AllDone
  BY DEF TypeInv, BoardInv, AtStep
<1>2. UnderTest(r) /\ ClockedAt(case, at, r[1])
  BY <1>1, StepIsRight DEF Touches
<1>3. r[1] \in clocked
  <2>1. r[1] \in DOMAIN BitsOf
    BY RegisterNames
  <2>2. QED
    BY <1>1, <1>2, <2>1 DEF ClockInv
<1>4. PICK v : v = (Value(r) \ Step.mask) \cup Step.bits
  OBVIOUS
<1>5. Value(r)' = Stored(r, v)
  <2>1. Value(r)' = Stored(r, (Value(r) \ Step.mask) \cup Baud(r, Step.bits, regs.RCC.freq))
    BY <1>1, <1>3, StepIsOfTable, WriteValue
  <2>2. CASE r # BaudRegister
    BY <1>4, <2>1, <2>2, BaudValue
  <2>3. CASE r = BaudRegister
    <3>1. "USART1" \in Tested[Now.name]
      BY <1>2, <2>3 DEF UnderTest, BaudRegister
    <3>2. "RCC" \in JudgedWith(Now.name)
      BY <1>1, <3>1, StepIsRight
    <3>3. ~FaultOf(<<"RCC", "freq">>)
      BY <1>1, <3>2, SoundFreq DEF Sound
    <3>4. QED
      BY <1>4, <2>1, <3>3, SoundTicks
  <2>4. QED
    BY <2>2, <2>3
<1>6. Stored(r, v) = (v \ Locked(r)) \cup (Value(r) \cap Locked(r))
  BY <1>1, <1>2, SoundRegister DEF Stored
<1> DEFINE f == Expected[case][at]
<1>7. Locked(r) = Lock(f, r)
  <2>1. CASE r # UsartClock
    BY <2>1, UsartLock DEF Lock
  <2>2. CASE r = UsartClock
    <3>1. UnderTest(UsartMode) /\ UsartMode \in Registers /\ UsartMode[2] # "INTFR"
      BY <1>2, <2>2, UsartRegisters DEF UnderTest
    <3>2. Value(UsartMode) = f[UsartMode]
      BY <1>1, <3>1, FoundValue
    <3>3. QED
      BY <2>2, <3>2, UsartLock DEF Lock
  <2>3. QED
    BY <2>1, <2>2
<1>8. After(f, Step)[r] = (v \ Lock(f, r)) \cup (f[r] \cap Lock(f, r))
  BY <1>4 DEF After
<1>9. QED
  BY <1>5, <1>6, <1>7, <1>8

\* The flag of a timer that is told to update.
LEMMA FoundUpdate ==
    ASSUME TypeInv, FoundInv, Sound, AtStep, StepOf(Step), at <= Now.undo,
           NEW r \in Registers, Step.op = "update", r = <<Step.tim, "INTFR">>,
           Value(r) = Expected[case][at][r]
    PROVE  Value(r)' = After(Expected[case][at], Step)[r]
<1>1. PlaceInv /\ BoardInv /\ fault \in BoardFaults /\ ~AllDone /\ Fits(regs)
  BY DEF TypeInv, BoardInv, AtStep
<1>2. UnderTest(r) /\ Step.tim \in Timers
  BY <1>1, StepIsRight, StepIsOfTable DEF Touches, IsStep
<1>3. PICK t \in Timers : t = Step.tim
  BY <1>2
<1> DEFINE f == Expected[case][at]
           q == <<t, "CTLR1">>
<1>4. Value(q) = f[q]
  <2>1. q \in Registers /\ UnderTest(q) /\ q[2] # "INTFR"
    BY <1>2, <1>3, TimerRegisters DEF UnderTest
  <2> HIDE DEF q
  <2>2. QED
    BY <1>1, <2>1, FoundValue
<1>5. UpdateStep(Step)
  BY OpStep
<1>6. Value(q) = regs[t].CTLR1 /\ Value(r) = regs[r[1]][r[2]]
  BY DEF Value
<1>7. CASE "URS" \in Value(q)
  <2>1. regs' = regs
    BY <1>3, <1>5, <1>6, <1>7 DEF UpdateStep
  <2>2. After(f, Step)[r] = f[r]
    BY <1>3, <1>4, <1>7 DEF After
  <2>3. QED
    BY <2>1, <2>2 DEF Value
<1>8. CASE "URS" \notin Value(q)
  <2>1. regs' = Raise(regs, r, {"UIF"})
    BY <1>3, <1>5, <1>6, <1>8 DEF UpdateStep
  <2>2. {"UIF"} \in SUBSET All(r)
    BY <1>3, TimerRegisters
  <2>3. Raise(regs, r, {"UIF"})[r[1]][r[2]] = Stuck(r, Value(r) \cup {"UIF"})
    BY <1>1, <1>6, <2>2, RaiseValue
  <2>4. Value(r)' = Value(r) \cup {"UIF"}
    BY <1>1, <1>2, <2>1, <2>3, SoundRegister DEF Value
  <2>5. After(f, Step)[r] = f[r] \cup {"UIF"}
    BY <1>3, <1>4, <1>8 DEF After
  <2>6. QED
    BY <2>4, <2>5
<1>9. QED
  BY <1>7, <1>8

\* The flag and the data of a conversion.
LEMMA FoundConvert ==
    ASSUME TypeInv, FoundInv, Sound, AtStep, StepOf(Step), at <= Now.undo,
           NEW r \in Registers, Step.op = "convert", Touches(Step, r),
           Value(r) = Expected[case][at][r]
    PROVE  Value(r)' = After(Expected[case][at], Step)[r]
<1>1. PlaceInv /\ BoardInv /\ fault \in BoardFaults /\ ~AllDone /\ Fits(regs)
  BY DEF TypeInv, BoardInv, AtStep
<1>2. /\ UnderTest(r) /\ r \in {<<"ADC1", "STATR">>, Step.data}
      /\ Step.sel \in Registers /\ UnderTest(Step.sel) /\ Step.data # <<"ADC1", "STATR">>
      /\ Step.flag \in BitsOf.ADC1.STATR /\ Step.data \in Registers
      /\ "400..620" \in All(Step.data)
  BY <1>1, StepIsRight, StepIsOfTable DEF Touches, IsStep
<1> DEFINE f == Expected[case][at]
           flags == <<"ADC1", "STATR">>
           done == Raise(regs, flags, {Step.flag})
<1>3. ConvertStep(Step)
  BY DEF StepOf, WriteStep, ReadStep, ClockStep, SaveStep, RestoreStep, UpdateStep,
     ConvertStep, MarkStep, WindowStep, StartWait, DelayTurn, AwaitClock, AwaitFlag, DmaStep
<1>4. flags \in Registers /\ {Step.flag} \in SUBSET All(flags)
  BY <1>2, AdcStatus
<1>5. Fits(done)
  BY <1>1, <1>4, RaiseFits
<1>6. Value(r) = regs[r[1]][r[2]] /\ Value(r)' = regs'[r[1]][r[2]]
  BY DEF Value
<1>7. done[r[1]][r[2]] = IF r = flags THEN Value(r) \cup {Step.flag} ELSE Value(r)
  <2>1. /\ done[flags[1]][flags[2]] = Stuck(flags, regs[flags[1]][flags[2]] \cup {Step.flag})
        /\ r # flags => done[r[1]][r[2]] = regs[r[1]][r[2]]
    BY <1>1, <1>4, RaiseValue
  <2>2. r = flags => \A v : Stuck(flags, v) = v
    BY <1>1, <1>2, SoundRegister
  <2> HIDE DEF done, flags
  <2>3. QED
    BY <1>6, <2>1, <2>2
<1>8. regs' = IF Step.ch \in Value(Step.sel) THEN Raise(done, Step.data, {"400..620"}) ELSE done
  BY <1>3 DEF ConvertStep
<1>9. Value(Step.sel) = f[Step.sel]
  <2>1. Step.sel[2] # "INTFR"
    BY <1>1, StepIsRight
  <2>2. QED
    BY <1>1, <1>2, <2>1, FoundValue
<1> HIDE DEF done
<1>10. CASE Step.ch \in Value(Step.sel)
  <2>1. /\ Raise(done, Step.data, {"400..620"})[Step.data[1]][Step.data[2]]
             = Stuck(Step.data, done[Step.data[1]][Step.data[2]] \cup {"400..620"})
        /\ r # Step.data => Raise(done, Step.data, {"400..620"})[r[1]][r[2]] = done[r[1]][r[2]]
    <3>1. {"400..620"} \in SUBSET All(Step.data)
      BY <1>2
    <3>2. PICK q \in Registers : q = Step.data
      BY <1>2
    <3>3. QED
      BY <1>1, <1>5, <3>1, <3>2, RaiseValue
  <2>2. CASE r = Step.data
    <3>1. Value(r)' = Stuck(r, done[r[1]][r[2]] \cup {"400..620"})
      BY <1>6, <1>8, <1>10, <2>1, <2>2
    <3>2. Value(r)' = Value(r) \cup {"400..620"}
      BY <1>1, <1>2, <1>7, <2>2, <3>1, SoundRegister
    <3>3. After(f, Step)[r] = f[r] \cup {"400..620"}
      BY <1>2, <1>9, <1>10, <2>2 DEF After
    <3>4. QED
      BY <3>2, <3>3
  <2>3. CASE r = flags
    <3>1. Value(r)' = Value(r) \cup {Step.flag}
      BY <1>2, <1>6, <1>7, <1>8, <1>10, <2>1, <2>3
    <3>2. After(f, Step)[r] = f[r] \cup {Step.flag}
      BY <1>2, <2>3 DEF After
    <3>3. QED
      BY <3>1, <3>2
  <2>4. QED
    BY <1>2, <2>2, <2>3
<1>11. CASE Step.ch \notin Value(Step.sel)
  <2>1. Value(r)' = IF r = flags THEN Value(r) \cup {Step.flag} ELSE Value(r)
    BY <1>6, <1>7, <1>8, <1>11
  <2>2. After(f, Step)[r] = IF r = flags THEN f[r] \cup {Step.flag} ELSE f[r]
    BY <1>2, <1>9, <1>11 DEF After
  <2>3. QED
    BY <2>1, <2>2
<1>12. QED
  BY <1>10, <1>11

\* A step that goes on, with the register under test as expected.
LEMMA FoundStep ==
    ASSUME TypeInv, FaultInv, ClockInv, FoundInv, Sound, verdict = "pass", AtStep, StepOf(Step),
           at < Now.undo, verdict' = "pass", NEW r \in Registers, UnderTest(r),
           Steady(case, at, r)
    PROVE  Value(r)' = After(Expected[case][at], Step)[r] \/ (at' = at /\ Value(r)' = Value(r))
<1>1. PlaceInv /\ ~AllDone /\ at <= Now.undo /\ at \in Nat /\ Now.undo \in Nat
  BY StepIsOfTable DEF TypeInv, AtStep
<1>2. Value(r) = Expected[case][at][r]
  BY <1>1 DEF FoundInv
<1>3. CASE ~Touches(Step, r)
  BY <1>2, <1>3, AfterSame, TouchedCause
<1>4. CASE Touches(Step, r) /\ Step.op \in {"write", "update", "convert"}
  <2>1. /\ Step.op = "write" => Step.reg = r
        /\ Step.op = "update" => r = <<Step.tim, "INTFR">>
    BY <1>4 DEF Touches
  <2>2. QED
    BY <1>1, <1>2, <1>4, <2>1, FoundWrite, FoundUpdate, FoundConvert
<1>5. CASE Touches(Step, r) /\ Step.op \notin {"write", "update", "convert"}
  <2>1. Step.op \in {"await", "clock"}
    BY <1>1, <1>5, StepIsRight DEF Touches
  <2>2. Value(r)' = Value(r)
    BY <2>1, StepRegisters DEF Written, Restored, Updated, Converted, Stopped
  <2>3. After(Expected[case][at], Step)[r] = Expected[case][at][r]
    BY <2>1 DEF After
  <2>4. QED
    BY <1>2, <2>2, <2>3
<1>6. QED
  BY <1>3, <1>4, <1>5

\* What happens does not repair the board, and a case is judged with the same blocks.
LEMMA SoundSame ==
    ASSUME fault' = fault, case' = case
    PROVE  /\ Sound' <=> Sound
           /\ \A r : UnderTest(r)' <=> UnderTest(r)
           /\ (AllDone' <=> AllDone) /\ Now' = Now /\ FaultyBlock' = FaultyBlock
  BY DEF Sound, UnderTest, AllDone, Now, FaultyBlock

\* FoundInv is inductive.
LEMMA FoundNext ==
    ASSUME TypeInv, FaultInv, ClockInv, FoundInv, SoundInv, [Next]_vars, TypeInv',
           UntouchedInv', SoundInv'
    PROVE  FoundInv'
<1>1. PlaceInv /\ PlaceInv' /\ fault' = fault /\ fault' \in BoardFaults /\ fault \in BoardFaults
  BY FaultStays DEF TypeInv, BoardInv
<1>2. SUFFICES ASSUME ~AllDone', Sound', (at <= Now.undo)', NEW r \in Registers, UnderTest(r)',
                      Steady(case', at', r)
               PROVE  Value(r)' = Expected[case'][at'][r]
  BY DEF FoundInv
<1>3. verdict' = "pass" /\ (~AllDone /\ Sound => verdict = "pass")
  BY <1>2 DEF SoundInv
<1>4. CASE Return
  <2>1. at' = 1 /\ case' \in CaseIndex
    BY <1>1, <1>2, <1>4, Tables DEF Return, PlaceInv, AllDone, CaseIndex
  <2>2. r[1] \in Tested[selftest_cases[case'].name]
    BY <1>2 DEF UnderTest, Now
  <2>3. Untouched(r, case', 1)
    <3>1. \A d \in 1..case' - 1 : \A j \in StepIndex(d) : ~Touches(StepsOf(d)[j], r)
      BY <2>1, <2>2, ChecksAreRight DEF ChecksAreRight
    <3>2. QED
      BY <3>1 DEF Untouched
  <2>4. Value(r)' = First(r)'
    BY <2>1, <2>3 DEF UntouchedInv
  <2>5. ~FaultOf(r)
    <3>1. FaultyBlock \notin JudgedWith(selftest_cases[case'].name)
      BY <1>1, <1>2 DEF Sound, FaultyBlock, Now
    <3>2. ASSUME FaultOf(r) PROVE FALSE
      <4>1. fault.channel = 0 /\ fault.reg = r
        BY <1>1, <3>2, StuckBit DEF FaultOf
      <4>2. FaultyBlock = r[1]
        BY <4>1 DEF FaultyBlock
      <4>3. QED
        BY <2>2, <3>1, <4>2 DEF JudgedWith
    <3>3. QED
      BY <3>2
  <2>6. First(r)' = StartValue(r)
    <3>1. FaultyBlock \notin JudgedWith(selftest_cases[case'].name)
      BY <1>1, <1>2 DEF Sound, FaultyBlock, Now
    <3>2. r = BaudRegister => "RCC" \in JudgedWith(selftest_cases[case'].name)
      BY <2>1, <2>2, ChecksAreRight DEF ChecksAreRight, BaudRegister
    <3>3. r = BaudRegister => ~FaultOf(<<"RCC", "freq">>)
      BY <1>1, <3>1, <3>2, SoundFreq
    <3>4. StartUp(r) = StartValue(r)
      BY <2>5, <3>3, StartUpIs DEF Stuck, StartValue, FaultOf
    <3>5. QED
      BY <1>1, <3>4 DEF First, StartUp, Baud, Stuck, StartValue, Entry
  <2>7. Expected[case'][1][r] = StartValue(r)
    BY <2>1, ExpectedSteps DEF ExpectedSteps
  <2>8. QED
    BY <2>1, <2>4, <2>6, <2>7
<1>5. CASE AtStep /\ StepOf(Step)
  <2>1. case' = case /\ (Stays \/ GoOn \/ Fails)
    BY <1>1, <1>5, StepMoves
  <2>2. Sound /\ UnderTest(r) /\ ~AllDone /\ Now' = Now /\ at' <= Now.undo
    BY <1>1, <1>2, <2>1, SoundSame
  <2>3. verdict = "pass"
    BY <1>3, <2>2
  <2>4. at \in Nat /\ Now.undo \in Nat
    BY <1>1, <1>5, StepIsOfTable
  <2>5. CASE Stays
    BY <1>2, <2>1, <2>2, <2>5 DEF Stays, FoundInv, Value
  <2>6. CASE GoOn
    <3>1. at' = at + 1 /\ at < Now.undo
      BY <2>2, <2>4, <2>6 DEF GoOn
    <3>2. Steady(case, at, r)
      BY <1>2, <2>1, <2>4, <3>1 DEF Steady
    <3>3. Value(r)' = After(Expected[case][at], Step)[r]
      BY <1>3, <1>5, <2>2, <2>3, <2>4, <3>1, <3>2, FoundStep
    <3>4. Expected[case][at + 1] = After(Expected[case][at], Step)
      BY <1>1, <1>5, StepIsRight
    <3>5. QED
      BY <2>1, <3>1, <3>3, <3>4
  <2>7. CASE Fails
    BY <1>3, <2>7 DEF Fails
  <2>8. QED
    BY <2>1, <2>5, <2>6, <2>7
<1>6. CASE Tick \/ DmaMoves \/ UNCHANGED vars
  <2>1. UNCHANGED <<case, at>>
    BY <1>6 DEF Tick, DmaMoves, vars, cpu
  <2>2. Sound /\ UnderTest(r) /\ ~AllDone /\ at <= Now.undo
    BY <1>1, <1>2, <2>1, SoundSame
  <2>3. Steady(case, at, r) /\ Value(r) = Expected[case][at][r]
    BY <1>2, <2>1, <2>2 DEF FoundInv
  <2>4. Value(r)' = Value(r)
    <3>1. CASE Tick
      <4>1. SUFFICES ASSUME r[1] \in Over, r[2] = "INTFR" PROVE FALSE
        BY <3>1, TickRegisters
      <4>2. PICK t \in Timers : t = r[1] /\ "CEN" \in Value(<<t, "CTLR1">>)
        BY <4>1 DEF Over, Running, Value
      <4>3. Value(<<t, "CTLR1">>) = Expected[case][at][<<t, "CTLR1">>]
        <5> DEFINE q == <<t, "CTLR1">>
        <5>1. q \in Registers /\ UnderTest(q) /\ q[2] # "INTFR"
          BY <2>2, <4>2, TimerRegisters DEF UnderTest
        <5> HIDE DEF q
        <5>2. Value(q) = Expected[case][at][q]
          BY <2>2, <5>1, FoundValue
        <5>3. QED
          BY <5>2 DEF q
      <4>4. at \in 1..at
        <5>1. at \in Nat /\ at >= 1
          BY <1>1, <2>2, Tables DEF PlaceInv, Now, AllDone
        <5>2. QED
          BY <5>1
      <4>5. "CEN" \notin Expected[case][at][<<t, "CTLR1">>]
        BY <2>3, <4>1, <4>2, <4>4 DEF Steady
      <4>6. QED
        BY <4>2, <4>3, <4>5
    <3>2. CASE DmaMoves \/ UNCHANGED vars
      BY <3>2 DEF DmaMoves, vars, board, Value
    <3>3. QED
      BY <1>6, <3>1, <3>2
  <2>5. QED
    BY <2>1, <2>3, <2>4
<1>7. QED
  BY <1>4, <1>5, <1>6 DEF Next, Cpu

\* A sound SysTick is enabled where it is not under test; where it is, the table says
\* where it is enabled.
LEMMA SysTickNext ==
    ASSUME TypeInv, FoundInv, SysTickInv, SoundInv, [Next]_vars, TypeInv'
    PROVE  SysTickInv'
<1>1. PlaceInv /\ PlaceInv' /\ fault' = fault
  BY FaultStays DEF TypeInv
<1>2. SysTick \in Registers /\ SysTick[1] = "SYSTICK" /\ SysTick[2] = "CTLR"
  BY PeriodRegisters DEF SysTick, Timers
<1>3. FaultyBlock' = FaultyBlock
  BY <1>1 DEF FaultyBlock
<1>4. SUFFICES ASSUME ~AllDone',
                      FaultyBlock \notin {"SYSTICK", "RCC"},
                      "SYSTICK" \notin Tested[Now'.name]
               PROVE  "EN" \in Value(SysTick)'
  BY <1>3 DEF SysTickInv
<1>5. CASE Return
  <2>1. ~AllDone /\ CaseDone /\ regs' = regs /\ case \in CaseIndex
    BY <1>1, <1>5, Tables DEF Return, PlaceInv, AllDone, CaseIndex
  <2>2. CASE "SYSTICK" \notin Tested[Now.name]
    BY <1>4, <2>1, <2>2 DEF SysTickInv, Value
  <2>3. CASE "SYSTICK" \in Tested[Now.name]
    <3>1. /\ JudgedWith(Now.name) = {"SYSTICK", "RCC"} /\ Now.undo = Len(StepsOf(case)) + 1
          /\ "EN" \in Expected[case][Len(StepsOf(case)) + 1][SysTick]
      BY <2>1, <2>3, TimesAreRight DEF TimesAreRight, Now
    <3>2. at = Len(StepsOf(case)) + 1 /\ at <= Now.undo
      BY <2>1, <3>1, Tables DEF CaseDone, StepsOf, Now, CaseIndex
    <3>3. Sound /\ UnderTest(SysTick)
      BY <1>2, <1>4, <2>3, <3>1 DEF Sound, UnderTest
    <3>4. Value(SysTick) = Expected[case][at][SysTick]
      BY <1>2, <2>1, <3>2, <3>3, FoundValue
    <3>5. QED
      BY <2>1, <3>1, <3>2, <3>4 DEF Value
  <2>4. QED
    BY <2>2, <2>3
<1>6. CASE AtStep /\ StepOf(Step)
  <2>1. case' = case
    BY <1>1, <1>6, StepMoves
  <2>2. "SYSTICK" \notin Tested[Now.name] /\ "EN" \in Value(SysTick)
    BY <1>1, <1>4, <2>1, SoundSame DEF SysTickInv
  <2>3. ~Touches(Step, SysTick)
    BY <1>1, <1>2, <1>6, <2>2, StepIsRight DEF UnderTest
  <2>4. Value(SysTick)' = Value(SysTick)
    BY <1>2, <1>6, <2>3, TouchedCause
  <2>5. QED
    BY <2>2, <2>4
<1>7. CASE Tick \/ DmaMoves \/ UNCHANGED vars
  <2>1. case' = case
    BY <1>7 DEF Tick, DmaMoves, vars, cpu
  <2>2. "EN" \in Value(SysTick)
    BY <1>1, <1>4, <2>1, SoundSame DEF SysTickInv
  <2>3. Value(SysTick)' = Value(SysTick)
    BY <1>2, <1>7, TickRegisters DEF DmaMoves, vars, board, Value
  <2>4. QED
    BY <2>2, <2>3
<1>8. QED
  BY <1>5, <1>6, <1>7 DEF Next, Cpu

-----------------------------------------------------------------------------
(* Time, when SysTick is sound.                                            *)

\* SysTick counts by one where a case waits for a timer, and in the measured delay.
LEMMA SoundRate ==
    ASSUME TypeInv, FoundInv, SysTickInv, Sound, ~AllDone, at <= Now.undo,
           \/ \E t \in Timers : t \in Tested[Now.name]
           \/ "SYSTICK" \in Tested[Now.name] /\ "EN" \in Expected[case][at][SysTick]
    PROVE  Rate = 1
<1>1. case \in CaseIndex /\ fault \in BoardFaults
  BY Tables DEF TypeInv, PlaceInv, BoardInv, AllDone, CaseIndex
<1>2. SysTick \in Registers /\ SysTick = <<"SYSTICK", "CTLR">>
  BY PeriodRegisters DEF SysTick, Timers
<1>3. {"SYSTICK", "RCC"} \subseteq JudgedWith(Now.name)
  BY <1>1, TimesAreRight DEF TimesAreRight, Now
<1>4. FaultyBlock \notin {"SYSTICK", "RCC"}
  BY <1>3 DEF Sound
<1>5. "EN" \in Value(SysTick)
  <2>1. CASE "SYSTICK" \notin Tested[Now.name]
    BY <1>4, <2>1 DEF SysTickInv
  <2>2. CASE "SYSTICK" \in Tested[Now.name]
    <3>1. \A t \in Timers : t \notin Tested[Now.name]
      <4>1. JudgedWith(Now.name) = {"SYSTICK", "RCC"}
        BY <1>1, <2>2, TimesAreRight DEF TimesAreRight, Now
      <4>2. "SYSTICK" \notin Timers /\ "RCC" \notin Timers
        BY DEF Timers
      <4>3. QED
        BY <4>1, <4>2 DEF JudgedWith
    <3>2. UnderTest(SysTick) /\ SysTick[2] # "INTFR"
      BY <1>2, <2>2 DEF UnderTest
    <3>3. Value(SysTick) = Expected[case][at][SysTick]
      BY <1>2, <3>2, FoundValue
    <3>4. QED
      BY <3>1, <3>3
  <2>3. QED
    BY <2>1, <2>2
<1>6. fault.kind \notin {"stopped", "double"}
  <2>1. SUFFICES ASSUME fault.kind \in {"stopped", "double"} PROVE FaultyBlock = "SYSTICK"
    BY <1>4
  <2>2. fault # NoFault
    BY <2>1, FaultFields
  <2>3. \A k \in DmaFaults : \A c : fault # ChannelFault(k, c)
    <3>1. \A k \in DmaFaults : k \notin {"stopped", "double"}
      BY DEF DmaFaults
    <3>2. \A k, c : ChannelFault(k, c).kind = k
      BY Zenon, FaultFields
    <3>3. QED
      BY <2>1, <3>1, <3>2
  <2>4. \A x, l : fault # BitFault(x, l)
    <3>1. \A x, l : BitFault(x, l).kind = "bit"
      BY Zenon, FaultFields
    <3>2. QED
      BY <2>1, <3>1
  <2>5. \A k, q : RateFault(k, q).kind = k
    BY Zenon, FaultFields
  <2>6. \A k \in {"slow", "fast"} : \A q : fault # RateFault(k, q)
    BY <2>1, <2>5
  <2>7. PICK k \in {"stopped", "double"} : fault = RateFault(k, <<"SYSTICK", "CNT">>)
    BY <1>1, <2>2, <2>3, <2>4, <2>6, FaultCases
  <2>8. fault.channel = 0 /\ fault.reg = <<"SYSTICK", "CNT">>
    BY <2>7 DEF RateFault, NoFault
  <2>9. QED
    BY <2>8 DEF FaultyBlock
<1>7. QED
  BY <1>2, <1>5, <1>6 DEF Rate, SysTickCounts, Value

\* Two readings are apart what has passed between them.
LEMMA SinceElapsed ==
    ASSUME NEW from \in 0..Wrap - 1, NEW now \in 0..Wrap - 1, NEW d \in Nat, d < Wrap,
           Since(from, now, d)
    PROVE  Elapsed(now, from) = d
<1> DEFINE W == Wrap
<1>1. W \in Nat /\ W > 0
  BY Constants
<1>2. from + d \in {now, now + W}
  BY DEF Since
<1> HIDE DEF W
<1>3. now - from \in {d, d - W}
  BY <1>1, <1>2 DEF W
<1>4. d % W = d /\ (d - W) % W = d
  BY <1>1 DEF W
<1>5. QED
  BY <1>3, <1>4 DEF Elapsed, W

\* A tick is one more.
LEMMA SinceTick ==
    ASSUME NEW from \in 0..Wrap - 1, NEW now \in 0..Wrap - 1, NEW d \in Nat, d < Wrap,
           Since(from, now, d), NEW y, y = IF now + 1 < Wrap THEN now + 1 ELSE now + 1 - Wrap
    PROVE  Since(from, y, d + 1)
  BY Constants DEF Since

\* A wait starts now.
LEMMA SinceNow == ASSUME NEW now \in 0..Wrap - 1 PROVE Since(now, now, 0)
  BY Constants DEF Since

\* A fault of a timer is no other block's.
LEMMA TimerFault ==
    ASSUME fault \in BoardFaults, NEW t \in Timers, fault.reg = <<t, "PSC">>
    PROVE  FaultyBlock = t
<1>1. \A k \in DmaFaults : \A c : fault # ChannelFault(k, c)
  <2> SUFFICES ASSUME NEW k \in DmaFaults, NEW c, fault = ChannelFault(k, c) PROVE FALSE
    OBVIOUS
  <2>1. ChannelFault(k, c).reg = <<"", "">>
    BY Zenon, FaultFields
  <2>2. <<"", "">> = <<t, "PSC">>
    BY Zenon, <2>1
  <2>3. "" = "PSC"
    <3>1. <<"", "">>[2] = ""
      OBVIOUS
    <3>2. <<t, "PSC">>[2] = "PSC"
      OBVIOUS
    <3>3. QED
      BY Zenon, <2>2, <3>1, <3>2
  <2>4. QED
    BY Zenon, <2>3
<1>2. fault.channel = 0
  <2>1. fault = NoFault => fault.channel = 0
    BY FaultFields
  <2>2. \A x, l : fault = BitFault(x, l) => fault.channel = 0
    BY DEF BitFault, NoFault
  <2>3. \A k, q : fault = RateFault(k, q) => fault.channel = 0
    BY DEF RateFault, NoFault
  <2>4. QED
    BY Zenon, <1>1, <2>1, <2>2, <2>3, FaultCases
<1>3. QED
  BY <1>2 DEF FaultyBlock

\* A timer under test has the wanted period, once it is set up.
LEMMA SoundPeriod ==
    ASSUME TypeInv, FaultInv, Sound, ~AllDone, NEW t \in Timers, t \in Tested[Now.name],
           NEW k \in Nat, SetUpInv(k, t), at \in k + 5..k + 18
    PROVE  RealPeriod(t) = TIMER_PERIOD /\ SoundFlag(t) /\ SoundEnable(t)
<1>1. case \in CaseIndex /\ fault \in BoardFaults /\ at \in Nat
  BY Tables DEF TypeInv, PlaceInv, BoardInv, AllDone, CaseIndex, Now
<1>2. \A n : ~FaultOf(<<t, n>>)
  <2> SUFFICES ASSUME NEW n PROVE ~FaultOf(<<t, n>>)
    OBVIOUS
  <2>1. UnderTest(<<t, n>>)
    BY DEF UnderTest
  <2>2. QED
    BY <1>1, <2>1, SoundRegister
<1>3. FaultyBlock # t /\ FaultyBlock # "RCC"
  <2>1. Timers \cap Tested[Now.name] # {}
    OBVIOUS
  <2>2. "RCC" \in JudgedWith(Now.name)
    BY <1>1, <2>1, TimesAreRight DEF TimesAreRight, Now
  <2>3. QED
    BY <2>2 DEF Sound, JudgedWith
<1>4. ~FaultOf(<<"RCC", "freq">>)
  BY <1>1, <1>3, SoundFreq
<1>5. "4799" \in regs[t].PSC /\ "period" \in regs[t].ATRLR
  BY <1>1, <1>2 DEF SetUpInv, Value
<1>6. {"apb1", "apb2", "ahb"} \subseteq regs.RCC.freq
  <2>1. Value(<<"RCC", "freq">>) = All(<<"RCC", "freq">>)
    BY <1>4 DEF FaultInv
  <2>2. BitsOf.RCC.freq = {"sysclk", "ahb", "apb1", "apb2", "adc"}
    BY DEF BitsOf
  <2>3. QED
    BY <2>1, <2>2 DEF Value, All
<1>7. ReloadOf(t) = TIMER_PERIOD
  <2>1. ReloadOf(t) = (TIMER_PERIOD * 2) \div 2
    BY <1>6 DEF ReloadOf, timer_clock_hz
  <2>2. QED
    BY <2>1, Timing
<1>8. fault.reg # <<t, "PSC">>
  BY <1>1, <1>3, TimerFault
<1>9. RealPeriod(t) = TIMER_PERIOD
  BY <1>5, <1>7, <1>8 DEF RealPeriod
<1>10. QED
  BY <1>2, <1>9 DEF SoundFlag, SoundEnable

\* The room that the windows leave.
LEMMA Room ==
    /\ MsLow <= Millisecond /\ Millisecond + 3 * Lag <= MsHigh + 1
    /\ Millisecond + 3 * Lag <= Wrap /\ 2 * Lag <= TIMER_TOLERANCE + 1
    /\ MsLow \in Nat /\ Millisecond \in Nat /\ MsHigh \in Nat /\ Millisecond > 0
  BY RoomAssumption, TimingAssumption, Constants DEF RoomAssumption, TimingAssumption

\* A sound timer is found to have its period.
LEMMA SoundWindow ==
    ASSUME TypeInv, FaultInv, FoundInv, SysTickInv, Sound, ~AllDone, at <= Now.undo,
           NEW t \in Timers, t \in Tested[Now.name],
           NEW k \in Nat, SetUpInv(k, t), SecondInv(k, t), at = k + 18
    PROVE  Elapsed(time.end, time.start)
               \in TIMER_PERIOD - TIMER_TOLERANCE..TIMER_PERIOD + TIMER_TOLERANCE
<1>1. at \in k + 5..k + 18 /\ at \in k + 16..k + 18
  OBVIOUS
<1>2. RealPeriod(t) = TIMER_PERIOD /\ SoundFlag(t) /\ SoundEnable(t) /\ Rate = 1
  BY <1>1, SoundPeriod, SoundRate
<1>3. PICK e \in Nat : ReadAfter(time.end, e) /\ MeasuredIn(t, e, Lag)
  BY <1>1 DEF SecondInv
<1>4. e > TIMER_PERIOD - 2 * Lag /\ e < TIMER_PERIOD + 2 * Lag /\ e < TIMER_WAIT + 3 * Lag
  BY <1>2, <1>3, Timing DEF MeasuredIn
<1>5. time.start \in 0..Wrap - 1 /\ time.end \in 0..Wrap - 1
  BY DEF TypeInv, BoardInv
<1>6. e < Wrap
  BY <1>4, Timing
<1>7. Since(time.start, time.end, e)
  <2>1. time.start + e \in {time.end, time.end + Wrap, time.end + 2 * Wrap}
    BY <1>2, <1>3 DEF ReadAfter
  <2>2. QED
    BY <1>5, <1>6, <2>1, Timing DEF Since
<1>8. Elapsed(time.end, time.start) = e
  BY <1>5, <1>6, <1>7, SinceElapsed
<1>9. QED
  BY <1>4, <1>8, Room, Timing

-----------------------------------------------------------------------------
(* The waits for a sound timer.                                            *)

\* The first wait for a sound timer is not long.
LEMMA FirstWaitBound ==
    ASSUME TypeInv, FaultInv, Sound, ~AllDone, NEW t \in Timers, t \in Tested[Now.name],
           NEW k \in Nat, SetUpInv(k, t), at = k + 11, NEW d \in Nat, FirstWait(t, d)
    PROVE  /\ d < TIMER_WAIT /\ d < Wrap /\ RealPeriod(t) = TIMER_PERIOD /\ SoundFlag(t)
           /\ cnt[t] \in Nat /\ cnt[t] < TIMER_PERIOD /\ lag \in Nat /\ lag <= Lag
<1>1. at \in k + 5..k + 18 /\ at \in k + 9..k + 17
  OBVIOUS
<1>2. RealPeriod(t) = TIMER_PERIOD /\ SoundFlag(t)
  BY <1>1, SoundPeriod
<1>3. cnt[t] < TIMER_PERIOD
  BY <1>1, <1>2 DEF SetUpInv
<1>4. cnt[t] \in Nat /\ lag \in Nat /\ lag <= Lag
  BY Constants DEF TypeInv, BoardInv
<1>5. d < TIMER_PERIOD + Lag
  BY <1>3, <1>4, Timing DEF FirstWait
<1>6. QED
  BY <1>2, <1>3, <1>4, <1>5, Timing, Constants

\* The CPU waits for the first update.
LEMMA FirstWaitStep ==
    ASSUME TypeInv, LookInv, AtStep, StepOf(Step), verdict' = "pass",
           NEW t \in Timers, NEW k, PeriodTestAt(case, k, t), at' = k + 11, look' # "start",
           at = k + 11 /\ look # "start" => \E d \in Nat : FirstWait(t, d)
    PROVE  \E d \in Nat : FirstWait(t, d)'
<1>1. PlaceInv /\ k \in Nat /\ at \in Nat /\ tick \in 0..Wrap - 1 /\ lag \in Nat
  <2>1. PlaceInv /\ tick \in 0..Wrap - 1 /\ lag \in Nat
    BY Constants DEF TypeInv, BoardInv
  <2>2. QED
    BY <2>1, PeriodSteps
<1>2. at = k + 11
  <2>1. at' \in {at, at + 1}
    BY <1>1, StepGoes
  <2>2. SUFFICES ASSUME at = k + 10 PROVE FALSE
    BY <1>1, <2>1
  <2>3. Step.op = "write"
    BY <1>1, <2>2, PeriodSteps DEF WritesTo
  <2>4. look' = look /\ look = "start"
    BY <2>3, OpStep DEF LookInv, WriteStep
  <2>5. QED
    BY <2>4
<1>3. Step.op = "await" /\ Step.tim = t
  BY <1>1, <1>2, PeriodSteps
<1>4. StartWait(Step) \/ AwaitClock(Step) \/ AwaitFlag(Step)
  BY <1>3, OpStep
<1>5. CASE StartWait(Step)
  <2>1. time'.wait = tick /\ tick' = tick /\ lag' = lag /\ cnt' = cnt
    BY <1>5 DEF StartWait, board, TypeInv, BoardInv
  <2>2. Since(time'.wait, tick', 0)
    BY <1>1, <2>1, SinceNow
  <2>3. cnt'[t] \in Nat
    BY <2>1, Constants DEF TypeInv, BoardInv
  <2>4. FirstWait(t, 0)'
    BY <1>1, <2>1, <2>2, <2>3, Constants, Timing DEF FirstWait, Since
  <2>5. QED
    BY <2>4
<1>6. CASE AwaitClock(Step) \/ AwaitFlag(Step)
  <2>1. look # "start"
    BY <1>6 DEF AwaitClock, AwaitFlag
  <2>2. PICK d \in Nat : FirstWait(t, d)
    BY <1>2, <2>1
  <2>3. at' = at /\ UNCHANGED <<time, tick, cnt>> /\ regs' = regs
    BY <1>1, <1>2, <1>6 DEF AwaitClock, AwaitFlag, Judge, GoOn
  <2>4. lag' = lag \/ (lag' = 0 /\ ~Flag(t))
    BY <1>1, <1>2, <1>3, <1>6, <2>3 DEF AwaitClock, AwaitFlag, GoOn, Flag, Value
  <2>5. Flag(t)' <=> Flag(t)
    BY <2>3 DEF Flag, Value
  <2>6. FirstWait(t, d)'
    BY <2>2, <2>3, <2>4, <2>5 DEF FirstWait, Since
  <2>7. QED
    BY <2>6
<1>7. QED
  BY <1>4, <1>5, <1>6

\* Time passes in the first wait.
LEMMA FirstWaitTick ==
    ASSUME TypeInv, FaultInv, Sound, ~AllDone, Tick, Rate = 1, NEW t \in Timers,
           t \in Tested[Now.name], NEW k \in Nat, SetUpInv(k, t), at = k + 11,
           NEW d \in Nat, FirstWait(t, d)
    PROVE  FirstWait(t, d + 1)'
<1>1. /\ d < Wrap /\ RealPeriod(t) = TIMER_PERIOD /\ SoundFlag(t)
      /\ cnt[t] \in Nat /\ cnt[t] < TIMER_PERIOD /\ lag \in Nat
  BY FirstWaitBound
<1>2. /\ lag' = lag + 1 /\ time' = time
      /\ tick' = IF tick + Rate < Wrap THEN tick + Rate ELSE tick + Rate - Wrap
      /\ cnt'[t] = IF ~Counts(t) THEN cnt[t] ELSE IF Overflows(t) THEN 0 ELSE cnt[t] + 1
      /\ Overflows(t) => Flag(t)' \/ StuckAt(<<t, "INTFR">>, "UIF", 0)
      /\ ~Overflows(t) => Value(<<t, "INTFR">>)' = Value(<<t, "INTFR">>)
  BY PeriodTick
<1>3. Counts(t)
  <2>1. at \in k + 2..k + 18 /\ at \in k + 11..k + 16 /\ at \in k + 5..k + 18
    OBVIOUS
  <2>2. SoundEnable(t)
    BY <2>1, SoundPeriod
  <2>3. QED
    BY <2>1, <2>2 DEF SetUpInv, Counts
<1>4. Since(time'.wait, tick', d + 1)
  <2>1. time.wait \in 0..Wrap - 1 /\ tick \in 0..Wrap - 1
    BY DEF TypeInv, BoardInv
  <2>2. Since(time.wait, tick, d)
    BY DEF FirstWait
  <2>3. tick' = IF tick + 1 < Wrap THEN tick + 1 ELSE tick + 1 - Wrap
    BY <1>2
  <2>4. QED
    BY <1>1, <1>2, <2>1, <2>2, <2>3, SinceTick
<1>5. Overflows(t) => Flag(t)'
  BY <1>1, <1>2 DEF StuckAt, SoundFlag
<1>6. ~Overflows(t) => (Flag(t)' <=> Flag(t))
  BY <1>2 DEF Flag
<1>7. IF Flag(t)' THEN d + 1 < TIMER_PERIOD + lag' ELSE d + 1 <= cnt'[t]
  <2>1. IF Flag(t) THEN d < TIMER_PERIOD + lag ELSE d <= cnt[t]
    BY DEF FirstWait
  <2>2. CASE Overflows(t)
    BY <1>1, <1>2, <1>5, <2>1, <2>2, Timing
  <2>3. CASE ~Overflows(t)
    BY <1>1, <1>2, <1>3, <1>6, <2>1, <2>3, Timing
  <2>4. QED
    BY <2>2, <2>3
<1>8. QED
  BY <1>4, <1>7 DEF FirstWait, Since

\* No wait for a sound timer times out.
LEMMA SoundWait ==
    ASSUME TypeInv, FaultInv, FoundInv, SysTickInv, Sound, ~AllDone, at <= Now.undo,
           NEW t \in Timers, t \in Tested[Now.name], NEW k \in Nat, SetUpInv(k, t),
           look = "clock",
           \/ at = k + 11 /\ \E d \in Nat : FirstWait(t, d)
           \/ at = k + 14 /\ SecondInv(k, t)
    PROVE  Elapsed(tick, time.wait) < TIMER_WAIT
<1>1. /\ time.wait \in 0..Wrap - 1 /\ tick \in 0..Wrap - 1 /\ lag \in Nat /\ lag <= Lag
      /\ cnt[t] \in Nat /\ BoardInv
  BY Constants DEF TypeInv, BoardInv
<1>2. Rate = 1
  BY SoundRate
<1>3. CASE at = k + 11
  <2>1. PICK d \in Nat : FirstWait(t, d)
    BY <1>3
  <2>2. d < TIMER_WAIT /\ d < Wrap
    BY <1>3, <2>1, FirstWaitBound
  <2>3. Elapsed(tick, time.wait) = d
    BY <1>1, <2>1, <2>2, SinceElapsed DEF FirstWait
  <2>4. QED
    BY <2>2, <2>3
<1>4. CASE at = k + 14
  <2>1. at \in k + 5..k + 18 /\ at \in k + 9..k + 17
    BY <1>4
  <2>2. RealPeriod(t) = TIMER_PERIOD /\ SoundEnable(t) /\ cnt[t] < TIMER_PERIOD
    BY <2>1, SoundPeriod DEF SetUpInv
  <2>3. PICK e \in Nat : \E d \in Nat : WaitInv(t, e, d)
    BY <1>4 DEF SecondInv
  <2>4. PICK d \in Nat : WaitInv(t, e, d)
    BY <2>3
  <2>5. /\ ReadAfter(tick, e) /\ ReadAfter(time.wait, e - d) /\ d <= e
        /\ IF Flag(t) THEN e < TIMER_PERIOD + lag ELSE e <= cnt[t]
    BY <2>2, <2>4 DEF WaitInv
  <2>6. d < TIMER_WAIT
    BY <1>1, <2>2, <2>5, Timing, Constants
  <2>7. Rate * d = d
    BY <1>2, RateTimes
  <2>8. Elapsed(tick, time.wait) = Rate * d
    BY <1>1, <2>5, <2>6, <2>7, Timing, WaitTime
  <2>9. QED
    BY <2>6, <2>7, <2>8
<1>5. QED
  BY <1>3, <1>4

-----------------------------------------------------------------------------
(* The delay that test_systick() measures.                                 *)

\* The steps of the measurement, when the table is at them.
LEMMA DelaySteps ==
    ASSUME PlaceInv, AtStep, NEW k, DelayTestAt(case, k)
    PROVE  /\ k \in Nat /\ at \in Nat
           /\ at = k + 1 => Step.op = "mark" /\ Step.name = "start"
           /\ at = k + 2 => Step.op = "delay" /\ Step.ticks = Millisecond
           /\ at = k + 3 => Step.op = "mark" /\ Step.name = "end"
           /\ at = k + 4 => Step.op = "window" /\ Step.low = MsLow /\ Step.high = MsHigh
                            /\ ~Step.us
           /\ at \in k + 1..k + 4 => "EN" \in Expected[case][at][SysTick] /\ at <= Now.undo
<1>1. /\ case \in CaseIndex /\ at \in StepIndex(case) /\ StepsOf(case)[at] = Step
      /\ StepsOf(case) = Now.steps /\ Len(StepsOf(case)) \in Nat
  BY StepOfCase
<1>2. k \in Nat /\ at \in Nat /\ k + 4 <= Len(StepsOf(case))
  BY <1>1 DEF DelayTestAt, StepIndex
<1>3. at \in k + 1..k + 4 => "EN" \in Expected[case][at][SysTick]
  BY DEF DelayTestAt
<1>4. at \in k + 1..k + 4 => at <= Now.undo
  <2>1. StepsOf(case)[k + 4].op = "window" /\ k + 4 \in StepIndex(case)
    BY <1>1, <1>2 DEF DelayTestAt, StepIndex
  <2>2. k + 4 \notin Now.undo..Len(StepsOf(case))
    BY <1>1, <2>1, SavesAreUndone DEF SavesAreUndone, Now
  <2>3. Now.undo \in Nat
    BY StepIsOfTable
  <2>4. QED
    BY <1>2, <2>2, <2>3
<1>5. QED
  BY <1>1, <1>2, <1>3, <1>4 DEF DelayTestAt

\* A case that measures time, and is sound, knows the frequency.
LEMMA SoundTimed ==
    ASSUME TypeInv, Sound, ~AllDone,
           "SYSTICK" \in Tested[Now.name] \/ Timers \cap Tested[Now.name] # {}
    PROVE  ~FaultOf(<<"RCC", "freq">>)
<1>1. case \in CaseIndex /\ fault \in BoardFaults
  BY Tables DEF TypeInv, PlaceInv, BoardInv, AllDone, CaseIndex
<1>2. "RCC" \in JudgedWith(Now.name)
  BY <1>1, TimesAreRight DEF TimesAreRight, Now
<1>3. QED
  BY <1>1, <1>2, SoundFreq DEF Sound

\* The CPU marks the start, waits, and marks the end.
LEMMA DelayStep ==
    ASSUME TypeInv, FaultInv, LookInv, FoundInv, SysTickInv, Sound, AtStep, StepOf(Step),
           verdict' = "pass", "SYSTICK" \in Tested[Now.name],
           NEW k, DelayTestAt(case, k), DelayTest(k)
    PROVE  DelayTest(k)'
<1>1. PlaceInv /\ AtStep /\ ~AllDone
  BY DEF TypeInv, AtStep
<1>2. /\ k \in Nat /\ at \in Nat
      /\ tick \in 0..Wrap - 1 /\ lag \in Nat /\ lag <= Lag /\ Lag \in Nat /\ Lag > 0
      /\ time \in [start : 0..Wrap - 1, end : 0..Wrap - 1, wait : 0..Wrap - 1]
      /\ Millisecond \in Nat /\ Millisecond > 0 /\ Millisecond + 3 * Lag <= Wrap
  BY <1>1, DelaySteps, Constants, Room DEF TypeInv, BoardInv
<1>3. at' \in {at, at + 1} /\ \A n : Ticks(n) = n
  BY <1>1, StepGoes, SoundTimed, SoundTicks
<1>4. ASSUME at' = k + 2 PROVE \E e, d \in Nat : DelayWait(e, d)'
  <2>1. CASE at = k + 1
    <3>1. Step.op = "mark" /\ Step.name = "start"
      BY <1>1, <2>1, DelaySteps
    <3>2. MarkStep(Step) /\ look = "start"
      BY <3>1, OpStep DEF LookInv
    <3>3. time'.start = tick /\ tick' = tick /\ lag' = 0 /\ look' = "start"
      BY <1>2, <3>1, <3>2 DEF MarkStep
    <3>4. Since(tick, tick, 0)
      BY <1>2, SinceNow
    <3>5. DelayWait(0, 0)'
      BY <1>2, <3>3, <3>4 DEF DelayWait, Since
    <3>6. QED
      BY <3>5
  <2>2. CASE at = k + 2
    <3>1. Step.op = "delay" /\ at' = at
      BY <1>1, <1>2, <1>4, <2>2, DelaySteps
    <3>2. PICK e \in Nat : \E d \in Nat : DelayWait(e, d)
      BY <2>2 DEF DelayTest
    <3>3. PICK d \in Nat : DelayWait(e, d)
      BY <3>2
    <3>4. CASE StartWait(Step)
      <4>1. /\ time'.wait = tick /\ time'.start = time.start /\ look' = "clock"
            /\ UNCHANGED <<tick, lag>> /\ look = "start"
        BY <1>2, <3>4 DEF StartWait, board
      <4>2. Since(time.start, tick, e) /\ e <= lag
        BY <3>3, <4>1 DEF DelayWait
      <4>3. Since(tick, tick, 0)
        BY <1>2, SinceNow
      <4>4. DelayWait(e, 0)'
        BY <1>2, <4>1, <4>2, <4>3 DEF DelayWait, Since
      <4>5. QED
        BY <4>4
    <3>5. CASE DelayTurn(Step)
      <4>1. /\ look' = look /\ look = "clock" /\ lag' = 0 /\ UNCHANGED <<time, tick>>
            /\ ~(Elapsed(tick, time.wait) >= Step.ticks)
        BY <1>2, <1>3, <3>1, <3>5 DEF DelayTurn, GoOn
      <4>2. /\ Since(time.wait, tick, d) /\ d < Millisecond + lag /\ d <= e /\ e <= Lag + d
            /\ Since(time.start, tick, e)
        BY <3>3, <4>1 DEF DelayWait
      <4>3. Elapsed(tick, time.wait) = d
        <5>1. d < Wrap /\ time.wait \in 0..Wrap - 1
          BY <1>2, <4>2, Constants
        <5>2. QED
          BY <1>2, <4>2, <5>1, SinceElapsed
      <4>4. d < Millisecond
        BY <1>1, <1>2, <2>2, <4>1, <4>3, DelaySteps
      <4>5. DelayWait(e, d)'
        BY <1>2, <4>1, <4>2, <4>4 DEF DelayWait, Since
      <4>6. QED
        BY <4>5
    <3>6. QED
      BY <3>1, <3>4, <3>5, OpStep
  <2>3. QED
    BY <1>2, <1>3, <1>4, <2>1, <2>2
<1>5. ASSUME at' = k + 3 PROVE \E e \in Nat : DelayOver(tick, e, lag)'
  <2>1. CASE at = k + 2
    <3>1. Step.op = "delay" /\ Step.ticks = Millisecond
      BY <1>1, <2>1, DelaySteps
    <3>2. DelayTurn(Step)
      BY <1>2, <1>5, <2>1, <3>1, OpStep DEF StartWait
    <3>3. /\ look = "clock" /\ lag' = 0 /\ UNCHANGED <<time, tick>>
          /\ Elapsed(tick, time.wait) >= Millisecond
      BY <1>2, <1>3, <1>5, <2>1, <3>1, <3>2 DEF DelayTurn
    <3>4. PICK e \in Nat : \E d \in Nat : DelayWait(e, d)
      BY <2>1 DEF DelayTest
    <3>5. PICK d \in Nat : DelayWait(e, d)
      BY <3>4
    <3>6. /\ Since(time.wait, tick, d) /\ d < Millisecond + lag /\ d <= e /\ e <= Lag + d
          /\ Since(time.start, tick, e)
      BY <3>3, <3>5 DEF DelayWait
    <3>7. Elapsed(tick, time.wait) = d
      <4>1. d < Wrap /\ time.wait \in 0..Wrap - 1
        BY <1>2, <3>6, Constants
      <4>2. QED
        BY <1>2, <3>6, <4>1, SinceElapsed
    <3>8. DelayOver(tick, e, lag)'
      BY <1>2, <3>3, <3>6, <3>7 DEF DelayOver, Since
    <3>9. QED
      BY <3>8
  <2>2. CASE at = k + 3
    <3>1. Step.op = "mark"
      BY <1>1, <2>2, DelaySteps
    <3>2. at' = at + 1
      BY <3>1, OpStep DEF MarkStep, GoOn
    <3>3. QED
      BY <1>2, <1>5, <2>2, <3>2
  <2>3. QED
    BY <1>2, <1>3, <1>5, <2>1, <2>2
<1>6. ASSUME at' = k + 4 PROVE \E e \in Nat : DelayOver(time.end, e, Lag)'
  <2>1. CASE at = k + 3
    <3>1. Step.op = "mark" /\ Step.name = "end"
      BY <1>1, <2>1, DelaySteps
    <3>2. time'.end = tick /\ time'.start = time.start
      BY <1>2, <3>1, OpStep DEF MarkStep
    <3>3. PICK e \in Nat : DelayOver(tick, e, lag)
      BY <2>1 DEF DelayTest
    <3>4. DelayOver(time.end, e, Lag)'
      BY <1>2, <3>2, <3>3 DEF DelayOver, Since
    <3>5. QED
      BY <3>4
  <2>2. CASE at = k + 4
    <3>1. Step.op = "window"
      BY <1>1, <2>2, DelaySteps
    <3>2. WindowStep(Step)
      BY <3>1, OpStep
    <3>3. at' = at + 1
      BY <3>2 DEF WindowStep, Judge
    <3>4. QED
      BY <1>2, <1>6, <2>2, <3>3
  <2>3. QED
    BY <1>2, <1>3, <1>6, <2>1, <2>2
<1>7. QED
  BY <1>4, <1>5, <1>6 DEF DelayTest

\* Time passes in the measurement.
LEMMA DelayTick ==
    ASSUME TypeInv, FoundInv, SysTickInv, Sound, Tick, "SYSTICK" \in Tested[Now.name],
           NEW k, DelayTestAt(case, k), DelayTest(k)
    PROVE  DelayTest(k)'
<1>1. AtStep /\ ~AllDone /\ PlaceInv
  BY DEF Tick, TakesTime, AtStep, TypeInv
<1>2. /\ k \in Nat /\ at \in Nat
      /\ tick \in 0..Wrap - 1 /\ lag \in Nat /\ lag < Lag /\ Lag \in Nat
      /\ time.start \in 0..Wrap - 1 /\ time.wait \in 0..Wrap - 1
      /\ Millisecond \in Nat /\ Millisecond > 0 /\ Millisecond + 3 * Lag <= Wrap
  <2>1. BoardInv /\ k \in Nat /\ at \in Nat
    BY <1>1, DelaySteps DEF TypeInv
  <2>2. lag < Lag
    BY DEF Tick
  <2>3. QED
    BY <2>1, <2>2, Constants, Room DEF BoardInv
<1>3. PICK t \in Timers : TRUE
  BY DEF Timers
<1>4. /\ UNCHANGED <<at, time, look>> /\ lag' = lag + 1
      /\ tick' = IF tick + Rate < Wrap THEN tick + Rate ELSE tick + Rate - Wrap
  BY PeriodTick
<1>5. ASSUME at \in k + 1..k + 4
      PROVE  tick' = IF tick + 1 < Wrap THEN tick + 1 ELSE tick + 1 - Wrap
  <2>1. "EN" \in Expected[case][at][SysTick] /\ at <= Now.undo
    BY <1>1, <1>5, DelaySteps
  <2>2. Rate = 1
    BY <1>1, <2>1, SoundRate
  <2>3. QED
    BY <1>4, <2>2
<1>6. ASSUME at = k + 2 PROVE \E e, d \in Nat : DelayWait(e, d)'
  <2>1. PICK e \in Nat : \E d \in Nat : DelayWait(e, d)
    BY <1>6 DEF DelayTest
  <2>2. PICK d \in Nat : DelayWait(e, d)
    BY <2>1
  <2>3. at \in k + 1..k + 4
    BY <1>2, <1>6
  <2>4. Since(time.start, tick, e) /\ d <= e /\ e <= Lag + d /\ e < Wrap
    BY <1>2, <2>2, Constants DEF DelayWait
  <2>5. Since(time.start, tick', e + 1)
    BY <1>2, <1>5, <2>3, <2>4, SinceTick
  <2>6. CASE look = "start"
    <3>1. DelayWait(e + 1, 0)'
      BY <1>2, <1>4, <2>2, <2>5, <2>6 DEF DelayWait, Since
    <3>2. QED
      BY <3>1
  <2>7. CASE look # "start"
    <3>1. Since(time.wait, tick, d) /\ d < Millisecond + lag /\ d < Wrap
      BY <1>2, <2>2, <2>4, <2>7, Constants DEF DelayWait
    <3>2. Since(time.wait, tick', d + 1)
      BY <1>2, <1>5, <2>3, <3>1, SinceTick
    <3>3. DelayWait(e + 1, d + 1)'
      BY <1>2, <1>4, <2>4, <2>5, <2>7, <3>1, <3>2 DEF DelayWait, Since
    <3>4. QED
      BY <3>3
  <2>8. QED
    BY <2>6, <2>7
<1>7. ASSUME at = k + 3 PROVE \E e \in Nat : DelayOver(tick, e, lag)'
  <2>1. PICK e \in Nat : DelayOver(tick, e, lag)
    BY <1>7 DEF DelayTest
  <2>2. at \in k + 1..k + 4
    BY <1>2, <1>7
  <2>3. Since(time.start, tick, e) /\ e < Wrap
    BY <1>2, <2>1, Constants DEF DelayOver
  <2>4. Since(time.start, tick', e + 1)
    BY <1>2, <1>5, <2>2, <2>3, SinceTick
  <2>5. DelayOver(tick, e + 1, lag)'
    BY <1>2, <1>4, <2>1, <2>4 DEF DelayOver, Since
  <2>6. QED
    BY <2>5
<1>8. at # k + 4
  <2>1. at = k + 4 => Step.op = "window"
    BY <1>1, DelaySteps
  <2>2. QED
    BY <2>1 DEF Tick, TakesTime
<1>9. QED
  BY <1>4, <1>6, <1>7, <1>8 DEF DelayTest

\* What is measured is in the window.
LEMMA SoundDelay ==
    ASSUME TypeInv, NEW k, DelayTest(k), at = k + 4
    PROVE  Elapsed(time.end, time.start) \in MsLow..MsHigh
<1>1. PICK e \in Nat : DelayOver(time.end, e, Lag)
  BY DEF DelayTest
<1>2. /\ Since(time.start, time.end, e) /\ Millisecond <= e /\ e < Millisecond + 2 * Lag + Lag
      /\ time.start \in 0..Wrap - 1 /\ time.end \in 0..Wrap - 1
  BY <1>1 DEF DelayOver, TypeInv, BoardInv
<1>3. e < Wrap
  BY <1>2, Room, Constants
<1>4. Elapsed(time.end, time.start) = e
  BY <1>2, <1>3, SinceElapsed
<1>5. QED
  BY <1>2, <1>4, Room, Constants

-----------------------------------------------------------------------------
(* A sound channel.                                                        *)

\* A channel is broken only if it has the number of the fault.
LEMMA SoundChannel ==
    ASSUME fault.channel = 0, run \in 1..Len(Runs)
    PROVE  Kind = "none"
<1>1. Job.channel \in Nat \ {0}
  BY Transfers DEF Job
<1>2. QED
  BY <1>1 DEF Kind

\* It moves an element as it is, and counts it.
LEMMA SoundMove ==
    ASSUME DmaTypeOK, TransferInv, MovesInv, fault.channel = 0, pc = "poll", Transfer
    PROVE  MovesInv'
<1>1. run \in 1..Len(Runs) /\ Len(Runs) \in Nat
  BY Transfers DEF DmaTypeOK
<1>2. Kind = "none"
  BY <1>1, SoundChannel
<1>3. /\ Job.count \in Nat /\ Job.count >= 2 /\ Elements \in Nat /\ Job.count <= Elements
  BY <1>1, JobFacts
<1>4. /\ cntr \in Nat /\ cntr > 0 /\ cntr <= Job.count /\ timeout \in Nat
      /\ timeout <= Job.count /\ ~tcif /\ timeout <= Moved + 1
      /\ cntr <= Job.count \div 2 => htif
      /\ \A i \in 0..Moved - 1 : dst[i] = src[i]
  BY <1>3, Transfers DEF MovesInv, DmaTypeOK, Transfer
<1>5. Moved \in Index /\ Moved = Job.count - cntr
  BY <1>3, <1>4 DEF Moved, Index
<1>6. /\ src = [i \in Index |-> Pattern(i, Job.round)] /\ DOMAIN dst = Index
  BY DEF TransferInv
<1>7. [src[Moved] EXCEPT !.whole = TRUE] = src[Moved]
  <2>1. src[Moved] = Pattern(Moved, Job.round)
    BY <1>5, <1>6
  <2>2. src[Moved] = [x \in {"from", "round", "whole"} |-> src[Moved][x]]
    BY <2>1, SMT DEF Pattern
  <2>3. src[Moved].whole = TRUE
    BY <2>1 DEF Pattern
  <2>4. QED
    BY <2>2, <2>3
<1>8. dst' = [dst EXCEPT ![Moved] = src[Moved]]
  <2>1. dst' = [dst EXCEPT ![Moved] = [src[Moved] EXCEPT !.whole = TRUE]]
    BY <1>2 DEF Transfer
  <2>2. QED
    BY <2>1, <1>7
<1>9. /\ cntr' = cntr - 1 /\ (tcif' <=> cntr' = 0)
      /\ (htif' <=> htif \/ cntr' = Job.count \div 2)
      /\ UNCHANGED <<pc, run, timeout, src, fault>>
  BY <1>2, <1>4 DEF Transfer
<1>10. Job' = Job /\ Moved' = Moved + 1
  BY <1>3, <1>4, <1>9 DEF Job, Moved
<1>11. \A i \in 0..Moved' - 1 : dst'[i] = src'[i]
  <2>1. TAKE i \in 0..Moved' - 1
  <2>2. i \in Index /\ (i = Moved \/ i \in 0..Moved - 1)
    BY <1>3, <1>4, <1>5, <1>10 DEF Index
  <2>3. dst'[i] = IF i = Moved THEN src[Moved] ELSE dst[i]
    BY <1>6, <1>8, <2>2
  <2>4. QED
    BY <1>4, <1>9, <2>2, <2>3
<1>12. cntr' <= Job'.count \div 2 => htif'
  BY <1>3, <1>4, <1>9, <1>10
<1>13. /\ cntr' <= Job'.count /\ timeout' <= Job'.count
       /\ ~tcif' => timeout' <= Moved' + 1
  BY <1>3, <1>4, <1>5, <1>9, <1>10
<1>14. QED
  BY <1>9, <1>11, <1>12, <1>13 DEF MovesInv

\* It is seen to be done in time.
LEMMA SoundPoll ==
    ASSUME DmaTypeOK, MovesInv, fault.channel = 0, Poll
    PROVE  MovesInv'
<1>1. run \in 1..Len(Runs) /\ Len(Runs) \in Nat /\ pc = "poll"
  BY Transfers DEF DmaTypeOK, Poll
<1>2. Kind = "none"
  BY <1>1, SoundChannel
<1>3. /\ Job.count \in Nat /\ Job.count >= 2 /\ Job.count < DMA_TIMEOUT_LOOPS
      /\ DMA_TIMEOUT_LOOPS \in Nat
  BY <1>1, JobFacts, Transfers DEF Job
<1>4. /\ cntr \in Nat /\ cntr <= Job.count /\ timeout \in Nat
      /\ timeout <= Job.count /\ (tcif <=> cntr = 0)
      /\ ~tcif => timeout <= Moved + 1
      /\ cntr <= Job.count \div 2 => htif
      /\ \A i \in 0..Moved - 1 : dst[i] = src[i]
  BY <1>1, <1>3, Transfers DEF MovesInv, DmaTypeOK
<1>5. UNCHANGED <<run, src, dst, dma, fault>> /\ Job' = Job /\ Moved' = Moved
  BY DEF Poll, Job, Moved, dma
<1>6. CASE tcif
  <2>1. pc' = "stop" /\ timeout' = timeout
    BY <1>6 DEF Poll
  <2>2. cntr = 0 /\ Moved = Job.count /\ htif /\ timeout # DMA_TIMEOUT_LOOPS
    BY <1>3, <1>4, <1>6 DEF Moved
  <2>3. Good
    BY <1>4, <1>6, <2>2 DEF Good, dma_verify
  <2>4. Good'
    BY <1>5, <2>1, <2>3 DEF Good, dma_verify, dma
  <2>5. QED
    BY <2>1, <2>4 DEF MovesInv
<1>7. CASE ~tcif
  <2>1. pc' = "poll" /\ timeout' = timeout + 1 /\ Moved >= timeout
    BY <1>1, <1>2, <1>7 DEF Poll, KeepsUp
  <2>2. Moved < Job.count /\ Moved \in Int
    BY <1>3, <1>4, <1>7 DEF Moved
  <2>3. timeout' <= Job.count /\ timeout' <= Moved + 1
    BY <1>3, <1>4, <2>1, <2>2
  <2>4. QED
    BY <1>4, <1>5, <2>1, <2>3 DEF MovesInv, dma
<1>8. QED
  BY <1>6, <1>7

\* No transfer by it fails.
LEMMA MovesStep ==
    ASSUME DmaTypeOK, TransferInv, MovesInv, fault.channel = 0,
           DmaCall \/ DmaCpu \/ DmaReturn \/ (pc = "poll" /\ Transfer)
    PROVE  MovesInv'
<1>1. CASE DmaCall
  BY <1>1 DEF DmaCall, MovesInv
<1>2. CASE dma_fill
  BY <1>2 DEF dma_fill, MovesInv
<1>3. CASE Arm
  <2>1. run \in 1..Len(Runs)
    BY <1>3, Transfers DEF DmaTypeOK, Arm
  <2>2. Job.count \in Nat /\ Job.count >= 2
    BY <2>1, JobFacts
  <2>3. /\ pc' = "poll" /\ cntr' = Job.count /\ ~tcif' /\ ~htif' /\ timeout' = 0
        /\ Job' = Job
    BY <1>3 DEF Arm, ClearFlags, Job
  <2>4. Moved' = 0
    BY <2>2, <2>3 DEF Moved
  <2>5. QED
    BY <2>2, <2>3, <2>4 DEF MovesInv
<1>4. CASE Poll
  BY <1>4, SoundPoll
<1>5. CASE TimeOut
  <2>1. pc = "poll" /\ timeout = DMA_TIMEOUT_LOOPS /\ run \in 1..Len(Runs)
    BY <1>5, Transfers DEF TimeOut, GiveUp, DmaTypeOK
  <2>2. Job.count < DMA_TIMEOUT_LOOPS /\ Job.count \in Nat /\ DMA_TIMEOUT_LOOPS \in Nat
    BY <2>1, JobFacts, Transfers DEF Job
  <2>3. QED
    BY <2>1, <2>2 DEF MovesInv
<1>6. CASE Stop
  <2>1. Good /\ pc' = "check"
    BY <1>6 DEF Stop, MovesInv
  <2>2. Good'
    BY <1>6, <2>1 DEF Stop, Good, dma_verify, Job
  <2>3. QED
    BY <2>1, <2>2 DEF MovesInv
<1>7. CASE Check
  <2>1. Good
    BY <1>7 DEF Check, MovesInv
  <2>2. pc' \in {"fill", "pass"}
    BY <1>7, <2>1 DEF Check, NextRun
  <2>3. QED
    BY <2>2 DEF MovesInv
<1>8. CASE DmaReturn
  BY <1>8 DEF DmaReturn, MovesInv
<1>9. CASE pc = "poll" /\ Transfer
  BY <1>9, SoundMove
<1>10. QED
  BY <1>1, <1>2, <1>3, <1>4, <1>5, <1>6, <1>7, <1>8, <1>9 DEF DmaCpu

\* Nor does anything else.
LEMMA MovesNext ==
    ASSUME TypeInv, TransferInv, MovesInv, [Next]_vars
    PROVE  MovesInv'
<1>1. fault' = fault
  BY FaultStays
<1>2. SUFFICES ASSUME fault.channel = 0 PROVE MovesInv'
  BY <1>1 DEF MovesInv
<1>3. CASE UNCHANGED dmaVars
  BY <1>3 DEF dmaVars, dma, MovesInv, Good, dma_verify, Job, Moved
<1>4. CASE DmaCall \/ DmaCpu \/ DmaReturn \/ (pc = "poll" /\ Transfer)
  BY <1>2, <1>4, MovesStep DEF TypeInv
<1>5. QED
  BY <1>3, <1>4, DmaCause

-----------------------------------------------------------------------------
(* No check of a sound case fails.                                         *)

\* The step is step n of a timer_period_test(t) of the case.
PeriodStep(n, t) ==
    /\ t \in Timers /\ t \in Tested[Now.name]
    /\ \E k \in 0..Len(Now.steps) : at = k + n /\ PeriodTestAt(case, k, t)

\* Where the waits and the windows are.
LEMMA TimedStep ==
    ASSUME PlaceInv, AtStep
    PROVE  /\ Step.op = "await" => \E t : PeriodStep(11, t) \/ PeriodStep(14, t)
           /\ Step.op = "window" =>
                 \/ \E t : PeriodStep(18, t)
                 \/ /\ "SYSTICK" \in Tested[Now.name]
                    /\ \E k \in 0..Len(Now.steps) : at = k + 4 /\ DelayTestAt(case, k)
<1>1. /\ case \in CaseIndex /\ at \in StepIndex(case) /\ StepsOf(case)[at] = Step
      /\ StepsOf(case) = Now.steps
  BY StepOfCase
<1>2. DEFINE InTest(n) == \E t \in Timers \cap Tested[Now.name] : \E k \in 0..Len(Now.steps) :
                             at = k + n /\ PeriodTestAt(case, k, t)
<1>3. \A n : InTest(n) => \E t : PeriodStep(n, t)
  BY DEF PeriodStep
<1>4. /\ Step.op = "await" => InTest(11) \/ InTest(14)
      /\ Step.op = "window" =>
            \/ InTest(18)
            \/ /\ "SYSTICK" \in Tested[Now.name]
               /\ \E k \in 0..Len(Now.steps) : at = k + 4 /\ DelayTestAt(case, k)
  BY <1>1, TimesAreRight DEF TimesAreRight, Now
<1>5. HIDE DEF InTest
<1>6. QED
  BY <1>3, <1>4

\* Without a fault in the case's blocks no DMA channel is broken, if it has transfers.
LEMMA SoundDma ==
    ASSUME fault \in BoardFaults, Sound, "DMA1" \in Tested[Now.name]
    PROVE  fault.channel = 0
<1>1. fault.channel \in Nat
  <2>1. \A c \in Channels : c \in Nat
    <3>1. TAKE c \in Channels
    <3>2. PICK r \in DOMAIN Runs : c = Runs[r].channel
      BY DEF Channels
    <3>3. QED
      BY <3>2, Transfers, DmaTestAssumption DEF DmaTestAssumption
  <2>2. fault.channel = 0 \/ \E c \in Channels : fault.channel = c
    <3>1. ASSUME NEW k, NEW c \in Channels, fault = ChannelFault(k, c)
          PROVE  \E d \in Channels : fault.channel = d
      BY <3>1 DEF ChannelFault, NoFault
    <3>2. ASSUME NEW k, NEW q, fault = RateFault(k, q) PROVE fault.channel = 0
      BY <3>2 DEF RateFault, NoFault
    <3>3. ASSUME NEW x, NEW l, fault = BitFault(x, l) PROVE fault.channel = 0
      BY <3>3 DEF BitFault, NoFault
    <3>4. fault = NoFault => fault.channel = 0
      BY FaultFields
    <3>5. QED
      BY Zenon, <3>1, <3>2, <3>3, <3>4, FaultCases
  <2>3. QED
    BY <2>1, <2>2
<1>2. FaultyBlock # "DMA1"
  BY DEF Sound, JudgedWith
<1>3. QED
  BY <1>1, <1>2 DEF FaultyBlock

\* What is read back is what is expected.
LEMMA SoundRead ==
    ASSUME TypeInv, FaultInv, ClockInv, FoundInv, Sound, AtStep, verdict = "pass", at < Now.undo,
           Step.op = "read"
    PROVE  ReadBack(Step.reg) \cap Step.mask = Step.bits
<1>1. PlaceInv /\ ~AllDone /\ at <= Now.undo
  <2>1. PlaceInv /\ ~AllDone
    BY DEF TypeInv, AtStep
  <2>2. at \in Nat /\ Now.undo \in Nat
    BY <2>1, StepIsOfTable
  <2>3. QED
    BY <2>1, <2>2
<1>2. Step.reg \in Registers
  BY <1>1, StepIsOfTable DEF IsStep
<1>3. CASE ReadsFound
  <2>1. Value(Step.reg) = Expected[case][at][Step.reg]
    BY <1>1, <1>2, <1>3 DEF FoundInv, ReadsFound
  <2>2. Step.reg[1] \in DOMAIN BitsOf
    BY <1>2, RegisterNames
  <2>3. Step.reg[1] \in clocked
    BY <1>1, <1>3, <2>2 DEF ClockInv, ReadsFound
  <2>4. QED
    BY <1>3, <2>1, <2>3 DEF ReadBack, ReadsFound
<1>4. CASE ReadsFreq
  <2>1. fault \in BoardFaults
    BY DEF TypeInv, BoardInv
  <2>2. ~FaultOf(<<"RCC", "freq">>)
    BY <1>4, <2>1, SoundFreq DEF Sound, ReadsFreq
  <2>3. Value(Step.reg) = All(Step.reg)
    BY <1>4, <2>2 DEF FaultInv, ReadsFreq
  <2>4. Step.reg[1] \in clocked
    BY <1>4 DEF ReadsFreq, ClockInv, AlwaysClocked
  <2>5. QED
    BY <1>4, <2>3, <2>4 DEF ReadBack, ReadsFreq
<1>5. QED
  BY <1>1, <1>3, <1>4, StepIsRight

\* A bound of a window in ticks.
Bound(n) == IF Step.us THEN Ticks(n) ELSE n

\* What is measured is in the window.
LEMMA SoundMeasure ==
    ASSUME TypeInv, FaultInv, PeriodInv, FoundInv, SysTickInv, WaitsInv, Sound, AtStep,
           verdict = "pass", at <= Now.undo, Step.op = "window"
    PROVE  Elapsed(time.end, time.start) \in Bound(Step.low)..Bound(Step.high)
<1>1. PlaceInv /\ ~AllDone
  BY DEF TypeInv, AtStep
<1>2. CASE \E t : PeriodStep(18, t)
  <2>1. PICK t : PeriodStep(18, t)
    BY <1>2
  <2>2. PICK k \in 0..Len(Now.steps) : at = k + 18 /\ PeriodTestAt(case, k, t)
    BY <2>1 DEF PeriodStep
  <2>3. t \in Timers /\ t \in Tested[Now.name] /\ k \in Nat
    BY <2>1, <2>2 DEF PeriodStep
  <2>4. SetUpInv(k, t) /\ SecondInv(k, t)
    BY <1>1, <2>2, <2>3 DEF PeriodInv
  <2>5. Elapsed(time.end, time.start)
           \in TIMER_PERIOD - TIMER_TOLERANCE..TIMER_PERIOD + TIMER_TOLERANCE
    BY <1>1, <2>2, <2>3, <2>4, SoundWindow
  <2>6. Step.low = TIMER_PERIOD - TIMER_TOLERANCE /\ Step.high = TIMER_PERIOD + TIMER_TOLERANCE
    BY <1>1, <2>2, PeriodSteps
  <2>7. \A n : Bound(n) = n
    BY <1>1, <2>3, SoundTimed, SoundTicks DEF Bound
  <2>8. QED
    BY <2>5, <2>6, <2>7
<1>3. CASE /\ "SYSTICK" \in Tested[Now.name]
           /\ \E k \in 0..Len(Now.steps) : at = k + 4 /\ DelayTestAt(case, k)
  <2>1. PICK k \in 0..Len(Now.steps) : at = k + 4 /\ DelayTestAt(case, k)
    BY <1>3
  <2>2. DelayTest(k)
    BY <1>1, <1>3, <2>1 DEF WaitsInv
  <2>3. Elapsed(time.end, time.start) \in MsLow..MsHigh
    BY <2>1, <2>2, SoundDelay
  <2>4. Step.low = MsLow /\ Step.high = MsHigh /\ ~Step.us
    BY <1>1, <2>1, DelaySteps
  <2>5. QED
    BY <2>3, <2>4 DEF Bound
<1>4. QED
  BY <1>1, <1>2, <1>3, TimedStep

\* A wait does not time out.
LEMMA SoundAwait ==
    ASSUME TypeInv, FaultInv, PeriodInv, FoundInv, SysTickInv, WaitsInv, Sound, AtStep,
           verdict = "pass", at <= Now.undo, Step.op = "await", look = "clock"
    PROVE  Elapsed(tick, time.wait) < Ticks(TIMER_WAIT)
<1>1. PlaceInv /\ ~AllDone
  BY DEF TypeInv, AtStep
<1>2. PICK t : PeriodStep(11, t) \/ PeriodStep(14, t)
  BY <1>1, TimedStep
<1>3. PICK k \in 0..Len(Now.steps) : (at = k + 11 \/ at = k + 14) /\ PeriodTestAt(case, k, t)
  BY <1>2 DEF PeriodStep
<1>4. t \in Timers /\ t \in Tested[Now.name] /\ k \in Nat
  BY <1>2, <1>3 DEF PeriodStep
<1>5. SetUpInv(k, t) /\ SecondInv(k, t)
  BY <1>1, <1>3, <1>4 DEF PeriodInv
<1>6. at = k + 11 => \E d \in Nat : FirstWait(t, d)
  BY <1>1, <1>3, <1>4 DEF WaitsInv
<1>7. Ticks(TIMER_WAIT) = TIMER_WAIT
  BY <1>1, <1>4, SoundTimed, SoundTicks
<1>8. QED
  BY <1>1, <1>3, <1>4, <1>5, <1>6, <1>7, SoundWait

\* So no step fails.
LEMMA SoundStep ==
    ASSUME TypeInv, FaultInv, ClockInv, PeriodInv, FoundInv, SysTickInv, WaitsInv, MovesInv,
           Sound, AtStep, StepOf(Step), verdict = "pass"
    PROVE  verdict' = "pass"
<1>1. PlaceInv /\ fault \in BoardFaults /\ at \in Nat /\ Now.undo \in Nat
  <2>1. PlaceInv /\ fault \in BoardFaults
    BY DEF TypeInv, BoardInv
  <2>2. QED
    BY <2>1, StepIsOfTable
<1>2. Stays \/ GoOn \/ Fails
  BY <1>1, StepMoves
<1>3. CASE Fails
  <2>1. at < Now.undo /\ at <= Now.undo
    BY <1>1, <1>3 DEF Fails
  <2>2. CASE Step.op = "read"
    <3>1. Judge(ReadBack(Step.reg) \cap Step.mask = Step.bits)
      BY <2>2, OpStep DEF ReadStep
    <3>2. QED
      BY <2>1, <2>2, <3>1, SoundRead DEF Judge
  <2>3. CASE Step.op = "window"
    <3>1. Judge(Elapsed(time.end, time.start) \in Bound(Step.low)..Bound(Step.high))
      BY <2>3, OpStep DEF WindowStep, Bound
    <3>2. QED
      BY <2>1, <2>3, <3>1, SoundMeasure DEF Judge
  <2>4. CASE Step.op = "await"
    <3>1. StartWait(Step) \/ AwaitClock(Step) \/ AwaitFlag(Step)
      BY <2>4, OpStep
    <3>2. CASE StartWait(Step) \/ AwaitFlag(Step)
      BY <3>2 DEF StartWait, AwaitFlag, GoOn
    <3>3. CASE AwaitClock(Step)
      <4>1. look = "clock"
        BY <3>3 DEF AwaitClock
      <4>2. Elapsed(tick, time.wait) < Ticks(TIMER_WAIT)
        BY <2>1, <2>4, <4>1, SoundAwait
      <4>3. QED
        BY <3>3, <4>2 DEF AwaitClock
    <3>4. QED
      BY <3>1, <3>2, <3>3
  <2>5. CASE Step.op = "dma"
    <3>1. fault.channel = 0
      BY <1>1, <2>5, StepIsRight, SoundDma
    <3>2. pc # "fail"
      BY <3>1 DEF MovesInv
    <3>3. UNCHANGED verdict \/ (DmaReturn /\ Judge(pc = "pass"))
      BY <2>5, OpStep DEF DmaStep
    <3>4. QED
      BY <3>2, <3>3 DEF DmaReturn, Judge
  <2>6. QED
    BY <1>3, <2>2, <2>3, <2>4, <2>5 DEF Fails
<1>4. QED
  BY <1>2, <1>3 DEF Stays, GoOn

\* A case fails only when a block it is judged with is broken.
LEMMA SoundNext ==
    ASSUME TypeInv, FaultInv, ClockInv, PeriodInv, FoundInv, SysTickInv, WaitsInv, MovesInv,
           SoundInv, [Next]_vars
    PROVE  SoundInv'
<1>1. PlaceInv /\ fault' = fault
  BY FaultStays DEF TypeInv
<1>2. FaultyBlock' = FaultyBlock
  BY <1>1 DEF FaultyBlock
<1>3. CASE Return
  <2>1. ~AllDone /\ verdict' = "pass" /\ results' = [results EXCEPT ![Now.name] = verdict]
    BY <1>3 DEF Return
  <2>2. verdict = "fail" => FaultyBlock \in JudgedWith(Now.name)
    BY <2>1 DEF SoundInv, Sound
  <2>3. ASSUME NEW c \in DOMAIN results', results'[c] = "fail"
        PROVE  FaultyBlock \in JudgedWith(c)
    <3>1. c \in DOMAIN results /\ results'[c] = IF c = Now.name THEN verdict ELSE results[c]
      BY <2>1, <2>3
    <3>2. QED
      BY <2>2, <2>3, <3>1 DEF SoundInv, FailIsDeserved
  <2>4. QED
    BY <1>2, <2>1, <2>3 DEF SoundInv, FailIsDeserved
<1>4. CASE AtStep /\ StepOf(Step)
  <2>1. case' = case /\ results' = results
    BY <1>4, StepForm
  <2>2. ~AllDone' /\ Sound' => verdict' = "pass"
    BY <1>1, <1>4, <2>1, SoundSame, SoundStep DEF SoundInv
  <2>3. QED
    BY <1>2, <2>1, <2>2 DEF SoundInv, FailIsDeserved
<1>5. CASE Tick \/ DmaMoves \/ UNCHANGED vars
  <2>1. UNCHANGED <<results, case, verdict>>
    BY <1>5 DEF Tick, DmaMoves, vars, cpu
  <2>2. ~AllDone' /\ Sound' => verdict' = "pass"
    BY <1>1, <2>1, SoundSame DEF SoundInv
  <2>3. QED
    BY <1>2, <2>1, <2>2 DEF SoundInv, FailIsDeserved
<1>6. QED
  BY <1>3, <1>4, <1>5 DEF Next, Cpu

\* A wait is not in what a case always undoes.
LEMMA TimedUndo ==
    ASSUME PlaceInv, Tick
    PROVE  AtStep /\ ~AllDone /\ at \in Nat /\ at <= Now.undo
<1>1. AtStep /\ ~AllDone /\ Step.op \in {"delay", "mark", "await"}
  BY DEF Tick, TakesTime, AtStep
<1>2. /\ case \in CaseIndex /\ at \in StepIndex(case) /\ StepsOf(case)[at] = Step
      /\ Len(StepsOf(case)) \in Nat
  BY <1>1, StepOfCase
<1>3. at \notin Now.undo..Len(StepsOf(case))
  BY <1>1, <1>2, SavesAreUndone DEF SavesAreUndone, Now
<1>4. Now.undo \in Nat
  BY <1>1, StepIsOfTable
<1>5. QED
  BY <1>1, <1>2, <1>3, <1>4 DEF StepIndex

\* What a wait has lasted, as time passes.
LEMMA WaitsTick ==
    ASSUME TypeInv, FaultInv, PeriodInv, FoundInv, SysTickInv, WaitsInv, SoundInv, Sound, Tick
    PROVE  WaitsInv'
<1>1. PlaceInv /\ fault' = fault
  BY DEF TypeInv, Tick, dmaVars
<1>2. AtStep /\ ~AllDone /\ at \in Nat /\ at <= Now.undo /\ verdict = "pass"
  BY <1>1, TimedUndo DEF SoundInv
<1>3. UNCHANGED <<case, at, look>> /\ Now' = Now
  BY DEF Tick, cpu, Now
<1>4. ASSUME NEW t \in Timers, NEW k \in 0..Len(Now.steps), t \in Tested[Now.name],
             PeriodTestAt(case, k, t), at = k + 11, look # "start"
      PROVE  \E d \in Nat : FirstWait(t, d)'
  <2>1. k \in Nat
    BY <1>4
  <2>2. SetUpInv(k, t)
    BY <1>2, <1>4 DEF PeriodInv
  <2>3. PICK d \in Nat : FirstWait(t, d)
    BY <1>2, <1>4 DEF WaitsInv
  <2>4. Rate = 1
    BY <1>2, <1>4, SoundRate
  <2>5. FirstWait(t, d + 1)'
    BY <1>2, <1>4, <2>1, <2>2, <2>3, <2>4, FirstWaitTick
  <2>6. QED
    BY <2>5
<1>5. ASSUME NEW k \in 0..Len(Now.steps), "SYSTICK" \in Tested[Now.name], DelayTestAt(case, k)
      PROVE  DelayTest(k)'
  <2>1. DelayTest(k)
    BY <1>2, <1>5 DEF WaitsInv
  <2>2. QED
    BY <1>5, <2>1, DelayTick
<1>6. QED
  BY <1>3, <1>4, <1>5 DEF WaitsInv

\* As the CPU takes a step.
LEMMA WaitsStep ==
    ASSUME TypeInv, FaultInv, LookInv, FoundInv, SysTickInv, WaitsInv, Sound, AtStep, StepOf(Step),
           verdict' = "pass"
    PROVE  WaitsInv'
<1>1. PlaceInv /\ ~AllDone /\ case' = case /\ Now' = Now
  <2>1. PlaceInv /\ ~AllDone /\ case' = case
    BY StepForm DEF TypeInv, AtStep
  <2>2. QED
    BY <2>1 DEF Now
<1>2. ASSUME NEW t \in Timers, NEW k \in 0..Len(Now.steps), t \in Tested[Now.name],
             PeriodTestAt(case, k, t), at' = k + 11, look' # "start"
      PROVE  \E d \in Nat : FirstWait(t, d)'
  <2>1. at = k + 11 /\ look # "start" => \E d \in Nat : FirstWait(t, d)
    BY <1>1, <1>2 DEF WaitsInv
  <2>2. QED
    BY <1>1, <1>2, <2>1, FirstWaitStep
<1>3. ASSUME NEW k \in 0..Len(Now.steps), "SYSTICK" \in Tested[Now.name], DelayTestAt(case, k)
      PROVE  DelayTest(k)'
  <2>1. DelayTest(k)
    BY <1>1, <1>3 DEF WaitsInv
  <2>2. QED
    BY <1>3, <2>1, DelayStep
<1>4. QED
  BY <1>1, <1>2, <1>3 DEF WaitsInv

\* The waits of a sound case last as long as they should.
LEMMA WaitsNext ==
    ASSUME TypeInv, FaultInv, LookInv, PeriodInv, FoundInv, SysTickInv, WaitsInv, SoundInv,
           [Next]_vars, TypeInv', SoundInv'
    PROVE  WaitsInv'
<1>1. PlaceInv /\ fault' = fault
  BY FaultStays DEF TypeInv
<1>2. SUFFICES ASSUME ~AllDone', Sound' PROVE WaitsInv'
  BY DEF WaitsInv
<1>3. CASE Return
  <2>1. at' = 1
    BY <1>3 DEF Return
  <2>2. \A k \in 0..Len(Now'.steps) : at' \notin {k + 11, k + 2, k + 3, k + 4}
    BY <2>1
  <2>3. QED
    BY <2>2 DEF WaitsInv, DelayTest
<1>4. CASE AtStep /\ StepOf(Step)
  <2>1. case' = case
    BY <1>4, StepForm
  <2>2. Sound /\ verdict' = "pass"
    BY <1>1, <1>2, <2>1, SoundSame DEF SoundInv
  <2>3. QED
    BY <1>4, <2>2, WaitsStep
<1>5. CASE Tick
  <2>1. case' = case
    BY <1>5 DEF Tick, cpu
  <2>2. Sound
    BY <1>1, <1>2, <2>1, SoundSame
  <2>3. QED
    BY <1>5, <2>2, WaitsTick
<1>6. CASE UNCHANGED <<cpu, board, fault>>
  <2>1. /\ UNCHANGED <<case, at, look, time, tick, cnt, lag, regs>>
        /\ Now' = Now /\ Sound /\ ~AllDone
    BY <1>1, <1>2, <1>6, SoundSame DEF cpu, board
  <2>2. \A t, d : FirstWait(t, d) => FirstWait(t, d)'
    BY <2>1 DEF FirstWait, Since, Flag, Value
  <2>3. \A k : DelayTest(k) => DelayTest(k)'
    BY <2>1 DEF DelayTest, DelayWait, DelayOver, Since
  <2>4. QED
    BY <2>1, <2>2, <2>3 DEF WaitsInv
<1>7. QED
  BY <1>1, <1>3, <1>4, <1>5, <1>6 DEF Next, Cpu, DmaMoves, vars

\* All of it holds when the program starts.
LEMMA InitDeserved == ASSUME Init PROVE DeservedInv
<1>1. /\ case = 1 /\ at = 1 /\ verdict = "pass" /\ pc = "idle" /\ fault \in BoardFaults
  BY DEF Init, DmaIdle
<1>2. FoundInv
  <2>1. SUFFICES ASSUME ~AllDone, Sound, NEW r \in Registers, UnderTest(r)
                 PROVE  Value(r) = Expected[1][1][r]
    BY <1>1 DEF FoundInv
  <2>2. Value(r) = StartValue(r)
    <3>1. r = BaudRegister => "RCC" \in JudgedWith(Now.name)
      <4>1. case \in CaseIndex
        BY <1>1, <2>1, Tables DEF AllDone, CaseIndex
      <4>2. r = BaudRegister => "USART1" \in Tested[Now.name]
        BY <2>1 DEF UnderTest, BaudRegister
      <4>3. QED
        BY <4>1, <4>2, ChecksAreRight DEF ChecksAreRight, Now
    <3>2. r = BaudRegister => ~FaultOf(<<"RCC", "freq">>)
      BY <1>1, <2>1, <3>1, SoundFreq DEF Sound
    <3>3. Value(r) = Stuck(r, StartValue(r))
      BY <3>2, InitValue, StartUpIs DEF StartValue
    <3>4. QED
      BY <1>1, <2>1, <3>3, SoundRegister
  <2>3. 1 \in CaseIndex
    BY <1>1, <2>1, Tables DEF AllDone, CaseIndex
  <2>4. Expected[1][1][r] = StartValue(r)
    BY <2>3, ExpectedSteps DEF ExpectedSteps
  <2>5. QED
    BY <2>2, <2>4
<1>3. SysTickInv
  <2>1. SUFFICES ASSUME FaultyBlock \notin {"SYSTICK", "RCC"} PROVE "EN" \in Value(SysTick)
    BY DEF SysTickInv
  <2>2. SysTick \in Registers /\ SysTick = <<"SYSTICK", "CTLR">>
    BY PeriodRegisters DEF SysTick, Timers
  <2>3. ~FaultOf(SysTick)
    BY <1>1, <2>1, <2>2, StuckBit DEF FaultOf, FaultyBlock
  <2>4. Value(SysTick) = Entry["SYSTICK"]["CTLR"]
    BY <2>2, <2>3, InitValue, StartUpIs DEF Stuck, FaultOf, BaudRegister
  <2>5. "EN" \in Entry["SYSTICK"]["CTLR"]
    BY DEF Entry, BitsOf
  <2>6. QED
    BY <2>4, <2>5
<1>4. WaitsInv
  <2>1. \A k \in 0..Len(Now.steps) : at \notin {k + 11, k + 2, k + 3, k + 4}
    BY <1>1
  <2>2. QED
    BY <2>1 DEF WaitsInv, DelayTest
<1>5. MovesInv
  BY <1>1 DEF MovesInv
<1>6. SoundInv
  <2>1. \A c \in DOMAIN results : results[c] = "none"
    BY DEF Init
  <2>2. QED
    BY <1>1, <2>1 DEF SoundInv, FailIsDeserved
<1>7. QED
  BY <1>2, <1>3, <1>4, <1>5, <1>6 DEF DeservedInv

\* Whatever is broken on the board, whatever SysTick reads when a case starts, and
\* however the CPU, the counters and the DMA engine interleave within the room that
\* the windows leave, a case fails only when the fault is in a block it is judged with.
THEOREM FailDeserved == Spec => []FailIsDeserved
<1> DEFINE Given == /\ TypeInv /\ FaultInv /\ ClockInv /\ LookInv /\ TransferInv /\ PeriodInv
                    /\ UntouchedInv
           Inv == Given /\ DeservedInv
<1>1. Init => Inv
  BY InitTypeInv, InitFault, InitPlaces, InitTransfer, InitPeriod, InitUndone, InitDeserved
     DEF UndoneInv
<1>2. Inv /\ [Next]_vars => Inv'
  <2> SUFFICES ASSUME Inv, [Next]_vars PROVE Inv'
    OBVIOUS
  <2>1. Given'
    BY NextTypeInv, FaultNext, ClockNext, LookNext, TransferNext, PeriodNext, UntouchedNext
  <2>2. SoundInv'
    BY SoundNext DEF DeservedInv
  <2>3. FoundInv' /\ SysTickInv' /\ MovesInv'
    BY <2>1, <2>2, FoundNext, SysTickNext, MovesNext DEF DeservedInv
  <2>4. WaitsInv'
    BY <2>1, <2>2, WaitsNext DEF DeservedInv
  <2>5. QED
    BY <2>1, <2>2, <2>3, <2>4 DEF DeservedInv
<1>3. Inv => FailIsDeserved
  BY DEF DeservedInv, SoundInv
<1> HIDE DEF Inv
<1>4. QED
  BY <1>1, <1>2, <1>3, PTL DEF Spec

=============================================================================
