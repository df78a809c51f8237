----------------------------- MODULE BreathProofs -----------------------------
(***************************************************************************)
(* Proofs about Breath, for every period, brightness table and delay.      *)
(***************************************************************************)
EXTENDS Breath, TLAPS

\* The ticks of this period the LED has been on: those since the counter has
\* reached the compare value.
LitInv == lit = IF cnt < active THEN 0 ELSE cnt - active

\* The compare value written is that of the brightness last asked for, and the
\* one in use that of the brightness asked for when the period began.
DutyInv == oc = duty_of(wanted) /\ active = duty_of(level)

IInv == TypeOK /\ LitInv /\ DutyInv

\* The timer starts with the LED forced on.
LEMMA InitIInv == Init => IInv
  BY BreathAssumption DEF Init, IInv, TypeOK, LitInv, DutyInv, duty_of, PWM_MAX_DUTY

\* The ranges one by one.
LEMMA Ranges ==
    ASSUME IInv
    PROVE  /\ PWM_PERIOD \in Nat /\ PrintEvery \in Nat \ {0} /\ BREATH_STEPS \in Nat \ {0}
           /\ phase \in 0..BREATH_STEPS /\ print_div \in 0..PrintEvery - 1
           /\ cnt \in 0..PWM_PERIOD /\ lit \in 0..PWM_PERIOD
           /\ oc \in 0..PWM_PERIOD + 1 /\ active \in 0..PWM_PERIOD + 1
           /\ wanted \in 0..PWM_PERIOD + 1 /\ level \in 0..PWM_PERIOD + 1
           /\ breath_table[phase] \in 0..PWM_PERIOD + 1
  BY BreathAssumption DEF IInv, TypeOK, PWM_MAX_DUTY

\* A step of the timer keeps the invariant.
LEMMA TimerIInv == IInv /\ Timer => IInv'
  <1>. SUFFICES ASSUME IInv, Timer PROVE IInv'
    OBVIOUS
  <1>1. CASE Tick
    <2>1. /\ cnt' = cnt + 1 /\ cnt < PWM_PERIOD /\ lit' = lit + LitNow
          /\ UNCHANGED <<pc, phase, increasing, print_div, elapsed, oc, active, wanted, level>>
      BY <1>1 DEF Tick, cpu
    <2>2. cnt' \in 0..PWM_PERIOD  BY <2>1, Ranges
    <2>3. LitInv'
      BY <2>1, Ranges DEF IInv, LitInv, LitNow, OutputHigh
    <2>4. lit' \in 0..PWM_PERIOD  BY <2>1, <2>2, <2>3, Ranges DEF LitInv
    <2>. QED  BY <2>1, <2>2, <2>3, <2>4 DEF IInv, TypeOK, DutyInv
  <1>2. CASE Update
    <2>1. /\ cnt' = 0 /\ lit' = 0 /\ active' = oc /\ level' = wanted
          /\ elapsed' \in {elapsed, elapsed + 1} /\ (elapsed' # elapsed => elapsed < DelayPeriods)
          /\ UNCHANGED <<pc, phase, increasing, print_div, oc, wanted>>
      BY <1>2 DEF Update, cpu
    <2>2. LitInv' /\ cnt' \in 0..PWM_PERIOD /\ lit' \in 0..PWM_PERIOD
      BY <2>1, Ranges DEF LitInv
    <2>3. elapsed' \in 0..DelayPeriods  BY <2>1, BreathAssumption DEF IInv, TypeOK
    <2>. QED  BY <2>1, <2>2, <2>3 DEF IInv, TypeOK, DutyInv
  <1>. QED  BY <1>1, <1>2 DEF Timer

\* A step of main() keeps the invariant.
LEMMA CpuIInv == IInv /\ Cpu => IInv'
  <1>. SUFFICES ASSUME IInv, Cpu PROVE IInv'
    OBVIOUS
  <1>1. UNCHANGED <<active, cnt, level, lit>>
    BY DEF Cpu, Startup, SetDuty, PrintState, EndDelay, pwm_set_duty, tim
  <1>2. LitInv'  BY <1>1 DEF IInv, LitInv
  <1>3. CASE Startup \/ PrintState
    <2>1. /\ pc' \in {"set", "delay"} /\ elapsed' \in {0, elapsed}
          /\ UNCHANGED <<phase, increasing, print_div, oc, wanted>>
      BY <1>3 DEF Startup, PrintState
    <2>2. elapsed' \in 0..DelayPeriods  BY <2>1, BreathAssumption DEF IInv, TypeOK
    <2>. QED  BY <1>1, <1>2, <2>1, <2>2 DEF IInv, TypeOK, DutyInv
  <1>4. CASE SetDuty
    <2>1. /\ wanted' = breath_table[phase] /\ oc' = duty_of(wanted')
          /\ pc' \in {"print", "delay"} /\ elapsed' = 0 /\ print_div' = NextDiv
          /\ UNCHANGED <<phase, increasing>>
      BY <1>4 DEF SetDuty, pwm_set_duty
    <2>2. wanted' \in 0..PWM_PERIOD + 1  BY <2>1, Ranges
    <2>3. oc' \in 0..PWM_PERIOD + 1  BY <2>1, <2>2, Ranges DEF duty_of, PWM_MAX_DUTY
    <2>4. print_div' \in 0..PrintEvery - 1  BY <2>1, Ranges DEF NextDiv
    <2>5. elapsed' \in 0..DelayPeriods  BY <2>1, BreathAssumption
    <2>. QED
      BY <1>1, <1>2, <2>1, <2>2, <2>3, <2>4, <2>5 DEF IInv, TypeOK, DutyInv, PWM_MAX_DUTY
  <1>5. CASE EndDelay
    <2>1. phase' \in 0..BREATH_STEPS  BY <1>5, Ranges DEF EndDelay, Turn
    <2>2. increasing' \in BOOLEAN  BY <1>5 DEF EndDelay, Turn, IInv, TypeOK
    <2>3. pc' = "set" /\ UNCHANGED <<print_div, elapsed, oc, wanted>>
      BY <1>5 DEF EndDelay
    <2>. QED  BY <1>1, <1>2, <2>1, <2>2, <2>3 DEF IInv, TypeOK, DutyInv
  <1>. QED  BY <1>3, <1>4, <1>5 DEF Cpu

\* The invariant holds in every reachable state.
THEOREM Invariant == Spec => []IInv
  <1>1. IInv /\ UNCHANGED vars => IInv'  BY DEF vars, IInv, TypeOK, LitInv, DutyInv
  <1>2. IInv /\ [Next]_vars => IInv'  BY <1>1, CpuIInv, TimerIInv DEF Next
  <1>. QED  BY <1>2, InitIInv, PTL DEF Spec

\* The table is never read past its ends.
THEOREM TypeCorrect == Spec => []TypeOK
  BY Invariant, PTL DEF IInv

\* Every PWM period is lit for exactly the brightness asked for when it began,
\* at whatever tick of a period main() writes the next duty.
THEOREM LitIsWanted == Spec => LitAsWanted
  <1>1. IInv /\ Update => lit + LitNow = level
    BY BreathAssumption
    DEF IInv, TypeOK, LitInv, DutyInv, duty_of, PWM_MAX_DUTY, Update, LitNow, OutputHigh
  <1>2. IInv /\ [Next]_vars => [Update => lit + LitNow = level]_vars
    BY <1>1
  <1>. QED  BY <1>2, Invariant, PTL DEF Spec, LitAsWanted

=============================================================================
