------------------------------- MODULE Breath -------------------------------
(***************************************************************************)
(* ch32v0/pwm: the CPU walks a brightness table up and down and writes one *)
(* duty per step while TIM2 counts PWM periods on its own.  The LED is     *)
(* active low.  The timer is external.                                     *)
(***************************************************************************)
EXTENDS Integers

CONSTANTS
    BREATH_STEPS,   \* 32 in the code
    PWM_PERIOD,     \* 999 in the code
    breath_table,   \* 0 at index 0, PWM_MAX_DUTY at index BREATH_STEPS
    PrintEvery,     \* 8 in the code
    DelayPeriods    \* BREATH_DELAY_MS in PWM periods: 25 in the code

PWM_MAX_DUTY == PWM_PERIOD + 1

ASSUME BreathAssumption ==
    /\ BREATH_STEPS \in Nat \ {0}
    /\ PWM_PERIOD \in Nat
    /\ breath_table \in [0..BREATH_STEPS -> 0..PWM_MAX_DUTY]
    /\ PrintEvery \in Nat \ {0}
    /\ DelayPeriods \in Nat \ {0, 1}

VARIABLES
    pc, phase, increasing, print_div,   \* main()
    elapsed,   \* the delay: periods begun since it started
    oc,        \* TIM2: the compare value written
    active,    \* TIM2: the compare value in use
    cnt,       \* TIM2: the counter
    wanted,    \* history: the brightness main() last asked for
    level,     \* history: the one asked for when this period began
    lit        \* history: the ticks of this period the LED was on

cpu == <<pc, phase, increasing, print_div>>
tim == <<active, cnt, level, lit>>
vars == <<pc, phase, increasing, print_div, elapsed, oc, active, cnt, wanted,
          level, lit>>

TypeOK ==
    /\ pc \in {"startup", "set", "print", "delay"}
    /\ phase \in 0..BREATH_STEPS
    /\ increasing \in BOOLEAN
    /\ print_div \in 0..PrintEvery - 1
    /\ elapsed \in 0..DelayPeriods
    /\ {oc, active, wanted, level} \subseteq 0..PWM_MAX_DUTY
    /\ cnt \in 0..PWM_PERIOD
    /\ lit \in 0..PWM_PERIOD

\* pwm_init() has run and the LED is forced on: the compare value is 0.
Init ==
    /\ pc = "startup"
    /\ phase = 0 /\ increasing = TRUE /\ print_div = 0
    /\ elapsed = 0
    /\ oc = 0 /\ active = 0 /\ cnt = 0
    /\ wanted = PWM_MAX_DUTY /\ level = PWM_MAX_DUTY /\ lit = 0

-----------------------------------------------------------------------------
(* The timer (external): edge aligned, counting up, PWM mode 1.            *)

OutputHigh == cnt < active
LitNow == IF OutputHigh THEN 0 ELSE 1

Tick ==
    /\ cnt < PWM_PERIOD
    /\ cnt' = cnt + 1
    /\ lit' = lit + LitNow
    /\ UNCHANGED <<cpu, elapsed, oc, active, wanted, level>>

\* The update event: the value written takes effect.
Update ==
    /\ cnt = PWM_PERIOD
    /\ cnt' = 0 /\ lit' = 0
    /\ active' = oc
    /\ level' = wanted
    /\ elapsed' = IF elapsed < DelayPeriods THEN elapsed + 1 ELSE elapsed
    /\ UNCHANGED <<cpu, oc, wanted>>

-----------------------------------------------------------------------------
(* main().                                                                 *)

\* pwm_set_duty(): the preload is on, so the period in progress is not cut.
pwm_set_duty_NoPreload(duty) == oc' = duty /\ active' = duty
pwm_set_duty(duty) == oc' = duty /\ UNCHANGED active

duty_of(brightness) == PWM_MAX_DUTY - brightness

DelayOver == elapsed = DelayPeriods

Startup ==
    /\ pc = "startup" /\ DelayOver
    /\ pc' = "set"
    /\ UNCHANGED <<phase, increasing, print_div, elapsed, oc, tim, wanted>>

NextDiv == IF print_div + 1 >= PrintEvery THEN 0 ELSE print_div + 1

SetDuty ==
    /\ pc = "set"
    /\ pwm_set_duty(duty_of(breath_table[phase]))
    /\ wanted' = breath_table[phase]
    /\ print_div' = NextDiv
    /\ pc' = IF print_div' = 0 THEN "print" ELSE "delay"
    /\ elapsed' = 0
    /\ UNCHANGED <<phase, increasing, cnt, level, lit>>

\* print_state() takes any number of periods; the delay starts after it.
PrintState ==
    /\ pc = "print"
    /\ pc' = "delay" /\ elapsed' = 0
    /\ UNCHANGED <<phase, increasing, print_div, oc, tim, wanted>>

Turn_PastTheEnd ==
    IF increasing THEN phase' = phase + 1 /\ increasing' = (phase < BREATH_STEPS)
    ELSE IF phase = 0 THEN phase' = 1 /\ increasing' = TRUE
         ELSE phase' = phase - 1 /\ UNCHANGED increasing
Turn_Stuck ==
    /\ phase' = IF increasing THEN IF phase < BREATH_STEPS THEN phase + 1
                                   ELSE phase
                ELSE IF phase = 0 THEN 0 ELSE phase - 1
    /\ increasing' = (increasing /\ phase < BREATH_STEPS)
Turn ==
    \/ /\ increasing /\ phase < BREATH_STEPS
       /\ phase' = phase + 1 /\ UNCHANGED increasing
    \/ /\ increasing /\ phase >= BREATH_STEPS
       /\ increasing' = FALSE /\ phase' = BREATH_STEPS - 1
    \/ /\ ~increasing /\ phase # 0
       /\ phase' = phase - 1 /\ UNCHANGED increasing
    \/ /\ ~increasing /\ phase = 0
       /\ increasing' = TRUE /\ phase' = 1

EndDelay ==
    /\ pc = "delay" /\ DelayOver
    /\ Turn
    /\ pc' = "set"
    /\ UNCHANGED <<print_div, elapsed, oc, tim, wanted>>

Cpu == Startup \/ SetDuty \/ PrintState \/ EndDelay
Timer == Tick \/ Update
Next == Cpu \/ Timer

Spec == Init /\ [][Next]_vars
\* The CPU runs with no interrupts and the timer counts.
FairSpec == Spec /\ WF_vars(Cpu) /\ WF_vars(Timer)

-----------------------------------------------------------------------------
(* Properties.                                                             *)

\* In every PWM period the LED is on for exactly the brightness that was asked
\* for when the period began: never for the whole of a dark period, never for
\* less than a full one, and no write of a duty cuts a period short.
LitAsWanted == [][Update => lit + LitNow = level]_vars

\* The light breathes: it keeps returning to both ends of the table, one entry
\* at a time.
Breathes ==
    /\ []<>(phase = 0) /\ []<>(phase = BREATH_STEPS)
    /\ [][phase' \in {phase - 1, phase, phase + 1}]_vars

=============================================================================
