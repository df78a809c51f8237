------------------------------ MODULE Ch582Pwm ------------------------------
(***************************************************************************)
(* The clock divider of ch582_pwm: pwm_init() derives it from the system   *)
(* clock so that a PWM cycle comes near the wanted frequency.              *)
(***************************************************************************)
EXTENDS Integers

CONSTANTS
    Clocks,        \* values of rcc_sysclk_frequency, in kHz
    TARGET_CLOCKS, \* PWM_FREQUENCY_HZ * PWM_PERIOD_CLOCKS in kHz: 256
    MaxDivider     \* PWM_MAX_BRIGHTNESS + 1: 256

VARIABLES
    rcc_sysclk_frequency,
    divider   \* 0 until pwm_init() has run

vars == <<rcc_sysclk_frequency, divider>>

Init ==
    /\ rcc_sysclk_frequency \in Clocks
    /\ divider = 0

RoundedUp ==
    (rcc_sysclk_frequency + TARGET_CLOCKS - 1) \div TARGET_CLOCKS

pwm_init ==
    /\ divider = 0
    /\ divider' = CASE RoundedUp = 0 -> 1
                    [] RoundedUp > MaxDivider -> MaxDivider
                    [] OTHER -> RoundedUp
    /\ UNCHANGED rcc_sysclk_frequency

Next == pwm_init

Spec == Init /\ [][Next]_vars

\* main.c:78 "Pick the divider that gets closest to PWM_FREQUENCY_HZ without
\* overflowing the 8-bit divider register": no other divider comes closer.
\* (With divider d the cycle rate is off by |f - TARGET_CLOCKS * d| / d.)
Off(d) ==
    LET e == rcc_sysclk_frequency - TARGET_CLOCKS * d
    IN  IF e < 0 THEN -e ELSE e
DividerIsClosest ==
    divider # 0 =>
        \A d \in 1..MaxDivider : Off(divider) * d <= Off(d) * divider

=============================================================================
