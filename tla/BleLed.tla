------------------------------- MODULE BleLed -------------------------------
(***************************************************************************)
(* ch582_ble_advertise: a peripheral whose LED shows the link.  main()     *)
(* only pumps the TMOS scheduler; the stack (external) calls the program   *)
(* back with the state of the peripheral role.                             *)
(***************************************************************************)
EXTENDS Integers

VARIABLES
    pc,       \* main(): what it calls next
    role,     \* the state of the peripheral role
    pin       \* the level of LED_PIN

vars == <<pc, role, pin>>

Connected == {"CONNECTED", "CONNECTED_ADV"}
Waiting == {"ADVERTISING", "WAITING"}

Init ==
    /\ pc = "led"
    /\ role = "INIT"
    /\ pin \in {0, 1}

\* on_state_change(): the program sets or clears the pin, or leaves it.
LedOf(state) ==
    CASE state \in Connected -> 1 [] state \in Waiting -> 0 [] OTHER -> pin

\* main(): gpio_clear(), ble_init(), ble_gap_role_peripheral_init(),
\* ble_gap_role_peripheral_start_device(), then the pump for ever.
main ==
    /\ \/ pc = "led" /\ pc' = "init" /\ pin' = 0
       \/ pc = "init" /\ pc' \in {"register", "failed"} /\ UNCHANGED pin
       \/ pc = "register" /\ pc' = "start" /\ UNCHANGED pin
       \/ pc = "start" /\ pc' = "pump" /\ UNCHANGED pin
    /\ UNCHANGED role

\* What the role may turn into (external).
After ==
    [INIT |-> {"STARTED", "ERROR"},
     STARTED |-> {"ADVERTISING", "ERROR"},
     ADVERTISING |-> {"WAITING", "CONNECTED", "ERROR"},
     WAITING |-> {"ADVERTISING", "ERROR"},
     CONNECTED |-> {"ADVERTISING", "WAITING", "CONNECTED_ADV"},
     CONNECTED_ADV |-> {"CONNECTED", "ADVERTISING"},
     ERROR |-> {"ADVERTISING"}]

\* The role changes state and reports it before it does anything else.
Report ==
    /\ pc = "pump"
    /\ \E state \in After[role] : role' = state /\ pin' = LedOf(state)
    /\ UNCHANGED pc

Next == main \/ Report

Spec == Init /\ [][Next]_vars

\* main.c:23-24 "The LED is off while advertising and on while a central is
\* connected", of the LED that main.c:54 calls active low.
Lit == pin = 0
LedShowsLink ==
    role \in Connected \cup Waiting => (Lit <=> role \in Connected)

=============================================================================
