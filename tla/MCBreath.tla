------------------------------ MODULE MCBreath ------------------------------
(* Five levels, one tick of a four-tick period each.                        *)
EXTENDS Breath

Table == [n \in 0..4 |-> n]

=============================================================================
