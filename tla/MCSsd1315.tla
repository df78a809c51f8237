----------------------------- MODULE MCSsd1315 -----------------------------
(* Ssd1315.tla on a panel of three columns and two pages, three images,    *)
(* two resets of the MCU and every build.                                  *)
EXTENDS Ssd1315

MCBytes == {1, 2, 3}
MCImages == {[n \in 0..FbSize - 1 |-> 1 + ((n + s) % 3)] : s \in {0, 1}}
            \cup {[n \in 0..FbSize - 1 |-> 2]}
=============================================================================
