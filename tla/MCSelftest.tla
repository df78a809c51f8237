---------------------------- MODULE MCSelftest ----------------------------
(* Selftest.tla on two cases and two resets from outside.                  *)
EXTENDS Selftest

\* Every phase the code tests for and one beyond, and counters that are
\* either clear or not.
MCPhases == 0..4
MCCounts == {0, 5}
=============================================================================
