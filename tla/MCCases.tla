------------------------------ MODULE MCCases ------------------------------
(* One transfer of each size over the whole block, as on channels 1 to 3,   *)
(* and a shorter one, as on channels 4 to 7.  SysTick starts so that it     *)
(* wraps during the first or the second wait of a timer, or between them.   *)
EXTENDS CaseAudit

MCRuns ==
    <<[channel |-> 1, size |-> 8,  count |-> 4, round |-> 1],
      [channel |-> 2, size |-> 16, count |-> 3, round |-> 2],
      [channel |-> 3, size |-> 32, count |-> 2, round |-> 3],
      [channel |-> 4, size |-> 8,  count |-> 2, round |-> 4]>>

=============================================================================
