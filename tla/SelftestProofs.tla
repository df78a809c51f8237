--------------------------- MODULE SelftestProofs ---------------------------
(***************************************************************************)
(* Theorems about the session manager of Selftest.tla, for any number of   *)
(* cases, any number of resets from outside and any contents of .noinit    *)
(* RAM at power-on.                                                        *)
(***************************************************************************)
EXTENDS Selftest, FiniteSetTheorems, TLAPS

-----------------------------------------------------------------------------
(* The inductive invariant.                                                *)

FreshLabel == {"fresh_magic", "fresh_magic_inv", "fresh_phase",
               "fresh_pass", "fresh_fail", "fresh_skip", "fresh_clear"}
StartLabel == {"boot", "check"} \cup FreshLabel

\* No reset that starts a session is waiting to be handled.
Settled == flags \cap SessionFlag = {}

AllOk == \A c \in Cases : hist.result[c] \in {"PASS", "SKIP"}

\* What .noinit RAM and the sticky flags are worth without the CPU.
RetainedInv ==
    Settled =>
        /\ wd_state_valid
        /\ wd.phase <= PhaseDone
        /\ "IWDG" \in flags => hist.iwdg
        /\ "WWDG" \in flags => hist.wwdg
        /\ wd.fail = 0 /\ wd.phase >= 1 => AllOk
        /\ wd.fail = 0 /\ wd.phase >= 2 => hist.iwdg
        /\ wd.fail = 0 /\ wd.phase >= 3 => hist.wwdg

\* What the CPU knows at the start of a boot.
StartInv ==
    /\ pc = "check" => reset_flags = flags
    /\ pc \in FreshLabel => ~Settled
    /\ pc \in FreshLabel \ {"fresh_magic"} => wd.magic
    /\ pc \in FreshLabel \ {"fresh_magic", "fresh_magic_inv"} => wd.magic_inv
    /\ pc \in {"fresh_pass", "fresh_fail", "fresh_skip", "fresh_clear"} =>
          wd.phase = 0

\* What it knows once the session is settled.
RunInv ==
    pc \notin StartLabel =>
        /\ Settled
        /\ "IWDG" \in reset_flags => hist.iwdg
        /\ "WWDG" \in reset_flags => hist.wwdg

Phase0Inv ==
    /\ pc \in {"cases", "store_pass", "store_fail", "store_skip", "clear0",
               "set_phase1"} => wd.phase = 0
    /\ pc = "cases" /\ counts.fail = 0 =>
          \A c \in Cases : c < i => hist.result[c] \in {"PASS", "SKIP"}
    /\ pc \in {"store_pass", "store_fail"} /\ counts.fail = 0 => AllOk
    /\ pc \in {"store_skip", "clear0", "set_phase1"} /\ wd.fail = 0 => AllOk
    /\ pc \in {"set_phase1", "arm_iwdg"} => flags = {}
    /\ pc = "arm_iwdg" => wd.phase = 1

WatchdogInv ==
    /\ pc \in {"failed", "done"} => wd.phase \in {1, 2}
    /\ pc = "done" => wd.fail > 0
    /\ pc \in {"iwdg_pass", "iwdg_clear", "iwdg_phase"} =>
          wd.phase = 1 /\ hist.iwdg
    /\ pc \in {"iwdg_phase", "arm_wwdg"} => flags = {}
    /\ pc = "arm_wwdg" => wd.phase = 2
    /\ pc \in {"wwdg_pass", "wwdg_clear", "wwdg_phase"} =>
          wd.phase = 2 /\ hist.wwdg
    /\ iwdg => pc = "spin" /\ wd.phase = 1 /\ flags = {}
    /\ wwdg => pc = "spin" /\ wd.phase = 2 /\ flags = {}

SummaryInv ==
    /\ summary.verdict = "PASS" =>
          pc = "halt" /\ wd.fail = 0 /\ wd.phase >= PhaseDone

IInv ==
    /\ TypeOK
    /\ RetainedInv
    /\ StartInv
    /\ RunInv
    /\ Phase0Inv
    /\ WatchdogInv
    /\ SummaryInv

-----------------------------------------------------------------------------
(* Typing.                                                                 *)

\* Every variable keeps its type: in particular run_normal_tests never indexes
\* past the registry and pc never leaves the control points of main().
THEOREM TypeCorrect == Spec => []TypeOK
<1> USE SelftestAssumption DEF SelftestAssumption
<1>1. Init => TypeOK
  <2> SUFFICES ASSUME Init PROVE TypeOK
    OBVIOUS
  <2> USE DEF Init
  <2>1. pc \in Label /\ i \in Cases
    BY DEF Label, Cases
  <2>2. counts \in Counts /\ summary \in Summary
    BY DEF Counts, ZeroCounts, Summary, NoSummary
  <2>3. wd \in WdState
    BY DEF WdState, PowerOnWd
  <2>4. reset_flags \subseteq ResetFlag /\ flags \subseteq ResetFlag
    BY DEF ResetFlag
  <2>5. hist \in Hist
    BY DEF Hist, FreshHist
  <2>6. resets \in 0..MaxResets
    OBVIOUS
  <2>7. iwdg \in BOOLEAN /\ wwdg \in BOOLEAN
    OBVIOUS
  <2> HIDE DEF Init
  <2>8. QED
    BY <2>1, <2>2, <2>3, <2>4, <2>5, <2>6, <2>7 DEF TypeOK
<1>2. TypeOK /\ [Next]_vars => TypeOK'
  <2> SUFFICES ASSUME TypeOK, [Next]_vars
               PROVE  TypeOK'
    OBVIOUS
  <2> USE DEF TypeOK, Goto, local, watchdogs
  <2>1. CASE ReadResetFlags
    BY <2>1 DEF ReadResetFlags, Label
  <2>2. CASE CheckSession
    BY <2>2 DEF CheckSession, Label
  <2>3. CASE WdStateReset
    <3>1. pc \in {"fresh_magic", "fresh_magic_inv"} => wd' \in WdState
      BY <2>3 DEF WdStateReset, WdState
    <3>2. pc \in {"fresh_phase", "fresh_pass"} => wd' \in WdState
      BY <2>3 DEF WdStateReset, WdState
    <3>3. pc \in {"fresh_fail", "fresh_skip"} => wd' \in WdState
      BY <2>3 DEF WdStateReset, WdState
    <3>4. wd' \in WdState
      BY <2>3, <3>1, <3>2, <3>3 DEF WdStateReset
    <3>5. pc' \in Label
      BY <2>3 DEF WdStateReset, Label
    <3>6. QED
      BY <2>3, <3>4, <3>5 DEF WdStateReset
  <2>4. CASE ClearFreshFlags
    BY <2>4 DEF ClearFreshFlags, Label
  <2>5. CASE EnterPhase0
    BY <2>5 DEF EnterPhase0, Label, Cases, Counts, ZeroCounts
  <2>6. CASE RunCase
    <3>1. PICK r \in Result : /\ counts' = Tally(r)
                              /\ hist' = [hist EXCEPT !.result[i] = r]
      BY <2>6 DEF RunCase
    <3>2. counts' \in Counts
      BY <3>1 DEF Tally, Counts
    <3>3. hist' \in Hist
      BY <3>1 DEF Hist
    <3>4. pc' \in Label /\ i' \in Cases
      BY <2>6 DEF RunCase, Label, Cases
    <3>5. QED
      BY <2>6, <3>2, <3>3, <3>4 DEF RunCase
  <2>7. CASE StoreCounts
    BY <2>7 DEF StoreCounts, Label, WdState, Counts
  <2>8. CASE ClearFlagsPhase0
    BY <2>8 DEF ClearFlagsPhase0, Label
  <2>9. CASE SetPhase1
    BY <2>9 DEF SetPhase1, Label, WdState
  <2>10. CASE ArmIwdgTimeout
    BY <2>10 DEF ArmIwdgTimeout, Label, Hist
  <2>11. CASE ArmIwdg
    BY <2>11 DEF ArmIwdg, Label
  <2>12. CASE RecordFailure
    BY <2>12 DEF RecordFailure, Label, WdState, PhaseDone
  <2>13. CASE EnterPhase1
    BY <2>13 DEF EnterPhase1, Label
  <2>14. CASE IwdgPass
    BY <2>14 DEF IwdgPass, Label, WdState
  <2>15. CASE ArmWwdg
    BY <2>15 DEF ArmWwdg, Label
  <2>16. CASE EnterPhase2
    BY <2>16 DEF EnterPhase2, Label
  <2>17. CASE WwdgPass
    BY <2>17 DEF WwdgPass, Label, WdState, PhaseDone
  <2>18. CASE PrintSummary
    BY <2>18 DEF PrintSummary, Label, Summary, WdState
  <2>19. CASE Spin \/ UNCHANGED vars
    BY <2>19 DEF Spin, vars
  <2>20. ASSUME Reboot
         PROVE  /\ pc' \in Label /\ i' \in Cases /\ counts' \in Counts
                /\ reset_flags' \subseteq ResetFlag
                /\ summary' \in Summary
                /\ iwdg' \in BOOLEAN /\ wwdg' \in BOOLEAN
    <3>1. pc' \in Label /\ i' \in Cases
      BY <2>20 DEF Reboot, Label, Cases
    <3>2. counts' \in Counts /\ summary' \in Summary
      BY <2>20 DEF Reboot, Counts, ZeroCounts, Summary, NoSummary
    <3>3. QED
      BY <2>20, <3>1, <3>2 DEF Reboot
  <2>21. CASE IwdgFires
    BY <2>20, <2>21 DEF IwdgFires, ResetFlag, Hist
  <2>22. CASE WwdgFires
    BY <2>20, <2>22 DEF WwdgFires, ResetFlag, Hist
  <2>23. FreshHist \in Hist
    BY DEF FreshHist, Hist
  <2>24. CASE ExternalReset
    BY <2>20, <2>23, <2>24 DEF ExternalReset, ExternalFlag, ResetFlag
  <2>25. CASE PowerCycle
    <3>1. wd' \in WdState
      BY <2>25 DEF PowerCycle, PowerOnWd, WdState
    <3>2. QED
      BY <2>20, <2>23, <2>25, <3>1 DEF PowerCycle, ResetFlag
  <2>26. CASE SilentReset
    <3>1. hist' \in Hist
      BY <2>26 DEF SilentReset, Hist
    <3>2. QED
      BY <2>20, <2>26, <3>1 DEF SilentReset
  <2>27. QED
    BY <2>1, <2>2, <2>3, <2>4, <2>5, <2>6, <2>7, <2>8, <2>9, <2>10, <2>11,
       <2>12, <2>13, <2>14, <2>15, <2>16, <2>17, <2>18, <2>19, <2>21, <2>22,
       <2>24, <2>25, <2>26 DEF Next, Firmware, Environment
<1>3. QED
  BY <1>1, <1>2, PTL DEF Spec

-----------------------------------------------------------------------------
(* The invariant is inductive.                                             *)

CpuInv == StartInv /\ RunInv /\ Phase0Inv /\ WatchdogInv /\ SummaryInv

\* A reset of any cause forgets all the CPU knows: only what the RAM and the
\* flags are worth has to be shown.
LEMMA RebootForgets == Reboot => CpuInv'
  BY DEF Reboot, CpuInv, StartInv, RunInv, Phase0Inv, WatchdogInv, SummaryInv,
         StartLabel, FreshLabel, NoSummary

\* The retained part rests on wd, flags and hist alone.
LEMMA RetainedFrame ==
    RetainedInv /\ UNCHANGED <<wd, flags, hist>> => RetainedInv'
  BY DEF RetainedInv, Settled, wd_state_valid, AllOk

\* The invariant relates what the RAM and the flags promise to what the CPU is
\* about to do with them; it holds in every reachable state.
THEOREM InductiveInvariant == Spec => []IInv
<1>1. Init => RetainedInv /\ CpuInv
  <2> SUFFICES ASSUME Init PROVE RetainedInv /\ CpuInv
    OBVIOUS
  <2>1. ~Settled
    BY DEF Init, Settled, SessionFlag
  <2>2. pc = "boot" /\ ~iwdg /\ ~wwdg /\ summary.verdict = "none"
    BY DEF Init, NoSummary
  <2>3. QED
    BY <2>1, <2>2 DEF RetainedInv, CpuInv, StartInv, RunInv, Phase0Inv,
       WatchdogInv, SummaryInv, StartLabel, FreshLabel
<1>2. TypeOK /\ TypeOK' /\ RetainedInv /\ CpuInv /\ [Next]_vars
      => RetainedInv' /\ CpuInv'
  <2> SUFFICES ASSUME TypeOK, TypeOK', RetainedInv, CpuInv, [Next]_vars
               PROVE  RetainedInv' /\ CpuInv'
    OBVIOUS
  <2> USE RetainedFrame DEF CpuInv, StartInv, RunInv, Phase0Inv, WatchdogInv,
              SummaryInv, wd_state_valid, Goto, local, watchdogs, StartLabel,
              FreshLabel
  <2>1. CASE ReadResetFlags
    BY <2>1 DEF ReadResetFlags, Settled
  <2>2. CASE CheckSession
    BY <2>2 DEF CheckSession, Settled, RetainedInv, SessionFlag, ExternalFlag,
                FreshFlags
  <2>3. CASE WdStateReset
    <3>1. /\ pc \in FreshLabel /\ pc' \in FreshLabel \ {"fresh_magic"}
          /\ UNCHANGED <<local, summary, flags, watchdogs, hist>>
      BY <2>3 DEF WdStateReset
    <3>2. ~Settled /\ ~Settled'
      BY <3>1 DEF Settled
    <3>3. pc' = "fresh_magic_inv" => wd'.magic
      BY <2>3 DEF WdStateReset, TypeOK, WdState
    <3>4. pc' = "fresh_phase" => wd'.magic /\ wd'.magic_inv
      BY <2>3 DEF WdStateReset, TypeOK, WdState
    <3>5. pc' = "fresh_pass" => wd'.magic /\ wd'.magic_inv /\ wd'.phase = 0
      BY <2>3 DEF WdStateReset, TypeOK, WdState
    <3>6. pc' \in {"fresh_fail", "fresh_skip", "fresh_clear"} =>
             wd'.magic /\ wd'.magic_inv /\ wd'.phase = 0
      BY <2>3 DEF WdStateReset, TypeOK, WdState
    <3>7. QED
      BY <3>1, <3>2, <3>3, <3>4, <3>5, <3>6 DEF RetainedInv
  <2>4. CASE ClearFreshFlags
    BY <2>4 DEF ClearFreshFlags, Settled, RetainedInv, PhaseDone
  <2>5. CASE EnterPhase0
    <3>1. RetainedInv'
      BY <2>5 DEF EnterPhase0
    <3>2. pc' = "cases" => wd.phase = 0 /\ i' = 1
      BY <2>5 DEF EnterPhase0
    <3>3. pc' = "cases" => \A c \in Cases : ~(c < i')
      BY <3>2 DEF Cases
    <3>4. QED
      BY <2>5, <3>1, <3>2, <3>3 DEF EnterPhase0, Settled
  <2>6. CASE RunCase
    <3>1. PICK r \in Result : /\ counts' = Tally(r)
                              /\ hist' = [hist EXCEPT !.result[i] = r]
      BY <2>6 DEF RunCase
    <3>2. counts'.fail = 0 => r \in {"PASS", "SKIP"} /\ counts.fail = 0
      BY <3>1 DEF Tally, Result, TypeOK, Counts
    <3>3. /\ hist'.iwdg = hist.iwdg /\ hist'.wwdg = hist.wwdg
          /\ hist'.result = [hist.result EXCEPT ![i] = r]
      BY <3>1 DEF TypeOK, Hist
    <3>4. hist'.result[i] = r
          /\ \A c \in Cases : c # i => hist'.result[c] = hist.result[c]
      BY <3>3 DEF TypeOK, Hist
    <3>5. counts'.fail = 0 =>
            \A c \in Cases : c <= i => hist'.result[c] \in {"PASS", "SKIP"}
      BY <2>6, <3>2, <3>4 DEF RunCase, TypeOK, Cases
    <3>6. pc' = "store_pass" /\ counts'.fail = 0 => AllOk'
      BY <2>6, <3>5 DEF RunCase, AllOk, Cases
    <3>7. pc' = "cases" /\ counts'.fail = 0 =>
            \A c \in Cases : c < i' => hist'.result[c] \in {"PASS", "SKIP"}
      BY <2>6, <3>5 DEF RunCase, TypeOK, Cases
    <3>8. wd.phase = 0 /\ Settled /\ pc' \in {"cases", "store_pass"}
          /\ UNCHANGED <<reset_flags, summary, wd, flags, watchdogs>>
      BY <2>6 DEF RunCase
    <3>9. RetainedInv'
      BY <3>3, <3>8 DEF RetainedInv, Settled
    <3>10. QED
      BY <2>6, <3>3, <3>6, <3>7, <3>8, <3>9 DEF RunCase, Settled
  <2>7. CASE StoreCounts
    BY <2>7 DEF StoreCounts, Settled, AllOk, RetainedInv, TypeOK,
                WdState, Hist, PhaseDone
  <2>8. CASE ClearFlagsPhase0
    BY <2>8 DEF ClearFlagsPhase0, Settled, AllOk, RetainedInv, TypeOK,
                WdState, Hist, PhaseDone
  <2>9. CASE SetPhase1
    BY <2>9 DEF SetPhase1, Settled, AllOk, RetainedInv, TypeOK,
                WdState, Hist, PhaseDone
  <2>10. CASE ArmIwdgTimeout
    BY <2>10 DEF ArmIwdgTimeout, Settled, AllOk, RetainedInv, TypeOK,
                WdState, Hist, PhaseDone
  <2>11. CASE ArmIwdg
    BY <2>11 DEF ArmIwdg, Settled, AllOk, RetainedInv, TypeOK,
                WdState, Hist, PhaseDone
  <2>12. CASE RecordFailure
    BY <2>12 DEF RecordFailure, Settled, AllOk, RetainedInv, TypeOK,
                WdState, Hist, PhaseDone
  <2>13. CASE EnterPhase1
    BY <2>13 DEF EnterPhase1, Settled, AllOk, RetainedInv, TypeOK,
                WdState, Hist, PhaseDone
  <2>14. CASE IwdgPass
    BY <2>14 DEF IwdgPass, Settled, AllOk, RetainedInv, TypeOK,
                WdState, Hist, PhaseDone
  <2>15. CASE ArmWwdg
    BY <2>15 DEF ArmWwdg, Settled, AllOk, RetainedInv, TypeOK,
                WdState, Hist, PhaseDone
  <2>16. CASE EnterPhase2
    BY <2>16 DEF EnterPhase2, Settled
  <2>17. CASE WwdgPass
    BY <2>17 DEF WwdgPass, Settled, AllOk, RetainedInv, TypeOK,
                WdState, Hist, PhaseDone
  <2>18. CASE PrintSummary
    BY <2>18 DEF PrintSummary, Settled, NoSummary, TypeOK, WdState, Summary
  <2>19. CASE Spin \/ UNCHANGED vars
    BY <2>19 DEF Spin, vars, Settled, AllOk
  <2>20. CASE IwdgFires
    <3>1. wd.phase = 1 /\ flags = {} /\ Settled /\ hist'.iwdg
          /\ hist'.result = hist.result /\ UNCHANGED wd
      BY <2>20 DEF IwdgFires, TypeOK, Hist
    <3>2. RetainedInv'
      BY <2>20, <3>1 DEF IwdgFires, RetainedInv, AllOk
    <3>3. QED
      BY <2>20, <3>2, RebootForgets DEF IwdgFires
  <2>21. CASE WwdgFires
    <3>1. wd.phase = 2 /\ flags = {} /\ Settled /\ hist'.wwdg /\ UNCHANGED wd
          /\ hist'.result = hist.result /\ hist'.iwdg = hist.iwdg
      BY <2>21 DEF WwdgFires, TypeOK, Hist
    <3>2. RetainedInv'
      BY <2>21, <3>1 DEF WwdgFires, RetainedInv, AllOk
    <3>3. QED
      BY <2>21, <3>2, RebootForgets DEF WwdgFires
  <2>22. CASE ExternalReset
    <3>1. ~Settled'
      BY <2>22 DEF ExternalReset, Settled, SessionFlag
    <3>2. QED
      BY <2>22, <3>1, RebootForgets DEF ExternalReset, RetainedInv
  <2>23. CASE PowerCycle
    <3>1. ~Settled'
      BY <2>23 DEF PowerCycle, Settled, SessionFlag
    <3>2. QED
      BY <2>23, <3>1, RebootForgets DEF PowerCycle, RetainedInv
  <2>24. CASE SilentReset
    <3>1. /\ hist'.result = hist.result
          /\ hist'.iwdg = hist.iwdg /\ hist'.wwdg = hist.wwdg
      BY <2>24 DEF SilentReset, TypeOK, Hist
    <3>2. RetainedInv'
      BY <2>24, <3>1 DEF SilentReset, RetainedInv, Settled, AllOk
    <3>3. QED
      BY <2>24, <3>2, RebootForgets DEF SilentReset
  <2>25. QED
    BY <2>1, <2>2, <2>3, <2>4, <2>5, <2>6, <2>7, <2>8, <2>9, <2>10, <2>11,
       <2>12, <2>13, <2>14, <2>15, <2>16, <2>17, <2>18, <2>19, <2>20, <2>21,
       <2>22, <2>23, <2>24 DEF Next, Firmware, Environment
<1>3. QED
  BY <1>1, <1>2, TypeCorrect, PTL DEF Spec, IInv, CpuInv

-----------------------------------------------------------------------------
(* What follows from the invariant.                                        *)

\* A printed PASS is earned: every case of this session ran without failing
\* and both watchdogs reset the part in it.
THEOREM PassIsHonest == Spec => []VerdictHonest
<1>1. IInv => VerdictHonest
  <2> SUFFICES ASSUME IInv, summary.verdict = "PASS"
               PROVE  AllOk /\ hist.iwdg /\ hist.wwdg
    BY DEF VerdictHonest, AllOk
  <2>1. pc = "halt" /\ wd.fail = 0 /\ wd.phase >= 3
    BY DEF IInv, SummaryInv, PhaseDone
  <2>2. Settled /\ wd.phase \in Nat
    BY <2>1 DEF IInv, RunInv, StartLabel, FreshLabel, TypeOK, WdState
  <2>3. QED
    BY <2>1, <2>2 DEF IInv, RetainedInv
<1>2. QED
  BY <1>1, InductiveInvariant, PTL

\* A watchdog only ever runs on top of a complete checkpoint.
THEOREM CheckpointIsBeforeArm == Spec => []CheckpointBeforeArm
<1>1. IInv => CheckpointBeforeArm
  <2> SUFFICES ASSUME IInv, iwdg \/ wwdg
               PROVE  wd_state_valid
    BY DEF CheckpointBeforeArm, IInv, WatchdogInv
  <2>1. flags = {}
    BY DEF IInv, WatchdogInv
  <2>2. QED
    BY <2>1 DEF IInv, RetainedInv, Settled
<1>2. QED
  BY <1>1, InductiveInvariant, PTL

\* Committed results are never taken back within a session.
THEOREM CommittedResultsRetained == Spec => ResultsRetained
<1>1. TypeOK /\ IInv /\ [Next]_vars =>
        [(flags \cup flags') \cap SessionFlag = {} /\ wd.phase >= 1 =>
          wd'.phase >= wd.phase /\ wd'.fail >= wd.fail
          /\ wd'.skip = wd.skip /\ wd'.pass >= wd.pass]_vars
  <2> SUFFICES ASSUME TypeOK, IInv, Next,
                      (flags \cup flags') \cap SessionFlag = {},
                      wd.phase >= 1
               PROVE  wd'.phase >= wd.phase /\ wd'.fail >= wd.fail
                      /\ wd'.skip = wd.skip /\ wd'.pass >= wd.pass
    OBVIOUS
  <2>1. Settled /\ wd.phase <= PhaseDone /\ pc \notin FreshLabel
    BY DEF IInv, Settled, RetainedInv, StartInv
  <2>2. wd.phase \in Nat /\ wd.pass \in Nat /\ wd.fail \in Nat /\ wd \in WdState
    BY DEF TypeOK, WdState
  <2>3. CASE UNCHANGED wd
    BY <2>2, <2>3
  <2>4. CASE RecordFailure
    BY <2>1, <2>2, <2>4 DEF RecordFailure, Goto, WdState, PhaseDone
  <2>5. CASE IwdgPass
    BY <2>1, <2>2, <2>5 DEF IwdgPass, Goto, WdState, IInv, WatchdogInv
  <2>6. CASE WwdgPass
    BY <2>1, <2>2, <2>6 DEF WwdgPass, Goto, WdState, IInv, WatchdogInv,
                            PhaseDone
  <2>7. ~(WdStateReset \/ StoreCounts \/ SetPhase1)
    BY <2>1 DEF WdStateReset, StoreCounts, SetPhase1, Goto, FreshLabel, IInv,
                Phase0Inv
  <2>8. ~PowerCycle
    BY DEF PowerCycle, SessionFlag
  <2>9. QED
    BY <2>3, <2>4, <2>5, <2>6, <2>7, <2>8
       DEF Next, Firmware, Environment, ReadResetFlags, CheckSession,
           ClearFreshFlags, EnterPhase0, RunCase, ClearFlagsPhase0,
           ArmIwdgTimeout, ArmIwdg, EnterPhase1, ArmWwdg, EnterPhase2,
           PrintSummary, Spin, IwdgFires, WwdgFires, ExternalReset,
           SilentReset, vars
<1>2. QED
  BY <1>1, TypeCorrect, InductiveInvariant, PTL DEF Spec, ResultsRetained

-----------------------------------------------------------------------------
(* A FAIL is explained: a second invariant, on top of the first.           *)

SomeFail == \E c \in Cases : hist.result[c] = "FAIL"
Explained == SomeFail \/ hist.timeout \/ hist.disturbed

\* A recorded failure has a cause, and so has a boot in a watchdog phase that
\* does not find the flag of the watchdog it waits for.
RetainedBlame ==
    Settled =>
        /\ wd.fail # 0 /\ wd.phase >= 1 => Explained
        /\ /\ pc \in {"boot", "check", "phase0", "phase1"}
           /\ wd.phase = 1
           => Explained \/ "IWDG" \in flags
        /\ /\ pc \in {"boot", "check", "phase0", "phase1", "phase2"}
           /\ wd.phase = 2
           => Explained \/ "WWDG" \in flags

CpuBlame ==
    /\ pc \in {"phase0", "phase1", "phase2"} /\ wd.phase \in {1, 2} =>
          reset_flags = flags
    /\ pc = "cases" /\ counts.fail # 0 =>
          \E c \in Cases : c < i /\ hist.result[c] = "FAIL"
    /\ pc \in {"store_pass", "store_fail"} /\ counts.fail # 0 => SomeFail
    /\ pc \in {"store_skip", "clear0", "set_phase1"} /\ wd.fail # 0 => SomeFail
    /\ pc \in {"failed", "done"} => Explained
    /\ summary.verdict = "FAIL" =>
          pc = "halt" /\ wd.phase >= PhaseDone /\ wd.fail # 0

\* A printed FAIL is explained by a failing case, an IWDG that could not be
\* armed, or a reset without a flag in a watchdog phase.
THEOREM FailIsExplained == Spec => []FailExplained
<1>1. Init => RetainedBlame /\ CpuBlame
  <2> SUFFICES ASSUME Init PROVE RetainedBlame /\ CpuBlame
    OBVIOUS
  <2>1. ~Settled
    BY DEF Init, Settled, SessionFlag
  <2>2. pc = "boot" /\ summary.verdict = "none"
    BY DEF Init, NoSummary
  <2>3. QED
    BY <2>1, <2>2 DEF RetainedBlame, CpuBlame
<1>2. /\ TypeOK /\ TypeOK' /\ IInv /\ IInv' /\ RetainedBlame /\ CpuBlame
      /\ [Next]_vars
      => RetainedBlame' /\ CpuBlame'
  <2> SUFFICES ASSUME TypeOK, TypeOK', IInv, IInv', RetainedBlame, CpuBlame,
                      [Next]_vars
               PROVE  RetainedBlame' /\ CpuBlame'
    OBVIOUS
  <2> USE DEF RetainedBlame, CpuBlame, Goto, local, watchdogs
  <2>1. CASE ReadResetFlags
    BY <2>1 DEF ReadResetFlags, Settled, SomeFail, Explained,
        IInv, RunInv, Phase0Inv, StartInv, WatchdogInv, StartLabel, FreshLabel,
        TypeOK, WdState, Hist, PhaseDone
  <2>2. CASE CheckSession
    BY <2>2 DEF CheckSession, Settled, SomeFail, Explained,
        IInv, RunInv, Phase0Inv, StartInv, WatchdogInv, StartLabel, FreshLabel,
        TypeOK, WdState, Hist, PhaseDone
  <2>3. CASE ClearFreshFlags
    BY <2>3 DEF ClearFreshFlags, Settled, SomeFail, Explained,
        IInv, RunInv, Phase0Inv, StartInv, WatchdogInv, StartLabel, FreshLabel,
        TypeOK, WdState, Hist, PhaseDone
  <2>4. CASE EnterPhase0
    <3>1. UNCHANGED <<wd, flags, hist, reset_flags, summary>> /\ Settled
      BY <2>4 DEF EnterPhase0, IInv, RunInv, StartLabel, FreshLabel
    <3>2. \/ pc' = "cases" /\ wd.phase = 0 /\ counts'.fail = 0
          \/ pc' = "phase1" /\ wd.phase # 0
      BY <2>4 DEF EnterPhase0, ZeroCounts
    <3>3. pc = "phase0"
      BY <2>4 DEF EnterPhase0
    <3>4. QED
      BY <3>1, <3>2, <3>3 DEF Settled, SomeFail, Explained
  <2>5. CASE ClearFlagsPhase0
    BY <2>5 DEF ClearFlagsPhase0, Settled, SomeFail, Explained,
        IInv, RunInv, Phase0Inv, StartInv, WatchdogInv, StartLabel, FreshLabel,
        TypeOK, WdState, Hist, PhaseDone
  <2>6. CASE ArmIwdg
    BY <2>6 DEF ArmIwdg, Settled, SomeFail, Explained,
        IInv, RunInv, Phase0Inv, StartInv, WatchdogInv, StartLabel, FreshLabel,
        TypeOK, WdState, Hist, PhaseDone
  <2>7. CASE EnterPhase1
    BY <2>7 DEF EnterPhase1, Settled, SomeFail, Explained,
        IInv, RunInv, Phase0Inv, StartInv, WatchdogInv, StartLabel, FreshLabel,
        TypeOK, WdState, Hist, PhaseDone
  <2>8. CASE ArmWwdg
    BY <2>8 DEF ArmWwdg, Settled, SomeFail, Explained,
        IInv, RunInv, Phase0Inv, StartInv, WatchdogInv, StartLabel, FreshLabel,
        TypeOK, WdState, Hist, PhaseDone
  <2>9. CASE EnterPhase2
    BY <2>9 DEF EnterPhase2, Settled, SomeFail, Explained,
        IInv, RunInv, Phase0Inv, StartInv, WatchdogInv, StartLabel, FreshLabel,
        TypeOK, WdState, Hist, PhaseDone
  <2>10. CASE WdStateReset
    BY <2>10 DEF WdStateReset, Settled, SomeFail, Explained,
        IInv, RunInv, Phase0Inv, StartInv, WatchdogInv, StartLabel, FreshLabel,
        TypeOK, WdState, Hist, PhaseDone
  <2>11. CASE RunCase
    <3>1. PICK r \in Result : /\ counts' = Tally(r)
                              /\ hist' = [hist EXCEPT !.result[i] = r]
      BY <2>11 DEF RunCase
    <3>2. counts'.fail # 0 => r = "FAIL" \/ counts.fail # 0
      BY <3>1 DEF Tally, Result, TypeOK, Counts
    <3>3. hist'.result[i] = r
          /\ \A c \in Cases : c # i => hist'.result[c] = hist.result[c]
      BY <3>1 DEF TypeOK, Hist
    <3>4. i \in Cases /\ \A c \in Cases : c < i => c < i + 1 /\ c # i
      BY DEF TypeOK, Cases
    <3>5. counts'.fail # 0 =>
            \E c \in Cases : c < i + 1 /\ hist'.result[c] = "FAIL"
      BY <2>11, <3>2, <3>3, <3>4 DEF RunCase, Cases
    <3>6. /\ pc = "cases" /\ pc' \in {"cases", "store_pass"}
          /\ pc' = "cases" => i' = i + 1
          /\ UNCHANGED <<wd, flags, summary>>
      BY <2>11 DEF RunCase
    <3>7. wd.phase = 0
      BY <3>6 DEF IInv, Phase0Inv
    <3>8. QED
      BY <3>5, <3>6, <3>7 DEF SomeFail
  <2>12. CASE StoreCounts
    BY <2>12 DEF StoreCounts, Settled, SomeFail, Explained,
        IInv, RunInv, Phase0Inv, StartInv, WatchdogInv, StartLabel, FreshLabel,
        TypeOK, WdState, Hist, PhaseDone
  <2>13. CASE SetPhase1
    BY <2>13 DEF SetPhase1, Settled, SomeFail, Explained,
        IInv, RunInv, Phase0Inv, StartInv, WatchdogInv, StartLabel, FreshLabel,
        TypeOK, WdState, Hist, PhaseDone
  <2>14. CASE ArmIwdgTimeout
    BY <2>14 DEF ArmIwdgTimeout, Settled, SomeFail, Explained,
        IInv, RunInv, Phase0Inv, StartInv, WatchdogInv, StartLabel, FreshLabel,
        TypeOK, WdState, Hist, PhaseDone
  <2>15. CASE RecordFailure
    BY <2>15 DEF RecordFailure, Settled, SomeFail, Explained,
        IInv, RunInv, Phase0Inv, StartInv, WatchdogInv, StartLabel, FreshLabel,
        TypeOK, WdState, Hist, PhaseDone
  <2>16. CASE IwdgPass
    BY <2>16 DEF IwdgPass, Settled, SomeFail, Explained,
        IInv, RunInv, Phase0Inv, StartInv, WatchdogInv, StartLabel, FreshLabel,
        TypeOK, WdState, Hist, PhaseDone
  <2>17. CASE WwdgPass
    BY <2>17 DEF WwdgPass, Settled, SomeFail, Explained,
        IInv, RunInv, Phase0Inv, StartInv, WatchdogInv, StartLabel, FreshLabel,
        TypeOK, WdState, Hist, PhaseDone
  <2>18. CASE PrintSummary
    BY <2>18 DEF PrintSummary, Settled, SomeFail, Explained,
        IInv, RunInv, Phase0Inv, StartInv, WatchdogInv, StartLabel, FreshLabel,
        TypeOK, WdState, Hist, PhaseDone
  <2>19. CASE Spin
    BY <2>19 DEF Spin, vars, Settled, SomeFail, Explained
  <2>20. CASE IwdgFires
    <3>1. wd.phase = 1 /\ "IWDG" \in flags' /\ pc' = "boot"
          /\ summary'.verdict = "none" /\ UNCHANGED wd /\ Settled
      BY <2>20 DEF IwdgFires, Reboot, NoSummary, IInv, WatchdogInv, Settled
    <3>2. Explained => Explained'
      BY <2>20 DEF IwdgFires, TypeOK, Hist, Explained, SomeFail
    <3>3. QED
      BY <3>1, <3>2
  <2>21. CASE WwdgFires
    <3>1. wd.phase = 2 /\ "WWDG" \in flags' /\ pc' = "boot"
          /\ summary'.verdict = "none" /\ UNCHANGED wd /\ Settled
      BY <2>21 DEF WwdgFires, Reboot, NoSummary, IInv, WatchdogInv, Settled
    <3>2. Explained => Explained'
      BY <2>21 DEF WwdgFires, TypeOK, Hist, Explained, SomeFail
    <3>3. QED
      BY <3>1, <3>2
  <2>22. CASE ExternalReset
    <3>1. ~Settled'
      BY <2>22 DEF ExternalReset, Settled, SessionFlag
    <3>2. pc' = "boot" /\ summary'.verdict = "none"
      BY <2>22 DEF ExternalReset, Reboot, NoSummary
    <3>3. QED
      BY <3>1, <3>2
  <2>23. CASE PowerCycle
    <3>1. ~Settled'
      BY <2>23 DEF PowerCycle, Settled, SessionFlag
    <3>2. pc' = "boot" /\ summary'.verdict = "none"
      BY <2>23 DEF PowerCycle, Reboot, NoSummary
    <3>3. QED
      BY <3>1, <3>2
  <2>24. CASE SilentReset
    <3>1. pc' = "boot" /\ summary'.verdict = "none" /\ UNCHANGED <<wd, flags>>
      BY <2>24 DEF SilentReset, Reboot, NoSummary
    <3>2. Explained => Explained'
      BY <2>24 DEF SilentReset, TypeOK, Hist, Explained, SomeFail
    <3>3. Settled /\ wd.phase \in {1, 2} => Explained'
      BY <2>24 DEF SilentReset, TypeOK, Hist, Explained, Settled
    <3>4. QED
      BY <3>1, <3>2, <3>3 DEF Settled
  <2>25. CASE UNCHANGED vars
    BY <2>25 DEF vars, Settled, SomeFail, Explained
  <2>26. QED
    BY <2>1, <2>2, <2>3, <2>4, <2>5, <2>6, <2>7, <2>8, <2>9, <2>10, <2>11,
       <2>12, <2>13, <2>14, <2>15, <2>16, <2>17, <2>18, <2>19, <2>20, <2>21,
       <2>22, <2>23, <2>24, <2>25 DEF Next, Firmware, Environment
<1>3. IInv /\ RetainedBlame /\ CpuBlame => FailExplained
  BY DEF FailExplained, IInv, RunInv, StartLabel, FreshLabel, RetainedBlame,
         CpuBlame, PhaseDone, Explained, SomeFail, TypeOK, WdState
<1>4. QED
  BY <1>1, <1>2, <1>3, TypeCorrect, InductiveInvariant, PTL DEF Spec

-----------------------------------------------------------------------------
(* The numbers of the printed summary: for any number of cases and resets   *)
(* they are the results of the session, unless a reset without a flag fell  *)
(* into a watchdog phase.  The inductive invariant, on top of IInv.         *)

\* From the reset of a watchdog to the store that acts on it.
WakeLabel == {"boot", "check", "phase0", "phase1"}
IwdgWake == WakeLabel \cup {"iwdg_pass", "iwdg_clear", "iwdg_phase"}
WwdgWake == WakeLabel \cup {"phase2", "wwdg_pass", "wwdg_clear", "wwdg_phase"}

\* The verdict on a watchdog is in wd.pass, the arming time-out in wd.fail.
IwdgCounted ==
    hist.iwdg /\ (wd.phase >= 2 \/ pc \in {"iwdg_clear", "iwdg_phase"})
WwdgCounted ==
    hist.wwdg /\ (wd.phase >= 3 \/ pc \in {"wwdg_clear", "wwdg_phase"})
TimeoutCounted == hist.timeout /\ pc # "failed"

\* Which watchdogs have fired, from the phase and the place in main().
FiredInv ==
    /\ ~Settled \/ wd.phase = 0 => ~hist.iwdg /\ ~hist.wwdg /\ ~hist.timeout
    /\ Settled /\ wd.phase = 1 =>
          /\ hist.iwdg <=> pc \in IwdgWake
          /\ hist.timeout <=> pc \in {"failed", "done"}
          /\ ~hist.wwdg
          /\ pc \in WakeLabel => "IWDG" \in flags
    /\ Settled /\ wd.phase = 2 =>
          /\ hist.iwdg
          /\ ~hist.timeout
          /\ hist.wwdg <=> pc \in WwdgWake
          /\ pc \in WakeLabel \cup {"phase2"} => "WWDG" \in flags
          /\ pc \notin {"failed", "done"}
    /\ pc \in {"phase0", "phase1", "phase2"} /\ wd.phase \in {1, 2} =>
          reset_flags = flags

\* What the retained counters hold once the cases are committed.
TallyInv ==
    Settled /\ wd.phase >= 1 =>
        /\ wd.pass = CountOf("PASS") + (IF IwdgCounted THEN 1 ELSE 0)
                                     + (IF WwdgCounted THEN 1 ELSE 0)
        /\ wd.fail = CountOf("FAIL") + (IF TimeoutCounted THEN 1 ELSE 0)
        /\ wd.skip = CountOf("SKIP")

\* The results of the cases before n.
Before(r, n) == {c \in Cases : c < n /\ hist.result[c] = r}

\* What the local counters hold while the cases run, and how far the stores
\* that commit them have come.
CasesInv ==
    /\ pc = "cases" =>
          /\ counts.pass = Cardinality(Before("PASS", i))
          /\ counts.fail = Cardinality(Before("FAIL", i))
          /\ counts.skip = Cardinality(Before("SKIP", i))
    /\ pc = "store_pass" => counts.pass = CountOf("PASS")
    /\ pc \in {"store_pass", "store_fail"} => counts.fail = CountOf("FAIL")
    /\ pc \in {"store_pass", "store_fail", "store_skip"} =>
          counts.skip = CountOf("SKIP")
    /\ pc \in {"store_fail", "store_skip", "clear0", "set_phase1"} =>
          wd.pass = CountOf("PASS")
    /\ pc \in {"store_skip", "clear0", "set_phase1"} =>
          wd.fail = CountOf("FAIL")
    /\ pc \in {"clear0", "set_phase1"} => wd.skip = CountOf("SKIP")

\* The summary is the record, printed at the end only.
PrintedInv ==
    Printed =>
        /\ pc = "halt" /\ wd.phase >= PhaseDone
        /\ summary.pass = wd.pass
        /\ summary.fail = wd.fail
        /\ summary.skip = wd.skip

CountInv ==
    /\ CasesInv
    /\ PrintedInv
    /\ ~hist.disturbed => FiredInv /\ TallyInv
-----------------------------------------------------------------------------
(* Counting the results.                                                   *)

\* The counts are numbers.
LEMMA CountIsNat ==
    \A r : /\ CountOf(r) \in Nat
           /\ \A n : /\ IsFiniteSet(Before(r, n))
                    /\ Cardinality(Before(r, n)) \in Nat
<1>1. IsFiniteSet(Cases)
  BY FS_Interval, SelftestAssumption DEF Cases, SelftestAssumption
<1>2. ASSUME NEW r PROVE CountOf(r) \in Nat
  <2>1. {c \in Cases : hist.result[c] = r} \in SUBSET Cases
    OBVIOUS
  <2>2. IsFiniteSet({c \in Cases : hist.result[c] = r})
    BY <1>1, <2>1, FS_Subset
  <2>3. QED
    BY <2>2, FS_CardinalityType DEF CountOf
<1>3. ASSUME NEW r, NEW n
      PROVE  IsFiniteSet(Before(r, n)) /\ Cardinality(Before(r, n)) \in Nat
  <2>1. Before(r, n) \in SUBSET Cases
    BY DEF Before
  <2>2. IsFiniteSet(Before(r, n))
    BY <1>1, <2>1, FS_Subset
  <2>3. QED
    BY <2>2, FS_CardinalityType
<1>4. QED
  BY <1>2, <1>3

\* They rest on the results alone.
LEMMA SameCounts ==
    hist'.result = hist.result =>
        /\ CountOf("PASS")' = CountOf("PASS")
        /\ CountOf("FAIL")' = CountOf("FAIL")
        /\ CountOf("SKIP")' = CountOf("SKIP")
  BY DEF CountOf

\* A case adds its result to the count of that result and to no other.
LEMMA OneMore ==
    ASSUME TypeOK, NEW r \in Result, NEW q \in Result,
           hist' = [hist EXCEPT !.result[i] = r]
    PROVE  Cardinality({c \in Cases : c < i + 1 /\ hist'.result[c] = q})
             = Cardinality(Before(q, i)) + (IF q = r THEN 1 ELSE 0)
<1> DEFINE New == {c \in Cases : c < i + 1 /\ hist'.result[c] = q}
<1>1. /\ i \in Cases /\ i \in Int /\ Cases \subseteq Int
      /\ hist'.result[i] = r
      /\ \A c \in Cases : c # i => hist'.result[c] = hist.result[c]
  <2>1. i \in Cases /\ hist.result \in [Cases -> Result \cup {"none"}]
        /\ hist'.result = [hist.result EXCEPT ![i] = r]
    BY DEF TypeOK, Hist
  <2>2. Cases \subseteq Int
    BY SelftestAssumption DEF Cases, SelftestAssumption
  <2>3. QED
    BY <2>1, <2>2
<1>2. i \notin Before(q, i)
  BY <1>1 DEF Before
<1>3. IsFiniteSet(Before(q, i)) /\ Cardinality(Before(q, i)) \in Nat
  BY CountIsNat
<1>4. CASE q = r
  <2>1. New = Before(q, i) \cup {i}
    BY <1>1, <1>4 DEF Before
  <2>2. Cardinality(New) = Cardinality(Before(q, i)) + 1
    BY <1>2, <1>3, <2>1, FS_AddElement
  <2>3. QED
    BY <1>4, <2>2
<1>5. CASE q # r
  <2>1. New = Before(q, i)
    BY <1>1, <1>5 DEF Before
  <2>2. QED
    BY <1>3, <1>5, <2>1
<1>6. QED
  BY <1>4, <1>5

-----------------------------------------------------------------------------
(* The cases and their commitment.                                         *)

\* No step breaks the account of the cases.
LEMMA CasesStep ==
    TypeOK /\ TypeOK' /\ CasesInv /\ [Next]_vars => CasesInv'
<1> SUFFICES ASSUME TypeOK, TypeOK', CasesInv, [Next]_vars
             PROVE  CasesInv'
  OBVIOUS
<1> USE DEF Goto, local, watchdogs
<1>1. CASE EnterPhase0
  <2>1. pc' \in {"cases", "phase1"} /\ (pc' = "cases" =>
          i' = 1 /\ counts' = ZeroCounts)
    BY <1>1 DEF EnterPhase0
  <2>2. i' = 1 => \A r \in Result : Before(r, i)' = {}
    BY DEF Before, Cases
  <2>3. QED
    BY <2>1, <2>2, FS_EmptySet DEF CasesInv, ZeroCounts, Result
<1>2. CASE RunCase
  <2>1. PICK r \in Result : /\ counts' = Tally(r)
                            /\ hist' = [hist EXCEPT !.result[i] = r]
    BY <1>2 DEF RunCase
  <2> DEFINE Upto(q) == {c \in Cases : c < i + 1 /\ hist'.result[c] = q}
  <2>2. \A q \in Result : Cardinality(Upto(q))
          = Cardinality(Before(q, i)) + (IF q = r THEN 1 ELSE 0)
    BY <2>1, OneMore
  <2>3. /\ counts.pass = Cardinality(Before("PASS", i))
        /\ counts.fail = Cardinality(Before("FAIL", i))
        /\ counts.skip = Cardinality(Before("SKIP", i))
    BY <1>2 DEF RunCase, CasesInv
  <2>4. /\ counts'.pass = counts.pass + (IF "PASS" = r THEN 1 ELSE 0)
        /\ counts'.fail = counts.fail + (IF "FAIL" = r THEN 1 ELSE 0)
        /\ counts'.skip = counts.skip + (IF "SKIP" = r THEN 1 ELSE 0)
    BY <2>1 DEF Tally, TypeOK, Counts, Result
  <2>5. /\ counts'.pass = Cardinality(Upto("PASS"))
        /\ counts'.fail = Cardinality(Upto("FAIL"))
        /\ counts'.skip = Cardinality(Upto("SKIP"))
    BY <2>2, <2>3, <2>4 DEF Result
  <2>6. CASE i = NumCases
    <3>1. pc' = "store_pass"
      BY <1>2, <2>6 DEF RunCase
    <3>2. \A c \in Cases : c < i + 1
      BY <2>6, SelftestAssumption DEF Cases, SelftestAssumption
    <3>3. /\ CountOf("PASS")' = Cardinality(Upto("PASS"))
          /\ CountOf("FAIL")' = Cardinality(Upto("FAIL"))
          /\ CountOf("SKIP")' = Cardinality(Upto("SKIP"))
      BY <3>2 DEF CountOf
    <3>4. QED
      BY <2>5, <3>1, <3>3 DEF CasesInv
  <2>7. CASE i # NumCases
    <3>1. pc' = "cases" /\ i' = i + 1
      BY <1>2, <2>7 DEF RunCase
    <3>2. /\ Before("PASS", i)' = Upto("PASS")
          /\ Before("FAIL", i)' = Upto("FAIL")
          /\ Before("SKIP", i)' = Upto("SKIP")
      BY <3>1 DEF Before
    <3>3. QED
      BY <2>5, <3>1, <3>2 DEF CasesInv
  <2>8. QED
    BY <2>6, <2>7
<1>3. CASE StoreCounts
  <2>1. /\ CountOf("PASS")' = CountOf("PASS")
        /\ CountOf("FAIL")' = CountOf("FAIL")
        /\ CountOf("SKIP")' = CountOf("SKIP")
    BY <1>3, SameCounts DEF StoreCounts
  <2>2. QED
    BY <1>3, <2>1 DEF StoreCounts, CasesInv, TypeOK, WdState
<1>4. CASE ClearFlagsPhase0
  <2>1. /\ CountOf("PASS")' = CountOf("PASS")
        /\ CountOf("FAIL")' = CountOf("FAIL")
        /\ CountOf("SKIP")' = CountOf("SKIP")
    BY <1>4, SameCounts DEF ClearFlagsPhase0
  <2>2. QED
    BY <1>4, <2>1 DEF ClearFlagsPhase0, CasesInv
<1>5. CASE UNCHANGED vars
  BY <1>5 DEF vars, CasesInv, CountOf, Before
<1>6. CASE \/ ReadResetFlags \/ CheckSession \/ WdStateReset
           \/ ClearFreshFlags \/ SetPhase1 \/ ArmIwdgTimeout \/ ArmIwdg
           \/ RecordFailure \/ EnterPhase1 \/ IwdgPass \/ ArmWwdg
           \/ EnterPhase2 \/ WwdgPass \/ PrintSummary \/ Environment
  <2>1. pc' \notin {"cases", "store_pass", "store_fail", "store_skip",
                    "clear0", "set_phase1"}
    BY <1>6 DEF ReadResetFlags, CheckSession, WdStateReset, ClearFreshFlags,
                SetPhase1, ArmIwdgTimeout, ArmIwdg, RecordFailure,
                EnterPhase1, IwdgPass, ArmWwdg, EnterPhase2, WwdgPass,
                PrintSummary, Environment, IwdgFires, WwdgFires,
                ExternalReset, PowerCycle, SilentReset, Reboot
  <2>2. QED
    BY <2>1 DEF CasesInv
<1>7. QED
  BY <1>1, <1>2, <1>3, <1>4, <1>5, <1>6 DEF Next, Firmware, Spin

\* The printed summary stays what the record holds.
LEMMA PrintedStep ==
    TypeOK /\ IInv /\ PrintedInv /\ [Next]_vars => PrintedInv'
<1> SUFFICES ASSUME TypeOK, IInv, PrintedInv, [Next]_vars
             PROVE  PrintedInv'
  OBVIOUS
<1> USE DEF PrintedInv, Printed
<1>1. CASE PrintSummary
  BY <1>1 DEF PrintSummary, Goto, TypeOK, Summary
<1>2. CASE Environment
  BY <1>2 DEF Environment, IwdgFires, WwdgFires, ExternalReset, PowerCycle,
              SilentReset, Reboot, NoSummary
<1>3. CASE UNCHANGED vars
  BY <1>3 DEF vars
<1>4. CASE pc # "halt" /\ UNCHANGED summary
  BY <1>4
<1>5. QED
  BY <1>1, <1>2, <1>3, <1>4
     DEF Next, Firmware, Spin, Goto, ReadResetFlags, CheckSession,
         WdStateReset, ClearFreshFlags, EnterPhase0, RunCase, StoreCounts,
         ClearFlagsPhase0, SetPhase1, ArmIwdgTimeout, ArmIwdg, RecordFailure,
         EnterPhase1, IwdgPass, ArmWwdg, EnterPhase2, WwdgPass
-----------------------------------------------------------------------------
(* The watchdogs and the record.                                           *)

\* Without a disturbing reset, what fired and what is counted keep agreeing.
LEMMA FiredStep ==
    /\ TypeOK /\ TypeOK' /\ IInv /\ CasesInv /\ [Next]_vars
    /\ ~hist.disturbed => FiredInv /\ TallyInv
    /\ ~hist'.disturbed
    => FiredInv' /\ TallyInv'
<1> SUFFICES ASSUME TypeOK, TypeOK', IInv, CasesInv, [Next]_vars,
                    ~hist.disturbed => FiredInv /\ TallyInv,
                    ~hist'.disturbed
             PROVE  FiredInv' /\ TallyInv'
  OBVIOUS
<1> DEFINE Numbers ==
      /\ CountOf("PASS")' = CountOf("PASS")
      /\ CountOf("FAIL")' = CountOf("FAIL")
      /\ CountOf("SKIP")' = CountOf("SKIP")
<1>1. /\ wd \in WdState /\ wd' \in WdState /\ hist \in Hist
      /\ CountOf("PASS") \in Nat /\ CountOf("FAIL") \in Nat
      /\ CountOf("SKIP") \in Nat
  BY CountIsNat DEF TypeOK
<1>2. ASSUME hist' = hist
      PROVE  FiredInv /\ TallyInv /\ Numbers
  BY <1>2, SameCounts
<1> USE DEF Goto, local, watchdogs, FiredInv, TallyInv, IwdgCounted,
            WwdgCounted, TimeoutCounted, WakeLabel, IwdgWake, WwdgWake
<1>3. CASE ReadResetFlags
  <2>1. UNCHANGED hist
    BY <1>3 DEF ReadResetFlags
  <2>2. QED
    BY <1>1, <1>2, <1>3, <2>1
       DEF ReadResetFlags, Settled, WdState, PhaseDone, IInv, RetainedInv,
           StartInv, RunInv, Phase0Inv, WatchdogInv, StartLabel, FreshLabel,
           CasesInv
<1>4. CASE CheckSession
  <2>1. UNCHANGED hist
    BY <1>4 DEF CheckSession
  <2>2. QED
    BY <1>1, <1>2, <1>4, <2>1
       DEF CheckSession, Settled, WdState, PhaseDone, IInv, RetainedInv,
           StartInv, RunInv, Phase0Inv, WatchdogInv, StartLabel, FreshLabel,
           CasesInv, FreshFlags, SessionFlag, ExternalFlag
<1>5. CASE ClearFreshFlags
  <2>1. UNCHANGED hist
    BY <1>5 DEF ClearFreshFlags
  <2>2. QED
    BY <1>1, <1>2, <1>5, <2>1
       DEF ClearFreshFlags, Settled, WdState, PhaseDone, IInv, RetainedInv,
           StartInv, RunInv, Phase0Inv, WatchdogInv, StartLabel, FreshLabel,
           CasesInv
<1>6. CASE EnterPhase0
  <2>1. UNCHANGED hist
    BY <1>6 DEF EnterPhase0
  <2>2. QED
    BY <1>1, <1>2, <1>6, <2>1
       DEF EnterPhase0, Settled, WdState, PhaseDone, IInv, RetainedInv,
           StartInv, RunInv, Phase0Inv, WatchdogInv, StartLabel, FreshLabel,
           CasesInv
<1>7. CASE ClearFlagsPhase0
  <2>1. UNCHANGED hist
    BY <1>7 DEF ClearFlagsPhase0
  <2>2. QED
    BY <1>1, <1>2, <1>7, <2>1
       DEF ClearFlagsPhase0, Settled, WdState, PhaseDone, IInv, RetainedInv,
           StartInv, RunInv, Phase0Inv, WatchdogInv, StartLabel, FreshLabel,
           CasesInv
<1>8. CASE ArmIwdg
  <2>1. UNCHANGED hist
    BY <1>8 DEF ArmIwdg
  <2>2. QED
    BY <1>1, <1>2, <1>8, <2>1
       DEF ArmIwdg, Settled, WdState, PhaseDone, IInv, RetainedInv,
           StartInv, RunInv, Phase0Inv, WatchdogInv, StartLabel, FreshLabel,
           CasesInv
<1>9. CASE EnterPhase1
  <2>1. UNCHANGED hist
    BY <1>9 DEF EnterPhase1
  <2>2. QED
    BY <1>1, <1>2, <1>9, <2>1
       DEF EnterPhase1, Settled, WdState, PhaseDone, IInv, RetainedInv,
           StartInv, RunInv, Phase0Inv, WatchdogInv, StartLabel, FreshLabel,
           CasesInv
<1>10. CASE ArmWwdg
  <2>1. UNCHANGED hist
    BY <1>10 DEF ArmWwdg
  <2>2. QED
    BY <1>1, <1>2, <1>10, <2>1
       DEF ArmWwdg, Settled, WdState, PhaseDone, IInv, RetainedInv,
           StartInv, RunInv, Phase0Inv, WatchdogInv, StartLabel, FreshLabel,
           CasesInv
<1>11. CASE EnterPhase2
  <2>1. UNCHANGED hist
    BY <1>11 DEF EnterPhase2
  <2>2. QED
    BY <1>1, <1>2, <1>11, <2>1
       DEF EnterPhase2, Settled, WdState, PhaseDone, IInv, RetainedInv,
           StartInv, RunInv, Phase0Inv, WatchdogInv, StartLabel, FreshLabel,
           CasesInv
<1>12. CASE WdStateReset
  <2>1. UNCHANGED hist
    BY <1>12 DEF WdStateReset
  <2>2. QED
    BY <1>1, <1>2, <1>12, <2>1
       DEF WdStateReset, Settled, WdState, PhaseDone, IInv, RetainedInv,
           StartInv, RunInv, Phase0Inv, WatchdogInv, StartLabel, FreshLabel,
           CasesInv
<1>13. CASE StoreCounts
  <2>1. UNCHANGED hist
    BY <1>13 DEF StoreCounts
  <2>2. QED
    BY <1>1, <1>2, <1>13, <2>1
       DEF StoreCounts, Settled, WdState, PhaseDone, IInv, RetainedInv,
           StartInv, RunInv, Phase0Inv, WatchdogInv, StartLabel, FreshLabel,
           CasesInv
<1>14. CASE SetPhase1
  <2>1. UNCHANGED hist
    BY <1>14 DEF SetPhase1
  <2>2. QED
    BY <1>1, <1>2, <1>14, <2>1
       DEF SetPhase1, Settled, WdState, PhaseDone, IInv, RetainedInv,
           StartInv, RunInv, Phase0Inv, WatchdogInv, StartLabel, FreshLabel,
           CasesInv
<1>15. CASE ArmIwdgTimeout
  <2>1. /\ ~hist.disturbed /\ hist'.result = hist.result
        /\ hist'.iwdg = hist.iwdg /\ hist'.wwdg = hist.wwdg /\ hist'.timeout
    BY <1>15 DEF ArmIwdgTimeout, TypeOK, Hist
  <2>2. Numbers
    BY <2>1, SameCounts
  <2>3. wd.phase = 1 /\ Settled
    BY <1>15 DEF ArmIwdgTimeout, IInv, Phase0Inv, RunInv, StartLabel,
                 FreshLabel
  <2>4. QED
    BY <1>1, <1>15, <2>1, <2>2, <2>3 DEF ArmIwdgTimeout, Settled, WdState
<1>16. CASE RecordFailure
  <2>1. UNCHANGED hist
    BY <1>16 DEF RecordFailure
  <2>2. QED
    BY <1>1, <1>2, <1>16, <2>1
       DEF RecordFailure, Settled, WdState, PhaseDone, IInv, RetainedInv,
           StartInv, RunInv, Phase0Inv, WatchdogInv, StartLabel, FreshLabel,
           CasesInv
<1>17. CASE IwdgPass
  <2>1. UNCHANGED hist
    BY <1>17 DEF IwdgPass
  <2>2. QED
    BY <1>1, <1>2, <1>17, <2>1
       DEF IwdgPass, Settled, WdState, PhaseDone, IInv, RetainedInv,
           StartInv, RunInv, Phase0Inv, WatchdogInv, StartLabel, FreshLabel,
           CasesInv
<1>18. CASE WwdgPass
  <2>1. UNCHANGED hist
    BY <1>18 DEF WwdgPass
  <2>2. QED
    BY <1>1, <1>2, <1>18, <2>1
       DEF WwdgPass, Settled, WdState, PhaseDone, IInv, RetainedInv,
           StartInv, RunInv, Phase0Inv, WatchdogInv, StartLabel, FreshLabel,
           CasesInv
<1>19. CASE PrintSummary
  <2>1. UNCHANGED hist
    BY <1>19 DEF PrintSummary
  <2>2. QED
    BY <1>1, <1>2, <1>19, <2>1
       DEF PrintSummary, Settled, WdState, PhaseDone, IInv, RetainedInv,
           StartInv, RunInv, Phase0Inv, WatchdogInv, StartLabel, FreshLabel,
           CasesInv
<1>20. CASE RunCase
  <2>1. PICK r \in Result : hist' = [hist EXCEPT !.result[i] = r]
    BY <1>20 DEF RunCase
  <2>2. /\ ~hist.disturbed /\ hist'.iwdg = hist.iwdg
        /\ hist'.wwdg = hist.wwdg /\ hist'.timeout = hist.timeout
    BY <2>1 DEF TypeOK, Hist
  <2>3. wd.phase = 0 /\ Settled /\ pc' \in {"cases", "store_pass"}
        /\ UNCHANGED <<wd, flags>>
    BY <1>20 DEF RunCase, IInv, Phase0Inv, RunInv, StartLabel, FreshLabel
  <2>4. QED
    BY <2>2, <2>3 DEF Settled
<1>21. CASE Spin \/ UNCHANGED vars
  <2>1. UNCHANGED vars
    BY <1>21 DEF Spin
  <2>2. QED
    BY <1>2, <2>1 DEF vars, Settled
<1>22. CASE IwdgFires
  <2>1. /\ ~hist.disturbed /\ hist'.result = hist.result
        /\ hist'.wwdg = hist.wwdg /\ hist'.timeout = hist.timeout /\ hist'.iwdg
    BY <1>22 DEF IwdgFires, TypeOK, Hist
  <2>2. Numbers
    BY <2>1, SameCounts
  <2>3. /\ pc = "spin" /\ wd.phase = 1 /\ Settled /\ Settled'
        /\ "IWDG" \in flags' /\ pc' = "boot" /\ UNCHANGED wd
    BY <1>22 DEF IwdgFires, Reboot, IInv, WatchdogInv, Settled, SessionFlag,
                 ExternalFlag
  <2>4. QED
    BY <2>1, <2>2, <2>3
<1>23. CASE WwdgFires
  <2>1. /\ ~hist.disturbed /\ hist'.result = hist.result
        /\ hist'.iwdg = hist.iwdg /\ hist'.timeout = hist.timeout /\ hist'.wwdg
    BY <1>23 DEF WwdgFires, TypeOK, Hist
  <2>2. Numbers
    BY <2>1, SameCounts
  <2>3. /\ pc = "spin" /\ wd.phase = 2 /\ Settled /\ Settled'
        /\ "WWDG" \in flags' /\ pc' = "boot" /\ UNCHANGED wd
    BY <1>23 DEF WwdgFires, Reboot, IInv, WatchdogInv, Settled, SessionFlag,
                 ExternalFlag
  <2>4. QED
    BY <2>1, <2>2, <2>3
<1>24. CASE ExternalReset
  <2>1. ~Settled' /\ pc' = "boot"
    BY <1>24 DEF ExternalReset, Reboot, Settled, SessionFlag
  <2>2. ~hist'.iwdg /\ ~hist'.wwdg /\ ~hist'.timeout
    BY <1>24 DEF ExternalReset, FreshHist
  <2>3. QED
    BY <2>1, <2>2
<1>25. CASE PowerCycle
  <2>1. ~Settled' /\ pc' = "boot"
    BY <1>25 DEF PowerCycle, Reboot, Settled, SessionFlag
  <2>2. ~hist'.iwdg /\ ~hist'.wwdg /\ ~hist'.timeout
    BY <1>25 DEF PowerCycle, FreshHist
  <2>3. QED
    BY <2>1, <2>2
<1>26. CASE SilentReset
  <2>1. /\ ~hist.disturbed /\ hist'.result = hist.result
        /\ hist'.iwdg = hist.iwdg /\ hist'.wwdg = hist.wwdg
        /\ hist'.timeout = hist.timeout
        /\ ~(Settled /\ wd.phase \in {1, 2})
    BY <1>26 DEF SilentReset, TypeOK, Hist, Settled
  <2>2. Numbers
    BY <2>1, SameCounts
  <2>3. pc' = "boot" /\ UNCHANGED <<wd, flags>>
    BY <1>26 DEF SilentReset, Reboot
  <2>4. Settled' = Settled
    BY <2>3 DEF Settled
  <2>5. Settled /\ wd.phase >= 1 => wd.phase = 3 /\ pc # "failed"
    BY <1>1, <2>1 DEF IInv, RetainedInv, WatchdogInv, PhaseDone, WdState
  <2>6. QED
    BY <2>1, <2>2, <2>3, <2>4, <2>5
<1>27. QED
  BY <1>3, <1>4, <1>5, <1>6, <1>7, <1>8, <1>9, <1>10, <1>11,
     <1>12, <1>13, <1>14, <1>15, <1>16, <1>17, <1>18, <1>19,
     <1>20, <1>21, <1>22, <1>23, <1>24, <1>25, <1>26
     DEF Next, Firmware, Environment

-----------------------------------------------------------------------------
(* What the summary says.                                                  *)

\* The printed numbers are the results of this session: no reset makes a case
\* or a watchdog count twice, or not at all, unless it leaves no flag and falls
\* into a watchdog phase.
THEOREM SummaryCounts == Spec => []SummaryExact
<1>1. Init => CountInv
  <2> SUFFICES ASSUME Init PROVE CountInv
    OBVIOUS
  <2>1. ~Settled /\ pc = "boot" /\ summary.verdict = "none"
    BY DEF Init, Settled, SessionFlag, NoSummary
  <2>2. ~hist.iwdg /\ ~hist.wwdg /\ ~hist.timeout
    BY DEF Init, FreshHist
  <2>3. QED
    BY <2>1, <2>2 DEF CountInv, CasesInv, PrintedInv, Printed, FiredInv,
                      TallyInv
<1>2. TypeOK /\ TypeOK' /\ IInv /\ CountInv /\ [Next]_vars => CountInv'
  BY CasesStep, PrintedStep, FiredStep DEF CountInv
<1>3. TypeOK /\ IInv /\ CountInv => SummaryExact
  <2> SUFFICES ASSUME TypeOK, IInv, CountInv, Printed, ~hist.disturbed
               PROVE  /\ summary.pass = CountOf("PASS")
                                          + (IF hist.iwdg THEN 1 ELSE 0)
                                          + (IF hist.wwdg THEN 1 ELSE 0)
                      /\ summary.fail = CountOf("FAIL")
                                          + (IF hist.timeout THEN 1 ELSE 0)
                      /\ summary.skip = CountOf("SKIP")
    BY DEF SummaryExact
  <2>1. pc = "halt" /\ wd.phase >= 3 /\ wd.phase \in Nat
    BY DEF CountInv, PrintedInv, PhaseDone, TypeOK, WdState
  <2>2. Settled
    BY <2>1 DEF IInv, RunInv, StartLabel, FreshLabel
  <2>3. /\ IwdgCounted <=> hist.iwdg
        /\ WwdgCounted <=> hist.wwdg
        /\ TimeoutCounted <=> hist.timeout
    BY <2>1 DEF IwdgCounted, WwdgCounted, TimeoutCounted
  <2>4. QED
    BY <2>1, <2>2, <2>3 DEF CountInv, TallyInv, PrintedInv
<1>4. QED
  BY <1>1, <1>2, <1>3, TypeCorrect, InductiveInvariant, PTL DEF Spec
=============================================================================
