------------------------------ MODULE Selftest ------------------------------
(***************************************************************************)
(* The session manager of the CH32V003 integrated self-test                *)
(* (ch32v0/selftest/selftest_main.c).  One test session spans several      *)
(* boots: the normal cases run in the first, then the IWDG and the WWDG    *)
(* are left to reset the part, and the verdict is carried from boot to     *)
(* boot in wd_state, a structure in .noinit RAM that no reset clears.      *)
(*                                                                         *)
(* A step is one store to retained state (wd_state or the sticky flags of  *)
(* RCC_RSTSCKR) or one decision of main(), so that a reset can fall        *)
(* between any two of them.  Console text is left out but for the summary. *)
(***************************************************************************)
EXTENDS Integers, FiniteSets

CONSTANTS
    NumCases,       \* number of entries of the registry selftest_cases[]
    MaxResets,      \* bound: resets from outside (external or silent)
    PowerOnPhases,  \* phases .noinit RAM may hold when power comes up
    PowerOnCounts   \* counter values .noinit RAM may hold at power-up

ASSUME SelftestAssumption ==
    /\ NumCases \in Nat \ {0}
    /\ MaxResets \in Nat
    /\ PowerOnPhases \subseteq Nat
    /\ PowerOnCounts \subseteq Nat

Cases == 1..NumCases

\* selftest_result_t.
Result == {"PASS", "FAIL", "SKIP"}

\* WD_STATE_PHASE_DONE.
PhaseDone == 3

\* The sticky reset flags of RCC_RSTSCKR that main() looks at.
ResetFlag == {"POR", "PIN", "SFT", "LPWR", "IWDG", "WWDG"}

\* Any of these raises a flag that must start a fresh session; they are what
\* the reset controller sets, independently of the mask main() uses.
ExternalFlag == {"PIN", "SFT", "LPWR"}
SessionFlag == ExternalFlag \cup {"POR"}

VARIABLES
    pc,          \* where main() is
    i,           \* run_normal_tests: index of the next case
    counts,      \* run_normal_tests: the local struct selftest_counts
    reset_flags, \* main: the local copy of the flags
    summary,     \* what print_final_summary printed in this boot
    wd,          \* wd_state, retained over resets
    flags,       \* RCC_RSTSCKR, sticky until cleared
    iwdg, wwdg,  \* the watchdog is enabled
    resets,      \* resets from outside so far (bounded by MaxResets)
    hist         \* history of the session, for the properties only

local == <<i, counts, reset_flags>>
watchdogs == <<iwdg, wwdg>>
vars == <<pc, i, counts, reset_flags, summary, wd, flags, iwdg, wwdg,
          resets, hist>>

Label == {"boot", "check", "fresh_magic", "fresh_magic_inv", "fresh_phase",
          "fresh_pass", "fresh_fail", "fresh_skip", "fresh_clear", "phase0",
          "cases", "store_pass", "store_fail", "store_skip", "clear0",
          "set_phase1", "arm_iwdg", "spin", "failed", "done", "phase1",
          "iwdg_pass", "iwdg_clear", "iwdg_phase", "arm_wwdg", "phase2",
          "wwdg_pass", "wwdg_clear", "wwdg_phase", "summary", "halt"}

Counts == [pass : Nat, fail : Nat, skip : Nat]
ZeroCounts == [pass |-> 0, fail |-> 0, skip |-> 0]

\* magic and magic_inv are modelled by whether they hold the expected word.
WdState == [magic : BOOLEAN, magic_inv : BOOLEAN, phase : Nat,
            pass : Nat, fail : Nat, skip : Nat]
PowerOnWd == [magic : BOOLEAN, magic_inv : BOOLEAN, phase : PowerOnPhases,
              pass : PowerOnCounts, fail : PowerOnCounts,
              skip : PowerOnCounts]

NoSummary == [verdict |-> "none", pass |-> 0, fail |-> 0, skip |-> 0]
Summary == [verdict : {"none", "PASS", "FAIL"},
            pass : Nat, fail : Nat, skip : Nat]

\* The session's history: the last result of each case, the watchdogs that
\* did reset the part, whether arming the IWDG timed out, and whether a reset
\* that raises no flag (debugger, core lockup) fell into a watchdog phase.
FreshHist == [result |-> [c \in Cases |-> "none"], iwdg |-> FALSE,
              wwdg |-> FALSE, timeout |-> FALSE, disturbed |-> FALSE]
Hist == [result : [Cases -> Result \cup {"none"}], iwdg : BOOLEAN,
         wwdg : BOOLEAN, timeout : BOOLEAN, disturbed : BOOLEAN]

TypeOK ==
    /\ pc \in Label
    /\ i \in Cases
    /\ counts \in Counts
    /\ reset_flags \subseteq ResetFlag
    /\ summary \in Summary
    /\ wd \in WdState
    /\ flags \subseteq ResetFlag
    /\ iwdg \in BOOLEAN
    /\ wwdg \in BOOLEAN
    /\ resets \in 0..MaxResets
    /\ hist \in Hist

Init ==
    /\ pc = "boot"
    /\ i = 1
    /\ counts = ZeroCounts
    /\ reset_flags = {}
    /\ summary = NoSummary
    /\ wd \in PowerOnWd
    /\ flags = {"POR", "PIN"}
    /\ iwdg = FALSE
    /\ wwdg = FALSE
    /\ resets = 0
    /\ hist = FreshHist

-----------------------------------------------------------------------------
(* main(): the start of every boot.                                        *)

Goto(from, to) == pc = from /\ pc' = to

wd_state_valid == wd.magic /\ wd.magic_inv

FreshFlags_NoPin == {"POR", "SFT", "LPWR"}
FreshFlags_Iwdg == {"PIN", "POR", "SFT", "LPWR", "IWDG"}
\* The mask of main() that selects the resets that start a fresh session.
FreshFlags == {"PIN", "POR", "SFT", "LPWR"}

ReadResetFlags ==
    /\ Goto("boot", "check")
    /\ reset_flags' = flags
    /\ UNCHANGED <<i, counts, summary, wd, flags, watchdogs, resets, hist>>

CheckSession ==
    /\ pc = "check"
    /\ pc' = IF ~wd_state_valid \/ reset_flags \cap FreshFlags # {}
             THEN "fresh_magic" ELSE "phase0"
    /\ UNCHANGED <<local, summary, wd, flags, watchdogs, resets, hist>>

\* wd_state_reset(), one store at a time.  The flags are still up meanwhile.
WdStateReset ==
    /\ \/ /\ Goto("fresh_magic", "fresh_magic_inv")
          /\ wd' = [wd EXCEPT !.magic = TRUE]
       \/ /\ Goto("fresh_magic_inv", "fresh_phase")
          /\ wd' = [wd EXCEPT !.magic_inv = TRUE]
       \/ /\ Goto("fresh_phase", "fresh_pass")
          /\ wd' = [wd EXCEPT !.phase = 0]
       \/ /\ Goto("fresh_pass", "fresh_fail")
          /\ wd' = [wd EXCEPT !.pass = 0]
       \/ /\ Goto("fresh_fail", "fresh_skip")
          /\ wd' = [wd EXCEPT !.fail = 0]
       \/ /\ Goto("fresh_skip", "fresh_clear")
          /\ wd' = [wd EXCEPT !.skip = 0]
    /\ UNCHANGED <<local, summary, flags, watchdogs, resets, hist>>

ClearFreshFlags ==
    /\ Goto("fresh_clear", "phase0")
    /\ flags' = {}
    /\ reset_flags' = {}
    /\ UNCHANGED <<i, counts, summary, wd, watchdogs, resets, hist>>

-----------------------------------------------------------------------------
(* Phase 0: the normal cases, then the IWDG is armed.                      *)

EnterPhase0 ==
    /\ pc = "phase0"
    /\ IF wd.phase = 0
       THEN pc' = "cases" /\ i' = 1 /\ counts' = ZeroCounts
       ELSE pc' = "phase1" /\ UNCHANGED <<i, counts>>
    /\ UNCHANGED <<reset_flags, summary, wd, flags, watchdogs, resets, hist>>

Tally(r) ==
    CASE r = "PASS" -> [counts EXCEPT !.pass = @ + 1]
      [] r = "SKIP" -> [counts EXCEPT !.skip = @ + 1]
      [] OTHER      -> [counts EXCEPT !.fail = @ + 1]

RunCase_PastTheEnd ==
    /\ pc = "cases"
    /\ \E r \in Result :
          /\ counts' = Tally(r)
          /\ hist' = [hist EXCEPT !.result[i] = r]
    /\ IF i > NumCases
       THEN pc' = "store_pass" /\ UNCHANGED i
       ELSE i' = i + 1 /\ UNCHANGED pc
    /\ UNCHANGED <<reset_flags, summary, wd, flags, watchdogs, resets>>
\* One case of run_normal_tests; the hardware decides its result.
RunCase ==
    /\ pc = "cases"
    /\ \E r \in Result :
          /\ counts' = Tally(r)
          /\ hist' = [hist EXCEPT !.result[i] = r]
    /\ IF i = NumCases
       THEN pc' = "store_pass" /\ UNCHANGED i
       ELSE i' = i + 1 /\ UNCHANGED pc
    /\ UNCHANGED <<reset_flags, summary, wd, flags, watchdogs, resets>>

StoreCounts_FailLost ==
    /\ \/ /\ Goto("store_pass", "store_skip")
          /\ wd' = [wd EXCEPT !.pass = counts.pass]
       \/ /\ Goto("store_skip", "clear0")
          /\ wd' = [wd EXCEPT !.skip = counts.skip]
    /\ UNCHANGED <<local, summary, flags, watchdogs, resets, hist>>
StoreCounts ==
    /\ \/ /\ Goto("store_pass", "store_fail")
          /\ wd' = [wd EXCEPT !.pass = counts.pass]
       \/ /\ Goto("store_fail", "store_skip")
          /\ wd' = [wd EXCEPT !.fail = counts.fail]
       \/ /\ Goto("store_skip", "clear0")
          /\ wd' = [wd EXCEPT !.skip = counts.skip]
    /\ UNCHANGED <<local, summary, flags, watchdogs, resets, hist>>

ClearFlagsPhase0 ==
    /\ Goto("clear0", "set_phase1")
    /\ flags' = {}
    /\ UNCHANGED <<local, summary, wd, watchdogs, resets, hist>>

SetPhase1 ==
    /\ Goto("set_phase1", "arm_iwdg")
    /\ wd' = [wd EXCEPT !.phase = 1]
    /\ UNCHANGED <<local, summary, flags, watchdogs, resets, hist>>

\* arm_iwdg_reset: a wait for LSIRDY, PVU or RVU runs out before the IWDG is
\* enabled and the caller records a failure ...
ArmIwdgTimeout ==
    /\ Goto("arm_iwdg", "failed")
    /\ hist' = [hist EXCEPT !.timeout = TRUE]
    /\ UNCHANGED <<local, summary, wd, flags, watchdogs, resets>>

\* ... or the IWDG is enabled and the CPU spins, for the IWDG to reset it.
ArmIwdg ==
    /\ Goto("arm_iwdg", "spin")
    /\ iwdg' = TRUE
    /\ UNCHANGED <<local, summary, wd, flags, wwdg, resets, hist>>

\* The stores of each failing verdict: fail++, then phase = DONE.  The tests
\* of the phases left all come out false then, from wherever they start.
RecordFailure ==
    /\ \/ /\ Goto("failed", "done")
          /\ wd' = [wd EXCEPT !.fail = @ + 1]
       \/ /\ Goto("done", "phase1")
          /\ wd' = [wd EXCEPT !.phase = PhaseDone]
    /\ UNCHANGED <<local, summary, flags, watchdogs, resets, hist>>

-----------------------------------------------------------------------------
(* Phase 1: judge the IWDG reset, arm the WWDG.                            *)

EnterPhase1_AnyFlag ==
    /\ pc = "phase1"
    /\ pc' = IF wd.phase = 1 THEN "iwdg_pass" ELSE "phase2"
    /\ UNCHANGED <<local, summary, wd, flags, watchdogs, resets, hist>>
EnterPhase1 ==
    /\ pc = "phase1"
    /\ pc' = IF wd.phase # 1 THEN "phase2"
             ELSE IF "IWDG" \in reset_flags THEN "iwdg_pass" ELSE "failed"
    /\ UNCHANGED <<local, summary, wd, flags, watchdogs, resets, hist>>

IwdgPass_NoClear ==
    /\ \/ /\ Goto("iwdg_pass", "iwdg_phase")
          /\ wd' = [wd EXCEPT !.pass = @ + 1]
       \/ /\ Goto("iwdg_phase", "arm_wwdg")
          /\ wd' = [wd EXCEPT !.phase = 2]
    /\ UNCHANGED <<local, summary, flags, watchdogs, resets, hist>>
IwdgPass ==
    /\ \/ /\ Goto("iwdg_pass", "iwdg_clear")
          /\ wd' = [wd EXCEPT !.pass = @ + 1]
          /\ UNCHANGED flags
       \/ /\ Goto("iwdg_clear", "iwdg_phase")
          /\ flags' = {}
          /\ UNCHANGED wd
       \/ /\ Goto("iwdg_phase", "arm_wwdg")
          /\ wd' = [wd EXCEPT !.phase = 2]
          /\ UNCHANGED flags
    /\ UNCHANGED <<local, summary, watchdogs, resets, hist>>

ArmWwdg ==
    /\ Goto("arm_wwdg", "spin")
    /\ wwdg' = TRUE
    /\ UNCHANGED <<local, summary, wd, flags, iwdg, resets, hist>>

-----------------------------------------------------------------------------
(* Phase 2: judge the WWDG reset.  Phase 3: the summary.                   *)

EnterPhase2 ==
    /\ pc = "phase2"
    /\ pc' = IF wd.phase # 2 THEN "summary"
             ELSE IF "WWDG" \in reset_flags THEN "wwdg_pass" ELSE "failed"
    /\ UNCHANGED <<local, summary, wd, flags, watchdogs, resets, hist>>

WwdgPass_PhaseKept ==
    /\ \/ /\ Goto("wwdg_pass", "wwdg_clear")
          /\ wd' = [wd EXCEPT !.pass = @ + 1]
          /\ UNCHANGED flags
       \/ /\ Goto("wwdg_clear", "summary")
          /\ flags' = {}
          /\ UNCHANGED wd
    /\ UNCHANGED <<local, summary, watchdogs, resets, hist>>
WwdgPass ==
    /\ \/ /\ Goto("wwdg_pass", "wwdg_clear")
          /\ wd' = [wd EXCEPT !.pass = @ + 1]
          /\ UNCHANGED flags
       \/ /\ Goto("wwdg_clear", "wwdg_phase")
          /\ flags' = {}
          /\ UNCHANGED wd
       \/ /\ Goto("wwdg_phase", "summary")
          /\ wd' = [wd EXCEPT !.phase = PhaseDone]
          /\ UNCHANGED flags
    /\ UNCHANGED <<local, summary, watchdogs, resets, hist>>

PrintSummary ==
    /\ Goto("summary", "halt")
    /\ summary' = IF wd.phase >= PhaseDone
                  THEN [verdict |-> IF wd.fail = 0 THEN "PASS" ELSE "FAIL",
                        pass |-> wd.pass, fail |-> wd.fail, skip |-> wd.skip]
                  ELSE summary
    /\ UNCHANGED <<local, wd, flags, watchdogs, resets, hist>>

\* for (;;) qingke_nop();
Spin ==
    /\ pc \in {"spin", "halt"}
    /\ UNCHANGED vars

Firmware ==
    \/ ReadResetFlags \/ CheckSession \/ WdStateReset \/ ClearFreshFlags
    \/ EnterPhase0 \/ RunCase \/ StoreCounts \/ ClearFlagsPhase0 \/ SetPhase1
    \/ ArmIwdgTimeout \/ ArmIwdg \/ RecordFailure
    \/ EnterPhase1 \/ IwdgPass \/ ArmWwdg
    \/ EnterPhase2 \/ WwdgPass \/ PrintSummary \/ Spin

-----------------------------------------------------------------------------
(* The resets.  Whatever the cause, the CPU restarts at main() with its    *)
(* locals gone, the watchdogs are off and .noinit RAM keeps its contents.  *)

Reboot ==
    /\ pc' = "boot"
    /\ i' = 1
    /\ counts' = ZeroCounts
    /\ reset_flags' = {}
    /\ summary' = NoSummary
    /\ iwdg' = FALSE
    /\ wwdg' = FALSE

IwdgFires ==
    /\ iwdg
    /\ Reboot
    /\ flags' = flags \cup {"IWDG"}
    /\ hist' = [hist EXCEPT !.iwdg = TRUE]
    /\ UNCHANGED <<wd, resets>>

WwdgFires ==
    /\ wwdg
    /\ Reboot
    /\ flags' = flags \cup {"WWDG"}
    /\ hist' = [hist EXCEPT !.wwdg = TRUE]
    /\ UNCHANGED <<wd, resets>>

\* The reset pin, a software reset or a low-power reset: a new session.
ExternalReset ==
    /\ resets < MaxResets
    /\ Reboot
    /\ \E f \in ExternalFlag : flags' = flags \cup {f}
    /\ hist' = FreshHist
    /\ resets' = resets + 1
    /\ UNCHANGED wd

\* A power cycle: RAM comes up as it likes, which may be unchanged.
PowerCycle ==
    /\ resets < MaxResets
    /\ Reboot
    /\ flags' = {"POR", "PIN"}
    /\ wd' \in PowerOnWd \cup {wd}
    /\ hist' = FreshHist
    /\ resets' = resets + 1

\* A reset that raises none of the flags of RCC_RSTSCKR.
SilentReset ==
    /\ resets < MaxResets
    /\ Reboot
    /\ hist' = [hist EXCEPT !.disturbed =
                   @ \/ (flags \cap SessionFlag = {} /\ wd.phase \in {1, 2})]
    /\ resets' = resets + 1
    /\ UNCHANGED <<wd, flags>>

Environment == IwdgFires \/ WwdgFires \/ ExternalReset \/ PowerCycle
               \/ SilentReset

Next == Firmware \/ Environment

\* The CPU keeps executing, and an enabled watchdog that is never refreshed
\* does run out.  Nothing obliges a reset from outside to happen.
Fairness == WF_vars(Firmware) /\ WF_vars(IwdgFires) /\ WF_vars(WwdgFires)

Spec == Init /\ [][Next]_vars
FairSpec == Spec /\ Fairness

-----------------------------------------------------------------------------
(* Properties.                                                             *)

Printed == summary.verdict # "none"
CountOf(r) == Cardinality({c \in Cases : hist.result[c] = r})

\* A printed PASS is earned: in the session since the last reset that starts a
\* fresh one, every case ran and none failed, and both watchdogs really reset
\* the part - whatever .noinit RAM held at power-on and wherever resets fell.
VerdictHonest ==
    summary.verdict = "PASS" =>
        /\ \A c \in Cases : hist.result[c] \in {"PASS", "SKIP"}
        /\ hist.iwdg
        /\ hist.wwdg

\* A printed FAIL is explained: a case failed, the IWDG could not be armed, or
\* a reset that leaves no flag fell into a watchdog phase.  In particular no
\* reset through the pin, software, low power or the supply, wherever it
\* falls, and no reset while the normal cases run, ever causes a FAIL.
FailExplained ==
    summary.verdict = "FAIL" =>
        \/ \E c \in Cases : hist.result[c] = "FAIL"
        \/ hist.timeout
        \/ hist.disturbed

\* Unless a reset without a flag made main() judge a phase twice, the printed
\* numbers are exactly the results of this session: the cases plus one verdict
\* per watchdog that was tried.
SummaryExact ==
    Printed /\ ~hist.disturbed =>
        /\ summary.pass = CountOf("PASS") + (IF hist.iwdg THEN 1 ELSE 0)
                                          + (IF hist.wwdg THEN 1 ELSE 0)
        /\ summary.fail = CountOf("FAIL") + (IF hist.timeout THEN 1 ELSE 0)
        /\ summary.skip = CountOf("SKIP")

\* When a watchdog is running, everything the next boot will need is already
\* in place: the session is marked valid, the phase says which watchdog is
\* due, and no flag is up that this boot should have consumed.
CheckpointBeforeArm ==
    /\ iwdg => wd_state_valid /\ wd.phase = 1 /\ flags = {}
    /\ wwdg => wd_state_valid /\ wd.phase = 2 /\ flags = {}

\* Between two resets that start a session, no step takes back progress or
\* a recorded failure once the results of the normal cases are committed.
ResultsRetained ==
    [][(flags \cup flags') \cap SessionFlag = {} /\ wd.phase >= 1 =>
          wd'.phase >= wd.phase /\ wd'.fail >= wd.fail
          /\ wd'.skip = wd.skip /\ wd'.pass >= wd.pass]_vars

\* Once resets from outside stop, the board ends at its printed summary: no
\* order of resets leaves it spinning silently or rebooting for ever.
SummaryReached == <>[](pc = "halt" /\ Printed)

=============================================================================
