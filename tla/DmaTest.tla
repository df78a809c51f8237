------------------------------ MODULE DmaTest ------------------------------
(***************************************************************************)
(* The "dma" case of the ch32v0 selftest (test_dma() and what it calls):   *)
(* memory-to-memory transfers on every channel, polled with a time-out     *)
(* while the DMA engine runs.  The engine is external and may be broken in *)
(* one way on one channel, which is what the case is for.  CaseRunner calls *)
(* this case, after the register checks that open it, and takes its result. *)
(***************************************************************************)
EXTENDS Integers, Sequences

CONSTANTS
    Runs,                \* the transfers: [channel, size, count, round]
    Elements,            \* elements of the source and destination blocks
    DMA_TIMEOUT_LOOPS    \* 2000000 in the code

ASSUME DmaTestAssumption ==
    /\ Elements \in Nat
    /\ Runs \in Seq([channel : Nat \ {0}, size : {8, 16, 32}, count : 2..Elements,
                     round : Nat]) \ {<<>>}
    /\ DMA_TIMEOUT_LOOPS \in Nat
    /\ \A r \in DOMAIN Runs : Runs[r].count < DMA_TIMEOUT_LOOPS

\* How the engine can be broken.  A slow engine only may be.
DmaFaults == {"slow", "stuck", "early", "nohalf", "nostep", "narrow"}
Channels == {Runs[r].channel : r \in DOMAIN Runs}

VARIABLES
    pc,             \* where the case is
    run,            \* the transfer it is at
    timeout,        \* the polls made
    src, dst,       \* the blocks: dma_src, dma_dst
    en, cntr,       \* the channel in use: enabled, elements left
    tcif, htif,     \* its flags: transfer complete, half transfer
    fault           \* what is broken on the board; the engine if it has a
                    \* channel: [kind, channel, ...]

dma == <<en, cntr, tcif, htif>>
dmaVars == <<pc, run, timeout, src, dst, dma, fault>>

Index == 0..Elements - 1
Job == Runs[run]

\* What one element can hold: nothing (it was cleared), the pattern of an
\* element and a round, or its low byte alone.
Zero == [from |-> -1, round |-> 0, whole |-> TRUE]
Pattern(i, round) == [from |-> i, round |-> round, whole |-> TRUE]

DmaIdle ==
    /\ pc = "idle" /\ run = 1 /\ timeout = 0
    /\ src = [i \in Index |-> Zero] /\ dst = [i \in Index |-> Zero]
    /\ en = FALSE /\ cntr = 0
    /\ tcif = FALSE /\ htif = FALSE

-----------------------------------------------------------------------------
(* The engine (external).                                                  *)

Kind == IF fault.channel = Job.channel THEN fault.kind ELSE "none"
Moved == Job.count - cntr

\* A narrow channel moves the low byte only.  A channel whose address does
\* not step writes every element to the first place.
Transfer ==
    /\ en /\ cntr > 0 /\ Kind # "stuck"
    /\ ~(Kind = "early" /\ tcif)
    /\ LET to == IF Kind = "nostep" THEN 0 ELSE Moved
           low == Kind = "narrow" /\ Job.size > 8
       IN  dst' = [dst EXCEPT ![to] = [src[Moved] EXCEPT !.whole = ~low]]
    /\ cntr' = cntr - 1
    /\ tcif' = (tcif \/ cntr' = IF Kind = "early" THEN 1 ELSE 0)
    /\ htif' = (htif \/ (Kind # "nohalf" /\ cntr' = Job.count \div 2))
    /\ UNCHANGED <<pc, run, timeout, src, en, fault>>

\* An engine that is not slow moves an element in less than a turn of the loop
\* that polls it.
KeepsUp == Kind \in {"slow", "stuck"} \/ tcif \/ Moved >= timeout

-----------------------------------------------------------------------------
(* The case.                                                               *)

\* The first call of dma_run_one().
DmaCall ==
    /\ pc = "idle"
    /\ pc' = "fill"
    /\ UNCHANGED <<run, timeout, src, dst, dma, fault>>

\* dma_fill_8(), dma_fill_16(), dma_fill_32(), by the size of the transfer.
dma_fill ==
    /\ pc = "fill"
    /\ src' = [i \in Index |-> Pattern(i, Job.round)]
    /\ dst' = [i \in Index |-> Zero]
    /\ pc' = "arm"
    /\ UNCHANGED <<run, timeout, dma, fault>>

ClearFlags == tcif' = FALSE /\ htif' = FALSE

\* dma_mem2mem_copy() up to the loop.
Arm ==
    /\ pc = "arm"
    /\ cntr' = Job.count
    /\ ClearFlags
    /\ en' = TRUE
    /\ timeout' = 0
    /\ pc' = "poll"
    /\ UNCHANGED <<run, src, dst, fault>>

Poll ==
    /\ pc = "poll" /\ timeout < DMA_TIMEOUT_LOOPS /\ KeepsUp
    /\ \/ tcif /\ pc' = "stop" /\ UNCHANGED timeout
       \/ ~tcif /\ timeout' = timeout + 1 /\ UNCHANGED pc
    /\ UNCHANGED <<run, src, dst, dma, fault>>

GiveUp_Never == FALSE
GiveUp == pc = "poll" /\ timeout = DMA_TIMEOUT_LOOPS

TimeOut ==
    /\ GiveUp
    /\ pc' = "stop"
    /\ UNCHANGED <<run, timeout, src, dst, dma, fault>>

Stop ==
    /\ pc = "stop"
    /\ en' = FALSE
    /\ pc' = "check"
    /\ UNCHANGED <<run, timeout, src, dst, cntr, tcif, htif, fault>>

\* dma_verify_8(), dma_verify_16(), dma_verify_32().
dma_verify(count) == \A i \in 0..count - 1 : dst[i] = src[i]

Good ==
    /\ timeout # DMA_TIMEOUT_LOOPS
    /\ cntr = 0
    /\ tcif /\ htif
    /\ dma_verify(Job.count)

NextRun_LastSkipped == IF run + 1 < Len(Runs) THEN "fill" ELSE "pass"
NextRun_NoEnd == "fill"
NextRun == IF run < Len(Runs) THEN "fill" ELSE "pass"

\* dma_run_one() once the transfer is over, and the next call of test_dma().
Check ==
    /\ pc = "check"
    /\ \/ ~Good /\ pc' = "fail" /\ UNCHANGED run
       \/ Good /\ pc' = NextRun /\ run' = run + 1
    /\ UNCHANGED <<timeout, src, dst, dma, fault>>

DmaCpu == dma_fill \/ Arm \/ Poll \/ TimeOut \/ Stop \/ Check

\* The caller has the result: what is left in the variables is dead.
DmaReturn ==
    /\ pc \in {"pass", "fail"}
    /\ pc' = "idle" /\ run' = 1 /\ timeout' = 0
    /\ src' = [i \in Index |-> Zero] /\ dst' = [i \in Index |-> Zero]
    /\ en' = FALSE /\ cntr' = 0 /\ tcif' = FALSE /\ htif' = FALSE
    /\ UNCHANGED fault

DmaTypeOK ==
    /\ pc \in {"idle", "fill", "arm", "poll", "stop", "check", "pass", "fail"}
    /\ run \in 1..Len(Runs) + 1
    /\ run = Len(Runs) + 1 => pc = "pass"
    /\ timeout \in 0..DMA_TIMEOUT_LOOPS
    /\ cntr \in 0..Elements
    /\ {en, tcif, htif} \subseteq BOOLEAN

\* What the transfers leave unseen: an engine that is merely slow, and one
\* that truncates wide data on a channel that is never made to move any.
TriedWide(c) == \E r \in DOMAIN Runs : Runs[r].channel = c /\ Runs[r].size > 8
DmaTolerates(f) ==
    f.kind = "slow" \/ (f.kind = "narrow" /\ ~TriedWide(f.channel))

=============================================================================
