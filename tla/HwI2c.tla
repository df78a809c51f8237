-------------------------------- MODULE HwI2c --------------------------------
(***************************************************************************)
(* The hardware I2C master of ch32v0/ssd1315_i2c (lines 136-209): the CPU  *)
(* in ssd1315_write(), polling one flag after the other with a time-out,   *)
(* and the I2C block with its device (external), which moves on its own    *)
(* between any two polls.                                                  *)
(***************************************************************************)
EXTENDS Naturals, Sequences

CONSTANTS
    Byte,      \* the bytes
    Frames,    \* the frames to send: address, control byte, payload
    MaxCalls,  \* bound: calls of ssd1315_write()
    NoByte     \* an empty register

ASSUME HwI2cAssumption ==
    /\ NoByte \notin Byte
    /\ MaxCalls \in Nat
    /\ \A f \in Frames : f \in Seq(Byte) /\ Len(f) >= 2

VARIABLES
    pc,      \* the flag ssd1315_write() waits for
    frame,   \* the bytes of this call
    i,       \* index in frame of the next byte to write
    result,  \* the last return value
    calls,   \* calls so far
    phase,   \* where the block is in a transfer
    start,   \* a START condition is requested
    stop,    \* a STOP condition is requested
    dr,      \* the data register
    shift,   \* the shift register
    rx,      \* what the device has taken in this call
    acked    \* it acknowledged all of rx

cpu == <<pc, frame, i, result, calls>>
block == <<phase, start, stop, dr, shift, rx, acked>>
vars == <<pc, frame, i, result, calls, phase, start, stop, dr, shift, rx,
          acked>>

TypeOK ==
    /\ pc \in {"idle", "busy_wait", "sb_wait", "addr_wait", "txe_wait",
               "btf_wait"}
    /\ frame \in Frames \cup {<<>>}
    /\ i \in 1..(Len(frame) + 1)
    /\ pc = "txe_wait" => i <= Len(frame)
    /\ result \in {"none", "ok", "fail"}
    /\ calls \in 0..MaxCalls
    /\ phase \in {"free", "started", "addr_out", "addressed", "data", "nacked"}
    /\ start \in BOOLEAN
    /\ stop \in BOOLEAN
    /\ dr \in Byte \cup {NoByte}
    /\ shift \in Byte \cup {NoByte}
    /\ rx \in Seq(Byte)
    /\ acked \in BOOLEAN

Init ==
    /\ pc = "idle" /\ frame = <<>> /\ i = 1 /\ result = "none" /\ calls = 0
    /\ phase = "free" /\ start = FALSE /\ stop = FALSE
    /\ dr = NoByte /\ shift = NoByte /\ rx = <<>> /\ acked = TRUE

-----------------------------------------------------------------------------
(* The flags the CPU polls.                                                *)

BUSY == phase # "free"
SB   == phase = "started"
ADDR == phase = "addressed"
TXE  == phase = "data" /\ dr = NoByte
BTF  == TXE /\ shift = NoByte /\ Len(rx) >= 2

BusyWait_None == TRUE
BusyWait == ~BUSY
TxeWait == TXE
BtfWait_Txe == TXE
BtfWait == BTF

\* i2c_wait_flag() returns 0 at this poll.
Flag ==
    \/ pc = "busy_wait" /\ BusyWait
    \/ pc = "sb_wait" /\ SB
    \/ pc = "addr_wait" /\ ADDR
    \/ pc = "txe_wait" /\ TxeWait
    \/ pc = "btf_wait" /\ BtfWait

Passed(at) == pc = at /\ Flag

-----------------------------------------------------------------------------
(* ssd1315_write().  main() stops for good after a -1, so that no call     *)
(* follows one that failed.                                                *)

Call ==
    /\ pc = "idle" /\ result # "fail" /\ calls < MaxCalls
    /\ pc' = "busy_wait"
    /\ frame' \in Frames
    /\ i' = 1
    /\ result' = "none"
    /\ calls' = calls + 1
    /\ rx' = <<>> /\ acked' = TRUE
    /\ UNCHANGED <<phase, start, stop, dr, shift>>

SendStart ==
    /\ Passed("busy_wait")
    /\ pc' = "sb_wait"
    /\ start' = TRUE
    /\ UNCHANGED <<frame, i, result, calls, phase, stop, dr, shift, rx, acked>>

SendAddress ==
    /\ Passed("sb_wait")
    /\ pc' = "addr_wait"
    /\ i' = 2
    /\ phase' = "addr_out" /\ shift' = frame[1]
    /\ UNCHANGED <<frame, result, calls, start, stop, dr, rx, acked>>

\* Reading STAR1 and STAR2 clears ADDR and releases the clock.
ClearAddr ==
    /\ Passed("addr_wait")
    /\ pc' = "txe_wait"
    /\ phase' = "data"
    /\ UNCHANGED <<frame, i, result, calls, start, stop, dr, shift, rx, acked>>

AfterData_OneMore == IF i > Len(frame) THEN "btf_wait" ELSE "txe_wait"
AfterData == IF i = Len(frame) THEN "btf_wait" ELSE "txe_wait"

SendData ==
    /\ Passed("txe_wait")
    /\ dr' = frame[i]
    /\ i' = i + 1
    /\ pc' = AfterData
    /\ UNCHANGED <<frame, result, calls, phase, start, stop, shift, rx, acked>>

SendStop ==
    /\ Passed("btf_wait")
    /\ stop' = TRUE
    /\ pc' = "idle" /\ result' = "ok"
    /\ UNCHANGED <<frame, i, calls, phase, start, dr, shift, rx, acked>>

\* The flag did not come in I2C_TIMEOUT polls.  i2c_abort() asks for a STOP,
\* but not after the wait for a free bus.
Timeout_NoStop ==
    /\ pc # "idle" /\ ~Flag
    /\ UNCHANGED stop
    /\ pc' = "idle" /\ result' = "fail"
    /\ UNCHANGED <<frame, i, calls, phase, start, dr, shift, rx, acked>>
Timeout_RetryAddr ==
    /\ pc # "idle" /\ ~Flag
    /\ stop' = (stop \/ pc # "busy_wait")
    /\ IF pc = "addr_wait" THEN UNCHANGED <<pc, result>>
       ELSE pc' = "idle" /\ result' = "fail"
    /\ UNCHANGED <<frame, i, calls, phase, start, dr, shift, rx, acked>>
Timeout ==
    /\ pc # "idle" /\ ~Flag
    /\ stop' = (stop \/ pc # "busy_wait")
    /\ pc' = "idle" /\ result' = "fail"
    /\ UNCHANGED <<frame, i, calls, phase, start, dr, shift, rx, acked>>

CpuStep == SendStart \/ SendAddress \/ ClearAddr \/ SendData \/ SendStop
           \/ Timeout

-----------------------------------------------------------------------------
(* The I2C block and the device (external).                                *)

HwStart ==
    /\ start
    /\ phase' = "started" /\ start' = FALSE
    /\ UNCHANGED <<cpu, stop, dr, shift, rx, acked>>

\* The byte in the shift register is out; the device answers.
HwByteOut ==
    /\ phase \in {"addr_out", "data"} /\ shift # NoByte
    /\ rx' = Append(rx, shift) /\ shift' = NoByte
    /\ \E a \in BOOLEAN :
          /\ acked' = (acked /\ a)
          /\ phase' = IF ~a THEN "nacked"
                      ELSE IF phase = "addr_out" THEN "addressed" ELSE "data"
    /\ UNCHANGED <<cpu, start, stop, dr>>

HwLoad ==
    /\ phase = "data" /\ shift = NoByte /\ dr # NoByte /\ ~stop
    /\ shift' = dr /\ dr' = NoByte
    /\ UNCHANGED <<cpu, phase, start, stop, rx, acked>>

\* A STOP is made after the byte that is going out, and ends the transfer.
HwStop ==
    /\ stop /\ BUSY /\ shift = NoByte
    /\ phase' = "free" /\ stop' = FALSE /\ dr' = NoByte
    /\ UNCHANGED <<cpu, start, shift, rx, acked>>

HwStep == HwStart \/ HwByteOut \/ HwLoad \/ HwStop

Next == Call \/ CpuStep \/ HwStep

Spec == Init /\ [][Next]_vars
\* The CPU polls; the I2C block owes it nothing.
FairSpec == Spec /\ WF_vars(CpuStep)

-----------------------------------------------------------------------------
(* Properties.                                                             *)

\* ssd1315_write() keeps the promise of I2cTransfer, whatever time-out races
\* with whatever late flag: in particular no byte is written over one that has
\* not left the data register.
Transfer == INSTANCE I2cTransfer WITH
    status <- IF pc = "idle" THEN "idle" ELSE "busy",
    received <- rx
ImplementsTransfer == Transfer!Spec

\* A call never starts on a transfer that is still ending: when START is
\* requested the STOP of the call before has been made.
StartsOnFreeBus == start => phase = "free" /\ (stop => result = "fail")

\* Every call returns, even if the block or the device never does anything.
EveryCallReturns == pc # "idle" ~> pc = "idle"

\* A call that failed does not leave the bus taken: as long as the block does
\* what it was asked for, the STOP of i2c_abort() is made, wherever the
\* transfer was.
BusReleased ==
    WF_vars(HwStep) =>
        (pc = "idle" /\ result = "fail" ~> phase = "free" /\ ~stop)

=============================================================================
