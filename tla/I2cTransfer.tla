---------------------------- MODULE I2cTransfer ----------------------------
(***************************************************************************)
(* What ssd1315_write() of ch32v0/ssd1315_i2c promises, whichever of its   *)
(* two implementations (hardware I2C, bit-banged I2C) is built: the device *)
(* takes the bytes of the frame - address, control byte, payload - in      *)
(* order, none twice and none invented; 0 is returned only when it took    *)
(* and acknowledged all of them; and nothing follows a byte that was not   *)
(* acknowledged.  After a -1 one byte may still be under way: the hardware *)
(* finishes the byte it is sending before it makes the STOP condition.     *)
(***************************************************************************)
EXTENDS Naturals, Sequences

CONSTANT Frames     \* the frames a caller may send (sequences of bytes)

VARIABLES
    status,    \* "busy" during a call of ssd1315_write(), else "idle"
    result,    \* what the last call returned: 0 ("ok") or -1 ("fail")
    frame,     \* the bytes of the call
    received,  \* the bytes the device has taken in the call
    acked      \* it acknowledged each of them

vars == <<status, result, frame, received, acked>>

Init ==
    /\ status = "idle"
    /\ result = "none"
    /\ frame = <<>>
    /\ received = <<>>
    /\ acked = TRUE

Call ==
    /\ status = "idle"
    /\ status' = "busy"
    /\ result' = "none"
    /\ frame' \in Frames
    /\ received' = <<>>
    /\ acked' = TRUE

Take ==
    /\ status = "busy" \/ result = "fail"
    /\ acked
    /\ Len(received) < Len(frame)
    /\ received' = Append(received, frame[Len(received) + 1])
    /\ acked' \in BOOLEAN
    /\ UNCHANGED <<status, result, frame>>

ReturnOk ==
    /\ status = "busy"
    /\ acked /\ received = frame
    /\ status' = "idle"
    /\ result' = "ok"
    /\ UNCHANGED <<frame, received, acked>>

\* -1: a byte was not acknowledged, or the bus did not respond in time.
ReturnFail ==
    /\ status = "busy"
    /\ status' = "idle"
    /\ result' = "fail"
    /\ UNCHANGED <<frame, received, acked>>

Next == Call \/ Take \/ ReturnOk \/ ReturnFail

Spec == Init /\ [][Next]_vars
=============================================================================
