----------------------------- MODULE HwI2cProofs -----------------------------
(***************************************************************************)
(* Proofs about HwI2c, for every set of bytes, set of frames and number of *)
(* calls: the hardware write of ch32v0/ssd1315_i2c implements the transfer *)
(* that I2cTransfer promises, whatever time-out races with whatever flag.  *)
(***************************************************************************)
EXTENDS HwI2c, SequenceTheorems, TLAPS

(* The inductive invariant.                                                *)

\* The bytes of the frame that have left the data register, and those that
\* ssd1315_write() has written to the block.
Left == Len(rx) + IF shift = NoByte THEN 0 ELSE 1
Written == Left + IF dr = NoByte THEN 0 ELSE 1

\* What the device took, what is on the wire and what waits in the data
\* register are successive bytes of the frame.
BytesInv ==
    /\ Len(rx) <= Len(frame) /\ \A k \in 1..Len(rx) : rx[k] = frame[k]
    /\ shift # NoByte => /\ phase \in {"addr_out", "data"}
                         /\ Len(rx) < Len(frame) /\ shift = frame[Len(rx) + 1]
    /\ dr # NoByte => /\ phase \in {"data", "nacked"}
                      /\ Left < Len(frame) /\ dr = frame[Left + 1]

\* Nothing is sent after a byte that was not acknowledged.
AckInv == phase \in {"started", "addr_out", "addressed", "data"} => acked

\* A START is only pending on a free bus on which this call sent nothing.
StartInv ==
    start => /\ phase = "free" /\ rx = <<>> /\ acked
             /\ pc = "sb_wait" \/ (pc = "idle" /\ result = "fail")

\* How far the block can be when the CPU waits for a flag.  No STOP is pending
\* inside a call, but for the one that the call before has left.
WaitInv ==
    /\ pc # "idle" => result = "none" /\ frame \in Frames
    /\ pc \in {"busy_wait", "sb_wait"} =>
           rx = <<>> /\ acked /\ shift = NoByte /\ dr = NoByte
    /\ pc = "busy_wait" => /\ phase \in {"free", "data"}
                           /\ stop <=> phase = "data"
    /\ pc \in {"sb_wait", "addr_wait", "txe_wait", "btf_wait"} => ~stop
    /\ pc = "sb_wait" => phase \in {"free", "started"}
    /\ pc = "addr_wait" => i = 2 /\ phase \in {"addr_out", "addressed", "nacked"}
    /\ pc \in {"txe_wait", "btf_wait"} => phase \in {"data", "nacked"}
    /\ pc \in {"addr_wait", "txe_wait", "btf_wait"} /\ phase # "nacked" =>
           Written = i - 1
    /\ pc = "btf_wait" => i = Len(frame) + 1

\* Between calls: after a 0 the device has the frame and the block is empty.
IdleInv ==
    pc = "idle" /\ result # "fail" =>
        /\ rx = frame /\ acked /\ shift = NoByte /\ dr = NoByte
        /\ phase \in {"free", "data"}
        /\ stop <=> phase = "data"

IInv == TypeOK /\ BytesInv /\ AckInv /\ StartInv /\ WaitInv /\ IdleInv

-----------------------------------------------------------------------------

\* What the device holds after one more byte of the frame.
LEMMA OneByteMore ==
    ASSUME NEW S, NEW s \in Seq(S), NEW b \in S
    PROVE  /\ Append(s, b) \in Seq(S) /\ Len(Append(s, b)) = Len(s) + 1
           /\ Append(s, b)[Len(s) + 1] = b
           /\ \A k \in 1..Len(s) : Append(s, b)[k] = s[k]
  BY AppendProperties

\* The bytes of a frame are bytes, and no byte is an empty register.
LEMMA FrameBytes ==
    ASSUME TypeOK
    PROVE  /\ frame \in Seq(Byte) /\ Len(frame) \in Nat
           /\ \A k \in 1..Len(frame) : frame[k] \in Byte /\ frame[k] # NoByte
  <1>1. frame \in Seq(Byte)
    <2>1. <<>> \in Seq(Byte)  OBVIOUS
    <2>. QED  BY <2>1, HwI2cAssumption DEF TypeOK
  <1>. QED  BY <1>1, HwI2cAssumption, ElementOfSeq, LenProperties

\* What SendStop returns for: every byte of the frame has been taken.
LEMMA OkMeansAll ==
    ASSUME IInv, SendStop
    PROVE  rx = frame /\ acked
  <1>1. phase = "data" /\ dr = NoByte /\ shift = NoByte /\ pc = "btf_wait"
    BY DEF SendStop, Passed, Flag, BtfWait, BTF, TXE
  <1>2. frame \in Seq(Byte) /\ rx \in Seq(Byte) /\ Len(frame) \in Nat /\ Len(rx) \in Nat
    BY FrameBytes, LenProperties DEF IInv, TypeOK
  <1>3. Len(rx) = Len(frame)  BY <1>1, <1>2 DEF IInv, WaitInv, Written, Left
  <1>. QED  BY <1>1, <1>2, <1>3, SeqEqual DEF IInv, BytesInv, AckInv

\* Nothing has been sent when the program starts.
LEMMA InitIInv == Init => IInv
  <1>. SUFFICES ASSUME Init PROVE IInv
    OBVIOUS
  <1>1. <<>> \in Seq(Byte) /\ Len(<<>>) = 0  OBVIOUS
  <1>2. TypeOK
    <2>1. i \in 1..(Len(frame) + 1)  BY <1>1 DEF Init
    <2>2. calls \in 0..MaxCalls  BY HwI2cAssumption DEF Init
    <2>. QED  BY <1>1, <2>1, <2>2 DEF Init, TypeOK
  <1>. QED
    BY <1>1, <1>2
    DEF Init, IInv, BytesInv, AckInv, StartInv, WaitInv, IdleInv, Left, Written

\* Every step of the CPU, the block and the device keeps the invariant.
LEMMA NextIInv == IInv /\ [Next]_vars => IInv'
  <1>. SUFFICES ASSUME IInv, [Next]_vars PROVE IInv'
    OBVIOUS
  <1>. USE DEF IInv
  <1>0. frame \in Seq(Byte) /\ Len(frame) \in Nat /\ rx \in Seq(Byte) /\ Len(rx) \in Nat
    BY FrameBytes, LenProperties DEF TypeOK
  <1>1. CASE Call
    <2>1. frame' \in Seq(Byte) /\ Len(frame') \in Nat  BY <1>1, HwI2cAssumption DEF Call
    <2>. QED
      BY <1>0, <1>1, <2>1, HwI2cAssumption
      DEF Call, TypeOK, BytesInv, AckInv, StartInv, WaitInv, IdleInv, Left, Written
  <1>2. CASE SendStart
    BY <1>0, <1>2, HwI2cAssumption
    DEF SendStart, Passed, Flag, BusyWait, BUSY, TypeOK, BytesInv, AckInv, StartInv, WaitInv,
        IdleInv, Left, Written
  <1>3. CASE SendAddress
    <2>1. phase = "started" /\ pc = "sb_wait" /\ frame \in Frames
      BY <1>3 DEF SendAddress, Passed, Flag, SB, WaitInv
    <2>2. Len(frame) >= 2 /\ frame[1] \in Byte /\ frame[1] # NoByte
      BY <2>1, FrameBytes, HwI2cAssumption
    <2>. QED
      BY <1>0, <1>3, <2>1, <2>2
      DEF SendAddress, TypeOK, BytesInv, AckInv, StartInv, WaitInv, IdleInv, Left, Written
  <1>4. CASE ClearAddr
    <2>1. phase = "addressed" /\ pc = "addr_wait" /\ frame \in Frames
      BY <1>4 DEF ClearAddr, Passed, Flag, ADDR, WaitInv
    <2>. QED
      BY <1>0, <1>4, <2>1, HwI2cAssumption
      DEF ClearAddr, TypeOK, BytesInv, AckInv, StartInv, WaitInv, IdleInv, Left, Written
  <1>5. CASE SendData
    <2>1. phase = "data" /\ dr = NoByte /\ pc = "txe_wait" /\ i <= Len(frame)
      BY <1>5 DEF SendData, Passed, Flag, TxeWait, TXE, TypeOK
    <2>2. frame[i] \in Byte /\ frame[i] # NoByte
      BY <1>0, <2>1, FrameBytes DEF TypeOK
    <2>. QED
      BY <1>0, <1>5, <2>1, <2>2
      DEF SendData, AfterData, TypeOK, BytesInv, AckInv, StartInv, WaitInv, IdleInv, Left,
          Written
  <1>6. CASE SendStop
    <2>1. phase = "data" /\ dr = NoByte /\ shift = NoByte /\ pc = "btf_wait"
      BY <1>6 DEF SendStop, Passed, Flag, BtfWait, BTF, TXE
    <2>2. rx = frame  BY <1>6, OkMeansAll
    <2>. QED
      BY <1>0, <1>6, <2>1, <2>2
      DEF SendStop, TypeOK, BytesInv, AckInv, StartInv, WaitInv, IdleInv, Left, Written
  <1>7. CASE Timeout
    BY <1>0, <1>7
    DEF Timeout, TypeOK, BytesInv, AckInv, StartInv, WaitInv, IdleInv, Left, Written
  <1>8. CASE HwStart
    BY <1>0, <1>8
    DEF HwStart, cpu, TypeOK, BytesInv, AckInv, StartInv, WaitInv, IdleInv, Left, Written
  <1>9. CASE HwByteOut
    <2>1. shift \in Byte /\ Len(rx) < Len(frame) /\ shift = frame[Len(rx) + 1]
      BY <1>9 DEF HwByteOut, TypeOK, BytesInv
    <2>2. /\ rx' \in Seq(Byte) /\ Len(rx') = Len(rx) + 1 /\ rx'[Len(rx) + 1] = shift
          /\ \A k \in 1..Len(rx) : rx'[k] = rx[k]
      BY <1>0, <1>9, <2>1, OneByteMore DEF HwByteOut
    <2>3. /\ phase \in {"addr_out", "data"} /\ shift # NoByte /\ shift' = NoByte
          /\ phase' \in {"nacked", "addressed", "data"}
          /\ phase' = "addressed" => phase = "addr_out"
          /\ phase' = "data" => phase = "data"
          /\ acked' \in BOOLEAN
          /\ phase' # "nacked" => acked'
          /\ UNCHANGED <<pc, frame, i, result, calls, start, stop, dr>>
      BY <1>9 DEF HwByteOut, cpu, AckInv, TypeOK
    <2>4. dr # NoByte => dr' = frame'[Left' + 1] /\ Left' < Len(frame')
      BY <1>0, <2>2, <2>3 DEF BytesInv, Left
    <2>5. BytesInv'
      <3>1. \A k \in 1..Len(rx') : rx'[k] = frame[k]
        BY <1>0, <2>1, <2>2 DEF BytesInv
      <3>. QED  BY <1>0, <2>1, <2>2, <2>3, <2>4, <3>1 DEF BytesInv
    <2>6. TypeOK'  BY <2>2, <2>3 DEF TypeOK
    <2>7. pc \notin {"idle", "busy_wait", "sb_wait"} \/ (pc = "idle" /\ result = "fail")
      BY <2>3 DEF WaitInv, IdleInv, TypeOK
    <2>8. StartInv' /\ AckInv' /\ IdleInv'
      BY <2>3, <2>7 DEF StartInv, AckInv, IdleInv
    <2>9. WaitInv'
      <3>1. Written' = Written  BY <1>0, <2>2, <2>3 DEF Written, Left
      <3>. QED  BY <2>3, <2>7, <3>1 DEF WaitInv
    <2>. QED  BY <2>5, <2>6, <2>8, <2>9
  <1>10. CASE HwLoad
    BY <1>0, <1>10
    DEF HwLoad, cpu, TypeOK, BytesInv, AckInv, StartInv, WaitInv, IdleInv, Left, Written
  <1>11. CASE HwStop
    BY <1>0, <1>11
    DEF HwStop, BUSY, cpu, TypeOK, BytesInv, AckInv, StartInv, WaitInv, IdleInv, Left, Written
  <1>12. CASE UNCHANGED vars
    BY <1>12
    DEF vars, TypeOK, BytesInv, AckInv, StartInv, WaitInv, IdleInv, Left, Written
  <1>. QED
    BY <1>1, <1>2, <1>3, <1>4, <1>5, <1>6, <1>7, <1>8, <1>9, <1>10, <1>11, <1>12
    DEF Next, CpuStep, HwStep

\* The invariant holds in every reachable state.
THEOREM Invariant == Spec => []IInv
  BY InitIInv, NextIInv, PTL DEF Spec

\* No index past the frame: i names a byte of it whenever one is written.
THEOREM TypeCorrect == Spec => []TypeOK
  BY Invariant, PTL DEF IInv

\* A START is requested on a free bus only, with no STOP of an earlier call
\* still to be made.
THEOREM NoStartOnBusyBus == Spec => []StartsOnFreeBus
  <1>1. IInv => StartsOnFreeBus
    BY DEF IInv, StartInv, WaitInv, StartsOnFreeBus
  <1>. QED  BY <1>1, Invariant, PTL

-----------------------------------------------------------------------------
(* The refinement.                                                         *)

\* Every step of the write, the block and the device is a step of the transfer
\* that ssd1315_write() promises, or changes nothing of it.
LEMMA NextTransfer == IInv /\ [Next]_vars => [Transfer!Next]_(Transfer!vars)
  <1>. SUFFICES ASSUME IInv, [Next]_vars PROVE [Transfer!Next]_(Transfer!vars)
    OBVIOUS
  <1>. USE DEF Transfer!Next, Transfer!vars
  <1>1. CASE Call
    BY <1>1 DEF Call, Transfer!Call
  <1>2. CASE SendStart \/ SendAddress \/ ClearAddr \/ SendData
    BY <1>2 DEF SendStart, SendAddress, ClearAddr, SendData, AfterData, Passed
  <1>3. CASE SendStop
    BY <1>3, OkMeansAll DEF SendStop, Passed, Transfer!ReturnOk
  <1>4. CASE Timeout
    BY <1>4 DEF Timeout, Transfer!ReturnFail
  <1>5. CASE HwByteOut
    <2>1. Len(rx) < Len(frame) /\ shift = frame[Len(rx) + 1] /\ acked
      BY <1>5 DEF HwByteOut, IInv, BytesInv, AckInv
    <2>2. pc # "idle" \/ result = "fail"  BY <1>5 DEF HwByteOut, IInv, IdleInv
    <2>3. rx' = Append(rx, frame[Len(rx) + 1]) /\ acked' \in BOOLEAN
      BY <1>5, <2>1 DEF HwByteOut
    <2>4. UNCHANGED <<pc, result, frame>>  BY <1>5 DEF HwByteOut, cpu
    <2>. QED  BY <2>1, <2>2, <2>3, <2>4 DEF Transfer!Take
  <1>6. CASE HwStart \/ HwLoad \/ HwStop
    BY <1>6 DEF HwStart, HwLoad, HwStop, cpu
  <1>7. CASE UNCHANGED vars  BY <1>7 DEF vars
  <1>. QED
    BY <1>1, <1>2, <1>3, <1>4, <1>5, <1>6, <1>7 DEF Next, CpuStep, HwStep

\* The hardware write keeps the promise of ssd1315_write(), for every frame.
THEOREM Implements == Spec => ImplementsTransfer
  <1>1. Init => Transfer!Init  BY DEF Init, Transfer!Init
  <1>. QED
    BY <1>1, Invariant, NextTransfer, PTL DEF Spec, ImplementsTransfer, Transfer!Spec

=============================================================================
