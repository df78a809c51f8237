--------------------------- MODULE BitbangI2cProofs ---------------------------
(***************************************************************************)
(* Proofs about BitbangI2c, for every width of a byte, set of frames and   *)
(* number of calls: the software I2C master of ch32v0/ssd1315_i2c          *)
(* implements the transfer that I2cTransfer promises, against a device     *)
(* that notices the lines on its own time.                                 *)
(***************************************************************************)
EXTENDS BitbangI2c, SequenceTheorems, TLAPS

(* The inductive invariant: what the two lines and the device are at each  *)
(* place of the master.  The device lags by the last change at most.       *)

LowClock == {"bit", "bit_high", "ack_sda", "ack_high", "stop_sda", "stop_scl"}
Starting == {"start_sda", "start_scl", "start_cond", "start_clk"}
Shifting == {"bit", "bit_high", "bit_low"}
Acking == {"ack_high", "ack_read", "ack_low"}
Stopping == {"stop_sda", "stop_scl", "stop_cond", "return"}

\* The levels the master drives.
LevelInv ==
    /\ scl_pull <=> pc \in LowClock
    /\ pc \in {"idle", "start_sda", "start_scl", "start_cond", "ack_high", "ack_read",
               "ack_low", "stop_sda", "return"} => ~sda_pull
    /\ pc \in {"start_clk", "stop_scl", "stop_cond"} => sda_pull
    /\ pc \in {"bit_high", "bit_low"} => (sda_pull <=> ~frame[k][bit])

\* The master is inside the frame while it shifts a byte out.
FrameInv ==
    /\ pc # "idle" => frame \in Frames
    /\ pc \in Starting => k = 1
    /\ pc \in Starting \cup Shifting \cup Acking \cup {"ack_sda"} => k <= Len(frame)

\* The device between the calls and while START is made: it drives nothing.
QuietInv ==
    /\ pc \in {"idle", "start_sda", "start_scl", "start_cond"} =>
           Settled /\ dev.mode = "idle" /\ dev.bits = <<>> /\ ~dev.pull
    /\ pc = "start_clk" =>
           /\ dev.scl /\ ~dev.pull /\ dev.bits = <<>>
           /\ dev.mode = IF dev.sda THEN "idle" ELSE "bits"

\* While a byte is shifted out: the device has sampled the bits before this
\* one, and this one too once it has seen its clock.
SampleInv ==
    /\ pc = "bit" =>
           \/ dev.mode = "ack" /\ dev.scl /\ bit = 1 /\ dev.bits = <<>> /\ dev.pull
           \/ dev.mode = "bits" /\ ~dev.pull /\ Len(dev.bits) = bit - 1
    /\ pc = "bit_high" =>
           dev.mode = "bits" /\ ~dev.pull /\ ~dev.scl /\ Len(dev.bits) = bit - 1
    /\ pc = "bit_low" =>
           /\ dev.mode = "bits" /\ ~dev.pull /\ dev.sda = Sda
           /\ Len(dev.bits) = IF dev.scl THEN bit ELSE bit - 1
    /\ pc \in Shifting \cup {"ack_sda"} =>
           \A n \in 1..Len(dev.bits) : dev.bits[n] = frame[k][n]

\* While it answers.
AnswerInv ==
    /\ pc = "ack_sda" =>
           \/ dev.mode = "bits" /\ dev.scl /\ ~dev.pull /\ Len(dev.bits) = Width
           \/ dev.mode = "ack" /\ ~dev.scl /\ dev.bits = <<>>
    /\ pc \in Acking => dev.mode = "ack" /\ dev.bits = <<>>
    /\ pc = "ack_high" => ~dev.scl
    /\ pc \in {"ack_read", "ack_low"} => dev.sda = Sda
    /\ pc = "ack_low" => dev.scl

\* While STOP is made: SDA is low before the clock rises, and rises after.
StopInv ==
    /\ pc = "stop_sda" => /\ dev.bits = <<>>
                          /\ \/ dev.mode = "ack" /\ dev.scl
                             \/ dev.mode = "bits" /\ ~dev.scl /\ ~dev.pull
    /\ pc = "stop_scl" =>
           dev.mode = "bits" /\ ~dev.scl /\ ~dev.pull /\ dev.bits = <<>>
    /\ pc = "stop_cond" =>
           /\ dev.mode = "bits" /\ ~dev.pull /\ ~dev.sda
           /\ Len(dev.bits) = IF dev.scl THEN 1 ELSE 0
    /\ pc = "return" =>
           /\ dev.scl /\ ~dev.pull
           /\ dev.sda => dev.mode = "idle" /\ dev.bits = <<>>
           /\ ~dev.sda => dev.mode = "bits"

\* What the device took is the frame so far, and what it answered to the last
\* byte is what the master makes of it.
TakenInv ==
    pc # "idle" =>
        /\ Len(dev.rx) =
              IF pc \in Acking \/ (pc = "ack_sda" /\ dev.mode = "ack") THEN k ELSE k - 1
        /\ Len(dev.rx) <= Len(frame)
        /\ \A n \in 1..Len(dev.rx) : dev.rx[n] = frame[n]

\* The level read in the ninth clock is the answer to this byte, and a write
\* that stops without a NACK has sent its last byte.
AckInv ==
    /\ pc \in Starting \cup Shifting \/ (pc = "ack_sda" /\ dev.mode = "bits") => dev.acked
    /\ pc \in Acking \/ (pc = "ack_sda" /\ dev.mode = "ack") => (dev.acked <=> dev.pull)
    /\ pc = "ack_low" => (nack <=> ~dev.pull)
    /\ pc \in Stopping => (nack <=> ~dev.acked)
    /\ pc \in Stopping /\ ~nack => k = Len(frame) + 1

BusInv == /\ LevelInv /\ FrameInv /\ QuietInv /\ SampleInv /\ AnswerInv
          /\ StopInv /\ TakenInv /\ AckInv

IInv == TypeOK /\ BusInv

-----------------------------------------------------------------------------

\* The parts of the device.
LEMMA DeviceParts ==
    ASSUME TypeOK
    PROVE  /\ {dev.scl, dev.sda, dev.pull, dev.acked} \subseteq BOOLEAN
           /\ dev.mode \in {"idle", "bits", "ack"}
           /\ dev.bits \in Seq(BOOLEAN) /\ Len(dev.bits) \in 0..Width
           /\ dev.rx \in Seq(Byte) /\ Len(dev.rx) \in Nat
           /\ frame \in Seq(Byte) /\ Len(frame) \in Nat /\ k \in Nat /\ bit \in 1..Width
  <1>1. dev.bits \in Seq(BOOLEAN) /\ dev.rx \in Seq(Byte)  BY DEF TypeOK, Device
  <1>2. Len(dev.bits) \in Nat /\ Len(dev.rx) \in Nat  BY <1>1, LenProperties
  <1>3. frame \in Seq(Byte)
    <2>1. <<>> \in Seq(Byte)  OBVIOUS
    <2>. QED  BY <2>1, BitbangAssumption DEF TypeOK
  <1>4. Len(frame) \in Nat  BY <1>3, LenProperties
  <1>5. {dev.scl, dev.sda, dev.pull, dev.acked} \subseteq BOOLEAN
        /\ dev.mode \in {"idle", "bits", "ack"}
    BY DEF TypeOK, Device
  <1>6. k \in Nat /\ bit \in 1..Width /\ Len(dev.bits) <= Width
    BY <1>4 DEF TypeOK
  <1>. QED  BY <1>1, <1>2, <1>3, <1>4, <1>5, <1>6, BitbangAssumption

\* A bit or a byte more.
LEMMA OneMore ==
    ASSUME NEW S, NEW s \in Seq(S), NEW e \in S
    PROVE  /\ Append(s, e) \in Seq(S) /\ Len(Append(s, e)) = Len(s) + 1
           /\ Append(s, e)[Len(s) + 1] = e
           /\ \A n \in 1..Len(s) : Append(s, e)[n] = s[n]
  BY AppendProperties

\* The lines are released and the device is idle when the program starts.
LEMMA InitIInv == Init => IInv
  <1>. SUFFICES ASSUME Init PROVE IInv
    OBVIOUS
  <1>1. <<>> \in Seq(BOOLEAN) /\ <<>> \in Seq(Byte) /\ Len(<<>>) = 0  OBVIOUS
  <1>2. TypeOK
    <2>1. dev \in Device /\ Len(dev.bits) <= Width
      BY <1>1, BitbangAssumption DEF Init, Device
    <2>2. k \in 1..(Len(frame) + 1) /\ bit \in 1..Width /\ calls \in 0..MaxCalls
      BY <1>1, BitbangAssumption DEF Init
    <2>. QED  BY <2>1, <2>2 DEF Init, TypeOK, Label
  <1>3. LevelInv /\ FrameInv /\ QuietInv
    BY DEF Init, LevelInv, FrameInv, QuietInv, LowClock, Starting, Shifting, Acking, Settled,
           Scl, Sda
  <1>4. SampleInv /\ AnswerInv /\ StopInv /\ TakenInv /\ AckInv
    BY DEF Init, SampleInv, AnswerInv, StopInv, TakenInv, AckInv, Starting, Shifting,
           Acking, Stopping
  <1>. QED  BY <1>2, <1>3, <1>4 DEF IInv, BusInv

\* The master keeps to its places, to the bytes of the frame and to the bits
\* of a byte.
LEMMA MasterTypeOK == IInv /\ Master => TypeOK'
  <1>. SUFFICES ASSUME TypeOK, FrameInv, Master PROVE TypeOK'
    BY DEF IInv, BusInv
  <1>. USE DEF Goto, scl_low, scl_release, sda_low, sda_release, TypeOK, Label
  <1>1. Width \in Nat \ {0} /\ k \in Nat /\ Len(frame) \in Nat
    BY DeviceParts, BitbangAssumption
  <1>2. CASE Call
    <2>1. dev' = [dev EXCEPT !.rx = <<>>, !.acked = TRUE] /\ <<>> \in Seq(Byte)
      BY <1>2 DEF Call
    <2>2. dev' \in Device /\ dev'.bits = dev.bits  BY <2>1 DEF Device
    <2>3. k' \in 1..(Len(frame') + 1)
      <3>1. Len(frame') \in Nat
        BY <1>2, BitbangAssumption, LenProperties DEF Call
      <3>. QED  BY <1>2, <3>1 DEF Call
    <2>4. calls' \in 0..MaxCalls  BY <1>2, BitbangAssumption DEF Call
    <2>5. frame' \in Frames  BY <1>2 DEF Call
    <2>6. /\ pc' \in Label /\ result' \in {"none", "ok", "fail"}
          /\ bit' \in 1..Width /\ UNCHANGED <<nack, scl_pull, sda_pull>>
      BY <1>2 DEF Call
    <2>. QED  BY <2>2, <2>3, <2>4, <2>5, <2>6
  <1>3. CASE Start
    <2>1. pc' \in Label  BY <1>3 DEF Start
    <2>2. scl_pull' \in BOOLEAN /\ sda_pull' \in BOOLEAN
      <3>. HIDE DEF Label, TypeOK
      <3>1. scl_pull \in BOOLEAN /\ sda_pull \in BOOLEAN  BY DEF TypeOK
      <3>. QED  BY <1>3, <3>1, Zenon DEF Start
    <2>3. bit' \in 1..Width  BY <1>1, <1>3 DEF Start
    <2>4. UNCHANGED <<frame, k, nack, result, dev, calls>>  BY <1>3 DEF Start
    <2>. HIDE DEF Label
    <2>. QED  BY <2>1, <2>2, <2>3, <2>4
  <1>4. CASE WriteBit
    <2>1. pc' \in Label  BY <1>4 DEF WriteBit, NextBit
    <2>2. scl_pull' \in BOOLEAN /\ sda_pull' \in BOOLEAN
      <3>. HIDE DEF Label, TypeOK
      <3>1. scl_pull \in BOOLEAN /\ sda_pull \in BOOLEAN  BY DEF TypeOK
      <3>. QED  BY <1>4, <3>1, Zenon DEF WriteBit, EndClock, ShiftOut
    <2>3. bit' \in 1..Width  BY <1>1, <1>4 DEF WriteBit, NextBit
    <2>4. UNCHANGED <<frame, k, nack, result, dev, calls>>  BY <1>4 DEF WriteBit
    <2>. HIDE DEF Label
    <2>. QED  BY <2>1, <2>2, <2>3, <2>4
  <1>5. CASE ReadAck
    <2>1. pc' \in Label  BY <1>5 DEF ReadAck, AfterByte
    <2>2. scl_pull' \in BOOLEAN /\ sda_pull' \in BOOLEAN /\ nack' \in BOOLEAN
      <3>. HIDE DEF Label, TypeOK
      <3>1. scl_pull \in BOOLEAN /\ sda_pull \in BOOLEAN /\ nack \in BOOLEAN  BY DEF TypeOK
      <3>2. Sda \in BOOLEAN  BY DEF Sda
      <3>. QED  BY <1>5, <3>1, <3>2, Zenon DEF ReadAck, sda_read
    <2>3. bit' \in 1..Width  BY <1>1, <1>5 DEF ReadAck
    <2>4. k' \in 1..(Len(frame) + 1)
      <3>1. pc = "ack_low" => k <= Len(frame)  BY DEF FrameInv, Acking
      <3>. QED  BY <1>1, <1>5, <3>1 DEF ReadAck
    <2>5. UNCHANGED <<frame, result, dev, calls>>  BY <1>5 DEF ReadAck
    <2>. HIDE DEF Label
    <2>. QED  BY <2>1, <2>2, <2>3, <2>4, <2>5
  <1>6. CASE Stop  BY <1>6 DEF Stop
  <1>7. CASE Return  BY <1>7 DEF Return
  <1>. QED  BY <1>2, <1>3, <1>4, <1>5, <1>6, <1>7 DEF Master

\* A step of the master leads from one of its places to the next, with the
\* lines and the device as they have to be there.
LEMMA MasterStep == IInv /\ Master => BusInv'
  <1>. SUFFICES ASSUME TypeOK, BusInv, Master PROVE BusInv'
    BY DEF IInv
  <1>. USE DEF Goto, scl_low, scl_release, sda_low, sda_release, Settled, Scl, Sda,
               BusInv, LevelInv, FrameInv, QuietInv, SampleInv, AnswerInv, StopInv,
               TakenInv, AckInv, LowClock, Starting, Shifting, Acking, Stopping
  <1>0. /\ {dev.scl, dev.sda, dev.pull, dev.acked} \subseteq BOOLEAN
        /\ {scl_pull, sda_pull, nack} \subseteq BOOLEAN
        /\ dev.mode \in {"idle", "bits", "ack"}
        /\ Len(dev.bits) \in 0..Width /\ Len(dev.rx) \in Nat
        /\ Len(frame) \in Nat /\ k \in Nat /\ bit \in 1..Width /\ Width \in Nat \ {0}
    BY DeviceParts, BitbangAssumption DEF TypeOK
  <1>1. CASE Call
    <2>1. Len(frame') \in Nat /\ Len(frame') >= 1
      BY <1>1, BitbangAssumption, EmptySeq, LenProperties DEF Call
    <2>2. /\ dev'.scl = dev.scl /\ dev'.sda = dev.sda /\ dev'.mode = dev.mode
          /\ dev'.bits = dev.bits /\ dev'.pull = dev.pull
          /\ dev'.rx = <<>> /\ dev'.acked = TRUE
      BY <1>1 DEF Call, TypeOK, Device
    <2>3. /\ pc = "idle" /\ pc' = "start_sda" /\ k' = 1 /\ frame' \in Frames
          /\ UNCHANGED <<bit, nack, scl_pull, sda_pull>>
      BY <1>1 DEF Call
    <2>. QED  BY <1>0, <2>1, <2>2, <2>3
  <1>2. CASE Start
    <2>1. CASE pc = "start_sda"  BY <1>0, <1>2, <2>1 DEF Start
    <2>2. CASE pc = "start_scl"  BY <1>0, <1>2, <2>2 DEF Start
    <2>3. CASE pc = "start_cond"  BY <1>0, <1>2, <2>3 DEF Start
    <2>4. CASE pc = "start_clk"  BY <1>0, <1>2, <2>4 DEF Start
    <2>. QED  BY <1>2, <2>1, <2>2, <2>3, <2>4 DEF Start
  <1>3. CASE WriteBit
    <2>1. CASE pc = "bit"  BY <1>0, <1>3, <2>1 DEF WriteBit, EndClock, ShiftOut, NextBit
    <2>2. CASE pc = "bit_high"  BY <1>0, <1>3, <2>2 DEF WriteBit, EndClock, ShiftOut, NextBit
    <2>3. CASE pc = "bit_low"  BY <1>0, <1>3, <2>3 DEF WriteBit, EndClock, ShiftOut, NextBit
    <2>. QED  BY <1>3, <2>1, <2>2, <2>3 DEF WriteBit
  <1>4. CASE ReadAck
    <2>1. CASE pc = "ack_sda"  BY <1>0, <1>4, <2>1 DEF ReadAck, AfterByte, sda_read
    <2>2. CASE pc = "ack_high"  BY <1>0, <1>4, <2>2 DEF ReadAck, AfterByte, sda_read
    <2>3. CASE pc = "ack_read"  BY <1>0, <1>4, <2>3 DEF ReadAck, AfterByte, sda_read
    <2>4. CASE pc = "ack_low"  BY <1>0, <1>4, <2>4 DEF ReadAck, AfterByte, sda_read
    <2>. QED  BY <1>4, <2>1, <2>2, <2>3, <2>4 DEF ReadAck
  <1>5. CASE Stop
    <2>1. CASE pc = "stop_sda"  BY <1>0, <1>5, <2>1 DEF Stop
    <2>2. CASE pc = "stop_scl"  BY <1>0, <1>5, <2>2 DEF Stop
    <2>3. CASE pc = "stop_cond"  BY <1>0, <1>5, <2>3 DEF Stop
    <2>. QED  BY <1>5, <2>1, <2>2, <2>3 DEF Stop
  <1>6. CASE Return  BY <1>0, <1>6 DEF Return
  <1>. QED  BY <1>1, <1>2, <1>3, <1>4, <1>5, <1>6 DEF Master

\* What the device is after it noticed a change: its levels are the present
\* ones, and the rest is what the change made of it.
LEMMA Noticed ==
    ASSUME TypeOK, NEW c \in Device, Notice(c)
    PROVE  /\ dev' \in Device
           /\ dev'.scl = Scl /\ dev'.sda = Sda /\ dev'.mode = c.mode
           /\ dev'.bits = c.bits /\ dev'.rx = c.rx /\ dev'.pull = c.pull
           /\ dev'.acked = c.acked
  <1>1. Scl \in BOOLEAN /\ Sda \in BOOLEAN  BY DEF Scl, Sda
  <1>. QED  BY <1>1 DEF Notice, Device

\* A byte of sampled bits is a byte.
LEMMA SampledByte ==
    ASSUME TypeOK, Len(dev.bits) = Width
    PROVE  dev.bits \in Byte
  <1>1. dev.bits \in [1..Len(dev.bits) -> BOOLEAN]  BY DeviceParts, LenProperties
  <1>. QED  BY <1>1 DEF Byte

\* It is the byte sent when its bits are.
LEMMA SameBits ==
    ASSUME NEW S, NEW T, NEW x \in [S -> T], NEW y \in [S -> T],
           \A n \in S : x[n] = y[n]
    PROVE  x = y
  OBVIOUS

\* At the last falling clock of a byte the device holds the byte sent.
LEMMA ByteIsSent ==
    ASSUME TypeOK, BusInv, pc = "ack_sda", dev.mode = "bits"
    PROVE  dev.bits \in Byte /\ dev.bits = frame[k]
  <1>1. k \in 1..Len(frame)  BY DeviceParts DEF BusInv, FrameInv, TypeOK
  <1>2. frame[k] \in Byte  BY <1>1, DeviceParts, ElementOfSeq
  <1>3. Len(dev.bits) = Width /\ \A n \in 1..Width : dev.bits[n] = frame[k][n]
    BY DEF BusInv, SampleInv, AnswerInv
  <1>. QED  BY <1>2, <1>3, SampledByte, SameBits DEF Byte

\* Whatever change the device notices, it is then what the place of the master
\* asks for: at most the last change is not noticed yet.
LEMMA DeviceStepInv == IInv /\ DeviceStep => IInv'
  <1>. SUFFICES ASSUME TypeOK, BusInv, DeviceStep PROVE IInv'
    BY DEF IInv
  <1>0. /\ {dev.scl, dev.sda, dev.pull, dev.acked} \subseteq BOOLEAN
        /\ {scl_pull, sda_pull, nack} \subseteq BOOLEAN
        /\ dev.mode \in {"idle", "bits", "ack"}
        /\ Len(dev.bits) \in 0..Width /\ Len(dev.rx) \in Nat
        /\ Len(frame) \in Nat /\ k \in Nat /\ bit \in 1..Width /\ Width \in Nat \ {0}
    BY DeviceParts, BitbangAssumption DEF TypeOK
  <1>1. <<>> \in Seq(BOOLEAN) /\ Len(<<>>) = 0 /\ dev \in Device  BY DEF TypeOK
  <1>2. UNCHANGED <<pc, frame, k, bit, nack, result, scl_pull, sda_pull, calls>>
    BY DEF DeviceStep, master
  <1>3. dev' \in Device /\ Len(dev'.bits) <= Width => TypeOK'  BY <1>2 DEF TypeOK
  <1>. DEFINE Same == /\ dev'.rx = dev.rx /\ dev'.acked = dev.acked
  <1>4. CASE DeviceStart
    <2>. DEFINE c == [dev EXCEPT !.mode = "bits", !.bits = <<>>]
    <2>1. /\ c \in Device /\ c.mode = "bits" /\ c.bits = <<>>
          /\ c.rx = dev.rx /\ c.pull = dev.pull /\ c.acked = dev.acked
      BY <1>1 DEF Device
    <2>2. Notice(c) /\ dev.scl /\ Scl /\ dev.sda /\ ~Sda  BY <1>4 DEF DeviceStart
    <2>. HIDE DEF c
    <2>3. /\ dev' \in Device /\ dev'.scl = Scl /\ dev'.sda = Sda /\ dev'.pull = dev.pull
          /\ dev'.mode = "bits" /\ dev'.bits = <<>> /\ Same
      BY <2>1, <2>2, Noticed
    <2>4. pc = "start_clk"
      BY <1>0, <2>2 DEF BusInv, LevelInv, QuietInv, SampleInv, AnswerInv, StopInv, LowClock,
                        Settled, TypeOK, Label, Sda, Scl
    <2>5. BusInv'
      BY <1>0, <1>1, <1>2, <2>2, <2>3, <2>4
      DEF BusInv, LevelInv, FrameInv, QuietInv, SampleInv, AnswerInv, StopInv, TakenInv,
          AckInv, LowClock, Starting, Shifting, Acking, Stopping, Scl, Sda
    <2>. QED  BY <1>0, <1>1, <1>3, <2>3, <2>5 DEF IInv
  <1>5. CASE DeviceStop
    <2>. DEFINE c == [dev EXCEPT !.mode = "idle", !.bits = <<>>]
    <2>1. /\ c \in Device /\ c.mode = "idle" /\ c.bits = <<>>
          /\ c.rx = dev.rx /\ c.pull = dev.pull /\ c.acked = dev.acked
      BY <1>1 DEF Device
    <2>2. Notice(c) /\ dev.scl /\ Scl /\ ~dev.sda /\ Sda  BY <1>5 DEF DeviceStop
    <2>. HIDE DEF c
    <2>3. /\ dev' \in Device /\ dev'.scl = Scl /\ dev'.sda = Sda /\ dev'.pull = dev.pull
          /\ dev'.mode = "idle" /\ dev'.bits = <<>> /\ Same
      BY <2>1, <2>2, Noticed
    <2>4. pc = "return"
      BY <1>0, <2>2 DEF BusInv, LevelInv, QuietInv, SampleInv, AnswerInv, StopInv, LowClock,
                        Settled, TypeOK, Label, Sda, Scl
    <2>5. BusInv'
      BY <1>0, <1>1, <1>2, <2>2, <2>3, <2>4
      DEF BusInv, LevelInv, FrameInv, QuietInv, SampleInv, AnswerInv, StopInv, TakenInv,
          AckInv, LowClock, Starting, Shifting, Acking, Stopping, Scl, Sda
    <2>. QED  BY <1>0, <1>1, <1>3, <2>3, <2>5 DEF IInv
  <1>6. CASE DeviceRise
    <2>1. ~dev.scl /\ Scl /\ Sda \in BOOLEAN  BY <1>6 DEF DeviceRise, Sda
    <2>2. pc \in {"bit_low", "ack_read", "stop_cond"}
      BY <1>0, <2>1 DEF BusInv, LevelInv, QuietInv, AnswerInv, StopInv, LowClock, Settled,
                        TypeOK, Label, Scl
    <2>3. CASE pc = "ack_read"
      <3>1. Notice(dev)
        BY <1>6, <2>3 DEF DeviceRise, BusInv, AnswerInv, Acking
      <3>2. /\ dev' \in Device /\ dev'.scl = Scl /\ dev'.sda = Sda /\ dev'.pull = dev.pull
            /\ dev'.mode = dev.mode /\ dev'.bits = dev.bits /\ Same
        BY <1>1, <3>1, Noticed
      <3>3. BusInv'
        BY <1>0, <1>2, <2>1, <2>3, <3>2
        DEF BusInv, LevelInv, FrameInv, QuietInv, SampleInv, AnswerInv, StopInv, TakenInv,
            AckInv, LowClock, Starting, Shifting, Acking, Stopping, Scl, Sda
      <3>. QED  BY <1>0, <1>3, <3>2, <3>3 DEF IInv
    <2>4. CASE pc \in {"bit_low", "stop_cond"}
      <3>. DEFINE c == [dev EXCEPT !.bits = Append(@, Sda)]
      <3>1. /\ Append(dev.bits, Sda) \in Seq(BOOLEAN)
            /\ Len(Append(dev.bits, Sda)) = Len(dev.bits) + 1
            /\ Append(dev.bits, Sda)[Len(dev.bits) + 1] = Sda
            /\ \A n \in 1..Len(dev.bits) : Append(dev.bits, Sda)[n] = dev.bits[n]
        BY <2>1, DeviceParts, OneMore
      <3>2. /\ c \in Device /\ c.mode = dev.mode /\ c.bits = Append(dev.bits, Sda)
            /\ c.rx = dev.rx /\ c.pull = dev.pull /\ c.acked = dev.acked
        BY <1>1, <3>1 DEF Device
      <3>3. Notice(c)  BY <1>6, <2>4 DEF DeviceRise, BusInv, SampleInv, StopInv
      <3>. HIDE DEF c
      <3>4. /\ dev' \in Device /\ dev'.scl = Scl /\ dev'.sda = Sda /\ dev'.pull = dev.pull
            /\ dev'.mode = dev.mode /\ dev'.bits = Append(dev.bits, Sda) /\ Same
        BY <3>2, <3>3, Noticed
      <3>5. Len(dev'.bits) <= Width /\ Len(dev'.bits) = Len(dev.bits) + 1
        BY <1>0, <2>1, <2>4, <3>1, <3>4 DEF BusInv, SampleInv, StopInv
      <3>6. dev'.sda = dev.sda /\ dev'.scl
        BY <1>0, <2>1, <2>4, <3>4 DEF BusInv, SampleInv, StopInv, LevelInv, Sda
      <3>7. pc = "bit_low" =>
               /\ Sda = frame[k][bit] /\ Len(dev.bits) + 1 = bit
               /\ \A n \in 1..Len(dev'.bits) : dev'.bits[n] = frame[k][n]
        <4>. SUFFICES ASSUME pc = "bit_low"
                      PROVE  /\ Sda = frame[k][bit] /\ Len(dev.bits) + 1 = bit
                             /\ \A n \in 1..Len(dev'.bits) : dev'.bits[n] = frame[k][n]
          OBVIOUS
        <4>1. frame[k][bit] \in BOOLEAN
          <5>1. k \in 1..Len(frame)  BY <1>0 DEF BusInv, FrameInv, Shifting, TypeOK
          <5>2. frame[k] \in Byte  BY <5>1, DeviceParts, ElementOfSeq
          <5>. QED  BY <1>0, <5>2 DEF Byte
        <4>2. Sda = frame[k][bit]
          BY <1>0, <4>1 DEF BusInv, LevelInv, SampleInv, Sda
        <4>3. Len(dev.bits) + 1 = bit  BY <1>0, <2>1 DEF BusInv, SampleInv
        <4>4. \A n \in 1..Len(dev.bits) : dev.bits[n] = frame[k][n]
          BY DEF BusInv, SampleInv, Shifting
        <4>. QED  BY <1>0, <3>1, <3>4, <3>5, <4>2, <4>3, <4>4
      <3>8. BusInv'
        BY <1>0, <1>2, <2>1, <2>4, <3>4, <3>5, <3>6, <3>7
        DEF BusInv, LevelInv, FrameInv, QuietInv, SampleInv, AnswerInv, StopInv, TakenInv,
            AckInv, LowClock, Starting, Shifting, Acking, Stopping, Scl, Sda
      <3>. QED  BY <1>3, <3>4, <3>5, <3>8 DEF IInv
    <2>. QED  BY <2>2, <2>3, <2>4
  <1>7. CASE DeviceFall
    <2>1. dev.scl /\ ~Scl  BY <1>7 DEF DeviceFall
    <2>2. \/ pc = "ack_sda" /\ dev.mode = "bits" /\ ~dev.pull /\ Len(dev.bits) = Width
          \/ pc \in {"bit", "stop_sda"} /\ dev.mode = "ack" /\ dev.bits = <<>>
          \/ pc = "bit" /\ dev.mode = "bits" /\ ~dev.pull /\ Len(dev.bits) < Width
      BY <1>0, <2>1 DEF BusInv, LevelInv, SampleInv, AnswerInv, StopInv, LowClock, Scl, Acking
    <2>3. CASE pc = "ack_sda" /\ dev.mode = "bits" /\ ~dev.pull /\ Len(dev.bits) = Width
      <3>1. PICK a \in BOOLEAN :
                Notice([dev EXCEPT !.mode = "ack", !.bits = <<>>,
                                   !.rx = Append(@, dev.bits), !.pull = a,
                                   !.acked = @ /\ a])
        BY <1>7, <2>3 DEF DeviceFall
      <3>2. dev.acked /\ Len(dev.rx) = k - 1 /\ k <= Len(frame)
        BY <2>3 DEF BusInv, AckInv, TakenInv, FrameInv, Acking
      <3>3. dev.bits \in Byte /\ dev.bits = frame[k]  BY <2>3, ByteIsSent
      <3>4. /\ Append(dev.rx, dev.bits) \in Seq(Byte)
            /\ Len(Append(dev.rx, dev.bits)) = Len(dev.rx) + 1
            /\ Append(dev.rx, dev.bits)[Len(dev.rx) + 1] = dev.bits
            /\ \A n \in 1..Len(dev.rx) : Append(dev.rx, dev.bits)[n] = dev.rx[n]
        BY <3>3, DeviceParts, OneMore
      <3>. DEFINE c == [dev EXCEPT !.mode = "ack", !.bits = <<>>,
                                   !.rx = Append(@, dev.bits), !.pull = a,
                                   !.acked = @ /\ a]
      <3>5. /\ c \in Device /\ c.mode = "ack" /\ c.bits = <<>>
            /\ c.rx = Append(dev.rx, dev.bits) /\ c.pull = a /\ c.acked = (dev.acked /\ a)
        BY <1>1, <3>4 DEF Device
      <3>6. Notice(c)  BY <3>1
      <3>. HIDE DEF c
      <3>7. /\ dev' \in Device /\ dev'.scl = Scl /\ dev'.sda = Sda /\ dev'.pull = a
            /\ dev'.mode = "ack" /\ dev'.bits = <<>> /\ dev'.rx = Append(dev.rx, dev.bits)
            /\ dev'.acked = (dev.acked /\ a)
        BY <3>5, <3>6, Noticed
      <3>8. \A n \in 1..Len(dev'.rx) : dev'.rx[n] = frame[n]
        BY <1>0, <2>3, <3>2, <3>3, <3>4, <3>7 DEF BusInv, TakenInv
      <3>9. BusInv'
        BY <1>0, <1>1, <1>2, <2>1, <2>3, <3>2, <3>4, <3>7, <3>8
        DEF BusInv, LevelInv, FrameInv, QuietInv, SampleInv, AnswerInv, StopInv, TakenInv,
            AckInv, LowClock, Starting, Shifting, Acking, Stopping, Scl, Sda
      <3>. QED  BY <1>0, <1>1, <1>3, <3>7, <3>9 DEF IInv
    <2>4. CASE pc \in {"bit", "stop_sda"} /\ dev.mode = "ack" /\ dev.bits = <<>>
      <3>. DEFINE c == [dev EXCEPT !.mode = "bits", !.pull = FALSE]
      <3>1. /\ c \in Device /\ c.mode = "bits" /\ c.bits = <<>>
            /\ c.rx = dev.rx /\ c.pull = FALSE /\ c.acked = dev.acked
        BY <1>1, <2>4 DEF Device
      <3>2. Notice(c)  BY <1>7, <2>4 DEF DeviceFall
      <3>. HIDE DEF c
      <3>3. /\ dev' \in Device /\ dev'.scl = Scl /\ dev'.sda = Sda /\ dev'.pull = FALSE
            /\ dev'.mode = "bits" /\ dev'.bits = <<>> /\ Same
        BY <3>1, <3>2, Noticed
      <3>4. BusInv'
        BY <1>0, <1>1, <1>2, <2>1, <2>4, <3>3
        DEF BusInv, LevelInv, FrameInv, QuietInv, SampleInv, AnswerInv, StopInv, TakenInv,
            AckInv, LowClock, Starting, Shifting, Acking, Stopping, Scl, Sda
      <3>. QED  BY <1>0, <1>1, <1>3, <3>3, <3>4 DEF IInv
    <2>5. CASE pc = "bit" /\ dev.mode = "bits" /\ ~dev.pull /\ Len(dev.bits) < Width
      <3>1. Notice(dev)
        <4>1. Len(dev.bits) # Width /\ dev.mode # "ack"  BY <1>0, <2>5
        <4>. QED  BY <1>7, <4>1, Zenon DEF DeviceFall
      <3>2. /\ dev' \in Device /\ dev'.scl = Scl /\ dev'.sda = Sda /\ dev'.pull = dev.pull
            /\ dev'.mode = dev.mode /\ dev'.bits = dev.bits /\ Same
        BY <1>1, <3>1, Noticed
      <3>3. BusInv'
        BY <1>0, <1>2, <2>1, <2>5, <3>2
        DEF BusInv, LevelInv, FrameInv, QuietInv, SampleInv, AnswerInv, StopInv, TakenInv,
            AckInv, LowClock, Starting, Shifting, Acking, Stopping, Scl, Sda
      <3>. QED  BY <1>0, <1>3, <3>2, <3>3 DEF IInv
    <2>. QED  BY <2>2, <2>3, <2>4, <2>5
  <1>8. CASE DeviceIdle
    <2>1. ~dev.scl /\ ~Scl /\ Notice(dev)  BY <1>8 DEF DeviceIdle
    <2>2. /\ dev' \in Device /\ dev'.scl = Scl /\ dev'.sda = Sda /\ dev'.pull = dev.pull
          /\ dev'.mode = dev.mode /\ dev'.bits = dev.bits /\ Same
      BY <1>1, <2>1, Noticed
    <2>3. pc \in LowClock  BY <2>1 DEF BusInv, LevelInv, Scl
    <2>4. BusInv'
      BY <1>0, <1>2, <2>1, <2>2, <2>3
      DEF BusInv, LevelInv, FrameInv, QuietInv, SampleInv, AnswerInv, StopInv, TakenInv,
          AckInv, LowClock, Starting, Shifting, Acking, Stopping, Scl, Sda
    <2>. QED  BY <1>0, <1>3, <2>2, <2>4 DEF IInv
  <1>. QED  BY <1>4, <1>5, <1>6, <1>7, <1>8 DEF DeviceStep

\* The invariant holds in every reachable state.
THEOREM Invariant == Spec => []IInv
  <1>1. IInv /\ UNCHANGED vars => IInv'
    BY DEF vars, IInv, TypeOK, BusInv, LevelInv, FrameInv, QuietInv, SampleInv, AnswerInv,
           StopInv, TakenInv, AckInv, Settled, Scl, Sda
  <1>2. IInv /\ [Next]_vars => IInv'
    BY <1>1, MasterTypeOK, MasterStep, DeviceStepInv DEF Next, IInv
  <1>. QED  BY <1>2, InitIInv, PTL DEF Spec

\* No bit past the byte and no byte past the frame.
THEOREM TypeCorrect == Spec => []TypeOK
  BY Invariant, PTL DEF IInv

\* Between calls both lines are high and the device is idle.
THEOREM BusIsFree == Spec => []FreeBetweenCalls
  <1>1. IInv => FreeBetweenCalls
    BY DEF IInv, BusInv, LevelInv, QuietInv, LowClock, FreeBetweenCalls, Scl, Sda
  <1>. QED  BY <1>1, Invariant, PTL

\* What sda_read() returns is the answer to the byte just sent.
THEOREM AnswerIsRead == Spec => []AckIsOfThisByte
  <1>1. IInv => AckIsOfThisByte
    BY DEF IInv, BusInv, AckInv, TakenInv, Acking, AckIsOfThisByte
  <1>. QED  BY <1>1, Invariant, PTL

\* SDA only moves under a high SCL to make a START or a STOP.
THEOREM SdaMoves == Spec => OnlyStartAndStop
  <1>. DEFINE A == Scl /\ Scl' /\ Sda # Sda' => pc \in {"start_cond", "stop_cond"}
  <1>1. IInv /\ [Next]_vars => [A]_vars
    <2>. SUFFICES ASSUME TypeOK, BusInv, Next, Scl, Scl', Sda # Sda'
                  PROVE  pc \in {"start_cond", "stop_cond"}
      BY DEF IInv
    <2>1. CASE DeviceStep
      <3>1. ~DeviceFall /\ UNCHANGED <<scl_pull, sda_pull>>
        BY <2>1 DEF DeviceFall, DeviceStep, master
      <3>2. dev'.pull = dev.pull
        <4>1. dev \in Device /\ <<>> \in Seq(BOOLEAN)  BY DEF TypeOK
        <4>2. CASE DeviceStart  BY <4>1, <4>2 DEF DeviceStart, Notice, Device
        <4>3. CASE DeviceStop  BY <4>1, <4>3 DEF DeviceStop, Notice, Device
        <4>4. CASE DeviceRise  BY <4>1, <4>4 DEF DeviceRise, Notice, Device
        <4>5. CASE DeviceIdle  BY <4>1, <4>5 DEF DeviceIdle, Notice, Device
        <4>. QED  BY <2>1, <3>1, <4>2, <4>3, <4>4, <4>5 DEF DeviceStep
      <3>. QED  BY <3>1, <3>2 DEF Sda
    <2>2. CASE Call
      <3>1. dev'.pull = dev.pull /\ UNCHANGED sda_pull  BY <2>2 DEF Call, TypeOK, Device
      <3>. QED  BY <3>1 DEF Sda
    <2>3. CASE Start
      BY <2>3 DEF Start, Goto, scl_low, scl_release, sda_low, sda_release, Scl, Sda, BusInv,
                  LevelInv
    <2>4. CASE WriteBit
      BY <2>4 DEF WriteBit, Goto, EndClock, ShiftOut, scl_low, scl_release, sda_low,
                  sda_release, Scl, Sda, BusInv, LevelInv, LowClock
    <2>5. CASE ReadAck
      BY <2>5 DEF ReadAck, Goto, scl_low, scl_release, sda_release, Scl, Sda, BusInv,
                  LevelInv, LowClock
    <2>6. CASE Stop
      BY <2>6 DEF Stop, Goto, scl_release, sda_low, sda_release, Scl, Sda, BusInv, LevelInv,
                  LowClock
    <2>7. CASE Return  BY <2>7 DEF Return, Sda
    <2>. QED
      BY <2>1, <2>2, <2>3, <2>4, <2>5, <2>6, <2>7 DEF Next, Master
  <1>. QED  BY <1>1, Invariant, PTL DEF Spec, OnlyStartAndStop

-----------------------------------------------------------------------------
(* The refinement.                                                         *)

\* Every line operation and every change the device notices is a step of the
\* transfer that ssd1315_write() promises, or changes nothing of it: the device
\* takes a byte when the clock of its last bit falls.
LEMMA NextTransfer == IInv /\ [Next]_vars => [Transfer!Next]_(Transfer!vars)
  <1>. SUFFICES ASSUME TypeOK, BusInv, [Next]_vars PROVE [Transfer!Next]_(Transfer!vars)
    BY DEF IInv
  <1>. USE DEF Transfer!Next, Transfer!vars
  <1>0. dev \in Device /\ <<>> \in Seq(BOOLEAN) /\ <<>> \in Seq(Byte)  BY DEF TypeOK
  <1>1. CASE Call
    <2>1. dev'.rx = <<>> /\ dev'.acked = TRUE  BY <1>0, <1>1 DEF Call, Device
    <2>2. pc = "idle" /\ pc' = "start_sda" /\ result' = "none" /\ frame' \in Frames
      BY <1>1 DEF Call, Goto
    <2>. QED  BY <2>1, <2>2 DEF Transfer!Call
  <1>2. CASE Start \/ WriteBit \/ ReadAck \/ Stop
    <2>1. pc # "idle" /\ pc' # "idle"
      BY <1>2 DEF Start, WriteBit, NextBit, ReadAck, AfterByte, Stop, Goto
    <2>2. UNCHANGED <<frame, result, dev>>
      BY <1>2 DEF Start, WriteBit, ReadAck, Stop
    <2>. QED  BY <2>1, <2>2
  <1>3. CASE Return
    <2>1. pc = "return" /\ pc' = "idle" /\ UNCHANGED <<frame, dev>>
      BY <1>3 DEF Return, Goto
    <2>2. CASE nack
      <3>1. result' = "fail"  BY <1>3, <2>2 DEF Return
      <3>. QED  BY <2>1, <3>1 DEF Transfer!ReturnFail
    <2>3. CASE ~nack
      <3>1. result' = "ok"  BY <1>3, <2>3 DEF Return
      <3>2. dev.acked /\ k = Len(frame) + 1  BY <2>1, <2>3 DEF BusInv, AckInv, Stopping
      <3>3. /\ Len(dev.rx) = k - 1
            /\ \A n \in 1..Len(dev.rx) : dev.rx[n] = frame[n]
        BY <2>1 DEF BusInv, TakenInv, Acking
      <3>4. dev.rx = frame
        <4>1. Len(dev.rx) = Len(frame)  BY <3>2, <3>3, DeviceParts
        <4>. QED  BY <3>3, <4>1, DeviceParts, SeqEqual
      <3>. QED  BY <2>1, <3>1, <3>2, <3>4 DEF Transfer!ReturnOk
    <2>. QED  BY <2>2, <2>3
  <1>4. CASE DeviceStep
    <2>1. UNCHANGED <<pc, frame, result>>  BY <1>4 DEF DeviceStep, master
    <2>2. CASE pc = "ack_sda" /\ dev.mode = "bits" /\ DeviceFall
      <3>1. Len(dev.bits) = Width  BY <2>2 DEF BusInv, AnswerInv
      <3>2. PICK a \in BOOLEAN :
                Notice([dev EXCEPT !.mode = "ack", !.bits = <<>>,
                                   !.rx = Append(@, dev.bits), !.pull = a,
                                   !.acked = @ /\ a])
        BY <2>2, <3>1 DEF DeviceFall
      <3>3. dev.acked /\ Len(dev.rx) = k - 1 /\ k <= Len(frame)
        BY <2>2 DEF BusInv, AckInv, TakenInv, FrameInv, Acking
      <3>4. dev.bits = frame[k]  BY <2>2, ByteIsSent DEF BusInv
      <3>5. dev'.rx = Append(dev.rx, frame[k]) /\ dev'.acked = (dev.acked /\ a)
        BY <1>0, <3>2, <3>4 DEF Notice, Device
      <3>6. Len(dev.rx) < Len(frame) /\ Len(dev.rx) + 1 = k
        BY <3>3, DeviceParts
      <3>7. dev'.rx = Append(dev.rx, frame[Len(dev.rx) + 1]) /\ dev'.acked \in BOOLEAN
        BY <3>5, <3>6
      <3>. QED  BY <2>1, <2>2, <3>3, <3>6, <3>7 DEF Transfer!Take
    <2>3. CASE ~(pc = "ack_sda" /\ dev.mode = "bits" /\ DeviceFall)
      <3>1. dev'.rx = dev.rx /\ dev'.acked = dev.acked
        <4>1. CASE DeviceStart  BY <1>0, <4>1 DEF DeviceStart, Notice, Device
        <4>2. CASE DeviceStop  BY <1>0, <4>2 DEF DeviceStop, Notice, Device
        <4>3. CASE DeviceRise  BY <1>0, <4>3 DEF DeviceRise, Notice, Device
        <4>4. CASE DeviceIdle  BY <1>0, <4>4 DEF DeviceIdle, Notice, Device
        <4>5. CASE DeviceFall
          <5>1. ~(dev.mode = "bits" /\ Len(dev.bits) = Width)
            <6>1. dev.scl /\ ~Scl /\ ~(pc = "ack_sda" /\ dev.mode = "bits")
              BY <2>3, <4>5 DEF DeviceFall
            <6>2. CASE dev.mode = "bits"
              <7>1. pc = "bit" /\ Len(dev.bits) = bit - 1
                BY <6>1, <6>2 DEF BusInv, LevelInv, SampleInv, AnswerInv, StopInv, LowClock,
                                  Acking, Scl
              <7>. QED  BY <7>1, DeviceParts, BitbangAssumption
            <6>. QED  BY <6>2
          <5>2. Notice(dev) \/ Notice([dev EXCEPT !.mode = "bits", !.pull = FALSE])
            BY <4>5, <5>1, Zenon DEF DeviceFall
          <5>. QED  BY <1>0, <5>2 DEF Notice, Device
        <4>. QED  BY <1>4, <4>1, <4>2, <4>3, <4>4, <4>5 DEF DeviceStep
      <3>. QED  BY <2>1, <3>1
    <2>. QED  BY <2>2, <2>3
  <1>5. CASE UNCHANGED vars  BY <1>5 DEF vars
  <1>. QED  BY <1>1, <1>2, <1>3, <1>4, <1>5 DEF Next, Master

\* The software master keeps the promise of ssd1315_write(), for every frame
\* and every width of a byte.
THEOREM Implements == Spec => ImplementsTransfer
  <1>1. Init => Transfer!Init  BY DEF Init, Transfer!Init
  <1>. QED
    BY <1>1, Invariant, NextTransfer, PTL DEF Spec, ImplementsTransfer, Transfer!Spec

=============================================================================
