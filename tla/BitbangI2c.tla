----------------------------- MODULE BitbangI2c -----------------------------
(***************************************************************************)
(* The bit-banged I2C master of ch32v0/ssd1315_i2c (lines 211-325), at the *)
(* level of its two lines, together with the device at the other end.      *)
(*                                                                         *)
(* A line is high unless one of the two pulls it low.  The device is a     *)
(* second process: it notices a change of the lines some time after it     *)
(* happened.  i2c_bitbang_delay() gives it that time: an operation that    *)
(* the code runs after a delay waits until the device has noticed          *)
(* (Settled); one that it runs without a delay does not.                   *)
(***************************************************************************)
EXTENDS Naturals, Sequences

CONSTANTS
    Width,     \* bits of a byte: 8 in the code
    Frames,    \* the frames to send: address, control byte and payload
    MaxCalls   \* bound: calls of ssd1315_write()

Byte == [1..Width -> BOOLEAN]     \* index 1 is the most significant bit

ASSUME BitbangAssumption ==
    /\ Width \in Nat \ {0}
    /\ MaxCalls \in Nat
    /\ \A f \in Frames : f \in Seq(Byte) /\ f # <<>>

VARIABLES
    pc,       \* where the master is
    frame,    \* the bytes of this call
    k,        \* the byte being written
    bit,      \* the bit being written
    nack,     \* i2c_bitbang_write_byte: what sda_read() returned
    result,   \* the last return value of ssd1315_write()
    scl_pull, \* the master pulls SCL low
    sda_pull, \* the master pulls SDA low
    dev,      \* the device (external)
    calls     \* calls so far

vars == <<pc, frame, k, bit, nack, result, scl_pull, sda_pull, dev, calls>>
master == <<pc, frame, k, bit, nack, result, scl_pull, sda_pull, calls>>

Label == {"idle", "start_sda", "start_scl", "start_cond", "start_clk",
          "bit", "bit_high", "bit_low", "ack_sda", "ack_high", "ack_read",
          "ack_low", "stop_sda", "stop_scl", "stop_cond", "return"}

\* The levels of the lines.
Scl == ~scl_pull
Sda == ~sda_pull /\ ~dev.pull

\* The device has noticed the present levels: i2c_bitbang_delay() is over.
Settled == dev.scl = Scl /\ dev.sda = Sda

Device == [scl : BOOLEAN, sda : BOOLEAN,        \* levels it last noticed
           mode : {"idle", "bits", "ack"},
           bits : Seq(BOOLEAN),                 \* bits of the current byte
           rx : Seq(Byte),                      \* bytes of this transfer
           pull : BOOLEAN,                      \* it pulls SDA low
           acked : BOOLEAN]                     \* it acknowledged all of rx

TypeOK ==
    /\ pc \in Label
    /\ frame \in Frames \cup {<<>>}
    /\ k \in 1..(Len(frame) + 1)
    /\ bit \in 1..Width
    /\ nack \in BOOLEAN
    /\ result \in {"none", "ok", "fail"}
    /\ scl_pull \in BOOLEAN
    /\ sda_pull \in BOOLEAN
    /\ dev \in Device
    /\ Len(dev.bits) <= Width
    /\ calls \in 0..MaxCalls

Init ==
    /\ pc = "idle"
    /\ frame = <<>>
    /\ k = 1
    /\ bit = 1
    /\ nack = FALSE
    /\ result = "none"
    /\ scl_pull = FALSE
    /\ sda_pull = FALSE
    /\ dev = [scl |-> TRUE, sda |-> TRUE, mode |-> "idle", bits |-> <<>>,
              rx |-> <<>>, pull |-> FALSE, acked |-> TRUE]
    /\ calls = 0

-----------------------------------------------------------------------------
(* The four line operations; pulling a line takes the switch to open-drain *)
(* output, releasing it the switch back to an input with pull-up.          *)

scl_low_StaysInput == UNCHANGED <<scl_pull, sda_pull>>
scl_low == scl_pull' = TRUE  /\ UNCHANGED sda_pull
scl_release == scl_pull' = FALSE /\ UNCHANGED sda_pull
sda_release == sda_pull' = FALSE /\ UNCHANGED scl_pull
sda_low == sda_pull' = TRUE  /\ UNCHANGED scl_pull

Goto(from, to) == pc = from /\ pc' = to

(* ssd1315_write(): the call and its return.                               *)

Call ==
    /\ calls < MaxCalls
    /\ Goto("idle", "start_sda")
    /\ calls' = calls + 1
    /\ frame' \in Frames
    /\ k' = 1
    /\ result' = "none"
    /\ dev' = [dev EXCEPT !.rx = <<>>, !.acked = TRUE]
    /\ UNCHANGED <<bit, nack, scl_pull, sda_pull>>

Return ==
    /\ Goto("return", "idle")
    /\ Settled
    /\ result' = IF nack THEN "fail" ELSE "ok"
    /\ UNCHANGED <<frame, k, bit, nack, scl_pull, sda_pull, dev, calls>>

(* i2c_bitbang_start(): there is no delay between the two releases.        *)
Start ==
    /\ \/ Goto("start_sda", "start_scl") /\ Settled /\ sda_release
       \/ Goto("start_scl", "start_cond") /\ scl_release
       \/ Goto("start_cond", "start_clk") /\ Settled /\ sda_low
       \/ Goto("start_clk", "bit") /\ Settled /\ scl_low
    /\ bit' = 1
    /\ UNCHANGED <<frame, k, nack, result, dev, calls>>

(* i2c_bitbang_write_byte(): the bits, most significant first ...          *)
ShiftOut == IF frame[k][bit] THEN sda_release ELSE sda_low

EndClock_NoDelay == scl_low
EndClock == Settled /\ scl_low

NextBit_OneTooMany ==
    IF bit > Width THEN pc' = "ack_sda" /\ UNCHANGED bit
    ELSE pc' = "bit" /\ bit' = bit + 1
NextBit ==
    IF bit = Width THEN pc' = "ack_sda" /\ UNCHANGED bit
    ELSE pc' = "bit" /\ bit' = bit + 1

WriteBit ==
    /\ \/ Goto("bit", "bit_high") /\ Settled /\ ShiftOut /\ UNCHANGED bit
       \/ Goto("bit_high", "bit_low") /\ Settled /\ scl_release /\ UNCHANGED bit
       \/ pc = "bit_low" /\ EndClock /\ NextBit
    /\ UNCHANGED <<frame, k, nack, result, dev, calls>>

(* ... then the acknowledge bit; sda_read() and scl_low() have no delay    *)
(* between them.  ssd1315_write() goes on to the next byte or to STOP.     *)
sda_read == nack' = Sda

AfterByte_IgnoreNack == IF k = Len(frame) THEN "stop_sda" ELSE "bit"
AfterByte == IF nack \/ k = Len(frame) THEN "stop_sda" ELSE "bit"

ReadAck ==
    /\ \/ Goto("ack_sda", "ack_high") /\ Settled /\ sda_release
          /\ UNCHANGED <<k, bit, nack>>
       \/ Goto("ack_high", "ack_read") /\ Settled /\ scl_release
          /\ UNCHANGED <<k, bit, nack>>
       \/ Goto("ack_read", "ack_low") /\ Settled /\ sda_read
          /\ UNCHANGED <<k, bit, scl_pull, sda_pull>>
       \/ Goto("ack_low", AfterByte) /\ scl_low
          /\ k' = k + 1 /\ bit' = 1 /\ UNCHANGED nack
    /\ UNCHANGED <<frame, result, dev, calls>>

(* i2c_bitbang_stop().                                                     *)
Stop_NoSdaLow ==
    /\ \/ Goto("stop_sda", "stop_scl") /\ Settled /\ UNCHANGED <<scl_pull, sda_pull>>
       \/ Goto("stop_scl", "stop_cond") /\ Settled /\ scl_release
       \/ Goto("stop_cond", "return") /\ Settled /\ sda_release
    /\ UNCHANGED <<frame, k, bit, nack, result, dev, calls>>
Stop ==
    /\ \/ Goto("stop_sda", "stop_scl") /\ Settled /\ sda_low
       \/ Goto("stop_scl", "stop_cond") /\ Settled /\ scl_release
       \/ Goto("stop_cond", "return") /\ Settled /\ sda_release
    /\ UNCHANGED <<frame, k, bit, nack, result, dev, calls>>

Master == Call \/ Start \/ WriteBit \/ ReadAck \/ Stop \/ Return

-----------------------------------------------------------------------------
(* The device (external): a standard I2C receiver that may leave any byte  *)
(* unacknowledged - a device that is not there leaves all of them so.  It  *)
(* handles the change from the levels it last noticed to the present ones. *)

Notice(changes) == dev' = [changes EXCEPT !.scl = Scl, !.sda = Sda]

DeviceStart ==     \* SDA falls while SCL is high
    /\ dev.scl /\ Scl /\ dev.sda /\ ~Sda
    /\ Notice([dev EXCEPT !.mode = "bits", !.bits = <<>>])

DeviceStop ==      \* SDA rises while SCL is high
    /\ dev.scl /\ Scl /\ ~dev.sda /\ Sda
    /\ Notice([dev EXCEPT !.mode = "idle", !.bits = <<>>])

DeviceRise ==      \* SCL rises: sample a bit
    /\ ~dev.scl /\ Scl
    /\ Notice(IF dev.mode = "bits"
              THEN [dev EXCEPT !.bits = Append(@, Sda)] ELSE dev)

DeviceFall ==      \* SCL falls: after the last bit take the byte and answer
    /\ dev.scl /\ ~Scl
    /\ IF dev.mode = "bits" /\ Len(dev.bits) = Width
       THEN \E a \in BOOLEAN :
              Notice([dev EXCEPT !.mode = "ack", !.bits = <<>>,
                                 !.rx = Append(@, dev.bits),
                                 !.pull = a, !.acked = @ /\ a])
       ELSE IF dev.mode = "ack"
       THEN Notice([dev EXCEPT !.mode = "bits", !.pull = FALSE])
       ELSE Notice(dev)

DeviceIdle ==      \* SDA moves while SCL is low
    /\ ~dev.scl /\ ~Scl /\ dev.sda # Sda
    /\ Notice(dev)

DeviceStep ==
    /\ DeviceStart \/ DeviceStop \/ DeviceRise \/ DeviceFall \/ DeviceIdle
    /\ UNCHANGED master

Next == Master \/ DeviceStep

Spec == Init /\ [][Next]_vars

-----------------------------------------------------------------------------
(* Properties.                                                             *)

\* ssd1315_write() keeps the promise of I2cTransfer: this is where every edge
\* and every delay of the bit-banged code has to be right.
Transfer == INSTANCE I2cTransfer WITH
    status <- IF pc = "idle" THEN "idle" ELSE "busy",
    received <- dev.rx,
    acked <- dev.acked
ImplementsTransfer == Transfer!Spec

\* While SCL is high SDA moves only to make a START or a STOP condition: the
\* device never sees one inside a byte, nor the master's release as a STOP.
OnlyStartAndStop ==
    [][Scl /\ Scl' /\ Sda # Sda' => pc \in {"start_cond", "stop_cond"}]_vars

\* Between calls the bus is free: both lines high, the device back at idle and
\* driving nothing - also after a byte that was not acknowledged.
FreeBetweenCalls ==
    pc = "idle" => Scl /\ Sda /\ Settled /\ dev.mode = "idle" /\ ~dev.pull

\* The value sda_read() returns is the device's answer to this very byte.
AckIsOfThisByte ==
    pc = "ack_low" => (nack <=> ~dev.pull) /\ Len(dev.rx) = k

=============================================================================
