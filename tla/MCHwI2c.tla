------------------------------ MODULE MCHwI2c ------------------------------
(* HwI2c.tla with frames of a control byte and up to two bytes of payload, *)
(* and two calls, the second while the STOP of the first may be pending.   *)
EXTENDS HwI2c

CONSTANTS a, c, d, e      \* address, control byte and two data bytes

MCByte == {a, c, d, e}
MCFrames == {<<a, c>>, <<a, c, d>>, <<a, c, d, e>>, <<a, c, d, d>>}
=============================================================================
