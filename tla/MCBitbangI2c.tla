---------------------------- MODULE MCBitbangI2c ----------------------------
(* BitbangI2c.tla on bytes of three bits, so that a byte has a first, a    *)
(* middle and a last bit: every payload of one byte, none, and one of two; *)
(* and two calls, so that the second starts from what the first left.      *)
EXTENDS BitbangI2c

MCAddress == <<FALSE, TRUE, TRUE>>
MCControl == {<<FALSE, FALSE, FALSE>>, <<FALSE, TRUE, FALSE>>}
MCPayload == {<<>>, <<<<TRUE, FALSE, TRUE>>, <<FALSE, TRUE, FALSE>>>>}
                \cup [1..1 -> Byte]
MCFrames == {<<MCAddress, c>> \o p : c \in MCControl, p \in MCPayload}
=============================================================================
