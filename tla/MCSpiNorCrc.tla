---------------------------- MODULE MCSpiNorCrc ----------------------------
(* Pages of nine bytes read in chunks of four, so that the last chunk is    *)
(* short; addresses of three ternary digits, so that 27 bytes are three     *)
(* pages.                                                                   *)
EXTENDS SpiNorCrc

Check == <<49, 50, 51, 52, 53, 54, 55, 56, 57>>   \* "123456789"
MCImages ==
    {Check \o [n \in 1..27 |-> (37 * n) % 256],
     [n \in 1..36 |-> IF n <= 18 THEN 255 ELSE n]}
MCChips ==
    {[id |-> <<239, 64, 24>>, status |-> 2, sfdp |-> TRUE],
     [id |-> <<0, 0, 20>>, status |-> 0, sfdp |-> FALSE]}

\* The set of bits of a 32-bit constant, given as two halves.
HalfWord(n) == {b \in 0..15 : (n \div 2^b) % 2 = 1}
Word32(hi, lo) == HalfWord(lo) \cup {b + 16 : b \in HalfWord(hi)}

\* The constants of the file: 0xedb88320 and, from its header, 0x04c11db7.
ASSUME Polynomials ==
    /\ CRC32_REFLECTED_POLYNOMIAL = Word32(60856, 33568)
    /\ Polynomial = Word32(1217, 7607)
\* The standard check value, main.c:40: 0xcbf43926.
ASSUME StandardCheckValue == ReferenceCrc(Check) = Word32(52212, 14630)
\* The chips hold the pages, and three address bytes reach them.
ASSUME JobFits == Fits
=============================================================================
