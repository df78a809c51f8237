---------------------------- MODULE SpiNorProofs ----------------------------
(***************************************************************************)
(* Theorems about the SPI NOR program of SpiNorCrc.tla, for any page and   *)
(* chunk size, any number of pages, any chips and contents: what it        *)
(* reports is the chip's, what it hands to crc32_update() is the page, and *)
(* what it prints is the CRC-32 of the page.                               *)
(***************************************************************************)
EXTENDS SpiNorCrc, SequenceTheorems, WellFoundedInduction, TLAPS

-----------------------------------------------------------------------------
(* Recursion and induction.                                                *)

\* Induction over the naturals, for a set.
LEMMA SetInduction ==
    ASSUME NEW T, T \subseteq Nat, 0 \in T, \A n \in T : n + 1 \in T
    PROVE  T = Nat
  <1>. DEFINE R == OpToRel(<, Nat)
              U == Nat \ T
  <1>1. IsWellFoundedOn(R, Nat)  BY NatLessThanWellFounded
  <1>2. SUFFICES ASSUME U # {} PROVE FALSE
    BY Zenon
  <1>3. PICK x \in U : \A y \in U : ~ (<<y, x>> \in R)
    BY <1>1, <1>2, WFMin, Zenon
  <1>4. x \in Nat /\ x \notin T /\ x # 0  OBVIOUS
  <1>5. x - 1 \in Nat /\ x - 1 + 1 = x /\ x - 1 < x  BY <1>4
  <1>6. x - 1 \notin T  BY <1>4, <1>5
  <1>7. <<x - 1, x>> \in R  BY <1>4, <1>5 DEF OpToRel
  <1>. QED  BY <1>3, <1>4, <1>5, <1>6, <1>7

\* The functions that give from a number n and f[n - 1] the value f[n].
Steps(V) == [Nat \X V -> V]

\* What f is when it starts at base and takes m of these steps.
FirstSteps(f, m, V, base, step) ==
    /\ f \in [0..m -> V] /\ f[0] = base
    /\ \A n \in 1..m : f[n] = step[<<n, f[n - 1]>>]

\* A value and a step from one value to the next determine a function.
LEMMA BoundedRecursion ==
    ASSUME NEW V, NEW base \in V, NEW step \in Steps(V), NEW m \in Nat
    PROVE  \E f : FirstSteps(f, m, V, base, step)
<1> DEFINE T == {n \in Nat : \E f : FirstSteps(f, n, V, base, step)}
<1>1. 0 \in T
  <2>1. FirstSteps([k \in 0..0 |-> base], 0, V, base, step)
    BY DEF FirstSteps
  <2>2. QED
    BY <2>1
<1>2. ASSUME NEW n \in T PROVE n + 1 \in T
  <2>1. PICK f : FirstSteps(f, n, V, base, step)
    OBVIOUS
  <2>2. /\ f \in [0..n -> V] /\ f[0] = base
        /\ \A k \in 1..n : f[k] = step[<<k, f[k - 1]>>]
    BY <2>1 DEF FirstSteps
  <2> DEFINE last == step[<<n + 1, f[n]>>]
             g == [k \in 0..n + 1 |-> IF k = n + 1 THEN last ELSE f[k]]
  <2>3. n \in Nat /\ n \in 0..n /\ n # n + 1 /\ 0 # n + 1
    OBVIOUS
  <2>4. last \in V
    BY <2>2, <2>3 DEF Steps
  <2>5. \A k \in 0..n : g[k] = f[k] /\ g[k] \in V
    BY <2>2, <2>3
  <2>6. g[n + 1] = last
    BY <2>3
  <2>7. g \in [0..n + 1 -> V]
    <3>1. \A k \in 0..n + 1 : k = n + 1 \/ k \in 0..n
      BY <2>3
    <3>2. \A k \in 0..n + 1 : g[k] \in V
      <4> HIDE DEF g
      <4>1. QED
        BY <2>4, <2>5, <2>6, <3>1
    <3>3. QED
      BY <3>2
  <2> HIDE DEF g
  <2>8. ASSUME NEW k \in 1..n + 1 PROVE g[k] = step[<<k, g[k - 1]>>]
    <3>1. k - 1 \in 0..n
      BY <2>3
    <3>2. g[k - 1] = f[k - 1]
      BY <2>5, <3>1
    <3>3. CASE k = n + 1
      BY <2>3, <2>6, <3>2, <3>3
    <3>4. CASE k \in 1..n
      BY <2>2, <2>3, <2>5, <3>2, <3>4
    <3>5. QED
      BY <2>3, <3>3, <3>4
  <2>9. g[0] = base
    BY <2>2, <2>3, <2>5
  <2>10. FirstSteps(g, n + 1, V, base, step)
    BY <2>7, <2>8, <2>9 DEF FirstSteps
  <2>11. QED
    BY <2>3, <2>10
<1>3. T \subseteq Nat
  OBVIOUS
<1> HIDE DEF T
<1>4. T = Nat
  BY <1>1, <1>2, <1>3, SetInduction, Zenon
<1>5. QED
  BY <1>4 DEF T

\* Induction up to a bound.
LEMMA BoundedInduction ==
    ASSUME NEW m \in Nat, NEW T, 0 \in T,
           \A n \in 0..m - 1 : n \in T => n + 1 \in T
    PROVE  0..m \subseteq T
  <1>. DEFINE U == {n \in Nat : n <= m => n \in T}
  <1>1. 0 \in U  OBVIOUS
  <1>2. \A n \in U : n + 1 \in U  OBVIOUS
  <1>3. U \subseteq Nat  OBVIOUS
  <1>. HIDE DEF U
  <1>4. U = Nat  BY <1>1, <1>2, <1>3, SetInduction, Zenon
  <1>. QED  BY <1>4 DEF U

-----------------------------------------------------------------------------
(* The CRC of a byte, computed in two ways.                                *)

\* A register is a set of bit numbers.
Register == SUBSET Word

\* The bits of a byte are 0 to 7.
LEMMA BitsOfByte == \A byte : Bits(byte) \subseteq 0..7
  BY DEF Bits

\* The two polynomials are each other's mirror image.
LEMMA PolynomialsMirror ==
    /\ CRC32_REFLECTED_POLYNOMIAL \subseteq Word /\ Polynomial \subseteq Word
    /\ \A x \in Word : x \in CRC32_REFLECTED_POLYNOMIAL <=> 31 - x \in Polynomial
  BY DEF CRC32_REFLECTED_POLYNOMIAL, Polynomial, Word

\* What a turn of the loop of crc32_soft_update() does to each bit.
LEMMA SoftBit ==
    ASSUME NEW c \in Register
    PROVE  /\ crc_bit(c) \in Register
           /\ \A x \in Word : x \in crc_bit(c) <=>
                (x + 1 \in c) # (0 \in c /\ x \in CRC32_REFLECTED_POLYNOMIAL)
  <1>. DEFINE P == IF 0 \in c THEN CRC32_REFLECTED_POLYNOMIAL ELSE {}
  <1>1. crc_bit(c) = Xor(ShiftRight(c), P)  BY DEF crc_bit
  <1>2. P \subseteq Word  BY PolynomialsMirror
  <1>3. ShiftRight(c) \subseteq Word  BY DEF ShiftRight, Word, Register
  <1>4. \A x \in Word : x \in ShiftRight(c) <=> x + 1 \in c
    BY DEF ShiftRight, Word, Register
  <1>5. \A x \in Word : x \in P <=> 0 \in c /\ x \in CRC32_REFLECTED_POLYNOMIAL
    OBVIOUS
  <1>. HIDE DEF P
  <1>. QED  BY <1>1, <1>2, <1>3, <1>4, <1>5 DEF Xor, Register

\* What the division by the polynomial does to each bit when it takes the next
\* bit of the message.
LEMMA ReferenceBit ==
    ASSUME NEW r \in Register, NEW bit \in BOOLEAN
    PROVE  /\ DivideBit(r, bit) \in Register
           /\ \A x \in Word : x \in DivideBit(r, bit) <=>
                (x - 1 \in r) # ((31 \in r) # bit /\ x \in Polynomial)
  <1>. DEFINE P == IF (31 \in r) # bit THEN Polynomial ELSE {}
  <1>1. DivideBit(r, bit) = Xor(ShiftLeft(r), P)  BY DEF DivideBit
  <1>2. P \subseteq Word  BY PolynomialsMirror
  <1>3. ShiftLeft(r) \subseteq Word  BY DEF ShiftLeft, Word, Register
  <1>4. \A x \in Word : x \in ShiftLeft(r) <=> x - 1 \in r
    BY DEF ShiftLeft, Word, Register
  <1>5. \A x \in Word : x \in P <=> (31 \in r) # bit /\ x \in Polynomial
    OBVIOUS
  <1>. HIDE DEF P
  <1>. QED  BY <1>1, <1>2, <1>3, <1>4, <1>5 DEF Xor, Register

-----------------------------------------------------------------------------
(* The turns of a byte.                                                    *)

\* The exclusive or of two registers is a register.
LEMMA XorIsRegister ==
    ASSUME NEW a \in Register, NEW b \in Register
    PROVE  /\ Xor(a, b) \in Register
           /\ \A x \in Word : x \in Xor(a, b) <=> (x \in a) # (x \in b)
  BY DEF Xor, Register

\* crc_turns() is what its definition says.
LEMMA SoftTurns ==
    ASSUME NEW c \in Register, NEW data
    PROVE  /\ crc_turns(c, data)[0] = Xor(c, Bits(data))
           /\ \A n \in 1..8 :
                crc_turns(c, data)[n] = crc_bit(crc_turns(c, data)[n - 1])
           /\ \A n \in 0..8 : crc_turns(c, data)[n] \in Register
<1> DEFINE base == Xor(c, Bits(data))
           step == [p \in Nat \X Register |-> crc_bit(p[2])]
<1>1. base \in Register
  BY BitsOfByte, XorIsRegister DEF Register, Word
<1>2. step \in Steps(Register)
  BY SoftBit DEF Steps
<1>3. \A n \in Nat : \A r \in Register : step[<<n, r>>] = crc_bit(r)
  OBVIOUS
<1> HIDE DEF base, step
<1>4. PICK f : FirstSteps(f, 8, Register, base, step)
  BY <1>1, <1>2, BoundedRecursion
<1>5. /\ f \in [0..8 -> Register] /\ f[0] = base
      /\ \A n \in 1..8 : f[n] = step[<<n, f[n - 1]>>]
  BY <1>4 DEF FirstSteps
<1>6. \A n \in 1..8 : f[n] = crc_bit(f[n - 1])
  BY <1>3, <1>5
<1>7. f = [n \in 0..8 |-> IF n = 0 THEN base ELSE crc_bit(f[n - 1])]
  BY <1>5, <1>6
<1> DEFINE turn == crc_turns(c, data)
<1>8. turn = [n \in 0..8 |-> IF n = 0 THEN base ELSE crc_bit(turn[n - 1])]
  BY <1>7, Zenon DEF crc_turns, base
<1> HIDE DEF turn
<1>9. turn[0] = base /\ \A n \in 1..8 : turn[n] = crc_bit(turn[n - 1])
  BY <1>8
<1>10. \A n \in 0..8 : turn[n] \in Register
  <2> DEFINE T == {n \in 0..8 : turn[n] \in Register}
  <2>1. 0 \in T
    BY <1>1, <1>9
  <2>2. \A n \in 0..7 : n \in T => n + 1 \in T
    <3> SUFFICES ASSUME NEW n \in 0..7, n \in T PROVE n + 1 \in T
      OBVIOUS
    <3>1. n + 1 \in 1..8 /\ n + 1 - 1 = n
      OBVIOUS
    <3>2. turn[n + 1] = crc_bit(turn[n])
      BY <1>9, <3>1
    <3>3. QED
      BY <3>1, <3>2, SoftBit
  <2> HIDE DEF T
  <2>3. 0..8 \subseteq T
    BY <2>1, <2>2, BoundedInduction
  <2>4. QED
    BY <2>3 DEF T
<1>11. QED
  BY <1>9, <1>10 DEF turn, base

\* DivideTurns() is what its definition says.
LEMMA ReferenceTurns ==
    ASSUME NEW r \in Register, NEW byte
    PROVE  /\ DivideTurns(r, byte)[0] = r
           /\ \A n \in 1..8 : DivideTurns(r, byte)[n]
                = DivideBit(DivideTurns(r, byte)[n - 1], n - 1 \in Bits(byte))
           /\ \A n \in 0..8 : DivideTurns(r, byte)[n] \in Register
<1> DEFINE Take(reg, n) == DivideBit(reg, n - 1 \in Bits(byte))
           step == [p \in Nat \X Register |-> Take(p[2], p[1])]
<1>1. \A reg \in Register : \A n \in Nat : Take(reg, n) \in Register
  <2> SUFFICES ASSUME NEW reg \in Register, NEW n \in Nat
               PROVE  Take(reg, n) \in Register
    OBVIOUS
  <2> DEFINE bit == n - 1 \in Bits(byte)
  <2>1. bit \in BOOLEAN
    OBVIOUS
  <2> HIDE DEF bit
  <2>2. DivideBit(reg, bit) \in Register
    BY <2>1, ReferenceBit
  <2>3. QED
    BY <2>2 DEF bit
<1> HIDE DEF Take
<1>2. step \in Steps(Register)
  BY <1>1 DEF Steps
<1>3. \A n \in Nat : \A reg \in Register : step[<<n, reg>>] = Take(reg, n)
  OBVIOUS
<1> HIDE DEF step
<1>4. PICK f : FirstSteps(f, 8, Register, r, step)
  BY <1>2, BoundedRecursion
<1>5. /\ f \in [0..8 -> Register] /\ f[0] = r
      /\ \A n \in 1..8 : f[n] = step[<<n, f[n - 1]>>]
  BY <1>4 DEF FirstSteps
<1>6. \A n \in 1..8 : f[n] = Take(f[n - 1], n)
  BY <1>3, <1>5
<1>7. f = [n \in 0..8 |-> IF n = 0 THEN r ELSE Take(f[n - 1], n)]
  BY <1>5, <1>6
<1> DEFINE turn == DivideTurns(r, byte)
<1>8. turn = [n \in 0..8 |-> IF n = 0 THEN r ELSE Take(turn[n - 1], n)]
  BY <1>7, Zenon DEF DivideTurns, Take
<1> HIDE DEF turn
<1>9. turn[0] = r /\ \A n \in 1..8 : turn[n] = Take(turn[n - 1], n)
  BY <1>8
<1>10. \A n \in 0..8 : turn[n] \in Register
  <2> DEFINE T == {n \in 0..8 : turn[n] \in Register}
  <2>1. 0 \in T
    BY <1>9
  <2>2. \A n \in 0..7 : n \in T => n + 1 \in T
    <3> SUFFICES ASSUME NEW n \in 0..7, n \in T PROVE n + 1 \in T
      OBVIOUS
    <3>1. n + 1 \in 1..8 /\ n + 1 - 1 = n /\ n + 1 \in Nat
      OBVIOUS
    <3>2. turn[n + 1] = Take(turn[n], n + 1)
      BY <1>9, <3>1
    <3>3. QED
      BY <1>1, <3>1, <3>2
  <2> HIDE DEF T
  <2>3. 0..8 \subseteq T
    BY <2>1, <2>2, BoundedInduction
  <2>4. QED
    BY <2>3 DEF T
<1>11. QED
  BY <1>9, <1>10 DEF turn, Take

\* The mirror image of a register.
LEMMA MirrorBits ==
    ASSUME NEW r \in Register
    PROVE  /\ Mirror(r) \in Register
           /\ \A x \in Word : x \in Mirror(r) <=> 31 - x \in r
  BY DEF Mirror, Register, Word

\* The loop of crc32_soft_update() takes the byte into the register first and
\* its bits leave at the bottom; the division takes each bit at the top.  Until
\* a bit has left, the two registers differ by it.
LEMMA TurnsMirror ==
    ASSUME NEW r \in Register, NEW byte, NEW n \in 0..8
    PROVE  \A x \in Word :
              x \in crc_turns(Mirror(r), byte)[n] <=>
                  (31 - x \in DivideTurns(r, byte)[n]) # (x + n \in Bits(byte))
<1> DEFINE s == crc_turns(Mirror(r), byte)
           q == DivideTurns(r, byte)
           B == Bits(byte)
           Same(k) == \A x \in Word :
                         x \in s[k] <=> (31 - x \in q[k]) # (x + k \in B)
           T == {k \in 0..8 : Same(k)}
<1>1. B \subseteq 0..7 /\ B \in Register
  BY BitsOfByte DEF Register, Word
<1>2. /\ s[0] = Xor(Mirror(r), B)
      /\ \A k \in 1..8 : s[k] = crc_bit(s[k - 1])
      /\ \A k \in 0..8 : s[k] \in Register
  BY MirrorBits, SoftTurns
<1>3. /\ q[0] = r
      /\ \A k \in 1..8 : q[k] = DivideBit(q[k - 1], k - 1 \in B)
      /\ \A k \in 0..8 : q[k] \in Register
  BY ReferenceTurns
<1> HIDE DEF s, q, B
<1>4. Same(0)
  <2> SUFFICES ASSUME NEW x \in Word
               PROVE  x \in s[0] <=> (31 - x \in q[0]) # (x + 0 \in B)
    OBVIOUS
  <2>1. x + 0 = x
    BY DEF Word
  <2>2. x \in s[0] <=> (x \in Mirror(r)) # (x \in B)
    BY <1>1, <1>2, MirrorBits, XorIsRegister
  <2>3. x \in Mirror(r) <=> 31 - x \in r
    BY MirrorBits
  <2>4. QED
    BY <1>3, <2>1, <2>2, <2>3
<1>5. ASSUME NEW k \in 0..7, Same(k) PROVE Same(k + 1)
  <2> SUFFICES ASSUME NEW x \in Word
               PROVE  x \in s[k + 1] <=>
                         (31 - x \in q[k + 1]) # (x + (k + 1) \in B)
    OBVIOUS
  <2> DEFINE top == (31 \in q[k]) # (k \in B)
             poly == x \in CRC32_REFLECTED_POLYNOMIAL
             y == 31 - x
             next == x + 1 + k \in B
             above == y - 1 \in q[k]
  <2>1. /\ k + 1 \in 1..8 /\ k + 1 - 1 = k /\ k \in 0..8 /\ k \in Nat
        /\ y \in Word /\ x \in 0..31
    BY DEF Word
  <2>2. s[k + 1] = crc_bit(s[k]) /\ s[k] \in Register
    BY <1>2, <2>1
  <2>3. x \in s[k + 1] <=> (x + 1 \in s[k]) # (0 \in s[k] /\ poly)
    BY <2>2, SoftBit
  <2>4. 0 \in s[k] <=> top
    <3>1. 0 \in Word /\ 31 - 0 = 31 /\ 0 + k = k
      BY DEF Word
    <3>2. 0 \in s[k] <=> (31 - 0 \in q[k]) # (0 + k \in B)
      BY <1>5, <3>1
    <3>3. QED
      BY <3>1, <3>2
  <2>5. x + 1 \in s[k] <=> above # next
    <3>1. CASE x = 31
      <4>1. x + 1 \notin s[k]
        BY <2>2, <3>1 DEF Register, Word
      <4>2. y - 1 \notin q[k]
        BY <1>3, <2>1, <3>1 DEF Register, Word
      <4>3. x + 1 + k \notin B
        BY <1>1, <2>1, <3>1
      <4>4. QED
        BY <4>1, <4>2, <4>3
    <3>2. CASE x # 31
      <4>1. x + 1 \in Word /\ 31 - (x + 1) = y - 1
        BY <2>1, <3>2 DEF Word
      <4>2. x + 1 \in s[k] <=> (31 - (x + 1) \in q[k]) # (x + 1 + k \in B)
        BY <1>5, <4>1
      <4>3. QED
        BY <4>1, <4>2
    <3>3. QED
      BY <3>1, <3>2
  <2>6. y \in q[k + 1] <=> above # (top /\ poly)
    <3> DEFINE bit == k \in B
    <3>1. q[k + 1] = DivideBit(q[k], bit)
      BY <1>3, <2>1
    <3>2. bit \in BOOLEAN /\ q[k] \in Register
      BY <1>3, <2>1
    <3> HIDE DEF bit
    <3>3. y \in DivideBit(q[k], bit) <=>
             (y - 1 \in q[k]) # ((31 \in q[k]) # bit /\ y \in Polynomial)
      BY <2>1, <3>2, ReferenceBit
    <3>4. y \in Polynomial <=> poly
      BY PolynomialsMirror
    <3>5. QED
      BY <3>1, <3>3, <3>4 DEF bit
  <2>7. x + (k + 1) = x + 1 + k
    BY <2>1
  <2>8. x \in s[k + 1] <=> (above # next) # (top /\ poly)
    BY <2>3, <2>4, <2>5
  <2>9. x + (k + 1) \in B <=> next
    BY <2>7
  <2>10. QED
    BY <2>6, <2>8, <2>9
<1> HIDE DEF Same
<1>6. 0 \in T /\ \A k \in 0..7 : k \in T => k + 1 \in T
  BY <1>4, <1>5
<1> HIDE DEF T
<1>7. 0..8 \subseteq T
  BY <1>6, BoundedInduction
<1>8. Same(n)
  BY <1>7 DEF T
<1>9. QED
  BY <1>8 DEF Same, s, q, B

\* crc32_soft_update() divides by the polynomial, in the mirror: the register
\* it returns is the mirror image of the remainder.
LEMMA SoftDivides ==
    ASSUME NEW r \in Register, NEW byte
    PROVE  /\ DivideByte(r, byte) \in Register
           /\ crc32_soft_update(Mirror(r), byte) = Mirror(DivideByte(r, byte))
<1> DEFINE c == crc32_soft_update(Mirror(r), byte)
           d == DivideByte(r, byte)
<1>1. d \in Register
  BY ReferenceTurns DEF DivideByte
<1>2. c \in Register
  BY MirrorBits, SoftTurns DEF crc32_soft_update
<1>3. \A x \in Word : x \in c <=> (31 - x \in d) # (x + 8 \in Bits(byte))
  BY TurnsMirror DEF crc32_soft_update, DivideByte
<1>4. \A x \in Word : x + 8 \notin Bits(byte)
  BY BitsOfByte DEF Word
<1> HIDE DEF c, d
<1>5. \A x \in Word : x \in c <=> x \in Mirror(d)
  BY <1>1, <1>3, <1>4, MirrorBits
<1>6. c = Mirror(d)
  BY <1>1, <1>2, <1>5, MirrorBits DEF Register
<1>7. QED
  BY <1>1, <1>6 DEF c, d

\* Remainder() is what its definition says.
LEMMA RemainderOfFronts ==
    ASSUME NEW bytes, NEW m \in Nat, Len(bytes) = m
    PROVE  /\ Remainder(bytes)[0] = Word
           /\ \A n \in 1..m : Remainder(bytes)[n]
                = DivideByte(Remainder(bytes)[n - 1], bytes[n])
           /\ \A n \in 0..m : Remainder(bytes)[n] \in Register
<1> DEFINE step == [p \in Nat \X Register |-> DivideByte(p[2], bytes[p[1]])]
<1>1. step \in Steps(Register)
  BY SoftDivides DEF Steps
<1>2. \A n \in Nat : \A r \in Register :
         step[<<n, r>>] = DivideByte(r, bytes[n])
  OBVIOUS
<1>3. Word \in Register
  BY DEF Register
<1> HIDE DEF step
<1>4. PICK f : FirstSteps(f, m, Register, Word, step)
  BY <1>1, <1>3, BoundedRecursion
<1>5. /\ f \in [0..m -> Register] /\ f[0] = Word
      /\ \A n \in 1..m : f[n] = step[<<n, f[n - 1]>>]
  BY <1>4 DEF FirstSteps
<1>6. \A n \in 1..m : f[n] = DivideByte(f[n - 1], bytes[n])
  <2> SUFFICES ASSUME NEW n \in 1..m
               PROVE  f[n] = DivideByte(f[n - 1], bytes[n])
    OBVIOUS
  <2>1. n - 1 \in 0..m /\ n \in Nat
    OBVIOUS
  <2>2. f[n - 1] \in Register
    BY <1>5, <2>1
  <2>3. QED
    BY <1>2, <1>5, <2>1, <2>2
<1>7. f = [n \in 0..Len(bytes) |-> IF n = 0 THEN Word
                                  ELSE DivideByte(f[n - 1], bytes[n])]
  BY <1>5, <1>6
<1> DEFINE front == Remainder(bytes)
<1>8. front = [n \in 0..Len(bytes) |-> IF n = 0 THEN Word
                                  ELSE DivideByte(front[n - 1], bytes[n])]
  BY <1>7, Zenon DEF Remainder
<1> HIDE DEF front
<1>9. /\ front[0] = Word
      /\ \A n \in 1..m : front[n] = DivideByte(front[n - 1], bytes[n])
  BY <1>8
<1>10. \A n \in 0..m : front[n] \in Register
  <2> DEFINE T == {n \in 0..m : front[n] \in Register}
  <2>1. 0 \in T
    BY <1>3, <1>9
  <2>2. \A n \in 0..m - 1 : n \in T => n + 1 \in T
    <3> SUFFICES ASSUME NEW n \in 0..m - 1, n \in T PROVE n + 1 \in T
      OBVIOUS
    <3>1. n + 1 \in 1..m /\ n + 1 - 1 = n
      OBVIOUS
    <3>2. front[n + 1] = DivideByte(front[n], bytes[n + 1])
      BY <1>9, <3>1
    <3>3. QED
      BY <3>1, <3>2, SoftDivides
  <2> HIDE DEF T
  <2>3. 0..m \subseteq T
    BY <2>1, <2>2, BoundedInduction
  <2>4. QED
    BY <2>3 DEF T
<1>11. QED
  BY <1>9, <1>10 DEF front

-----------------------------------------------------------------------------
(* The inductive invariant.                                                *)

Reading == {"read", "crc", "print", "done"}

\* The types of what the proof follows.
TypeInv ==
    /\ pc \in Setup \cup Frames \cup {"crc", "print", "done", "not_detected"}
    /\ cs \in BOOLEAN
    /\ model \in Chips \cup {None}
    /\ image \in Images
    /\ idle \in {0, 255}
    /\ tx \in Seq(Byte)
    /\ heard \in Seq(Byte)
    /\ rx \in Seq(Byte)
    /\ answers \in [id : Seq(Byte), status : Byte, sfdp : BOOLEAN]
    /\ page \in Nat
    /\ offset \in Nat
    /\ length \in Nat
    /\ flash_buffer \in [1..ChunkSize -> Byte]

\* A chunk is read only inside a page, and a page only inside the job; between
\* frames the chip is not selected.
PlaceInv ==
    /\ pc \notin {"cs_high"} \cup Frames => cs
    /\ pc \in Setup \cup {"rdid", "status", "sfdp"} => page = 0 /\ offset = 0
    /\ pc \in {"read", "crc"} => offset < PageSize
    /\ pc \in {"read", "crc", "print"} => page < PageCount
    /\ pc = "crc" => length <= ChunkLength

\* Of the frame under way, the chip has heard the front and tx is the rest.
FrameInv ==
    pc \in Frames /\ ~cs =>
        /\ Len(rx) = Len(heard)
        /\ Len(heard) + Len(tx) = Len(Bytes)
        /\ \A k \in 1..Len(heard) : heard[k] = Bytes[k]
        /\ \A k \in 1..Len(tx) : tx[k] = Bytes[Len(heard) + k]

\* The address as the chip puts it together from three bytes.
SentAddress ==
    (Digit(Address, Radix * Radix) * Radix + Digit(Address, Radix)) * Radix
        + Digit(Address, 1)

\* What came back behind the command, the address and the dummy byte.
AnswerInv ==
    ~cs =>
        /\ pc = "rdid" => \A k \in 2..Len(rx) :
              rx[k] = IF model = None THEN idle ELSE model.id[k - 1]
        /\ pc = "status" => \A k \in 2..Len(rx) : rx[k] = model.status
        /\ pc = "sfdp" => \A k \in 6..Len(rx) :
              rx[k] = IF model.sfdp THEN Signature[k - 5] ELSE 255
        /\ pc = "read" => \A k \in 5..Len(rx) :
              rx[k] = Cell(SentAddress + k - 5)

\* What the probes have established.
ReportInv ==
    /\ pc = "not_detected" => model = None
    /\ pc \in {"status", "sfdp"} \cup Reading =>
          model # None /\ answers.id = model.id
    /\ pc \in {"sfdp"} \cup Reading => answers.status = model.status
    /\ pc \in Reading => answers.sfdp = model.sfdp

\* The front of the buffer is what the chip holds at the address sent.
BufferInv ==
    pc = "crc" => \A n \in 1..ChunkLength :
        flash_buffer[n] = Cell(SentAddress + n - 1)

IInv ==
    /\ TypeInv
    /\ PlaceInv
    /\ FrameInv
    /\ AnswerInv
    /\ ReportInv
    /\ BufferInv

\* The bytes that crc32_update() is about to add are those of the page, from
\* its offset on.
BufferIsThePage ==
    Fits /\ pc = "crc" => \A n \in 1..ChunkLength :
        flash_buffer[n] = image[page * PageSize + offset + n]
-----------------------------------------------------------------------------
(* The frames.                                                             *)

\* The constants, as the proofs use them.
LEMMA Constants ==
    /\ PageSize \in Nat /\ PageSize > 0
    /\ ChunkSize \in Nat /\ ChunkSize > 0
    /\ PageCount \in Nat
    /\ Radix \in Nat /\ Radix >= 2 /\ Radix <= 256
    /\ Images \subseteq Seq(Byte) \ {<<>>}
    /\ Chips \subseteq [id : [1..3 -> Byte], status : Byte, sfdp : BOOLEAN]
    /\ \A c \in Chips : \A b \in {0, 255} : c.id # <<b, b, b>>
  BY SpiNorCrcAssumption DEF SpiNorCrcAssumption, Byte

\* The commands are four different bytes.
LEMMA CommandBytes ==
    /\ SPI_FLASH_CMD_RDID \in Byte /\ SPI_FLASH_CMD_RDSR1 \in Byte
    /\ SPI_FLASH_CMD_SFDP \in Byte /\ SPI_FLASH_CMD_READ \in Byte
    /\ SPI_FLASH_CMD_RDID \notin {SPI_FLASH_CMD_RDSR1, SPI_FLASH_CMD_SFDP,
                                  SPI_FLASH_CMD_READ}
    /\ SPI_FLASH_CMD_RDSR1 \notin {SPI_FLASH_CMD_SFDP, SPI_FLASH_CMD_READ}
    /\ SPI_FLASH_CMD_SFDP # SPI_FLASH_CMD_READ
  BY DEF Byte, SPI_FLASH_CMD_RDID, SPI_FLASH_CMD_RDSR1, SPI_FLASH_CMD_SFDP,
         SPI_FLASH_CMD_READ

\* A chunk is not empty and fits the buffer and the rest of its page.
LEMMA ChunkBounds ==
    offset \in Nat /\ offset < PageSize =>
        /\ ChunkLength \in 1..ChunkSize
        /\ offset + ChunkLength <= PageSize
  BY Constants DEF ChunkLength

\* Three digits of a number are bytes, and give the number back when it is
\* small enough.
LEMMA DigitIsByte ==
    ASSUME NEW a \in Nat, NEW place \in Nat, place > 0
    PROVE  Digit(a, place) \in Byte
<1>1. a \div place \in Int
  OBVIOUS
<1>2. (a \div place) % Radix \in 0..Radix - 1
  BY <1>1, Constants
<1>3. QED
  BY <1>2, Constants DEF Digit, Byte

LEMMA QuotientIsUnique ==
    ASSUME NEW d \in Nat, NEW x \in Int, NEW y \in Nat, NEW z \in Int,
           NEW w \in Nat, y < d, w < d, d * x + y = d * z + w
    PROVE  x = z
<1>1. ASSUME NEW m \in Int, NEW n \in Int, m > n PROVE d * m >= d * n + d
  <2>1. m - n - 1 \in Nat
    BY <1>1
  <2>2. d * (m - n - 1) >= 0
    BY <2>1
  <2>3. d * (m - n - 1) = d * m - d * n - d
    OBVIOUS
  <2>4. QED
    BY <2>2, <2>3
<1>2. d * x \in Int /\ d * z \in Int
  OBVIOUS
<1>3. QED
  BY <1>1, <1>2

LEMMA ThreeDigits ==
    ASSUME NEW a \in Nat, a < (Radix * Radix) * Radix
    PROVE  (Digit(a, Radix * Radix) * Radix + Digit(a, Radix)) * Radix
               + Digit(a, 1) = a
<1> DEFINE R == Radix
           q == a \div R
           r == a % R
           t == q % R
           u == q \div R
           p == a \div (R * R)
           s == a % (R * R)
<1>1. R \in Nat /\ R > 0 /\ R * R \in Nat /\ R * R > 0
  BY Constants
<1> HIDE DEF R
<1>2. q \in Nat /\ r \in Nat /\ r < R /\ a = R * q + r
  BY <1>1
<1>3. u \in Nat /\ t \in Nat /\ t < R /\ q = R * u + t
  BY <1>1, <1>2
<1>4. p \in Nat /\ s \in Nat /\ s < R * R /\ a = (R * R) * p + s
  BY <1>1
<1> HIDE DEF q, r, t, u, p, s
<1>5. p = u
  <2>1. a = (R * R) * u + (R * t + r)
    BY <1>1, <1>2, <1>3
  <2>2. R * t + r \in Nat /\ R * t + r < R * R
    <3>1. R * (R - 1 - t) >= 0
      BY <1>1, <1>3
    <3>2. R * (R - 1 - t) = R * R - R - R * t
      BY <1>1, <1>3
    <3>3. R * t \in Nat
      BY <1>1, <1>3
    <3>4. QED
      BY <1>1, <1>2, <3>1, <3>2, <3>3
  <2> DEFINE v == R * t + r
             d == R * R
  <2>3. v \in Nat /\ v < d /\ d \in Nat /\ a = d * u + v /\ a = d * p + s
    BY <1>1, <1>4, <2>1, <2>2
  <2> HIDE DEF v, d
  <2>4. s < d
    BY <1>4 DEF d
  <2>5. QED
    BY <1>3, <1>4, <2>3, <2>4, QuotientIsUnique
<1>6. p < R
  <2>1. SUFFICES ASSUME p >= R PROVE FALSE
    BY <1>1, <1>4
  <2>2. (R * R) * (p - R) >= 0
    BY <1>1, <1>4, <2>1
  <2>3. (R * R) * (p - R) = (R * R) * p - (R * R) * R
    BY <1>1, <1>4
  <2>4. a < (R * R) * R
    BY DEF R
  <2>5. (R * R) * p \in Int /\ (R * R) * R \in Int
    BY <1>1, <1>4
  <2>6. QED
    BY <1>4, <2>2, <2>3, <2>4, <2>5
<1>7. Digit(a, R * R) = p /\ Digit(a, R) = t /\ Digit(a, 1) = r
  <2>1. p % R = p
    BY <1>1, <1>4, <1>6
  <2>2. a \div 1 = a
    OBVIOUS
  <2>3. QED
    BY <2>1, <2>2 DEF Digit, p, t, q, r, R
<1>8. (p * R + t) * R + r = a
  BY <1>1, <1>2, <1>3, <1>4, <1>5
<1>9. QED
  BY <1>7, <1>8 DEF R
\* The address of a chunk is a number, and its digits are bytes.
LEMMA AddressIsSent ==
    ASSUME TypeInv
    PROVE  /\ Address \in Nat
           /\ Digit(Address, Radix * Radix) \in Byte
           /\ Digit(Address, Radix) \in Byte
           /\ Digit(Address, 1) \in Byte
           /\ SentAddress \in Nat
<1>1. page \in Nat /\ offset \in Nat /\ PageSize \in Nat
  BY Constants DEF TypeInv
<1>2. page * PageSize \in Nat
  BY <1>1
<1>3. Address \in Nat
  BY <1>1, <1>2 DEF Address
<1>4. Radix \in Nat /\ Radix > 0
  BY Constants
<1>5. Radix * Radix \in Nat /\ Radix * Radix > 0
  BY <1>4
<1> DEFINE h == Digit(Address, Radix * Radix)
           m == Digit(Address, Radix)
           l == Digit(Address, 1)
<1>6. h \in Byte
  BY <1>3, <1>5, DigitIsByte
<1>7. m \in Byte /\ l \in Byte
  BY <1>3, <1>4, DigitIsByte
<1>8. h \in Nat /\ m \in Nat /\ l \in Nat
  BY <1>6, <1>7 DEF Byte
<1> HIDE DEF h, m, l
<1>9. (h * Radix + m) * Radix + l \in Nat
  BY <1>4, <1>8
<1>10. QED
  BY <1>3, <1>6, <1>7, <1>9 DEF SentAddress, h, m, l

\* What the master sends in each frame.
LEMMA BytesShape ==
    ASSUME TypeInv, PlaceInv, pc \in Frames
    PROVE  /\ Bytes \in Seq(Byte)
           /\ pc = "rdid" => Len(Bytes) = 4 /\ Bytes[1] = SPI_FLASH_CMD_RDID
           /\ pc = "status" => Len(Bytes) = 2 /\ Bytes[1] = SPI_FLASH_CMD_RDSR1
           /\ pc = "sfdp" => Len(Bytes) = 9 /\ Bytes[1] = SPI_FLASH_CMD_SFDP
           /\ pc = "read" =>
                 /\ Len(Bytes) = 4 + ChunkLength
                 /\ Bytes[1] = SPI_FLASH_CMD_READ
                 /\ Bytes[2] = Digit(Address, Radix * Radix)
                 /\ Bytes[3] = Digit(Address, Radix)
                 /\ Bytes[4] = Digit(Address, 1)
<1>1. \A n \in Nat : Filler(n) \in Seq(Byte) /\ Len(Filler(n)) = n
  BY DEF Filler, Byte
<1>2. CASE pc = "rdid"
  <2>1. Bytes = <<SPI_FLASH_CMD_RDID>> \o Filler(3)
    BY <1>2 DEF Bytes
  <2>2. <<SPI_FLASH_CMD_RDID>> \in Seq(Byte)
        /\ Len(<<SPI_FLASH_CMD_RDID>>) = 1
    BY CommandBytes DEF Byte
  <2>3. QED
    BY <1>1, <1>2, <2>1, <2>2
<1>3. CASE pc = "status"
  <2>1. Bytes = <<SPI_FLASH_CMD_RDSR1>> \o Filler(1)
    BY <1>3 DEF Bytes
  <2>2. <<SPI_FLASH_CMD_RDSR1>> \in Seq(Byte)
        /\ Len(<<SPI_FLASH_CMD_RDSR1>>) = 1
    BY CommandBytes DEF Byte
  <2>3. QED
    BY <1>1, <1>3, <2>1, <2>2
<1>4. CASE pc = "sfdp"
  <2>1. Bytes = <<SPI_FLASH_CMD_SFDP, 0, 0, 0>> \o Filler(5)
    BY <1>4 DEF Bytes, sfdp_bytes
  <2>2. <<SPI_FLASH_CMD_SFDP, 0, 0, 0>> \in Seq(Byte)
        /\ Len(<<SPI_FLASH_CMD_SFDP, 0, 0, 0>>) = 4
    BY CommandBytes DEF Byte
  <2>3. QED
    BY <1>1, <1>4, <2>1, <2>2
<1>5. CASE pc = "read"
  <2> DEFINE h == Digit(Address, Radix * Radix)
             m == Digit(Address, Radix)
             l == Digit(Address, 1)
             front == <<SPI_FLASH_CMD_READ, h, m, l>>
  <2>1. Bytes = front \o Filler(ChunkLength)
    BY <1>5 DEF Bytes, read_bytes
  <2>2. h \in Byte /\ m \in Byte /\ l \in Byte
    BY AddressIsSent
  <2> HIDE DEF h, m, l
  <2>5. front \in Seq(Byte) /\ Len(front) = 4 /\ front[1] = SPI_FLASH_CMD_READ
        /\ front[2] = h /\ front[3] = m /\ front[4] = l
    BY <2>2, CommandBytes
  <2> HIDE DEF front
  <2>6. ChunkLength \in Nat
    BY <1>5, ChunkBounds DEF TypeInv, PlaceInv
  <2>7. Filler(ChunkLength) \in Seq(Byte)
        /\ Len(Filler(ChunkLength)) = ChunkLength
    BY <1>1, <2>6
  <2> DEFINE back == Filler(ChunkLength)
  <2>8. back \in Seq(Byte) /\ Len(back) = ChunkLength
    BY <2>7
  <2> HIDE DEF back
  <2>9. /\ front \o back \in Seq(Byte)
        /\ Len(front \o back) = Len(front) + Len(back)
        /\ \A k \in 1..Len(front) + Len(back) : k <= Len(front) =>
              (front \o back)[k] = front[k]
    BY <2>5, <2>8, ConcatProperties
  <2>10. \A k \in 1..4 : k \in 1..Len(front) + Len(back) /\ k <= Len(front)
    BY <2>5, <2>6, <2>8
  <2>11. \A k \in 1..4 : (front \o back)[k] = front[k]
    BY <2>9, <2>10
  <2>12. /\ Bytes \in Seq(Byte) /\ Len(Bytes) = 4 + ChunkLength
         /\ Bytes[1] = SPI_FLASH_CMD_READ
         /\ Bytes[2] = h /\ Bytes[3] = m /\ Bytes[4] = l
    BY <2>1, <2>5, <2>8, <2>9, <2>11 DEF back
  <2>13. QED
    BY <1>5, <2>12 DEF h, m, l
<1>6. QED
  BY <1>2, <1>3, <1>4, <1>5 DEF Frames

\* What a chip, or the floating line, answers to a front of each frame.
LEMMA AnswerShape ==
    ASSUME TypeInv, PlaceInv, FrameInv, pc \in Frames, ~cs, tx # <<>>
    PROVE  /\ Answer(heard) \in Byte
           /\ pc = "rdid" /\ Len(heard) >= 1 => Answer(heard) =
                 IF model = None THEN idle ELSE model.id[Len(heard)]
           /\ model # None /\ pc = "status" /\ Len(heard) >= 1 =>
                 Answer(heard) = model.status
           /\ /\ model # None /\ pc = "sfdp"
              /\ Len(heard) >= 5 /\ Len(heard) <= 8
              =>
                 Answer(heard) =
                     IF model.sfdp THEN Signature[Len(heard) - 4] ELSE 255
           /\ model # None /\ pc = "read" /\ Len(heard) >= 4 =>
                 Answer(heard) = Cell(SentAddress + Len(heard) - 4)
<1> DEFINE n == Len(heard)
           address == (heard[2] * Radix + heard[3]) * Radix + heard[4]
<1>1. /\ n \in Nat /\ Len(heard) = n
      /\ n + 1 <= Len(Bytes)
      /\ n >= 1 => heard[1] = Bytes[1]
  <2>1. Len(tx) >= 1 /\ Len(tx) \in Nat /\ n \in Nat
    BY DEF TypeInv
  <2>2. n >= 1 => heard[1] = Bytes[1]
    BY <2>1 DEF FrameInv
  <2>3. QED
    BY <2>1, <2>2 DEF FrameInv
<1> HIDE DEF n
<1>2. idle \in Byte
  BY DEF TypeInv, Byte
<1>3. CASE model = None \/ n = 0
  <2>1. Answer(heard) = idle
    BY <1>1, <1>3 DEF Answer
  <2>2. CASE model = None
    BY <1>1, <1>2, <2>1, <2>2
  <2>3. CASE n = 0
    BY <1>1, <1>2, <2>1, <2>3
  <2>4. QED
    BY <1>3, <2>2, <2>3
<1>4. CASE model # None /\ n >= 1
  <2>1. /\ model.id \in [1..3 -> Byte] /\ model.status \in Byte
        /\ model.sfdp \in BOOLEAN
    BY <1>4, Constants DEF TypeInv
  <2>2. CASE pc = "rdid"
    <3>1. Len(Bytes) = 4 /\ Bytes[1] = SPI_FLASH_CMD_RDID
      BY <2>2, BytesShape
    <3>2. heard[1] = SPI_FLASH_CMD_RDID
      BY <1>1, <1>4, <3>1
    <3>3. n \in 1..3
      BY <1>1, <1>4, <3>1
    <3>4. Answer(heard) = model.id[n]
      BY <1>1, <1>4, <3>2, <3>3, CommandBytes DEF Answer
    <3>5. model.id[n] \in Byte
      BY <2>1, <3>3
    <3>6. QED
      BY <1>1, <1>4, <2>2, <3>3, <3>4, <3>5
  <2>3. CASE pc = "status"
    <3>1. heard[1] = SPI_FLASH_CMD_RDSR1
      BY <1>1, <1>4, <2>3, BytesShape
    <3>2. Answer(heard) = model.status
      BY <1>1, <1>4, <3>1, CommandBytes DEF Answer
    <3>3. QED
      BY <1>1, <1>4, <2>1, <2>3, <3>2
  <2>4. CASE pc = "sfdp"
    <3>1. heard[1] = SPI_FLASH_CMD_SFDP
      BY <1>1, <1>4, <2>4, BytesShape
    <3>2. Answer(heard) = IF model.sfdp /\ n \in 5..8
                          THEN Signature[n - 4] ELSE 255
      BY <1>1, <1>4, <3>1, CommandBytes DEF Answer
    <3>3. /\ Signature[1] \in Byte /\ Signature[2] \in Byte
          /\ Signature[3] \in Byte /\ Signature[4] \in Byte
      BY DEF Signature, Byte
    <3>4. n \in 5..8 => Signature[n - 4] \in Byte
      <4>1. n \in 5..8 => n - 4 \in {1, 2, 3, 4}
        BY <1>1
      <4>2. QED
        BY <3>3, <4>1
    <3>5. 255 \in Byte
      BY DEF Byte
    <3>6. QED
      BY <1>1, <1>4, <2>4, <3>2, <3>4, <3>5
  <2>5. CASE pc = "read"
    <3>1. heard[1] = SPI_FLASH_CMD_READ
      BY <1>1, <1>4, <2>5, BytesShape
    <3>2. Answer(heard) = IF n >= 4 THEN Cell(address + n - 4) ELSE idle
      BY <1>1, <1>4, <3>1, CommandBytes DEF Answer
    <3>3. n >= 4 => address = SentAddress
      <4>1. n >= 4 => /\ heard[2] = Bytes[2] /\ heard[3] = Bytes[3]
                      /\ heard[4] = Bytes[4]
        BY <1>1 DEF FrameInv
      <4>2. QED
        BY <2>5, <4>1, BytesShape DEF SentAddress
    <3>4. SentAddress \in Int
      BY AddressIsSent
    <3>5. \A a \in Int : Cell(a) \in Byte
      <4>1. image \in Seq(Byte) /\ Len(image) \in Nat /\ Len(image) > 0
        BY Constants DEF TypeInv
      <4>2. QED
        BY <4>1 DEF Cell
    <3>6. QED
      BY <1>1, <1>2, <1>4, <2>5, <3>2, <3>3, <3>4, <3>5
  <2>6. QED
    BY <2>2, <2>3, <2>4, <2>5 DEF Frames
<1>5. QED
  BY <1>1, <1>3, <1>4
-----------------------------------------------------------------------------
(* The invariant is inductive.                                             *)

\* Bytes, chunk and address rest on the place in the job alone.
LEMMA SamePlace ==
    UNCHANGED <<page, offset>> =>
        /\ ChunkLength' = ChunkLength
        /\ SentAddress' = SentAddress
        /\ pc' = pc => Bytes' = Bytes
<1>1. UNCHANGED <<page, offset>> =>
        Address' = Address /\ ChunkLength' = ChunkLength
  BY DEF Address, ChunkLength
<1>2. UNCHANGED <<page, offset>> => SentAddress' = SentAddress
  BY <1>1 DEF SentAddress, Digit
<1>3. UNCHANGED <<page, offset>> => read_bytes' = read_bytes
  BY <1>1 DEF read_bytes, Digit, Filler
<1>4. UNCHANGED <<pc, page, offset>> => Bytes' = Bytes
  BY <1>3 DEF Bytes, sfdp_bytes, Filler
<1>5. QED
  BY <1>1, <1>2, <1>4

LEMMA InitIInv == Init => IInv
<1> SUFFICES ASSUME Init PROVE IInv
  OBVIOUS
<1>1. pc = "cs_mode" /\ cs /\ page = 0 /\ offset = 0
  BY DEF Init
<1>2. TypeInv
  <2>1. model \in Chips \cup {None} /\ image \in Images /\ idle \in {0, 255}
    BY DEF Init
  <2>2. tx \in Seq(Byte) /\ heard \in Seq(Byte) /\ rx \in Seq(Byte)
    BY DEF Init
  <2>3. answers \in [id : Seq(Byte), status : Byte, sfdp : BOOLEAN]
    BY DEF Init, None, Byte
  <2>4. flash_buffer \in [1..ChunkSize -> Byte] /\ length \in Nat
    BY DEF Init, Byte
  <2>5. QED
    BY <1>1, <2>1, <2>2, <2>3, <2>4 DEF TypeInv, Setup
<1>3. PlaceInv
  BY <1>1 DEF PlaceInv
<1>4. FrameInv /\ AnswerInv /\ BufferInv
  BY <1>1 DEF FrameInv, AnswerInv, BufferInv
<1>5. ReportInv
  BY <1>1 DEF ReportInv, Reading
<1>6. QED
  BY <1>2, <1>3, <1>4, <1>5 DEF IInv

\* No step of the program, or of the chip in it, breaks the invariant.
LEMMA NextIInv == IInv /\ [Next]_vars => IInv'
<1> SUFFICES ASSUME IInv, [Next]_vars PROVE IInv'
  OBVIOUS
<1>1. TypeInv /\ PlaceInv /\ FrameInv /\ AnswerInv /\ ReportInv /\ BufferInv
  BY DEF IInv
<1> USE DEF wires, frame, job
<1>2. CASE spi_flash_init
  <2>1. /\ pc \in Setup /\ pc' \in Setup \cup {"rdid"}
        /\ pc' # "cs_high" => cs'
        /\ cs' \in BOOLEAN
        /\ UNCHANGED <<wires, frame, answers, job>>
    <3>1. pc \in Setup /\ pc' = InitOrder[pc]
          /\ UNCHANGED <<wires, frame, answers, job>>
      BY <1>2 DEF spi_flash_init
    <3>2. cs' = IF pc = "cs_mode" THEN FALSE
                ELSE IF pc = "cs_high" THEN TRUE ELSE cs
      BY <1>2 DEF spi_flash_init
    <3>3. InitOrder[pc] \in Setup \cup {"rdid"}
          /\ (pc = "cs_mode" <=> InitOrder[pc] = "cs_high")
      BY <3>1 DEF InitOrder, Setup
    <3>4. pc \notin {"cs_mode", "cs_high"} => cs
      BY <1>1, <3>1 DEF PlaceInv, Setup, Frames
    <3>5. cs \in BOOLEAN
      BY <1>1 DEF TypeInv
    <3>6. QED
      BY <3>1, <3>2, <3>3, <3>4, <3>5
  <2>2. TypeInv'
    BY <1>1, <2>1 DEF TypeInv, Setup, Frames
  <2>3. PlaceInv'
    BY <1>1, <2>1 DEF PlaceInv, Setup, Frames
  <2>4. FrameInv' /\ AnswerInv' /\ BufferInv'
    BY <2>1 DEF FrameInv, AnswerInv, BufferInv, Setup, Frames
  <2>5. ReportInv'
    BY <2>1 DEF ReportInv, Setup, Reading
  <2>6. QED
    BY <2>2, <2>3, <2>4, <2>5 DEF IInv
<1>3. CASE spi_flash_cs_low
  <2>1. /\ pc \in Frames /\ UNCHANGED <<pc, page, offset, model, image, idle>>
        /\ UNCHANGED <<answers, length, flash_buffer>>
        /\ cs' = FALSE /\ heard' = <<>> /\ rx' = <<>> /\ tx' = Bytes
    BY <1>3 DEF spi_flash_cs_low
  <2>2. Bytes' = Bytes /\ ChunkLength' = ChunkLength /\ Bytes \in Seq(Byte)
    BY <1>1, <2>1, SamePlace, BytesShape
  <2>3. TypeInv'
    <3>1. heard' \in Seq(Byte) /\ rx' \in Seq(Byte)
      BY <2>1
    <3>2. tx' \in Seq(Byte)
      BY <2>1, <2>2
    <3>3. cs' \in BOOLEAN
      BY <2>1
    <3>4. QED
      BY <1>1, <2>1, <3>1, <3>2, <3>3 DEF TypeInv
  <2>4. PlaceInv'
    BY <1>1, <2>1, <2>2 DEF PlaceInv
  <2>5. FrameInv'
    <3>1. Len(rx') = 0 /\ Len(heard') = 0 /\ Len(tx') = Len(Bytes)
          /\ Len(Bytes) \in Nat
      BY <2>1, <2>2
    <3>2. \A k \in 1..Len(tx') : tx'[k] = Bytes'[Len(heard') + k]
      BY <2>1, <2>2, <3>1
    <3>3. QED
      BY <2>2, <3>1, <3>2 DEF FrameInv
  <2>6. AnswerInv'
    <3>1. Len(rx') = 0
      BY <2>1
    <3>2. QED
      BY <3>1 DEF AnswerInv
  <2>7. ReportInv' /\ BufferInv'
    BY <1>1, <2>1 DEF ReportInv, BufferInv, Frames
  <2>8. QED
    BY <2>3, <2>4, <2>5, <2>6, <2>7 DEF IInv
<1>4. CASE spi_flash_xfer
  <2>1. /\ pc \in Frames /\ ~cs /\ tx # <<>>
        /\ UNCHANGED <<pc, cs, page, offset, model, image, idle>>
        /\ UNCHANGED <<answers, length, flash_buffer>>
        /\ rx' = Append(rx, Answer(heard))
        /\ heard' = Append(heard, Head(tx)) /\ tx' = Tail(tx)
    BY <1>4 DEF spi_flash_xfer
  <2>2. Bytes' = Bytes /\ ChunkLength' = ChunkLength
        /\ SentAddress' = SentAddress
    BY <2>1, SamePlace
  <2>3. Answer(heard) \in Byte
    BY <1>1, <2>1, AnswerShape
  <2>4. tx \in Seq(Byte) /\ heard \in Seq(Byte) /\ rx \in Seq(Byte)
    BY <1>1 DEF TypeInv
  <2>5. Head(tx) \in Byte /\ tx' \in Seq(Byte) /\ Len(tx') = Len(tx) - 1
        /\ Len(tx) \in Nat /\ Len(tx) >= 1 /\ Head(tx) = tx[1]
    BY <2>1, <2>4
  <2>6. /\ heard' \in Seq(Byte) /\ Len(heard') = Len(heard) + 1
        /\ rx' \in Seq(Byte) /\ Len(rx') = Len(rx) + 1
        /\ Len(heard) \in Nat /\ Len(rx) \in Nat
    BY <2>1, <2>3, <2>4, <2>5
  <2>7. TypeInv'
    BY <1>1, <2>1, <2>5, <2>6 DEF TypeInv
  <2>8. PlaceInv'
    BY <1>1, <2>1, <2>2 DEF PlaceInv
  <2>9. /\ Len(rx) = Len(heard) /\ Len(heard) + Len(tx) = Len(Bytes)
        /\ \A k \in 1..Len(heard) : heard[k] = Bytes[k]
        /\ \A k \in 1..Len(tx) : tx[k] = Bytes[Len(heard) + k]
    BY <1>1, <2>1 DEF FrameInv
  <2>10. FrameInv'
    <3>1. \A k \in 1..Len(heard) : heard'[k] = heard[k]
      BY <2>1, <2>4
    <3>2. heard'[Len(heard) + 1] = tx[1]
      BY <2>1, <2>4, <2>5
    <3>3. tx[1] = Bytes[Len(heard) + 1]
      BY <2>5, <2>9
    <3>4. \A k \in 1..Len(heard) + 1 : heard'[k] = Bytes[k]
      BY <2>6, <2>9, <3>1, <3>2, <3>3
    <3>5. \A k \in 1..Len(tx) - 1 : tx'[k] = tx[k + 1]
      BY <2>1, <2>4
    <3>6. \A k \in 1..Len(tx) - 1 : tx'[k] = Bytes[Len(heard) + 1 + k]
      BY <2>5, <2>6, <2>9, <3>5
    <3>7. /\ Len(rx') = Len(heard')
          /\ Len(heard') + Len(tx') = Len(Bytes)
      <4>1. Len(rx') = Len(heard')
        BY <2>6, <2>9
      <4>2. Len(heard') + Len(tx') = Len(heard) + Len(tx)
        BY <2>5, <2>6
      <4>3. QED
        BY <2>9, <4>1, <4>2
    <3>8. \A k \in 1..Len(heard') : heard'[k] = Bytes[k]
      BY <2>6, <3>4
    <3>9. \A k \in 1..Len(tx') : tx'[k] = Bytes[Len(heard') + k]
      BY <2>5, <2>6, <3>6
    <3>10. QED
      BY <2>2, <3>7, <3>8, <3>9 DEF FrameInv
  <2>11. AnswerInv'
    <3>1. /\ \A k \in 1..Len(rx) : rx'[k] = rx[k]
          /\ rx'[Len(rx) + 1] = Answer(heard)
      BY <2>1, <2>4
    <3>2. ASSUME NEW k \in 2..Len(rx'), pc = "rdid"
          PROVE  rx'[k] = IF model = None THEN idle ELSE model.id[k - 1]
      <4>1. k \in 2..Len(rx) \/ (k = Len(rx) + 1 /\ Len(rx) >= 1)
        BY <2>6
      <4>2. CASE k \in 2..Len(rx)
        BY <1>1, <2>1, <2>6, <3>1, <3>2, <4>2 DEF AnswerInv
      <4>3. CASE k = Len(rx) + 1 /\ Len(rx) >= 1
        <5>1. Answer(heard) =
                IF model = None THEN idle ELSE model.id[Len(heard)]
          BY <1>1, <2>1, <2>9, <3>2, <4>3, AnswerShape
        <5>2. k - 1 = Len(heard)
          BY <2>6, <2>9, <4>3
        <5>3. QED
          BY <3>1, <4>3, <5>1, <5>2
      <4>4. QED
        BY <4>1, <4>2, <4>3
    <3>3. pc # "rdid" => model # None
      BY <1>1, <2>1 DEF ReportInv, Reading, Frames
    <3>4. ASSUME NEW k \in 2..Len(rx'), pc = "status"
          PROVE  rx'[k] = model.status
      <4>1. k \in 2..Len(rx) \/ (k = Len(rx) + 1 /\ Len(rx) >= 1)
        BY <2>6
      <4>2. CASE k \in 2..Len(rx)
        BY <1>1, <2>1, <2>6, <3>1, <3>4, <4>2 DEF AnswerInv
      <4>3. CASE k = Len(rx) + 1 /\ Len(rx) >= 1
        <5>1. Answer(heard) = model.status
          BY <1>1, <2>1, <2>9, <3>3, <3>4, <4>3, AnswerShape
        <5>2. QED
          BY <3>1, <4>3, <5>1
      <4>4. QED
        BY <4>1, <4>2, <4>3
    <3>5. ASSUME NEW k \in 6..Len(rx'), pc = "sfdp"
          PROVE  rx'[k] = IF model.sfdp THEN Signature[k - 5] ELSE 255
      <4>1. k \in 6..Len(rx) \/ (k = Len(rx) + 1 /\ Len(rx) >= 5)
        BY <2>6
      <4>2. CASE k \in 6..Len(rx)
        BY <1>1, <2>1, <2>6, <3>1, <3>5, <4>2 DEF AnswerInv
      <4>3. CASE k = Len(rx) + 1 /\ Len(rx) >= 5
        <5>1. Len(Bytes) = 9
          BY <1>1, <2>1, <3>5, BytesShape
        <5>2. Len(heard) >= 5 /\ Len(heard) <= 8
          BY <2>5, <2>6, <2>9, <4>3, <5>1
        <5>3. Answer(heard) =
                IF model.sfdp THEN Signature[Len(heard) - 4] ELSE 255
          BY <1>1, <2>1, <3>3, <3>5, <5>2, AnswerShape
        <5>4. k - 5 = Len(heard) - 4
          BY <2>6, <2>9, <4>3
        <5>5. QED
          BY <3>1, <4>3, <5>3, <5>4
      <4>4. QED
        BY <4>1, <4>2, <4>3
    <3>6. ASSUME NEW k \in 5..Len(rx'), pc = "read"
          PROVE  rx'[k] = Cell(SentAddress + k - 5)
      <4>1. k \in 5..Len(rx) \/ (k = Len(rx) + 1 /\ Len(rx) >= 4)
        BY <2>6
      <4>2. CASE k \in 5..Len(rx)
        BY <1>1, <2>1, <2>6, <3>1, <3>6, <4>2 DEF AnswerInv
      <4>3. CASE k = Len(rx) + 1 /\ Len(rx) >= 4
        <5>1. Answer(heard) = Cell(SentAddress + Len(heard) - 4)
          BY <1>1, <2>1, <2>9, <3>3, <3>6, <4>3, AnswerShape
        <5>2. SentAddress + k - 5 = SentAddress + Len(heard) - 4
          <6>1. SentAddress \in Nat
            BY <1>1, AddressIsSent
          <6>2. QED
            BY <2>6, <2>9, <4>3, <6>1
        <5>3. QED
          BY <3>1, <4>3, <5>1, <5>2
      <4>4. QED
        BY <4>1, <4>2, <4>3
    <3>7. \A a : Cell(a)' = Cell(a)
      BY <2>1 DEF Cell
    <3>8. QED
      BY <2>1, <2>2, <3>2, <3>4, <3>5, <3>6, <3>7 DEF AnswerInv, Cell
  <2>12. ReportInv' /\ BufferInv'
    BY <1>1, <2>1 DEF ReportInv, BufferInv, Frames
  <2>13. QED
    BY <2>7, <2>8, <2>10, <2>11, <2>12 DEF IInv
<1>5. ASSUME NEW which \in Frames, EndFrame(which)
      PROVE  /\ pc = which /\ ~cs /\ cs' /\ Len(rx) = Len(Bytes)
             /\ Len(heard) \in Nat /\ Len(rx) \in Nat /\ rx \in Seq(Byte)
             /\ UNCHANGED <<model, image, idle, tx, rx, heard>>
  <2>1. pc = which /\ ~cs /\ cs' /\ tx = <<>>
        /\ UNCHANGED <<model, image, idle, tx, rx, heard>>
    BY <1>5 DEF EndFrame
  <2>2. heard \in Seq(Byte) /\ rx \in Seq(Byte) /\ Len(tx) = 0
    BY <1>1, <2>1 DEF TypeInv
  <2>3. Len(rx) = Len(heard) /\ Len(heard) + Len(tx) = Len(Bytes)
    BY <1>1, <2>1 DEF FrameInv
  <2>4. QED
    BY <2>1, <2>2, <2>3
<1>6. CASE spi_flash_read_id
  <2>1. /\ pc = "rdid" /\ ~cs /\ cs' /\ Len(rx) = Len(Bytes)
        /\ rx \in Seq(Byte) /\ UNCHANGED <<model, image, idle, tx, rx, heard>>
    BY <1>5, <1>6 DEF spi_flash_read_id, Frames
  <2> DEFINE id == SubSeq(rx, 2, 4)
  <2>2. /\ answers' = [answers EXCEPT !.id = id]
        /\ UNCHANGED <<page, offset, length, flash_buffer>>
        /\ pc' = IF NoAnswer(answers'.id) THEN "not_detected" ELSE "status"
    BY <1>6 DEF spi_flash_read_id
  <2>3. Len(rx) = 4
    BY <1>1, <2>1, BytesShape DEF Frames
  <2>4. /\ id \in Seq(Byte) /\ Len(id) = 3
        /\ id[1] = rx[2] /\ id[2] = rx[3] /\ id[3] = rx[4]
    BY <2>1, <2>3
  <2>5. \A k \in 2..4 :
          rx[k] = IF model = None THEN idle ELSE model.id[k - 1]
    BY <1>1, <2>1, <2>3 DEF AnswerInv
  <2>6. ASSUME model = None PROVE NoAnswer(id)
    <3>1. id[1] = idle /\ id[2] = idle /\ id[3] = idle
      BY <2>4, <2>5, <2>6
    <3> HIDE DEF id
    <3>2. id = <<idle, idle, idle>>
      BY <2>4, <3>1
    <3>3. QED
      BY <1>1, <3>2 DEF NoAnswer, TypeInv
  <2>7. ASSUME model # None PROVE id = model.id /\ ~NoAnswer(id)
    <3>1. model \in Chips /\ model.id \in [1..3 -> Byte]
      BY <1>1, <2>7, Constants DEF TypeInv
    <3>2. id[1] = model.id[1] /\ id[2] = model.id[2] /\ id[3] = model.id[3]
      BY <2>4, <2>5, <2>7
    <3> HIDE DEF id
    <3>3. id = model.id
      <4>1. DOMAIN id = 1..3 /\ id = [k \in 1..3 |-> id[k]]
        BY <2>4
      <4>2. model.id = [k \in 1..3 |-> model.id[k]]
        BY <3>1
      <4>3. \A k \in 1..3 : id[k] = model.id[k]
        BY <3>2
      <4>4. QED
        BY <4>1, <4>2, <4>3
    <3>4. ~NoAnswer(id)
      BY <3>1, <3>3, Constants DEF NoAnswer
    <3>5. QED
      BY <3>3, <3>4
  <2>8. (NoAnswer(id) <=> model = None) /\ (model # None => id = model.id)
    BY <2>6, <2>7
  <2> HIDE DEF id
  <2>9. answers'.id = id /\ answers' \in [id : Seq(Byte), status : Byte,
                                        sfdp : BOOLEAN]
    BY <1>1, <2>2, <2>4 DEF TypeInv
  <2>10. pc' = IF model = None THEN "not_detected" ELSE "status"
    BY <2>2, <2>8, <2>9
  <2>11. TypeInv'
    BY <1>1, <2>1, <2>2, <2>9, <2>10 DEF TypeInv, Frames
  <2>12. PlaceInv'
    BY <1>1, <2>1, <2>2, <2>10 DEF PlaceInv, Setup
  <2>13. FrameInv' /\ AnswerInv' /\ BufferInv'
    BY <2>1, <2>10 DEF FrameInv, AnswerInv, BufferInv
  <2>14. ReportInv'
    BY <2>1, <2>8, <2>9, <2>10 DEF ReportInv, Reading
  <2>15. QED
    BY <2>11, <2>12, <2>13, <2>14 DEF IInv
<1>7. CASE spi_flash_read_status1
  <2>1. /\ pc = "status" /\ ~cs /\ cs' /\ Len(rx) = Len(Bytes)
        /\ rx \in Seq(Byte) /\ UNCHANGED <<model, image, idle, tx, rx, heard>>
    BY <1>5, <1>7 DEF spi_flash_read_status1, Frames
  <2>2. /\ answers' = [answers EXCEPT !.status = rx[2]]
        /\ UNCHANGED <<page, offset, length, flash_buffer>>
        /\ pc' = "sfdp"
    BY <1>7 DEF spi_flash_read_status1
  <2>3. Len(rx) = 2
    BY <1>1, <2>1, BytesShape DEF Frames
  <2>4. rx[2] = model.status /\ rx[2] \in Byte
    <3>1. \A k \in 2..Len(rx) : rx[k] = model.status
      BY <1>1, <2>1 DEF AnswerInv
    <3>2. rx[2] = model.status
      BY <2>3, <3>1
    <3>3. rx[2] \in Byte
      BY <2>1, <2>3
    <3>4. QED
      BY <3>2, <3>3
  <2>5. /\ answers' \in [id : Seq(Byte), status : Byte, sfdp : BOOLEAN]
        /\ answers'.id = answers.id /\ answers'.status = model.status
    BY <1>1, <2>2, <2>4 DEF TypeInv
  <2>6. TypeInv'
    BY <1>1, <2>1, <2>2, <2>5 DEF TypeInv, Frames
  <2>7. PlaceInv'
    BY <1>1, <2>1, <2>2 DEF PlaceInv
  <2>8. FrameInv' /\ AnswerInv' /\ BufferInv'
    BY <2>1, <2>2 DEF FrameInv, AnswerInv, BufferInv
  <2>9. ReportInv'
    BY <1>1, <2>1, <2>2, <2>5 DEF ReportInv, Reading
  <2>10. QED
    BY <2>6, <2>7, <2>8, <2>9 DEF IInv
<1>8. CASE spi_flash_sfdp_present
  <2>1. /\ pc = "sfdp" /\ ~cs /\ cs' /\ Len(rx) = Len(Bytes)
        /\ rx \in Seq(Byte) /\ UNCHANGED <<model, image, idle, tx, rx, heard>>
    BY <1>5, <1>8 DEF spi_flash_sfdp_present, Frames
  <2> DEFINE four == LastFour(rx)
  <2>2. /\ answers' = [answers EXCEPT !.sfdp = (four = Signature)]
        /\ UNCHANGED <<page, offset, length, flash_buffer>>
        /\ pc' = IF PageCount = 0 THEN "done" ELSE "read"
    BY <1>8 DEF spi_flash_sfdp_present
  <2>3. Len(rx) = 9
    BY <1>1, <2>1, BytesShape DEF Frames
  <2>4. /\ four \in Seq(Byte) /\ Len(four) = 4
        /\ four[1] = rx[6] /\ four[2] = rx[7]
        /\ four[3] = rx[8] /\ four[4] = rx[9]
    BY <2>1, <2>3 DEF LastFour
  <2> HIDE DEF four
  <2>5. \A k \in 6..9 :
          rx[k] = IF model.sfdp THEN Signature[k - 5] ELSE 255
    BY <1>1, <2>1, <2>3 DEF AnswerInv
  <2>6. model # None /\ model.sfdp \in BOOLEAN
    BY <1>1, <2>1, Constants DEF ReportInv, TypeInv
  <2>7. (four = Signature) <=> model.sfdp
    <3>1. CASE model.sfdp
      <4>1. rx[6] = 83 /\ rx[7] = 70 /\ rx[8] = 68 /\ rx[9] = 80
        BY <2>5, <3>1 DEF Signature
      <4>2. four = <<83, 70, 68, 80>>
        BY <2>4, <4>1
      <4>3. QED
        BY <3>1, <4>2 DEF Signature
    <3>2. CASE ~model.sfdp
      <4>1. four[1] = 255
        BY <2>4, <2>5, <3>2
      <4>2. Signature[1] = 83
        BY DEF Signature
      <4>3. QED
        BY <3>2, <4>1, <4>2
    <3>3. QED
      BY <3>1, <3>2
  <2>8. /\ answers' \in [id : Seq(Byte), status : Byte, sfdp : BOOLEAN]
        /\ answers'.id = answers.id /\ answers'.status = answers.status
        /\ answers'.sfdp = model.sfdp
    BY <1>1, <2>2, <2>6, <2>7 DEF TypeInv
  <2>9. TypeInv'
    BY <1>1, <2>1, <2>2, <2>8 DEF TypeInv, Frames
  <2>10. PlaceInv'
    BY <1>1, <2>1, <2>2, Constants DEF PlaceInv, Setup
  <2>11. FrameInv' /\ AnswerInv' /\ BufferInv'
    BY <2>1, <2>2 DEF FrameInv, AnswerInv, BufferInv
  <2>12. ReportInv'
    BY <1>1, <2>1, <2>2, <2>8 DEF ReportInv, Reading
  <2>13. QED
    BY <2>9, <2>10, <2>11, <2>12 DEF IInv
<1>9. CASE spi_flash_read
  <2>1. /\ pc = "read" /\ ~cs /\ cs' /\ Len(rx) = Len(Bytes)
        /\ rx \in Seq(Byte) /\ UNCHANGED <<model, image, idle, tx, rx, heard>>
    BY <1>5, <1>9 DEF spi_flash_read, Frames
  <2>2. /\ flash_buffer' = [n \in 1..ChunkSize |->
                              IF n <= ChunkLength THEN rx[n + 4]
                              ELSE flash_buffer[n]]
        /\ length' = 0 /\ pc' = "crc" /\ UNCHANGED <<answers, page, offset>>
    BY <1>9 DEF spi_flash_read
  <2>3. Len(rx) = 4 + ChunkLength /\ ChunkLength \in Nat
        /\ ChunkLength <= ChunkSize
    BY <1>1, <2>1, BytesShape, ChunkBounds, Constants
       DEF Frames, TypeInv, PlaceInv
  <2>4. ChunkLength' = ChunkLength /\ SentAddress' = SentAddress
        /\ \A a : Cell(a)' = Cell(a)
    BY <2>1, <2>2, SamePlace DEF Cell
  <2>5. \A n \in 1..ChunkLength : n + 4 \in 1..Len(rx) /\ n + 4 \in 5..Len(rx)
    BY <2>3
  <2>6. \A n \in 1..ChunkLength : rx[n + 4] = Cell(SentAddress + n - 1)
    <3>1. SentAddress \in Nat
      BY <1>1, AddressIsSent
    <3>2. \A n \in 1..ChunkLength : SentAddress + (n + 4) - 5
                                    = SentAddress + n - 1
      BY <2>3, <3>1
    <3>3. \A k \in 5..Len(rx) : rx[k] = Cell(SentAddress + k - 5)
      BY <1>1, <2>1 DEF AnswerInv
    <3>4. \A n \in 1..ChunkLength :
            rx[n + 4] = Cell(SentAddress + (n + 4) - 5)
      BY <2>5, <3>3
    <3>5. QED
      BY <3>2, <3>4
  <2>7. flash_buffer' \in [1..ChunkSize -> Byte]
    <3>1. \A n \in 1..ChunkLength : rx[n + 4] \in Byte
      BY <2>1, <2>5
    <3>2. \A n \in 1..ChunkSize : flash_buffer[n] \in Byte
      BY <1>1 DEF TypeInv
    <3>3. QED
      BY <2>2, <2>3, <3>1, <3>2, Constants
  <2>8. TypeInv'
    BY <1>1, <2>1, <2>2, <2>7 DEF TypeInv, Frames
  <2>9. PlaceInv'
    BY <1>1, <2>1, <2>2, <2>3, <2>4 DEF PlaceInv, Setup
  <2>10. BufferInv'
    BY <2>2, <2>3, <2>4, <2>6, Constants DEF BufferInv, Cell
  <2>11. FrameInv' /\ AnswerInv'
    BY <2>1, <2>2 DEF FrameInv, AnswerInv
  <2>12. ReportInv'
    BY <1>1, <2>1, <2>2 DEF ReportInv, Reading
  <2>13. QED
    BY <2>8, <2>9, <2>10, <2>11, <2>12 DEF IInv
<1>10. CASE crc32_update
  <2>1. /\ pc = "crc" /\ length < ChunkLength /\ length' = length + 1
        /\ UNCHANGED <<pc, cs, wires, frame, answers, page, offset,
                       flash_buffer>>
    BY <1>10 DEF crc32_update
  <2>2. ChunkLength' = ChunkLength /\ SentAddress' = SentAddress
        /\ ChunkLength \in Nat
    BY <1>1, <2>1, SamePlace, ChunkBounds, Constants DEF TypeInv, PlaceInv
  <2>3. TypeInv'
    BY <1>1, <2>1 DEF TypeInv
  <2>4. PlaceInv'
    BY <1>1, <2>1, <2>2 DEF PlaceInv, TypeInv
  <2>5. BufferInv'
    BY <1>1, <2>1, <2>2 DEF BufferInv, Cell
  <2>6. FrameInv' /\ AnswerInv' /\ ReportInv'
    BY <1>1, <2>1 DEF FrameInv, AnswerInv, ReportInv, Frames
  <2>7. QED
    BY <2>3, <2>4, <2>5, <2>6 DEF IInv
<1>11. CASE crc32_page
  <2>1. /\ pc = "crc" /\ pc' \in {"read", "print"}
        /\ offset' = offset + ChunkSize /\ (pc' = "read" => offset' < PageSize)
        /\ UNCHANGED <<cs, wires, frame, answers, page, length, flash_buffer>>
    BY <1>11 DEF crc32_page
  <2>2. TypeInv'
    BY <1>1, <2>1, Constants DEF TypeInv, Frames
  <2>3. PlaceInv'
    BY <1>1, <2>1 DEF PlaceInv, Setup, Frames
  <2>4. FrameInv' /\ AnswerInv' /\ BufferInv'
    BY <1>1, <2>1 DEF FrameInv, AnswerInv, BufferInv, PlaceInv, Frames
  <2>5. ReportInv'
    BY <1>1, <2>1 DEF ReportInv, Reading
  <2>6. QED
    BY <2>2, <2>3, <2>4, <2>5 DEF IInv
<1>12. CASE PrintPage
  <2>1. /\ pc = "print" /\ pc' \in {"read", "done"} /\ page' = page + 1
        /\ pc' = "read" => page' < PageCount
        /\ offset' = 0
        /\ UNCHANGED <<cs, wires, frame, answers, length, flash_buffer>>
    BY <1>12 DEF PrintPage, StartPage
  <2>2. TypeInv'
    BY <1>1, <2>1 DEF TypeInv, Frames
  <2>3. PlaceInv'
    BY <1>1, <2>1, Constants DEF PlaceInv, Setup, Frames
  <2>4. FrameInv' /\ AnswerInv' /\ BufferInv'
    BY <1>1, <2>1 DEF FrameInv, AnswerInv, BufferInv, PlaceInv, Frames
  <2>5. ReportInv'
    BY <1>1, <2>1 DEF ReportInv, Reading
  <2>6. QED
    BY <2>2, <2>3, <2>4, <2>5 DEF IInv
<1>13. CASE UNCHANGED vars
  <2>1. Bytes' = Bytes /\ ChunkLength' = ChunkLength
        /\ SentAddress' = SentAddress
    BY <1>13, SamePlace DEF vars
  <2>2. TypeInv' /\ ReportInv' /\ BufferInv'
    BY <1>1, <1>13, <2>1 DEF vars, TypeInv, ReportInv, BufferInv, Cell
  <2>3. PlaceInv' /\ FrameInv' /\ AnswerInv'
    BY <1>1, <1>13, <2>1 DEF vars, PlaceInv, FrameInv, AnswerInv, Cell
  <2>4. QED
    BY <2>2, <2>3 DEF IInv
<1>14. QED
  BY <1>2, <1>3, <1>4, <1>6, <1>7, <1>8, <1>9, <1>10, <1>11, <1>12, <1>13
     DEF Next

-----------------------------------------------------------------------------
(* What follows from the invariant.                                        *)

\* The frames, the answers and the buffer are as IInv says in every state.
THEOREM Invariant == Spec => []IInv
  BY InitIInv, NextIInv, PTL DEF Spec

\* A flash is reported exactly when one is fitted, with its own identity,
\* status and SFDP capability.
THEOREM ReportIsTrue == Spec => []ReportIsTheChips
<1>1. IInv => ReportIsTheChips
  <2> SUFFICES ASSUME IInv PROVE ReportIsTheChips
    OBVIOUS
  <2>1. TypeInv /\ ReportInv
    BY DEF IInv
  <2>2. ASSUME pc \in Reading PROVE answers = model
    <3>1. model \in [id : [1..3 -> Byte], status : Byte, sfdp : BOOLEAN]
      BY <2>1, <2>2, Constants DEF TypeInv, ReportInv
    <3>2. answers \in [id : Seq(Byte), status : Byte, sfdp : BOOLEAN]
      BY <2>1 DEF TypeInv
    <3>3. /\ answers.id = model.id /\ answers.status = model.status
          /\ answers.sfdp = model.sfdp
      BY <2>1, <2>2 DEF ReportInv
    <3>4. QED
      BY <3>1, <3>2, <3>3
  <2>3. QED
    BY <2>1, <2>2 DEF ReportIsTheChips, ReportInv, Reading
<1>2. QED
  BY <1>1, Invariant, PTL

\* What is handed to crc32_update() is the page, whatever the chunks: no byte
\* of a command, an address or another chunk, and none left out.
THEOREM PageIsRead == Spec => []BufferIsThePage
<1>1. IInv => BufferIsThePage
  <2> SUFFICES ASSUME IInv, Fits, pc = "crc", NEW n \in 1..ChunkLength
               PROVE  flash_buffer[n] = image[page * PageSize + offset + n]
    BY DEF BufferIsThePage
  <2>1. TypeInv /\ PlaceInv /\ BufferInv
    BY DEF IInv
  <2>2. /\ page \in Nat /\ page < PageCount /\ offset \in Nat
        /\ offset < PageSize /\ PageSize \in Nat /\ PageCount \in Nat
        /\ Radix \in Nat
    BY <2>1, Constants DEF TypeInv, PlaceInv
  <2>3. ChunkLength \in Nat /\ offset + ChunkLength <= PageSize
    BY <2>2, ChunkBounds, Constants
  <2>4. page * PageSize + PageSize <= PageCount * PageSize
        /\ page * PageSize \in Nat /\ PageCount * PageSize \in Nat
    <3>1. (PageCount - page - 1) * PageSize >= 0
      BY <2>2
    <3>2. (PageCount - page - 1) * PageSize
            = PageCount * PageSize - page * PageSize - PageSize
      BY <2>2
    <3>3. page * PageSize \in Nat /\ PageCount * PageSize \in Nat
      BY <2>2
    <3>4. QED
      BY <2>2, <3>1, <3>2, <3>3
  <2>5. Address \in Nat /\ Address = page * PageSize + offset
    BY <2>2, <2>4 DEF Address
  <2>6. Address + n <= PageCount * PageSize
    BY <2>2, <2>3, <2>4, <2>5
  <2>7. Address < (Radix * Radix) * Radix
    <3>1. (Radix * Radix) * Radix \in Nat
      BY <2>2
    <3>2. QED
      BY <2>3, <2>4, <2>5, <2>6, <3>1 DEF Fits
  <2>8. SentAddress = Address
    BY <2>5, <2>7, ThreeDigits DEF SentAddress
  <2>9. flash_buffer[n] = Cell(Address + n - 1)
    BY <2>1, <2>8 DEF BufferInv
  <2>10. image \in Seq(Byte) /\ Len(image) \in Nat
         /\ PageCount * PageSize <= Len(image)
    BY <2>1, Constants DEF TypeInv, Fits
  <2> DEFINE a == Address + n - 1
  <2>11. a \in Nat /\ a < Len(image) /\ a + 1 = page * PageSize + offset + n
    BY <2>3, <2>4, <2>5, <2>6, <2>10
  <2> HIDE DEF a
  <2>12. a % Len(image) = a
    BY <2>10, <2>11
  <2>13. QED
    BY <2>9, <2>11, <2>12 DEF Cell, a
<1>2. QED
  BY <1>1, Invariant, PTL

-----------------------------------------------------------------------------
(* The CRC of a page.                                                      *)

\* The remainder of the front of the page under way.
RemainderOfPage(n) == Remainder(PageBytes(image, page))[n]

\* The register holds the mirror image of the remainder of the bytes of this
\* page that were added to it.
CrcInv ==
    /\ pc \in Setup \cup {"rdid", "status", "sfdp"} => crc = CRC32_INIT
    /\ pc = "read" => crc = Mirror(RemainderOfPage(offset))
    /\ pc = "crc" => crc = Mirror(RemainderOfPage(offset + length))
    /\ pc = "print" => crc = ReferenceCrc(PageBytes(image, page))

\* The remainder of each front of a page.
LEMMA PageRemainders ==
    ASSUME NEW im, NEW p
    PROVE  LET bytes == PageBytes(im, p)
           IN  /\ Len(bytes) = PageSize
               /\ \A n \in 1..PageSize : bytes[n] = im[p * PageSize + n]
               /\ Remainder(bytes)[0] = Word
               /\ \A n \in 1..PageSize : Remainder(bytes)[n]
                    = DivideByte(Remainder(bytes)[n - 1], bytes[n])
               /\ \A n \in 0..PageSize : Remainder(bytes)[n] \in Register
<1> DEFINE bytes == PageBytes(im, p)
<1>1. PageSize \in Nat
  BY Constants
<1>2. Len(bytes) = PageSize /\ \A n \in 1..PageSize : bytes[n] = im[p * PageSize + n]
  BY <1>1 DEF PageBytes
<1> HIDE DEF bytes
<1>3. /\ Remainder(bytes)[0] = Word
      /\ \A n \in 1..PageSize :
           Remainder(bytes)[n] = DivideByte(Remainder(bytes)[n - 1], bytes[n])
      /\ \A n \in 0..PageSize : Remainder(bytes)[n] \in Register
  BY <1>1, <1>2, RemainderOfFronts
<1>4. QED
  BY <1>2, <1>3 DEF bytes

\* A register of ones is its own mirror image, and its exclusive or with
\* another register is that one's complement.
LEMMA AllOnes ==
    /\ Mirror(Word) = Word
    /\ \A r \in Register : Xor(r, Word) = Word \ r
<1>1. Word \in Register
  BY DEF Register
<1>2. \A x \in Word : x \in Mirror(Word)
  <2>1. \A x \in Word : 31 - x \in Word
    BY DEF Word
  <2>2. QED
    BY <1>1, <2>1, MirrorBits
<1>3. Mirror(Word) = Word
  BY <1>1, <1>2, MirrorBits DEF Register
<1>4. QED
  BY <1>3 DEF Xor, Register

\* The first page starts from a register of ones, and so does every other.
LEMMA FreshCrc == CRC32_INIT = Mirror(RemainderOfPage(0))
  BY PageRemainders, AllOnes DEF RemainderOfPage, CRC32_INIT

\* It holds before the first step.
LEMMA InitCrcInv == Init => CrcInv
  BY DEF Init, CrcInv, Setup

\* Every step of the program keeps it.
LEMMA NextCrcInv ==
    ASSUME IInv, BufferIsThePage, Fits, CrcInv, [Next]_vars
    PROVE  CrcInv'
<1>1. TypeInv /\ PlaceInv
  BY DEF IInv
<1>2. CASE /\ UNCHANGED <<page, offset, length, crc, image>>
           /\ pc' = pc \/ (pc \in Setup \cup {"rdid", "status"}
                           /\ pc' \in Setup \cup {"rdid", "status", "sfdp", "not_detected"})
  BY <1>2 DEF CrcInv, RemainderOfPage, Setup
<1>3. CASE spi_flash_init
  <2>1. pc' \in Setup \cup {"rdid"} /\ pc \in Setup
    BY <1>3 DEF spi_flash_init, InitOrder, Setup
  <2>2. UNCHANGED <<page, offset, length, crc, image>>
    BY <1>3 DEF spi_flash_init, job, wires
  <2>3. QED
    BY <1>2, <2>1, <2>2
<1>4. CASE spi_flash_cs_low \/ spi_flash_xfer
  BY <1>2, <1>4 DEF spi_flash_cs_low, spi_flash_xfer, job, wires
<1>5. CASE spi_flash_read_id
  BY <1>2, <1>5 DEF spi_flash_read_id, EndFrame, job, wires
<1>6. CASE spi_flash_read_status1
  BY <1>2, <1>6 DEF spi_flash_read_status1, EndFrame, job, wires
<1>7. CASE spi_flash_sfdp_present
  <2>1. /\ pc = "sfdp" /\ pc' \in {"done", "read"}
        /\ UNCHANGED <<page, offset, length, crc, image>>
    BY <1>7 DEF spi_flash_sfdp_present, EndFrame, job, wires
  <2>2. crc = CRC32_INIT /\ offset = 0
    BY <1>1, <2>1 DEF CrcInv, PlaceInv
  <2>3. crc' = Mirror(RemainderOfPage(offset)')
    BY <2>1, <2>2, FreshCrc DEF RemainderOfPage
  <2>4. QED
    BY <2>1, <2>3 DEF CrcInv, Setup
<1>8. CASE spi_flash_read
  <2>1. /\ pc = "read" /\ pc' = "crc" /\ length' = 0
        /\ UNCHANGED <<page, offset, crc, image>>
    BY <1>8 DEF spi_flash_read, EndFrame, wires
  <2>2. offset' + length' = offset
    BY <1>1, <2>1 DEF TypeInv
  <2>3. QED
    BY <2>1, <2>2 DEF CrcInv, RemainderOfPage, Setup
<1>9. CASE crc32_update
  <2> DEFINE n == offset + length
             bytes == PageBytes(image, page)
  <2>1. /\ pc = "crc" /\ pc' = pc /\ length < ChunkLength
        /\ length' = length + 1
        /\ crc' = crc32_soft_update(crc, flash_buffer[length + 1])
        /\ UNCHANGED <<page, offset, image>>
    BY <1>9 DEF crc32_update, wires
  <2>2. /\ offset \in Nat /\ length \in Nat /\ ChunkLength \in Nat
        /\ offset + ChunkLength <= PageSize /\ PageSize \in Nat
    BY <1>1, <2>1, ChunkBounds, Constants DEF TypeInv, PlaceInv
  <2>3. length + 1 \in 1..ChunkLength
    BY <2>1, <2>2
  <2>4. flash_buffer[length + 1] = image[page * PageSize + offset + (length + 1)]
    BY <2>1, <2>3 DEF BufferIsThePage
  <2>5. /\ n \in 0..PageSize /\ n + 1 \in 1..PageSize /\ n + 1 - 1 = n
        /\ offset' + length' = n + 1
    BY <2>1, <2>2
  <2>6. page * PageSize + offset + (length + 1) = page * PageSize + (n + 1)
    <3>1. page * PageSize \in Nat
      BY <1>1, <2>2 DEF TypeInv
    <3>2. QED
      BY <2>2, <3>1
  <2> HIDE DEF n
  <2>7. bytes[n + 1] = flash_buffer[length + 1]
    BY <2>4, <2>5, <2>6, PageRemainders
  <2>8. /\ Remainder(bytes)[n + 1]
              = DivideByte(Remainder(bytes)[n], bytes[n + 1])
        /\ Remainder(bytes)[n] \in Register
    <3>1. \A k \in 1..PageSize : Remainder(bytes)[k]
                    = DivideByte(Remainder(bytes)[k - 1], bytes[k])
      BY PageRemainders
    <3>2. Remainder(bytes)[n + 1]
              = DivideByte(Remainder(bytes)[n + 1 - 1], bytes[n + 1])
      BY <2>5, <3>1
    <3>3. Remainder(bytes)[n] \in Register
      BY <2>5, PageRemainders
    <3>4. QED
      BY <2>5, <3>2, <3>3
  <2>9. crc = Mirror(Remainder(bytes)[n])
    BY <2>1 DEF CrcInv, RemainderOfPage, n
  <2>10. crc' = Mirror(Remainder(bytes)[n + 1])
    BY <2>1, <2>7, <2>8, <2>9, SoftDivides
  <2>11. crc' = Mirror(RemainderOfPage(offset + length)')
    BY <2>1, <2>5, <2>10 DEF RemainderOfPage
  <2>12. QED
    BY <2>1, <2>11 DEF CrcInv, Setup
<1>10. CASE crc32_page
  <2>1. /\ pc = "crc" /\ length = ChunkLength /\ offset' = offset + ChunkSize
        /\ \/ offset' < PageSize /\ pc' = "read" /\ UNCHANGED crc
           \/ offset' >= PageSize /\ pc' = "print"
              /\ crc' = Xor(crc, CRC32_XOROUT)
        /\ UNCHANGED <<page, image>>
    BY <1>10 DEF crc32_page, wires
  <2>2. crc = Mirror(RemainderOfPage(offset + length))
    BY <2>1 DEF CrcInv
  <2>3. offset \in Nat /\ offset < PageSize /\ PageSize \in Nat /\ ChunkSize \in Nat
    BY <1>1, <2>1, Constants DEF TypeInv, PlaceInv
  <2>4. CASE offset' < PageSize
    <3>1. pc' = "read" /\ UNCHANGED crc /\ offset + length = offset'
      BY <2>1, <2>3, <2>4 DEF ChunkLength
    <3>2. crc' = Mirror(RemainderOfPage(offset)')
      BY <2>1, <2>2, <3>1 DEF RemainderOfPage
    <3>3. QED
      BY <3>1, <3>2 DEF CrcInv, Setup
  <2>5. CASE offset' >= PageSize
    <3> DEFINE bytes == PageBytes(image, page)
    <3>1. /\ pc' = "print" /\ crc' = Xor(crc, Word)
          /\ offset + length = PageSize
      BY <2>1, <2>3, <2>5 DEF ChunkLength, CRC32_XOROUT
    <3>2. /\ crc = Mirror(Remainder(bytes)[Len(bytes)])
          /\ Remainder(bytes)[Len(bytes)] \in Register
      BY <2>2, <2>3, <3>1, PageRemainders DEF RemainderOfPage
    <3>3. crc' = ReferenceCrc(bytes)
      BY <3>1, <3>2, MirrorBits, AllOnes DEF ReferenceCrc
    <3>4. crc' = ReferenceCrc(PageBytes(image, page)')
      BY <2>1, <3>3 DEF PageBytes
    <3>5. QED
      BY <3>1, <3>4 DEF CrcInv, Setup
  <2>6. QED
    BY <2>1, <2>4, <2>5
<1>11. CASE PrintPage
  <2>1. /\ pc' \in {"read", "done"} /\ offset' = 0 /\ crc' = CRC32_INIT
    BY <1>11 DEF PrintPage, StartPage
  <2>2. CRC32_INIT = Mirror(RemainderOfPage(0)')
    BY PageRemainders, AllOnes DEF RemainderOfPage, CRC32_INIT
  <2>3. crc' = Mirror(RemainderOfPage(offset)')
    BY <2>1, <2>2 DEF RemainderOfPage
  <2>4. QED
    BY <2>1, <2>3 DEF CrcInv, Setup
<1>12. CASE UNCHANGED vars
  BY <1>2, <1>12 DEF vars, job, wires
<1>13. QED
  BY <1>3, <1>4, <1>5, <1>6, <1>7, <1>8, <1>9, <1>10, <1>11, <1>12 DEF Next

\* When the job fits the chip, every CRC the program prints is the CRC-32 of
\* the page it prints it for: crc32_page() adds every byte of the page once, in
\* order and in whatever chunks, and crc32_soft_update() computes bit-reflected
\* what the file's header defines.
THEOREM PrintsTheCrc ==
    ASSUME Fits
    PROVE  Spec => []CrcIsOfPage
<1>1. IInv /\ CrcInv => CrcIsOfPage
  <2> SUFFICES ASSUME IInv, CrcInv, pc = "print" PROVE crc = PageCrc[image][page]
    BY DEF CrcIsOfPage
  <2>1. crc = ReferenceCrc(PageBytes(image, page))
    BY DEF CrcInv
  <2>2. image \in Images /\ page \in 0..PageCount - 1
    BY Constants DEF IInv, TypeInv, PlaceInv
  <2>3. QED
    BY <2>1, <2>2 DEF PageCrc
<1>2. IInv /\ BufferIsThePage /\ CrcInv /\ [Next]_vars => CrcInv'
  BY NextCrcInv
<1>3. QED
  BY <1>1, <1>2, Invariant, PageIsRead, InitCrcInv, PTL DEF Spec

-----------------------------------------------------------------------------
(* Type correctness.                                                       *)

\* The bounds that TypeInv leaves out.
BoundsInv ==
    /\ Len(heard) = Len(rx)
    /\ pc \in Setup => Len(tx) = 0 /\ Len(rx) = 0
    /\ page <= PageCount
    /\ offset <= PageSize - 1 + ChunkSize
    /\ length <= ChunkSize
    /\ crc \in Register

\* They hold before the first step.
LEMMA InitBoundsInv == Init => BoundsInv
<1> SUFFICES ASSUME Init PROVE BoundsInv
  OBVIOUS
<1>1. Len(heard) = 0 /\ Len(rx) = 0 /\ Len(tx) = 0
  BY DEF Init
<1>2. page = 0 /\ offset = 0 /\ length = 0 /\ crc \in Register
  BY DEF Init, Register, CRC32_INIT
<1>3. QED
  BY <1>1, <1>2, Constants DEF BoundsInv

\* Every step of the program keeps them.
LEMMA NextBoundsInv ==
    ASSUME IInv, BoundsInv, [Next]_vars
    PROVE  BoundsInv'
<1>1. TypeInv /\ PlaceInv
  BY DEF IInv
<1>2. /\ PageSize \in Nat /\ ChunkSize \in Nat /\ PageCount \in Nat
      /\ page \in Nat /\ offset \in Nat /\ length \in Nat
      /\ tx \in Seq(Byte) /\ rx \in Seq(Byte) /\ heard \in Seq(Byte)
  BY <1>1, Constants DEF TypeInv
<1>3. CASE spi_flash_init
  BY <1>3 DEF spi_flash_init, InitOrder, Setup, BoundsInv, frame, job
<1>4. CASE spi_flash_cs_low
  <2>1. pc \notin Setup /\ pc' = pc /\ heard' = <<>> /\ rx' = <<>> /\ UNCHANGED job
    BY <1>4 DEF spi_flash_cs_low, Frames, Setup
  <2>2. Len(heard') = 0 /\ Len(rx') = 0
    BY <2>1
  <2>3. QED
    BY <2>1, <2>2 DEF BoundsInv, job
<1>5. CASE spi_flash_xfer
  <2> DEFINE b == Answer(heard)
             a == Head(tx)
  <2>1. /\ pc \notin Setup /\ pc' = pc /\ UNCHANGED job
        /\ rx' = Append(rx, b) /\ heard' = Append(heard, a)
    BY <1>5 DEF spi_flash_xfer, Frames, Setup
  <2> HIDE DEF a, b
  <2>2. Len(rx') = Len(rx) + 1 /\ Len(heard') = Len(heard) + 1
    BY <1>2, <2>1
  <2>3. QED
    BY <2>1, <2>2 DEF BoundsInv, job
<1>6. CASE \/ spi_flash_read_id \/ spi_flash_read_status1
           \/ spi_flash_sfdp_present
  <2>1. pc' \notin Setup /\ UNCHANGED frame /\ UNCHANGED job
    BY <1>6 DEF spi_flash_read_id, spi_flash_read_status1,
                spi_flash_sfdp_present, EndFrame, Setup
  <2>2. QED
    BY <2>1 DEF BoundsInv, frame, job
<1>7. CASE spi_flash_read
  <2>1. /\ pc' \notin Setup /\ UNCHANGED frame /\ length' = 0
        /\ UNCHANGED <<page, offset, crc>>
    BY <1>7 DEF spi_flash_read, EndFrame, Setup
  <2>2. QED
    BY <1>2, <2>1 DEF BoundsInv, frame
<1>8. CASE crc32_update
  <2>1. /\ pc = "crc" /\ pc' = pc /\ length < ChunkLength /\ length' = length + 1
        /\ crc' = crc32_soft_update(crc, flash_buffer[length + 1])
        /\ UNCHANGED <<page, offset, frame>>
    BY <1>8 DEF crc32_update
  <2>2. length' <= ChunkSize
    BY <1>1, <1>2, <2>1, ChunkBounds DEF PlaceInv
  <2>3. crc' \in Register
    BY <2>1, SoftTurns DEF BoundsInv, crc32_soft_update
  <2>4. pc' \notin Setup
    BY <2>1 DEF Setup
  <2>5. QED
    BY <2>1, <2>2, <2>3, <2>4 DEF BoundsInv, frame
<1>9. CASE crc32_page
  <2>1. /\ pc = "crc" /\ pc' \notin Setup /\ offset' = offset + ChunkSize
        /\ crc' \in {crc, Xor(crc, Word)} /\ UNCHANGED <<page, length, frame>>
    BY <1>9 DEF crc32_page, Setup, CRC32_XOROUT
  <2>2. offset' <= PageSize - 1 + ChunkSize
    BY <1>1, <1>2, <2>1 DEF PlaceInv
  <2>3. crc' \in Register
    <3>1. Word \in Register
      BY DEF Register
    <3>2. QED
      BY <2>1, <3>1, XorIsRegister DEF BoundsInv
  <2>4. QED
    BY <2>1, <2>2, <2>3 DEF BoundsInv, frame
<1>10. CASE PrintPage
  <2>1. /\ pc = "print" /\ pc' \notin Setup /\ page' = page + 1 /\ offset' = 0
        /\ crc' = CRC32_INIT /\ UNCHANGED <<length, frame>>
    BY <1>10 DEF PrintPage, StartPage, Setup
  <2>2. page' <= PageCount
    BY <1>1, <1>2, <2>1 DEF PlaceInv
  <2>3. offset' <= PageSize - 1 + ChunkSize /\ crc' \in Register
    BY <1>2, <2>1, Constants DEF Register, CRC32_INIT
  <2>4. QED
    BY <2>1, <2>2, <2>3 DEF BoundsInv, frame
<1>11. CASE UNCHANGED vars
  BY <1>11 DEF vars, BoundsInv, frame, job
<1>12. QED
  BY <1>3, <1>4, <1>5, <1>6, <1>7, <1>8, <1>9, <1>10, <1>11 DEF Next

\* Every variable stays within its type, and no frame is longer than the
\* longest command with its answer.
THEOREM TypesAreRight == Spec => []TypeOK
<1>1. IInv /\ BoundsInv => TypeOK
  <2> SUFFICES ASSUME IInv, BoundsInv PROVE TypeOK
    OBVIOUS
  <2>1. TypeInv /\ PlaceInv /\ FrameInv
    BY DEF IInv
  <2>2. /\ tx \in Seq(Byte) /\ rx \in Seq(Byte)
        /\ PageSize \in Nat /\ ChunkSize \in Nat /\ PageCount \in Nat
    BY <2>1, Constants DEF TypeInv
  <2>3. ~cs => Len(tx) + Len(rx) <= IF pc = "read" THEN 4 + ChunkSize ELSE 9
    <3> SUFFICES ASSUME ~cs
                 PROVE  Len(tx) + Len(rx)
                          <= IF pc = "read" THEN 4 + ChunkSize ELSE 9
      OBVIOUS
    <3>1. CASE pc \in Setup
      BY <3>1 DEF BoundsInv, Setup
    <3>2. CASE pc \in Frames
      <4>1. Len(tx) + Len(rx) = Len(Bytes)
        BY <2>1, <2>2, <3>2 DEF FrameInv, BoundsInv
      <4>2. CASE pc = "read"
        <5>1. Len(Bytes) = 4 + ChunkLength
          BY <2>1, <3>2, <4>2, BytesShape
        <5>2. ChunkLength \in 1..ChunkSize
          BY <2>1, <4>2, ChunkBounds DEF TypeInv, PlaceInv
        <5>3. QED
          BY <2>2, <4>1, <4>2, <5>1, <5>2
      <4>3. CASE pc # "read"
        <5>1. Len(Bytes) \in {2, 4, 9}
          BY <2>1, <3>2, <4>3, BytesShape DEF Frames
        <5>2. QED
          BY <4>1, <4>3, <5>1
      <4>4. QED
        BY <4>2, <4>3
    <3>3. QED
      BY <2>1, <3>1, <3>2 DEF TypeInv, PlaceInv, Setup, Frames
  <2>4. /\ page \in 0..PageCount /\ offset \in 0..PageSize - 1 + ChunkSize
        /\ length \in 0..ChunkSize /\ crc \subseteq Word
    BY <2>1, <2>2 DEF TypeInv, BoundsInv, Register
  <2>5. \A n \in DOMAIN rx : rx[n] \in Byte
    BY <2>2
  <2>6. QED
    BY <2>1, <2>3, <2>4, <2>5 DEF TypeOK, TypeInv, BoundsInv
<1>2. IInv /\ BoundsInv /\ [Next]_vars => BoundsInv'
  BY NextBoundsInv
<1>3. QED
  BY <1>1, <1>2, Invariant, InitBoundsInv, PTL DEF Spec
=============================================================================
