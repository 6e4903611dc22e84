------------------------- MODULE ImageFormatProofs --------------------------
(***************************************************************************)
(* Theorems about ImageFormat, for every ELF file, every list of sections  *)
(* and any number of options: what WriteSections makes, stdImageInfo reads *)
(* back, and what it could not finish or has gone bad is noticed.          *)
(***************************************************************************)
EXTENDS ImageFormat, SequenceFacts

-----------------------------------------------------------------------------
(* Bits *)

Bit == {0, 1}

LEMMA BitTyped ==
    ASSUME NEW a \in Byte
    PROVE  /\ BitOf(a, 1) \in Bit /\ BitOf(a, 2) \in Bit /\ BitOf(a, 4) \in Bit
           /\ BitOf(a, 8) \in Bit /\ BitOf(a, 16) \in Bit /\ BitOf(a, 32) \in Bit
           /\ BitOf(a, 64) \in Bit /\ BitOf(a, 128) \in Bit
  BY DEF BitOf, Bit, Byte

\* The number with the bits b0 to b7.
Sum8(b0, b1, b2, b3, b4, b5, b6, b7) ==
    b0 + 2 * b1 + 4 * b2 + 8 * b3 + 16 * b4 + 32 * b5 + 64 * b6 + 128 * b7

LEMMA SumOfBits ==
    ASSUME NEW a \in Byte
    PROVE  a = Sum8(BitOf(a, 1), BitOf(a, 2), BitOf(a, 4), BitOf(a, 8),
                    BitOf(a, 16), BitOf(a, 32), BitOf(a, 64), BitOf(a, 128))
  BY DEF Sum8, BitOf, Byte

Flip(b, c) == (b + c) % 2

LEMMA XorBits ==
    ASSUME NEW a \in Byte, NEW b \in Byte
    PROVE  /\ Xor(a, b) \in Byte
           /\ BitOf(Xor(a, b), 1) = Flip(BitOf(a, 1), BitOf(b, 1))
           /\ BitOf(Xor(a, b), 2) = Flip(BitOf(a, 2), BitOf(b, 2))
           /\ BitOf(Xor(a, b), 4) = Flip(BitOf(a, 4), BitOf(b, 4))
           /\ BitOf(Xor(a, b), 8) = Flip(BitOf(a, 8), BitOf(b, 8))
           /\ BitOf(Xor(a, b), 16) = Flip(BitOf(a, 16), BitOf(b, 16))
           /\ BitOf(Xor(a, b), 32) = Flip(BitOf(a, 32), BitOf(b, 32))
           /\ BitOf(Xor(a, b), 64) = Flip(BitOf(a, 64), BitOf(b, 64))
           /\ BitOf(Xor(a, b), 128) = Flip(BitOf(a, 128), BitOf(b, 128))
  <1> DEFINE x(w) == Flip(BitOf(a, w), BitOf(b, w))
  <1>1. \A p, q \in Bit : Flip(p, q) \in Bit
    BY DEF Flip, Bit
  <1>2. /\ x(1) \in Bit /\ x(2) \in Bit /\ x(4) \in Bit /\ x(8) \in Bit
        /\ x(16) \in Bit /\ x(32) \in Bit /\ x(64) \in Bit /\ x(128) \in Bit
    BY <1>1, BitTyped
  <1>3. Xor(a, b) = Sum8(x(1), x(2), x(4), x(8), x(16), x(32), x(64), x(128))
    BY DEF Xor, Weighted, Sum8, Flip
  <1> HIDE DEF x
  <1>4. PICK b0 \in Bit, b1 \in Bit, b2 \in Bit, b3 \in Bit,
             b4 \in Bit, b5 \in Bit, b6 \in Bit, b7 \in Bit :
           /\ b0 = x(1) /\ b1 = x(2) /\ b2 = x(4) /\ b3 = x(8)
           /\ b4 = x(16) /\ b5 = x(32) /\ b6 = x(64) /\ b7 = x(128)
    BY <1>2
  <1>5. Xor(a, b) = Sum8(b0, b1, b2, b3, b4, b5, b6, b7)
    BY <1>3, <1>4
  <1>6. /\ Xor(a, b) \in Byte
        /\ BitOf(Xor(a, b), 1) = b0 /\ BitOf(Xor(a, b), 2) = b1
        /\ BitOf(Xor(a, b), 4) = b2 /\ BitOf(Xor(a, b), 8) = b3
        /\ BitOf(Xor(a, b), 16) = b4 /\ BitOf(Xor(a, b), 32) = b5
        /\ BitOf(Xor(a, b), 64) = b6 /\ BitOf(Xor(a, b), 128) = b7
    BY <1>5 DEF Sum8, BitOf, Bit, Byte
  <1> QED
    BY <1>4, <1>6 DEF x

\* Bytes with the same bits are one.
LEMMA SameBits ==
    ASSUME NEW a \in Byte, NEW b \in Byte,
           BitOf(a, 1) = BitOf(b, 1), BitOf(a, 2) = BitOf(b, 2),
           BitOf(a, 4) = BitOf(b, 4), BitOf(a, 8) = BitOf(b, 8),
           BitOf(a, 16) = BitOf(b, 16), BitOf(a, 32) = BitOf(b, 32),
           BitOf(a, 64) = BitOf(b, 64), BitOf(a, 128) = BitOf(b, 128)
    PROVE  a = b
  BY SumOfBits

LEMMA XorTyped == \A a, b \in Byte : Xor(a, b) \in Byte
  BY XorBits

LEMMA BitsOfZero ==
    /\ 0 \in Byte
    /\ BitOf(0, 1) = 0 /\ BitOf(0, 2) = 0 /\ BitOf(0, 4) = 0 /\ BitOf(0, 8) = 0
    /\ BitOf(0, 16) = 0 /\ BitOf(0, 32) = 0 /\ BitOf(0, 64) = 0 /\ BitOf(0, 128) = 0
  BY DEF BitOf, Byte

LEMMA FlipFacts ==
    \A p, q, r \in Bit : /\ Flip(p, 0) = p /\ Flip(0, p) = p /\ Flip(p, p) = 0
                         /\ Flip(Flip(p, q), r) = Flip(Flip(p, r), q)
  BY DEF Flip, Bit

LEMMA XorZero ==
    ASSUME NEW a \in Byte
    PROVE  Xor(a, 0) = a /\ Xor(0, a) = a /\ Xor(a, a) = 0
  <1>1. Xor(a, 0) \in Byte /\ Xor(0, a) \in Byte /\ Xor(a, a) \in Byte
    BY XorTyped, BitsOfZero
  <1>2. Xor(a, 0) = a
    BY <1>1, XorBits, SameBits, FlipFacts, BitsOfZero, BitTyped
  <1>3. Xor(0, a) = a
    BY <1>1, XorBits, SameBits, FlipFacts, BitsOfZero, BitTyped
  <1>4. Xor(a, a) = 0
    BY <1>1, XorBits, SameBits, FlipFacts, BitsOfZero, BitTyped
  <1> QED
    BY <1>2, <1>3, <1>4

\* The order in which bytes are added does not matter.
LEMMA XorSwaps ==
    ASSUME NEW a \in Byte, NEW b \in Byte, NEW x \in Byte
    PROVE  Xor(Xor(a, x), b) = Xor(Xor(a, b), x)
  <1>1. Xor(a, x) \in Byte /\ Xor(a, b) \in Byte
    BY XorTyped
  <1>2. Xor(Xor(a, x), b) \in Byte /\ Xor(Xor(a, b), x) \in Byte
    BY <1>1, XorTyped
  <1> QED
    BY <1>1, <1>2, XorBits, SameBits, FlipFacts, BitTyped

LEMMA XorCommutes ==
    ASSUME NEW a \in Byte, NEW b \in Byte
    PROVE  Xor(a, b) = Xor(b, a)
  <1>1. Xor(a, b) \in Byte /\ Xor(b, a) \in Byte
    BY XorTyped
  <1>2. \A p, q \in Bit : Flip(p, q) = Flip(q, p)
    BY DEF Flip, Bit
  <1> QED
    BY <1>1, <1>2, XorBits, SameBits, BitTyped

LEMMA XorLater ==
    ASSUME NEW a \in Byte, NEW b \in Byte, NEW x \in Byte
    PROVE  Xor(a, Xor(b, x)) = Xor(Xor(a, b), x)
  <1>1. Xor(b, x) \in Byte /\ Xor(a, b) = Xor(b, a)
    BY XorTyped, XorCommutes
  <1>2. Xor(a, Xor(b, x)) = Xor(Xor(b, x), a)
    BY <1>1, XorCommutes
  <1>3. Xor(Xor(b, x), a) = Xor(Xor(b, a), x)
    BY XorSwaps
  <1> QED
    BY <1>1, <1>2, <1>3

LEMMA OrZero ==
    ASSUME NEW a \in Byte
    PROVE  Or(a, 0) = a /\ Or(0, a) = a
  <1> DEFINE y(b, c) == IF b + c = 0 THEN 0 ELSE 1
  <1>1. \A p \in Bit : y(p, 0) = p /\ y(0, p) = p
    BY DEF Bit
  <1>2. Or(a, 0) = Sum8(BitOf(a, 1), BitOf(a, 2), BitOf(a, 4), BitOf(a, 8),
                        BitOf(a, 16), BitOf(a, 32), BitOf(a, 64), BitOf(a, 128))
    <2>1. Or(a, 0) = Sum8(y(BitOf(a, 1), BitOf(0, 1)), y(BitOf(a, 2), BitOf(0, 2)),
                          y(BitOf(a, 4), BitOf(0, 4)), y(BitOf(a, 8), BitOf(0, 8)),
                          y(BitOf(a, 16), BitOf(0, 16)), y(BitOf(a, 32), BitOf(0, 32)),
                          y(BitOf(a, 64), BitOf(0, 64)), y(BitOf(a, 128), BitOf(0, 128)))
      BY DEF Or, Weighted, Sum8
    <2> HIDE DEF y
    <2> QED
      BY <1>1, <2>1, BitsOfZero, BitTyped
  <1>3. Or(0, a) = Sum8(BitOf(a, 1), BitOf(a, 2), BitOf(a, 4), BitOf(a, 8),
                        BitOf(a, 16), BitOf(a, 32), BitOf(a, 64), BitOf(a, 128))
    <2>1. Or(0, a) = Sum8(y(BitOf(0, 1), BitOf(a, 1)), y(BitOf(0, 2), BitOf(a, 2)),
                          y(BitOf(0, 4), BitOf(a, 4)), y(BitOf(0, 8), BitOf(a, 8)),
                          y(BitOf(0, 16), BitOf(a, 16)), y(BitOf(0, 32), BitOf(a, 32)),
                          y(BitOf(0, 64), BitOf(a, 64)), y(BitOf(0, 128), BitOf(a, 128)))
      BY DEF Or, Weighted, Sum8
    <2> HIDE DEF y
    <2> QED
      BY <1>1, <2>1, BitsOfZero, BitTyped
  <1> QED
    BY <1>2, <1>3, SumOfBits

-----------------------------------------------------------------------------
(* The checksum *)

\* g[i] is the checksum of the first i bytes of s, from sum on.
Running(sum, s, g) ==
    g[0] = sum /\ \A i \in 1 .. Len(s) : g[i] = Xor(g[i - 1], s[i])

\* Whatever runs so ends with the checksum.
LEMMA ChecksumIs ==
    ASSUME NEW sum, NEW s, Len(s) \in Nat, NEW g, Running(sum, s, g)
    PROVE  Checksum(sum, s) = g[Len(s)]
  <1> DEFINE n == Len(s)
             Equation(f) == f = [i \in 0 .. n |->
                                   IF i = 0 THEN sum ELSE Xor(f[i - 1], s[i])]
             h == [i \in 0 .. n |-> g[i]]
  <1>1. Checksum(sum, s) = (CHOOSE f : Equation(f))[n]
    BY DEF Checksum
  <1> HIDE DEF n
  <1>n. n \in Nat
    BY DEF n
  <1>2. Equation(h)
    <2>1. ASSUME NEW i \in 0 .. n
          PROVE  h[i] = IF i = 0 THEN sum ELSE Xor(h[i - 1], s[i])
      <3>1. CASE i = 0
        BY <3>1 DEF Running
      <3>2. CASE i # 0
        <4>1. i \in 1 .. n /\ i - 1 \in 0 .. n
          BY <1>n, <3>2
        <4> QED
          BY <3>2, <4>1 DEF Running, n
      <3> QED
        BY <3>1, <3>2
    <2>2. h = [i \in 0 .. n |-> h[i]]
      OBVIOUS
    <2> HIDE DEF h
    <2> QED
      BY <2>1, <2>2
  <1>3. n \in 0 .. n
    BY <1>n
  <1> HIDE DEF h
  <1>4. ASSUME NEW f, Equation(f) PROVE f[n] = h[n]
    <2>1. \A i \in 0 .. n : /\ f[i] = IF i = 0 THEN sum ELSE Xor(f[i - 1], s[i])
                            /\ h[i] = IF i = 0 THEN sum ELSE Xor(h[i - 1], s[i])
      BY <1>2, <1>4
    <2>2. f[0] = h[0]
      BY <1>n, <2>1
    <2>3. ASSUME NEW i \in 1 .. n, f[i - 1] = h[i - 1] PROVE f[i] = h[i]
      <3>1. i \in 0 .. n /\ i # 0
        BY <1>n
      <3> QED
        BY <2>1, <2>3, <3>1
    <2>4. Agree(n, f, h)
      BY <1>n, <2>2, <2>3, RecursionUnique
    <2> QED
      BY <1>3, <2>4 DEF Agree
  <1> HIDE DEF Equation
  <1>5. Equation(CHOOSE f : Equation(f))
    BY <1>2
  <1> QED
    BY <1>1, <1>3, <1>4, <1>5 DEF h, n

LEMMA ChecksumRuns ==
    ASSUME NEW sum \in Byte, NEW s \in Seq(Byte)
    PROVE  \E g \in [0 .. Len(s) -> Byte] :
              Running(sum, s, g) /\ Checksum(sum, s) = g[Len(s)]
  <1> DEFINE n == Len(s)
             step == [i \in 1 .. n |-> [a \in Byte |-> Xor(a, s[i])]]
  <1>n. n \in Nat
    BY LenProperties
  <1>1. \A i \in 1 .. n : s[i] \in Byte
    BY ElementOfSeq
  <1> HIDE DEF n
  <1>2. \A i \in 1 .. n : [a \in Byte |-> Xor(a, s[i])] \in [Byte -> Byte]
    BY <1>1, XorTyped
  <1>3. step \in [1 .. n -> [Byte -> Byte]]
    BY <1>2
  <1>4. \A i \in 1 .. n, a \in Byte : step[i][a] = Xor(a, s[i])
    OBVIOUS
  <1> HIDE DEF step
  <1>5. HasRecursive(Byte, n, sum, step)
    BY <1>n, <1>3, RecursionExists
  <1>6. PICK g \in [0 .. n -> Byte] :
           g[0] = sum /\ \A i \in 1 .. n : g[i] = step[i][g[i - 1]]
    BY <1>5 DEF HasRecursive, Recursive
  <1>7. \A i \in 1 .. n : i - 1 \in 0 .. n /\ g[i - 1] \in Byte
    BY <1>n
  <1>8. Running(sum, s, g)
    BY <1>4, <1>6, <1>7 DEF Running, n
  <1>9. Checksum(sum, s) = g[n]
    BY <1>n, <1>8, ChecksumIs DEF n
  <1> QED
    BY <1>8, <1>9 DEF n

LEMMA ChecksumTyped ==
    ASSUME NEW sum \in Byte, NEW s \in Seq(Byte)
    PROVE  Checksum(sum, s) \in Byte
  <1>1. PICK g \in [0 .. Len(s) -> Byte] : Checksum(sum, s) = g[Len(s)]
    BY ChecksumRuns
  <1>2. Len(s) \in 0 .. Len(s)
    BY LenProperties
  <1> QED
    BY <1>1, <1>2

\* Zeros at the end do not change it.
LEMMA ChecksumOfZeros ==
    ASSUME NEW sum \in Byte, NEW s \in Seq(Byte), NEW t \in Seq(Byte),
           Len(s) <= Len(t), \A i \in 1 .. Len(s) : t[i] = s[i],
           \A i \in Len(s) + 1 .. Len(t) : t[i] = 0
    PROVE  Checksum(sum, t) = Checksum(sum, s)
  <1> DEFINE n == Len(s)
             m == Len(t)
  <1>n. n \in Nat /\ m \in Nat /\ n <= m
    BY LenProperties
  <1>1. PICK g \in [0 .. n -> Byte] :
           Running(sum, s, g) /\ Checksum(sum, s) = g[n]
    BY ChecksumRuns
  <1> DEFINE h == [i \in 0 .. m |-> IF i <= n THEN g[i] ELSE g[n]]
  <1>2. Running(sum, t, h)
    <2>1. h[0] = sum
      BY <1>n, <1>1 DEF Running
    <2>2. ASSUME NEW i \in 1 .. m PROVE h[i] = Xor(h[i - 1], t[i])
      <3>1. CASE i <= n
        <4>1. i \in 1 .. n /\ i - 1 \in 0 .. m /\ i - 1 <= n /\ i \in 0 .. m
          BY <1>n, <3>1
        <4>2. g[i] = Xor(g[i - 1], s[i]) /\ t[i] = s[i]
          BY <1>1, <4>1 DEF Running
        <4> HIDE DEF n, m
        <4> QED
          BY <4>1, <4>2, <3>1
      <3>2. CASE ~(i <= n)
        <4>1. i \in n + 1 .. m /\ i - 1 \in n .. m /\ i - 1 \in 0 .. m /\ i \in 0 .. m
          BY <1>n, <3>2
        <4>2. t[i] = 0
          BY <4>1
        <4> HIDE DEF n, m
        <4>3. h[i] = g[n] /\ h[i - 1] = g[n] /\ g[n] \in Byte
          BY <1>n, <3>2, <4>1
        <4> HIDE DEF h
        <4> QED
          BY <4>2, <4>3, XorZero
      <3> QED
        BY <3>1, <3>2
    <2> HIDE DEF h
    <2> QED
      BY <2>1, <2>2 DEF Running
  <1>3. Checksum(sum, t) = h[m]
    <2> HIDE DEF h
    <2> QED
      BY <1>n, <1>2, ChecksumIs
  <1>4. h[m] = g[n]
    <2> HIDE DEF n, m
    <2> QED
      BY <1>n
  <1> QED
    BY <1>1, <1>3, <1>4

\* What was added before is added to the result.
LEMMA ChecksumShifts ==
    ASSUME NEW sum \in Byte, NEW x \in Byte, NEW s \in Seq(Byte)
    PROVE  Checksum(Xor(sum, x), s) = Xor(Checksum(sum, s), x)
  <1> DEFINE n == Len(s)
  <1>n. n \in Nat /\ \A i \in 1 .. n : s[i] \in Byte
    BY LenProperties, ElementOfSeq
  <1>1. PICK g \in [0 .. n -> Byte] :
           Running(sum, s, g) /\ Checksum(sum, s) = g[n]
    BY ChecksumRuns
  <1> DEFINE h == [i \in 0 .. n |-> Xor(g[i], x)]
  <1>2. h[0] = Xor(sum, x)
    BY <1>n, <1>1 DEF Running
  <1>3. ASSUME NEW i \in 1 .. n PROVE h[i] = Xor(h[i - 1], s[i])
    <2>1. i \in 0 .. n /\ i - 1 \in 0 .. n
      BY <1>n
    <2>2. g[i] = Xor(g[i - 1], s[i])
      BY <1>1 DEF Running
    <2>3. g[i - 1] \in Byte /\ s[i] \in Byte
      BY <1>n, <2>1
    <2>4. h[i] = Xor(g[i], x) /\ h[i - 1] = Xor(g[i - 1], x)
      BY <2>1
    <2> HIDE DEF h
    <2> QED
      BY <2>2, <2>3, <2>4, XorSwaps
  <1>4. n \in 0 .. n /\ h[n] = Xor(g[n], x)
    BY <1>n
  <1> HIDE DEF h
  <1>5. Running(Xor(sum, x), s, h)
    BY <1>2, <1>3 DEF Running
  <1> QED
    BY <1>1, <1>4, <1>5, <1>n, ChecksumIs

\* One byte that changes by x changes the checksum by x.
LEMMA ChecksumChanges ==
    ASSUME NEW sum \in Byte, NEW s \in Seq(Byte), NEW t \in Seq(Byte),
           NEW x \in Byte, NEW k \in 1 .. Len(s), Len(t) = Len(s),
           t[k] = Xor(s[k], x), \A i \in 1 .. Len(s) : i # k => t[i] = s[i]
    PROVE  Checksum(sum, t) = Xor(Checksum(sum, s), x)
  <1> DEFINE n == Len(s)
  <1>n. n \in Nat /\ \A i \in 1 .. n : s[i] \in Byte
    BY LenProperties, ElementOfSeq
  <1>1. PICK g \in [0 .. n -> Byte] :
           Running(sum, s, g) /\ Checksum(sum, s) = g[n]
    BY ChecksumRuns
  <1> DEFINE h == [i \in 0 .. n |-> IF i < k THEN g[i] ELSE Xor(g[i], x)]
  <1>2. h[0] = sum
    BY <1>n, <1>1 DEF Running
  <1>3. ASSUME NEW i \in 1 .. n PROVE h[i] = Xor(h[i - 1], t[i])
    <2>1. i \in 0 .. n /\ i - 1 \in 0 .. n
      BY <1>n
    <2>2. g[i] = Xor(g[i - 1], s[i])
      BY <1>1 DEF Running
    <2>3. g[i - 1] \in Byte /\ s[i] \in Byte
      BY <1>n, <2>1
    <2>4. h[i] = IF i < k THEN g[i] ELSE Xor(g[i], x)
      BY <2>1
    <2>5. h[i - 1] = IF i - 1 < k THEN g[i - 1] ELSE Xor(g[i - 1], x)
      BY <2>1
    <2> HIDE DEF h
    <2>6. CASE i < k
      BY <2>2, <2>4, <2>5, <2>6
    <2>7. CASE i = k
      <3>1. h[i] = Xor(Xor(g[i - 1], s[i]), x)
        BY <2>2, <2>4, <2>7
      <3>2. h[i - 1] = g[i - 1] /\ t[i] = Xor(s[i], x)
        BY <2>5, <2>7
      <3> QED
        BY <2>3, <3>1, <3>2, XorLater
    <2>8. CASE i > k
      <3>1. h[i] = Xor(Xor(g[i - 1], s[i]), x) /\ h[i - 1] = Xor(g[i - 1], x)
        BY <2>2, <2>4, <2>5, <2>8
      <3>2. t[i] = s[i]
        BY <2>8
      <3> QED
        BY <2>3, <3>1, <3>2, XorSwaps
    <2> QED
      BY <2>6, <2>7, <2>8
  <1>4. n \in 0 .. n /\ h[n] = Xor(g[n], x)
    BY <1>n
  <1> HIDE DEF h
  <1>5. Running(sum, t, h)
    BY <1>2, <1>3 DEF Running
  <1> QED
    BY <1>1, <1>4, <1>5, <1>n, ChecksumIs

\* Of zeros and the checksum it is zero.
LEMMA ChecksumOfTail ==
    ASSUME NEW sum \in Byte, NEW t \in Seq(Byte), NEW n \in Nat, Len(t) = n + 1,
           \A i \in 1 .. n : t[i] = 0, t[n + 1] = sum
    PROVE  Checksum(sum, t) = 0
  <1> DEFINE h == [i \in 0 .. n + 1 |-> IF i <= n THEN sum ELSE 0]
  <1>1. h[0] = sum /\ h[n + 1] = 0
    OBVIOUS
  <1>2. ASSUME NEW i \in 1 .. n + 1 PROVE h[i] = Xor(h[i - 1], t[i])
    <2>1. i \in 0 .. n + 1 /\ i - 1 \in 0 .. n + 1 /\ i - 1 <= n
      OBVIOUS
    <2>2. h[i] = (IF i <= n THEN sum ELSE 0) /\ h[i - 1] = sum
      BY <2>1
    <2> HIDE DEF h
    <2>3. CASE i <= n
      <3>1. t[i] = 0
        BY <2>3
      <3> QED
        BY <2>2, <2>3, <3>1, XorZero
    <2>4. CASE i = n + 1
      <3>1. t[i] = sum /\ h[i] = 0
        BY <2>2, <2>4
      <3> QED
        BY <2>2, <3>1, XorZero
    <2> QED
      BY <2>3, <2>4
  <1> HIDE DEF h
  <1>3. Running(sum, t, h)
    BY <1>1, <1>2 DEF Running
  <1> QED
    BY <1>1, <1>3, ChecksumIs

-----------------------------------------------------------------------------
(* stdImageInfo *)

Start == [at |-> 8, segs |-> <<>>, sum |-> CKSUM_MAGIC, ok |-> TRUE]

\* What stdImageInfo has read when it has read one more segment.
After(f, s) ==
    LET len  == IF s.at + 8 <= Len(f) THEN Number(f, s.at + 4) ELSE 0
        data == ReadAt(f, s.at + 8, len)
    IN  IF s.ok /\ s.at + 8 <= Len(f) /\ Len(data) = len
        THEN [at   |-> s.at + 8 + len,
              segs |-> Append(s.segs, [addr |-> Number(f, s.at), data |-> data]),
              sum  |-> Checksum(s.sum, data), ok |-> TRUE]
        ELSE [s EXCEPT !.ok = FALSE]

Scanning(f, g) == g[0] = Start /\ \A i \in 1 .. f[2] : g[i] = After(f, g[i - 1])

LEMMA ScanIs ==
    ASSUME NEW f, f[2] \in Nat, NEW g, Scanning(f, g)
    PROVE  Scan(f) = g[f[2]]
  <1> DEFINE n == f[2]
             Equation(l) == l = [i \in 0 .. n |->
                                   IF i = 0 THEN Start ELSE After(f, l[i - 1])]
             h == [i \in 0 .. n |-> g[i]]
  <1>1. Scan(f) = (CHOOSE l : Equation(l))[n]
    BY DEF Scan, Start, After
  <1> HIDE DEF n
  <1>n. n \in Nat
    BY DEF n
  <1>2. Equation(h)
    <2>1. ASSUME NEW i \in 0 .. n
          PROVE  h[i] = IF i = 0 THEN Start ELSE After(f, h[i - 1])
      <3>1. CASE i = 0
        BY <3>1 DEF Scanning
      <3>2. CASE i # 0
        <4>1. i \in 1 .. n /\ i - 1 \in 0 .. n
          BY <1>n, <3>2
        <4> QED
          BY <3>2, <4>1 DEF Scanning, n
      <3> QED
        BY <3>1, <3>2
    <2>2. h = [i \in 0 .. n |-> h[i]]
      OBVIOUS
    <2> HIDE DEF h
    <2> QED
      BY <2>1, <2>2
  <1>3. n \in 0 .. n
    BY <1>n
  <1> HIDE DEF h
  <1>4. ASSUME NEW l, Equation(l) PROVE l[n] = h[n]
    <2>1. \A i \in 0 .. n : /\ l[i] = IF i = 0 THEN Start ELSE After(f, l[i - 1])
                            /\ h[i] = IF i = 0 THEN Start ELSE After(f, h[i - 1])
      BY <1>2, <1>4
    <2>2. l[0] = h[0]
      BY <1>n, <2>1
    <2>3. ASSUME NEW i \in 1 .. n, l[i - 1] = h[i - 1] PROVE l[i] = h[i]
      <3>1. i \in 0 .. n /\ i # 0
        BY <1>n
      <3> QED
        BY <2>1, <2>3, <3>1
    <2>4. Agree(n, l, h)
      BY <1>n, <2>2, <2>3, RecursionUnique
    <2> QED
      BY <1>3, <2>4 DEF Agree
  <1> HIDE DEF Equation
  <1>5. Equation(CHOOSE l : Equation(l))
    BY <1>2
  <1> QED
    BY <1>1, <1>3, <1>4, <1>5 DEF h, n

Segments == [addr : Word, data : Seq(Byte)]

\* The file f has the segments E[1] to E[k], which end at e[1] to e[k].
Laid(f, k, e, E) ==
    /\ E \in [1 .. k -> Segments]
    /\ e \in [0 .. k -> Nat] /\ e[0] = 8 /\ \A i \in 0 .. k : e[i] >= 8
    /\ \A i \in 1 .. k : /\ e[i] = e[i - 1] + 8 + Len(E[i].data)
                         /\ Number(f, e[i - 1]) = E[i].addr
                         /\ Number(f, e[i - 1] + 4) = Len(E[i].data)
                         /\ e[i] <= Len(f)
                         /\ \A j \in 1 .. Len(E[i].data) :
                               f[e[i - 1] + 8 + j] = E[i].data[j]

\* c[i] is the checksum after i segments.
Summed(k, E, c) ==
    /\ c \in [0 .. k -> Byte] /\ c[0] = CKSUM_MAGIC
    /\ \A i \in 1 .. k : c[i] = Checksum(c[i - 1], E[i].data)

\* What stdImageInfo has read after i of them.
Found(e, E, c, i) ==
    [at |-> e[i], segs |-> FirstOf(E, i), sum |-> c[i], ok |-> TRUE]

\* A part of a file.
LEMMA PartRead ==
    ASSUME NEW f \in Seq(Byte), NEW p \in Nat, NEW d \in Seq(Byte),
           p + Len(d) <= Len(f), \A j \in 1 .. Len(d) : f[p + j] = d[j]
    PROVE  ReadAt(f, p, Len(d)) = d
  <1> DEFINE n == Len(d)
             r == SubSeq(f, p + 1, p + n)
  <1>n. n \in Nat /\ Len(f) \in Nat
    BY LenProperties
  <1>1. ReadAt(f, p, n) = r
    <2>1. p + n <= Len(f)
      OBVIOUS
    <2> HIDE DEF n
    <2>2. (IF n < Len(f) - p THEN p + n ELSE Len(f)) = p + n
      BY <1>n, <2>1
    <2> QED
      BY <2>2 DEF ReadAt
  <1>2. p \in 0 .. Len(f) /\ p + n \in p .. Len(f) /\ p + n - p = n
    BY <1>n
  <1>3. r \in Seq(Byte) /\ Len(r) = n /\ \A i \in 1 .. n : r[i] = f[p + i]
    BY <1>2, Slice
  <1> HIDE DEF r
  <1>4. \A i \in 1 .. n : r[i] = d[i]
    BY <1>3
  <1> QED
    BY <1>1, <1>3, <1>4, SeqEqual

LEMMA Stuck ==
    ASSUME NEW a, NEW b, NEW c, NEW o
    PROVE  [[at |-> a, segs |-> b, sum |-> c, ok |-> o] EXCEPT !.ok = FALSE]
               = [at |-> a, segs |-> b, sum |-> c, ok |-> FALSE]
  <1> DEFINE r == [at |-> a, segs |-> b, sum |-> c, ok |-> o]
             l == [r EXCEPT !.ok = FALSE]
             R == [at : {a}, segs : {b}, sum : {c}, ok : {o, FALSE}]
  <1>1. r \in R /\ r.at = a /\ r.segs = b /\ r.sum = c
    OBVIOUS
  <1> HIDE DEF r
  <1>2. l \in R /\ l.at = a /\ l.segs = b /\ l.sum = c /\ l.ok = FALSE
    BY <1>1
  <1> HIDE DEF l
  <1>3. l = [at |-> a, segs |-> b, sum |-> c, ok |-> FALSE]
    BY <1>2
  <1> QED
    BY <1>3 DEF l, r

LEMMA OneMoreFound ==
    ASSUME NEW f \in Seq(Byte), NEW k \in Nat, NEW e, NEW E, NEW c,
           Laid(f, k, e, E), Summed(k, E, c), NEW i \in 1 .. k
    PROVE  After(f, Found(e, E, c, i - 1)) = Found(e, E, c, i)
  <1> DEFINE s == Found(e, E, c, i - 1)
             d == E[i].data
             a == e[i - 1]
  <1>1. /\ E[i] = [addr |-> E[i].addr, data |-> d] /\ d \in Seq(Byte)
        /\ i - 1 \in 0 .. k /\ a \in Nat /\ Len(d) \in Nat /\ Len(f) \in Nat
    <2>1. i \in 1 .. k /\ k \in Nat /\ i - 1 \in 0 .. k
      OBVIOUS
    <2>2. E[i] \in Segments /\ a \in Nat
      BY ONLY <2>1, Laid(f, k, e, E) DEF Laid
    <2>3. E[i] = [addr |-> E[i].addr, data |-> d] /\ d \in Seq(Byte)
      BY ONLY <2>2 DEF Segments
    <2>4. Len(d) \in Nat
      BY ONLY <2>3, LenProperties
    <2>5. Len(f) \in Nat
      BY LenProperties
    <2> QED
      BY ONLY <2>1, <2>2, <2>3, <2>4, <2>5
  <1>2. /\ e[i] = a + 8 + Len(d) /\ Number(f, a) = E[i].addr
        /\ Number(f, a + 4) = Len(d) /\ e[i] <= Len(f)
        /\ \A j \in 1 .. Len(d) : f[a + 8 + j] = d[j]
    BY DEF Laid
  <1>3. c[i] = Checksum(c[i - 1], d)
    BY DEF Summed
  <1>4. Append(FirstOf(E, i - 1), E[i]) = FirstOf(E, i)
    BY OneMoreOf DEF Laid
  <1>5. s.at = a /\ s.segs = FirstOf(E, i - 1) /\ s.sum = c[i - 1] /\ s.ok
    BY DEF Found
  <1> HIDE DEF a, d
  <1>6. a + 8 <= Len(f) /\ a + 8 \in Nat /\ (a + 8) + Len(d) <= Len(f)
    BY <1>1, <1>2
  <1>7. ReadAt(f, a + 8, Len(d)) = d
    BY <1>1, <1>2, <1>6, PartRead
  <1> HIDE DEF s
  <1>8. After(f, s) = [at |-> a + 8 + Len(d),
                       segs |-> Append(FirstOf(E, i - 1), [addr |-> E[i].addr,
                                                           data |-> d]),
                       sum |-> Checksum(c[i - 1], d), ok |-> TRUE]
    BY <1>2, <1>5, <1>6, <1>7 DEF After
  <1> QED
    BY <1>1, <1>2, <1>3, <1>4, <1>8 DEF Found, s

\* After all segments.
LEMMA AllFound ==
    ASSUME NEW f \in Seq(Byte), NEW k \in Nat, NEW e, NEW E, NEW c,
           Laid(f, k, e, E), Summed(k, E, c), f[2] = k
    PROVE  Scan(f) = Found(e, E, c, k)
  <1> DEFINE g == [i \in 0 .. k |-> Found(e, E, c, i)]
  <1>1. FirstOf(E, 0) = <<>>
    BY DEF FirstOf
  <1>2. g[0] = Start
    <2>1. Found(e, E, c, 0) = Start
      BY <1>1 DEF Found, Start, Laid, Summed
    <2> QED
      BY <2>1
  <1>3. ASSUME NEW i \in 1 .. k PROVE g[i] = After(f, g[i - 1])
    <2>1. i \in 0 .. k /\ i - 1 \in 0 .. k
      OBVIOUS
    <2> QED
      BY <2>1, OneMoreFound
  <1>4. g[k] = Found(e, E, c, k)
    OBVIOUS
  <1> HIDE DEF g
  <1>5. Scanning(f, g)
    BY <1>2, <1>3 DEF Scanning
  <1> QED
    BY <1>4, <1>5, ScanIs

\* The segment after the first k of them cannot be read.
LEMMA NotFound ==
    ASSUME NEW f \in Seq(Byte), NEW k \in Nat, NEW e, NEW E, NEW c,
           Laid(f, k, e, E), Summed(k, E, c), f[2] \in Nat, k < f[2],
           \/ e[k] + 8 > Len(f)
           \/ /\ Number(f, e[k] + 4) \in Nat
              /\ e[k] + 8 + Number(f, e[k] + 4) > Len(f)
    PROVE  ~Scan(f).ok
  <1> DEFINE n == f[2]
             stuck == [at |-> e[k], segs |-> FirstOf(E, k), sum |-> c[k], ok |-> FALSE]
             g == [i \in 0 .. n |-> IF i <= k THEN Found(e, E, c, i) ELSE stuck]
  <1>n. n \in Nat /\ k < n /\ Len(f) \in Nat
    BY LenProperties
  <1>1. FirstOf(E, 0) = <<>>
    BY DEF FirstOf
  <1>2. g[0] = Start
    <2>1. Found(e, E, c, 0) = Start
      BY <1>1 DEF Found, Start, Laid, Summed
    <2> QED
      BY <1>n, <2>1
  <1>3. After(f, Found(e, E, c, k)) = stuck
    <2> DEFINE s == Found(e, E, c, k)
               len == IF s.at + 8 <= Len(f) THEN Number(f, s.at + 4) ELSE 0
               d == ReadAt(f, s.at + 8, len)
    <2>1. s.at = e[k] /\ e[k] \in Nat
      BY DEF Found, Laid
    <2>2. ~(s.at + 8 <= Len(f) /\ Len(d) = len)
      <3> SUFFICES ASSUME s.at + 8 <= Len(f) PROVE Len(d) # len
        OBVIOUS
      <3>1. len \in Nat /\ e[k] + 8 + len > Len(f) /\ e[k] + 8 <= Len(f)
        <4>1. len = Number(f, e[k] + 4) /\ e[k] + 8 <= Len(f)
          BY <2>1
        <4> HIDE DEF len
        <4> QED
          BY <1>n, <2>1, <4>1
      <3>2. d = SubSeq(f, e[k] + 8 + 1, Len(f))
        <4>1. d = ReadAt(f, e[k] + 8, len)
          BY <2>1
        <4> HIDE DEF d, len, s
        <4>2. ~(len < Len(f) - (e[k] + 8))
          BY <1>n, <2>1, <3>1
        <4> QED
          BY <4>1, <4>2 DEF ReadAt
      <3>3. Len(d) = Len(f) - (e[k] + 8)
        <4>1. e[k] + 8 \in 0 .. Len(f) /\ Len(f) \in e[k] + 8 .. Len(f)
          BY <1>n, <2>1, <3>1
        <4> HIDE DEF d, len, s
        <4> QED
          BY <3>2, <4>1, Slice
      <3> HIDE DEF d, len, s
      <3> QED
        BY <1>n, <2>1, <3>1, <3>3
    <2>3. After(f, s) = [s EXCEPT !.ok = FALSE]
      BY <2>2 DEF After
    <2>4. [s EXCEPT !.ok = FALSE] = stuck
      BY Stuck DEF Found
    <2> QED
      BY <2>3, <2>4
  <1>4. After(f, stuck) = stuck
    <2>1. [stuck EXCEPT !.ok = FALSE] = stuck
      BY Stuck
    <2>2. ~stuck.ok
      OBVIOUS
    <2> HIDE DEF stuck
    <2> QED
      BY <2>1, <2>2 DEF After
  <1>5. ASSUME NEW i \in 1 .. n PROVE g[i] = After(f, g[i - 1])
    <2>1. i \in 0 .. n /\ i - 1 \in 0 .. n
      OBVIOUS
    <2> HIDE DEF n, stuck
    <2>2. CASE i <= k
      <3>1. i \in 1 .. k /\ i - 1 <= k
        BY <1>n, <2>1, <2>2
      <3>2. g[i] = Found(e, E, c, i) /\ g[i - 1] = Found(e, E, c, i - 1)
        BY <2>1, <2>2, <3>1
      <3> HIDE DEF g
      <3> QED
        BY <3>1, <3>2, OneMoreFound
    <2>3. CASE i = k + 1
      <3>1. i - 1 = k /\ ~(i <= k) /\ i - 1 <= k
        BY <1>n, <2>3
      <3>2. g[i] = stuck /\ g[i - 1] = Found(e, E, c, k)
        BY <2>1, <3>1
      <3> HIDE DEF g
      <3> QED
        BY <1>3, <3>2
    <2>4. CASE i > k + 1
      <3>1. ~(i <= k) /\ ~(i - 1 <= k)
        BY <1>n, <2>4
      <3> QED
        BY <1>4, <2>1, <3>1
    <2> QED
      BY <1>n, <2>1, <2>2, <2>3, <2>4
  <1>6. g[n] = stuck
    <2> HIDE DEF n, stuck
    <2> QED
      BY <1>n
  <1>7. ~stuck.ok
    OBVIOUS
  <1> HIDE DEF g
  <1>8. Scanning(f, g)
    BY <1>2, <1>5 DEF Scanning
  <1>9. Scan(f) = g[f[2]]
    BY <1>n, <1>8, ScanIs
  <1> HIDE DEF stuck
  <1> QED
    BY <1>6, <1>7, <1>9

Headed(f) == f \in Seq(Byte) /\ Len(f) >= 8 /\ f[1] = MAGIC

LEMMA TailSizeFacts ==
    \A n \in Nat : TailSize(n) \in 1 .. 16 /\ (n + TailSize(n)) % 16 = 0
  BY DEF TailSize

\* f is a file with the header, k segments and a tail.
Whole(f, k, e, E, c) ==
    /\ Headed(f) /\ f[2] = k /\ Laid(f, k, e, E) /\ Summed(k, E, c)
    /\ Len(f) = e[k] + TailSize(e[k])

\* What comes after position a.
TailOf(f, a) == SubSeq(f, a + 1, Len(f))

\* An image is read back.
LEMMA InfoOfImage ==
    ASSUME NEW f, NEW k \in Nat, NEW e, NEW E, NEW c, Whole(f, k, e, E, c)
    PROVE  /\ TailOf(f, e[k]) \in Seq(Byte) /\ Len(TailOf(f, e[k])) = TailSize(e[k])
           /\ \A i \in 1 .. TailSize(e[k]) : TailOf(f, e[k])[i] = f[e[k] + i]
           /\ Info(f).stat = "read" /\ Info(f).segs = FirstOf(E, k)
           /\ Info(f).end = Len(f) /\ (Info(f).good <=> Checksum(c[k], TailOf(f, e[k])) = 0)
  <1>a. /\ Headed(f) /\ Laid(f, k, e, E) /\ Summed(k, E, c) /\ f[2] = k
        /\ Len(f) = e[k] + TailSize(e[k])
    BY DEF Whole
  <1> DEFINE s == Scan(f)
             a == e[k]
             tail == TailOf(f, a)
  <1>1. s = Found(e, E, c, k)
    BY <1>a, AllFound DEF Headed
  <1>2. s.at = a /\ s.segs = FirstOf(E, k) /\ s.sum = c[k] /\ s.ok
    BY <1>1 DEF Found
  <1>3. a \in Nat /\ Len(f) \in Nat /\ TailSize(a) \in 1 .. 16
    BY <1>a, LenProperties, TailSizeFacts DEF Laid, Headed
  <1>4. Len(f) = a + TailSize(a)
    BY <1>a
  <1> HIDE DEF s, a, tail
  <1>5. ReadAt(f, a, TailSize(a)) = SubSeq(f, a + 1, Len(f))
    <2>1. (IF TailSize(a) < Len(f) - a THEN a + TailSize(a) ELSE Len(f)) = Len(f)
      BY <1>3, <1>4
    <2> QED
      BY <2>1 DEF ReadAt
  <1>6. a \in 0 .. Len(f) /\ Len(f) \in a .. Len(f) /\ Len(f) - a = TailSize(a)
    <2>1. \A m, n \in Nat, t \in 1 .. 16 :
             m = n + t => n \in 0 .. m /\ m \in n .. m /\ m - n = t
      OBVIOUS
    <2> QED
      BY <1>3, <1>4, <2>1
  <1>7. /\ tail \in Seq(Byte) /\ Len(tail) = TailSize(a)
        /\ \A i \in 1 .. TailSize(a) : tail[i] = f[a + i]
    <2>1. f \in Seq(Byte) /\ tail = SubSeq(f, a + 1, Len(f))
      BY <1>a DEF Headed, tail, TailOf
    <2> QED
      BY ONLY <1>6, <2>1, Slice
  <1>8. ReadAt(f, s.at, TailSize(s.at)) = tail
    BY <1>2, <1>5 DEF tail, TailOf
  <1>9. a + Len(tail) = Len(f)
    BY <1>3, <1>4, <1>7
  <1>10. Info(f) = [stat |-> "read", segs |-> FirstOf(E, k), end |-> Len(f),
                    good |-> Correct(c[k], tail)]
    <2>1. ~(Len(f) < 8 \/ f[1] # MAGIC)
      BY <1>a, <1>3 DEF Headed
    <2>2. TailRead(tail, s.at)
      BY <1>2, <1>7 DEF TailRead
    <2> QED
      BY <1>2, <1>8, <1>9, <2>1, <2>2 DEF Info, s
  <1>11. /\ Info(f).stat = "read" /\ Info(f).segs = FirstOf(E, k)
         /\ Info(f).end = Len(f) /\ (Info(f).good <=> Checksum(c[k], tail) = 0)
    <2>1. /\ Info(f).stat = "read" /\ Info(f).segs = FirstOf(E, k)
          /\ Info(f).end = Len(f)
      BY <1>10
    <2>2. Info(f).good = Correct(c[k], tail)
      BY <1>10
    <2>3. Correct(c[k], tail) <=> Checksum(c[k], tail) = 0
      BY DEF Correct
    <2> QED
      BY <2>1, <2>2, <2>3
  <1> QED
    BY <1>7, <1>11 DEF a, tail

\* So is one that lacks a part of its tail noticed.
LEMMA InfoOfShortTail ==
    ASSUME NEW f, Headed(f), NEW k \in Nat, NEW e, NEW E, NEW c,
           Laid(f, k, e, E), Summed(k, E, c), f[2] = k,
           e[k] <= Len(f), Len(f) < e[k] + TailSize(e[k])
    PROVE  Info(f).stat = "error"
  <1> DEFINE s == Scan(f)
             a == e[k]
             tail == ReadAt(f, a, TailSize(a))
  <1>1. s.at = a
    BY AllFound DEF Headed, Found
  <1>2. a \in Nat /\ Len(f) \in Nat /\ TailSize(a) \in 1 .. 16
    BY LenProperties, TailSizeFacts DEF Laid, Headed
  <1>3. a <= Len(f) /\ Len(f) < a + TailSize(a)
    OBVIOUS
  <1> HIDE DEF s, a
  <1>4. tail = SubSeq(f, a + 1, Len(f))
    <2>1. (IF TailSize(a) < Len(f) - a THEN a + TailSize(a) ELSE Len(f)) = Len(f)
      BY <1>2, <1>3
    <2> QED
      BY <2>1 DEF ReadAt
  <1>5. a \in 0 .. Len(f) /\ Len(f) \in a .. Len(f)
    BY <1>2, <1>3
  <1>6. Len(tail) = Len(f) - a
    <2> HIDE DEF tail
    <2> QED
      BY <1>4, <1>5, Slice DEF Headed
  <1> HIDE DEF tail
  <1>7. Len(tail) # TailSize(a)
    BY <1>2, <1>3, <1>6
  <1>8. ~TailRead(ReadAt(f, s.at, TailSize(s.at)), s.at)
    BY <1>1, <1>7 DEF TailRead, tail
  <1> QED
    BY <1>8 DEF Info, s

LEMMA InfoOfStump ==
    ASSUME NEW f, Len(f) < 8 \/ ~Scan(f).ok
    PROVE  Info(f).stat = "error"
  BY DEF Info

-----------------------------------------------------------------------------
(* Sections and what is written of them *)

Section == [name : STRING, addr : Word, data : Seq(Byte)]

LEMMA SectionTyped ==
    ASSUME NEW i \in 1 .. Len(Elf)
    PROVE  Elf[i] \in Section /\ Len(Elf[i].data) \in 0 .. Limit - 4
  <1>1. Elf \in Seq(Section) /\ \A j \in DOMAIN Elf : Len(Elf[j].data) \in 0 .. Limit - 4
    BY FormatAssumption DEF Section
  <1>2. DOMAIN Elf = 1 .. Len(Elf)
    BY <1>1, LenProperties
  <1> QED
    BY <1>1, <1>2, ElementOfSeq

\* A section that is found is in the ELF file.
LEMMA SectionFound ==
    ASSUME NEW name
    PROVE  /\ SectionNum(name) \in 0 .. Len(Elf)
           /\ SectionNum(name) # 0 => SectionNum(name) \in 1 .. Len(Elf)
  <1> DEFINE I == {i \in 1 .. Len(Elf) : Elf[i].name = name}
  <1>1. Elf \in Seq(Section)
    BY FormatAssumption DEF Section
  <1>2. Len(Elf) \in Nat
    BY <1>1, LenProperties
  <1>3. SectionNum(name) = IF I # {} THEN Min(I) ELSE 0
    BY DEF SectionNum, SelectInSeq
  <1>4. ASSUME I # {} PROVE Min(I) \in I
    <2>1. I \in SUBSET Nat
      OBVIOUS
    <2> HIDE DEF I
    <2>2. PICK n \in I : \A m \in I : n <= m
      BY <1>4, <2>1, LeastNumber
    <2> QED
      BY <2>2 DEF Min
  <1> QED
    BY <1>2, <1>3, <1>4

LEMMA RoundUpFacts ==
    ASSUME NEW n \in Nat
    PROVE  /\ RoundUp(n) \in Nat /\ n <= RoundUp(n) /\ RoundUp(n) <= n + 3
           /\ RoundUp(n) - n \in Nat
  BY DEF RoundUp

LEMMA LimitTyped == Limit \in Nat
  BY SMT DEF Limit

LEMMA RoundUpFits ==
    ASSUME NEW n \in 0 .. Limit - 4
    PROVE  n \in Nat /\ RoundUp(n) \in Word
  <1>1. n \in Nat /\ n + 3 < Limit
    BY LimitTyped
  <1>2. RoundUp(n) \in Nat /\ RoundUp(n) <= n + 3
    BY <1>1, RoundUpFacts
  <1> QED
    BY <1>1, <1>2, LimitTyped DEF Word

LEMMA ZerosTyped ==
    ASSUME NEW n \in Nat
    PROVE  /\ Zeros(n) \in Seq(Byte) /\ Len(Zeros(n)) = n
           /\ \A i \in 1 .. n : Zeros(n)[i] = 0
  <1>1. Zeros(n) \in [1 .. n -> Byte] /\ \A i \in 1 .. n : Zeros(n)[i] = 0
    BY DEF Zeros, Byte
  <1> QED
    BY <1>1, FunctionIsSeq

\* The data of a section, and zeros.
LEMMA PaddedFacts ==
    ASSUME NEW s \in Section
    PROVE  /\ Padded(s) \in Seq(Byte) /\ Len(Padded(s)) = RoundUp(Len(s.data))
           /\ Len(s.data) \in Nat /\ Len(s.data) <= RoundUp(Len(s.data))
           /\ \A i \in 1 .. Len(s.data) : Padded(s)[i] = s.data[i]
           /\ \A i \in Len(s.data) + 1 .. RoundUp(Len(s.data)) : Padded(s)[i] = 0
  <1> DEFINE d == s.data
             n == Len(d)
             l == RoundUp(n)
             m == l - n
             z == Zeros(m)
  <1>1. d \in Seq(Byte) /\ n \in Nat
    BY LenProperties DEF Section
  <1> HIDE DEF d
  <1>2. l \in Nat /\ n <= l /\ m \in Nat
    BY <1>1, RoundUpFacts
  <1> HIDE DEF l
  <1>3. n + m = l
    BY <1>1, <1>2
  <1>4. z \in Seq(Byte) /\ Len(z) = m /\ \A i \in 1 .. m : z[i] = 0
    BY <1>2, ZerosTyped
  <1>5. Padded(s) = d \o z
    BY DEF Padded, d, l
  <1> HIDE DEF m, z
  <1>6. /\ d \o z \in Seq(Byte) /\ Len(d \o z) = Len(d) + Len(z)
        /\ \A i \in 1 .. Len(d) + Len(z) :
              (d \o z)[i] = IF i <= Len(d) THEN d[i] ELSE z[i - Len(d)]
    BY <1>1, <1>4, ConcatProperties
  <1> HIDE DEF n
  <1>7. /\ Len(d \o z) = l
        /\ \A i \in 1 .. l : (d \o z)[i] = IF i <= n THEN d[i] ELSE z[i - n]
    BY <1>3, <1>4, <1>6 DEF n
  <1>8. \A i \in 1 .. n : (d \o z)[i] = d[i]
    BY <1>1, <1>2, <1>7
  <1>9. \A i \in n + 1 .. l : (d \o z)[i] = 0
    <2> SUFFICES ASSUME NEW i \in n + 1 .. l PROVE (d \o z)[i] = 0
      OBVIOUS
    <2>1. i \in 1 .. l /\ ~(i <= n) /\ i - n \in 1 .. m
      BY <1>1, <1>2, <1>3
    <2> QED
      BY <1>4, <1>7, <2>1
  <1> QED
    BY <1>1, <1>2, <1>5, <1>6, <1>7, <1>8, <1>9 DEF d, n, l

\* A number is put together again from its bytes.
LEMMA LowByte ==
    ASSUME NEW n \in Nat
    PROVE  /\ n \div 256 \in Nat /\ n % 256 \in Byte
           /\ (n % 256) + 256 * (n \div 256) = n
  <1>1. n \div 256 \in Nat
    OBVIOUS
  <1>2. n % 256 \in Byte
    BY DEF Byte
  <1>3. (n % 256) + 256 * (n \div 256) = n
    BY SMT
  <1> QED
    BY <1>1, <1>2, <1>3

LEMMA BytesOfNumber ==
    ASSUME NEW n \in Nat
    PROVE  (n % 256) + 256 * ((n \div 256) % 256) + 65536 * ((n \div 65536) % 256)
              + 16777216 * (n \div 16777216) = n
  <1> DEFINE m == n \div 256
             l == n \div 65536
             k == n \div 16777216
             x == n % 256
             y == m % 256
             z == l % 256
  <1>1. m \div 256 = l
    OBVIOUS
  <1>2. l \div 256 = k
    OBVIOUS
  <1>3. m \in Nat /\ x \in Byte /\ x + 256 * m = n
    BY LowByte
  <1> HIDE DEF m, x
  <1>4. l \in Nat /\ y \in Byte /\ y + 256 * l = m
    BY <1>1, <1>3, LowByte
  <1> HIDE DEF l, y
  <1>5. k \in Nat /\ z \in Byte /\ z + 256 * k = l
    BY <1>2, <1>4, LowByte
  <1> HIDE DEF k, z
  <1>6. x \in Nat /\ y \in Nat /\ z \in Nat
    BY <1>3, <1>4, <1>5 DEF Byte
  <1>7. x + 256 * y + 65536 * z + 16777216 * k = n
    BY <1>3, <1>4, <1>5, <1>6
  <1> QED
    BY <1>7 DEF k, l, m, x, y, z

LEMMA FieldFacts ==
    ASSUME NEW n \in Word
    PROVE  /\ Field(n) \in Seq(Byte) /\ Len(Field(n)) = 4 /\ Field(n)[4] <= 127
           /\ Field(n)[1] + 256 * Field(n)[2] + 65536 * Field(n)[3]
                + 16777216 * Field(n)[4] = n
  <1>1. n \in Nat /\ n < 2147483647
    <2>1. n \in Nat /\ n < Limit
      BY LimitTyped DEF Word
    <2> QED
      BY <2>1 DEF Limit
  <1>2. n \div 16777216 <= 127 /\ n \div 16777216 >= 0
        /\ n \div 16777216 \in Int
    BY <1>1
  <1>3. /\ n % 256 \in Byte /\ (n \div 256) % 256 \in Byte
        /\ (n \div 65536) % 256 \in Byte /\ n \div 16777216 \in Byte
    BY <1>1, <1>2 DEF Byte
  <1> DEFINE a == n % 256
             b == (n \div 256) % 256
             c == (n \div 65536) % 256
             d == n \div 16777216
  <1>4. a + 256 * b + 65536 * c + 16777216 * d = n
    BY <1>1, BytesOfNumber
  <1>5. Field(n) = <<a, b, c, d>>
    BY DEF Field
  <1>6. a \in Byte /\ b \in Byte /\ c \in Byte /\ d \in Byte /\ d <= 127
    BY <1>2, <1>3
  <1> HIDE DEF a, b, c, d
  <1> QED
    BY <1>4, <1>5, <1>6

\* The header of a segment.
LEMMA SegmentFacts ==
    ASSUME NEW s \in Section, Len(s.data) \in 0 .. Limit - 4
    PROVE  /\ Segment(s) \in Seq(Byte) /\ Len(Segment(s)) = 8
           /\ Number(Segment(s), 0) = s.addr
           /\ Number(Segment(s), 4) = RoundUp(Len(s.data))
  <1> DEFINE a == Field(s.addr)
             b == Field(RoundUp(Len(s.data)))
             g == Segment(s)
  <1>1. /\ a \in Seq(Byte) /\ Len(a) = 4 /\ a[4] <= 127
        /\ a[1] + 256 * a[2] + 65536 * a[3] + 16777216 * a[4] = s.addr
    BY FieldFacts DEF Section
  <1>2. /\ b \in Seq(Byte) /\ Len(b) = 4 /\ b[4] <= 127
        /\ b[1] + 256 * b[2] + 65536 * b[3] + 16777216 * b[4] = RoundUp(Len(s.data))
    <2>1. RoundUp(Len(s.data)) \in Word
      BY RoundUpFits
    <2> QED
      BY <2>1, FieldFacts
  <1>3. g = a \o b
    BY DEF Segment
  <1> HIDE DEF a, b, g
  <1>4. /\ g \in Seq(Byte) /\ Len(g) = Len(a) + Len(b)
        /\ \A i \in 1 .. Len(a) + Len(b) :
              g[i] = IF i <= Len(a) THEN a[i] ELSE b[i - Len(a)]
    <2>1. a \in Seq(Byte) /\ b \in Seq(Byte)
      BY <1>1, <1>2
    <2> QED
      BY ONLY <1>3, <2>1, ConcatProperties
  <1>5. \A i \in 1 .. 8 : g[i] = IF i <= 4 THEN a[i] ELSE b[i - 4]
    <2>1. Len(a) = 4 /\ Len(b) = 4
      BY <1>1, <1>2
    <2> QED
      BY ONLY <1>4, <2>1
  <1>6. /\ g[1] = a[1] /\ g[2] = a[2] /\ g[3] = a[3] /\ g[4] = a[4]
        /\ g[5] = b[1] /\ g[6] = b[2] /\ g[7] = b[3] /\ g[8] = b[4]
    BY <1>5
  <1>7. a[4] \in Byte /\ b[4] \in Byte /\ ~(a[4] > 127) /\ ~(b[4] > 127)
    <2>1. a[4] \in Byte
      <3>1. a \in Seq(Byte) /\ 4 \in 1 .. Len(a)
        BY <1>1
      <3> QED
        BY ONLY <3>1, ElementOfSeq
    <2>2. b[4] \in Byte
      <3>1. b \in Seq(Byte) /\ 4 \in 1 .. Len(b)
        BY <1>2
      <3> QED
        BY ONLY <3>1, ElementOfSeq
    <2>3. a[4] <= 127 /\ b[4] <= 127
      BY <1>1, <1>2
    <2> QED
      BY ONLY <2>1, <2>2, <2>3 DEF Byte
  <1>8. Number(g, 0) = s.addr
    <2>1. /\ g[0 + 1] = a[1] /\ g[0 + 2] = a[2] /\ g[0 + 3] = a[3] /\ g[0 + 4] = a[4]
      BY <1>6
    <2> QED
      BY <1>1, <1>7, <2>1 DEF Number
  <1>9. Number(g, 4) = RoundUp(Len(s.data))
    <2>1. /\ g[4 + 1] = b[1] /\ g[4 + 2] = b[2] /\ g[4 + 3] = b[3] /\ g[4 + 4] = b[4]
      BY <1>6
    <2> QED
      BY <1>2, <1>7, <2>1 DEF Number
  <1> QED
    BY <1>1, <1>2, <1>4, <1>8, <1>9 DEF g

-----------------------------------------------------------------------------
(* Parameters of the Flash *)

Option == [sets : SUBSET Parms, to : [Bits -> 0 .. 63]]

\* A parameter is in the mask, with the value of the last option that names it,
\* or it was never named; the other bits stay zero.
ParmInv ==
    /\ val \in [Bits -> 0 .. 3] /\ mask \subseteq Parms
    /\ options \in Seq(Option)
    /\ \A b \in Bits : IF Named(b) THEN b \in mask /\ val[b] = Wanted(b)
                       ELSE b \notin mask /\ val[b] = 0

LEMMA BitsAre ==
    /\ Bits = {"mode", "size", "freq", "other"} /\ Parms \subseteq Bits
    /\ "other" \notin Parms
  BY DEF Bits, Parms

\* The last option that names p.
LastOption(q, p) ==
    LET I == {i \in 1 .. Len(q) : p \in q[i].sets}
    IN  IF I # {} THEN Max(I) ELSE 0

LEMMA LastOptionFacts ==
    ASSUME NEW q \in Seq(Option), NEW p, NEW k \in 1 .. Len(q), p \in q[k].sets,
           \A i \in k + 1 .. Len(q) : p \notin q[i].sets
    PROVE  LastOption(q, p) = k
  <1> DEFINE I == {i \in 1 .. Len(q) : p \in q[i].sets}
  <1>1. Len(q) \in Nat /\ I # {} /\ I \in SUBSET (1 .. Len(q)) /\ k \in I
    BY LenProperties
  <1>2. \A i \in I : i <= k
    BY <1>1
  <1> HIDE DEF I
  <1>3. Max(I) \in I /\ \A i \in I : i <= Max(I)
    BY <1>1, LargestNumber
  <1>4. Max(I) = k
    <2>1. k <= Max(I) /\ Max(I) <= k /\ Max(I) \in 1 .. Len(q)
      BY <1>1, <1>2, <1>3
    <2>2. \A m \in 1 .. Len(q) : k <= m /\ m <= k => m = k
      BY <1>1
    <2> QED
      BY <2>1, <2>2
  <1> QED
    BY <1>1, <1>4 DEF LastOption, I

\* There is one, when one names p.
LEMMA LastOptionExists ==
    ASSUME NEW q \in Seq(Option), NEW p, NEW j \in 1 .. Len(q), p \in q[j].sets
    PROVE  /\ LastOption(q, p) \in 1 .. Len(q) /\ p \in q[LastOption(q, p)].sets
           /\ \A i \in LastOption(q, p) + 1 .. Len(q) : p \notin q[i].sets
  <1> DEFINE I == {i \in 1 .. Len(q) : p \in q[i].sets}
             m == Max(I)
  <1>1. Len(q) \in Nat /\ I # {} /\ I \in SUBSET (1 .. Len(q))
    BY LenProperties
  <1>2. m \in I /\ \A i \in I : i <= m
    <2> HIDE DEF I
    <2> QED
      BY <1>1, LargestNumber
  <1>3. LastOption(q, p) = m
    BY <1>1 DEF LastOption
  <1> HIDE DEF m
  <1>4. m \in 1 .. Len(q) /\ p \in q[m].sets
    BY <1>2
  <1>5. \A i \in m + 1 .. Len(q) : p \notin q[i].sets
    <2> SUFFICES ASSUME NEW i \in m + 1 .. Len(q), p \in q[i].sets PROVE FALSE
      OBVIOUS
    <2>1. i \in I
      BY <1>1, <1>4
    <2> HIDE DEF I
    <2> QED
      BY <1>1, <1>2, <1>4, <2>1
  <1> QED
    BY <1>3, <1>4, <1>5

LEMMA WantedIs == \A p : Wanted(p) = options[LastOption(options, p)].to[p]
  BY DEF Wanted, LastOption, SelectLastInSeq

\* What one more option names and wants.
LEMMA OneMoreOption ==
    ASSUME options \in Seq(Option), NEW o \in Option, options' = Append(options, o),
           NEW p
    PROVE  /\ options' \in Seq(Option)
           /\ Named(p)' <=> p \in Parms /\ (Named(p) \/ p \in o.sets)
           /\ Named(p)' => Wanted(p)' = IF p \in o.sets THEN o.to[p] ELSE Wanted(p)
  <1> DEFINE q == options
             n == Len(q)
             r == Append(q, o)
  <1>1. /\ n \in Nat /\ r \in Seq(Option) /\ Len(r) = n + 1 /\ r[n + 1] = o
        /\ \A i \in 1 .. n : r[i] = q[i]
    BY LenProperties, AppendProperties
  <1>2. /\ DOMAIN q = 1 .. n /\ DOMAIN r = 1 .. n + 1 /\ options' = r
    BY <1>1, LenProperties
  <1> HIDE DEF q, n, r
  <1>3. \A i \in 1 .. n + 1 : i \in 1 .. n \/ i = n + 1
    BY <1>1
  <1>4. n + 1 \in 1 .. n + 1 /\ \A i \in 1 .. n : i \in 1 .. n + 1
    BY <1>1
  <1>5. (\E i \in DOMAIN r : p \in r[i].sets) <=>
            (\E i \in DOMAIN q : p \in q[i].sets) \/ p \in o.sets
    BY <1>1, <1>2, <1>3, <1>4
  <1>6. Named(p)' <=> p \in Parms /\ (Named(p) \/ p \in o.sets)
    BY <1>2, <1>5 DEF Named, q
  <1>7. Wanted(p)' = r[LastOption(r, p)].to[p]
    BY <1>2 DEF Wanted, LastOption, SelectLastInSeq
  <1>8. Len(q) = n
    BY DEF n
  <1>9. ASSUME p \in o.sets PROVE Wanted(p)' = o.to[p]
    <2>1. \A i \in (n + 1) + 1 .. Len(r) : p \notin r[i].sets
      BY <1>1
    <2>2. n + 1 \in 1 .. Len(r)
      BY <1>1
    <2>3. LastOption(r, p) = n + 1
      BY <1>1, <1>9, <2>1, <2>2, LastOptionFacts
    <2> QED
      BY <1>1, <1>7, <2>3
  <1>10. ASSUME p \notin o.sets, Named(p)' PROVE Wanted(p)' = Wanted(p)
    <2> DEFINE k == LastOption(q, p)
    <2>1. PICK j \in 1 .. Len(q) : p \in q[j].sets
      BY <1>2, <1>6, <1>8, <1>10 DEF Named, q
    <2>2. q \in Seq(Option)
      BY DEF q
    <2>3. k \in 1 .. n /\ p \in q[k].sets /\ \A i \in k + 1 .. n : p \notin q[i].sets
      BY <1>8, <2>1, <2>2, LastOptionExists
    <2> HIDE DEF k
    <2>4. k \in 1 .. Len(r) /\ p \in r[k].sets
      BY <1>1, <2>3
    <2>5. \A i \in k + 1 .. Len(r) : p \notin r[i].sets
      <3> SUFFICES ASSUME NEW i \in k + 1 .. n + 1 PROVE p \notin r[i].sets
        BY <1>1
      <3>1. i \in k + 1 .. n \/ i = n + 1
        BY <1>1, <2>3
      <3>2. i \in k + 1 .. n => i \in 1 .. n
        BY <1>1, <2>3
      <3> QED
        BY <1>1, <1>10, <2>3, <3>1, <3>2
    <2>6. LastOption(r, p) = k
      BY <1>1, <2>4, <2>5, LastOptionFacts
    <2>7. Wanted(p)' = r[k].to[p] /\ r[k] = q[k]
      BY <1>1, <1>7, <2>3, <2>6
    <2>8. Wanted(p) = q[k].to[p]
      BY WantedIs DEF k, q
    <2> QED
      BY <2>7, <2>8
  <1> QED
    BY <1>1, <1>2, <1>6, <1>9, <1>10

\* The options give the values of two bits only, but for the combined one,
\* which does so to the parameters.
New == {n \in [Bits -> 0 .. 63] : \A b \in Parms : n[b] \in 0 .. 3}

LEMMA OptionsSet ==
    ASSUME SetOption
    PROVE  \E m \in SUBSET Parms, new \in New : SetParms(m, new)
  <1>1. \A v \in Values : v \in 0 .. 3 /\ v \in 0 .. 63
    BY FormatAssumption
  <1>2. NoValue \in New
    BY BitsAre DEF New, NoValue
  <1>3. ASSUME NEW p \in Parms, NEW v \in Values,
               SetParms({p}, [NoValue EXCEPT ![p] = v])
        PROVE  \E m \in SUBSET Parms, new \in New : SetParms(m, new)
    <2>1. [NoValue EXCEPT ![p] = v] \in New
      BY <1>1, <1>2, BitsAre DEF New
    <2>2. {p} \in SUBSET Parms
      OBVIOUS
    <2> QED
      BY <1>3, <2>1, <2>2
  <1>4. ASSUME NEW v \in Values, NEW o \in {0, 63},
               SetParms(AllParms, [b \in Bits |-> IF b = "other" THEN o ELSE v])
        PROVE  \E m \in SUBSET Parms, new \in New : SetParms(m, new)
    <2>1. [b \in Bits |-> IF b = "other" THEN o ELSE v] \in New
      BY <1>1, BitsAre DEF New
    <2>2. AllParms \in SUBSET Parms
      BY DEF AllParms
    <2> QED
      BY <1>4, <2>1, <2>2
  <1> QED
    BY <1>3, <1>4 DEF SetOption

LEMMA SetParmsKeepsParms ==
    ASSUME ParmInv, NEW m \in SUBSET Parms, NEW new \in New, SetParms(m, new)
    PROVE  ParmInv'
  <1> DEFINE o == [sets |-> m, to |-> new]
  <1>1. o \in Option /\ o.sets = m /\ o.to = new
    BY DEF Option, New
  <1>2. /\ options' = Append(options, o) /\ mask' = mask \cup m
        /\ val' = [b \in Bits |-> IF b \in m THEN new[b] ELSE val[b]]
    BY DEF SetParms, Merged
  <1> HIDE DEF o
  <1>3. options' \in Seq(Option)
    BY <1>1, <1>2, OneMoreOption DEF ParmInv
  <1>4. val' \in [Bits -> 0 .. 3]
    BY <1>2, BitsAre DEF ParmInv, New
  <1>5. ASSUME NEW b \in Bits
        PROVE  IF Named(b)' THEN b \in mask' /\ val'[b] = Wanted(b)'
               ELSE b \notin mask' /\ val'[b] = 0
    <2>1. /\ Named(b)' <=> b \in Parms /\ (Named(b) \/ b \in m)
          /\ Named(b)' => Wanted(b)' = IF b \in m THEN new[b] ELSE Wanted(b)
      BY <1>1, <1>2, OneMoreOption DEF ParmInv
    <2>2. val'[b] = IF b \in m THEN new[b] ELSE val[b]
      BY <1>2
    <2>3. b \in m => b \in Parms
      OBVIOUS
    <2>4. Named(b) => b \in Parms
      BY DEF Named
    <2> QED
      BY <1>2, <2>1, <2>2, <2>3, <2>4 DEF ParmInv
  <1>6. mask' \subseteq Parms
    BY <1>2 DEF ParmInv
  <1> QED
    BY <1>3, <1>4, <1>5, <1>6 DEF ParmInv

-----------------------------------------------------------------------------
(* What a step writes *)

LEMMA Joined ==
    ASSUME NEW S, NEW a \in Seq(S), NEW b \in Seq(S)
    PROVE  /\ a \o b \in Seq(S) /\ Len(a \o b) = Len(a) + Len(b)
           /\ \A i \in 1 .. Len(a) : (a \o b)[i] = a[i]
           /\ \A i \in 1 .. Len(b) : (a \o b)[Len(a) + i] = b[i]
  <1> DEFINE c == a \o b
             m == Len(a)
             n == Len(b)
  <1>1. m \in Nat /\ n \in Nat
    BY LenProperties
  <1>2. /\ c \in Seq(S) /\ Len(c) = m + n
        /\ \A i \in 1 .. m + n : c[i] = IF i <= m THEN a[i] ELSE b[i - m]
    BY ConcatProperties
  <1> HIDE DEF c, m, n
  <1>3. \A i \in 1 .. m : c[i] = a[i]
    BY <1>1, <1>2
  <1>4. \A i \in 1 .. n : c[m + i] = b[i]
    <2> SUFFICES ASSUME NEW i \in 1 .. n PROVE c[m + i] = b[i]
      OBVIOUS
    <2>1. m + i \in 1 .. m + n /\ ~(m + i <= m) /\ (m + i) - m = i
      BY <1>1
    <2> QED
      BY <1>2, <2>1
  <1> QED
    BY <1>2, <1>3, <1>4 DEF c, m, n

\* g is f and the bytes s.
Longer(f, s, g) ==
    /\ g \in Seq(Byte) /\ Len(g) = Len(f) + Len(s)
    /\ \A i \in 1 .. Len(f) : g[i] = f[i]
    /\ \A i \in 1 .. Len(s) : g[Len(f) + i] = s[i]

LEMMA WroteFacts ==
    ASSUME NEW f \in Seq(Byte), NEW s \in Seq(Byte)
    PROVE  Longer(f, s, f \o s)
  BY Joined DEF Longer

\* g is f and a part of the bytes s, not all of them.
CutShort(f, s, g) == \E k \in 0 .. Len(s) - 1, r \in Seq(Byte) :
    Len(r) = k /\ Longer(f, r, g) /\ \A i \in 1 .. k : r[i] = s[i]

LEMMA StopsFacts ==
    ASSUME file \in Seq(Byte), NEW s \in Seq(Byte), Stops(s)
    PROVE  CutShort(file, s, file')
  <1>1. PICK k \in 0 .. Len(s) - 1 : file' = file \o SubSeq(s, 1, k)
    BY DEF Stops
  <1> DEFINE r == SubSeq(s, 1, k)
  <1>2. /\ 0 \in 0 .. Len(s) /\ k \in 0 .. Len(s) /\ 0 + 1 = 1 /\ k - 0 = k
        /\ \A i \in 1 .. k : 0 + i = i
    BY LenProperties
  <1>3. r \in Seq(Byte) /\ Len(r) = k /\ \A i \in 1 .. k : r[i] = s[i]
    BY <1>2, Slice
  <1> HIDE DEF r
  <1>4. Longer(file, r, file')
    BY <1>1, <1>3, WroteFacts DEF r
  <1> QED
    BY <1>3, <1>4 DEF CutShort

LEMMA HeaderFacts ==
    ASSUME ParmInv, Len(list) \in 2 .. MaxList
    PROVE  /\ Header \in Seq(Byte) /\ Len(Header) = 8
           /\ Header[1] = MAGIC /\ Header[2] = Len(list)
  <1> DEFINE a == <<MAGIC, Len(list)>>
             b == ParmBytes(val)
             c == Field(Entry)
             d == a \o b
  <1>1. Len(list) \in Byte /\ MAGIC \in Byte
    <2>1. MaxList \in Byte
      BY FormatAssumption
    <2>2. \A m \in Byte : \A n \in 2 .. m : n \in Byte
      BY DEF Byte
    <2>3. MAGIC \in Byte
      BY DEF Byte, MAGIC
    <2> QED
      BY <2>1, <2>2, <2>3
  <1>2. a \in Seq(Byte) /\ Len(a) = 2 /\ a[1] = MAGIC /\ a[2] = Len(list)
    BY <1>1
  <1>3. b \in Seq(Byte) /\ Len(b) = 2
    <2>1. \A p \in Bits : val[p] \in 0 .. 3
      BY DEF ParmInv
    <2>2. \A x, y \in 0 .. 3 : x * 4 + y \in Byte /\ x * 16 + y \in Byte
      BY DEF Byte
    <2> QED
      BY <2>1, <2>2, BitsAre DEF ParmBytes
  <1>4. c \in Seq(Byte) /\ Len(c) = 4
    BY FieldFacts, FormatAssumption
  <1>5. Header = d \o c
    BY DEF Header
  <1> HIDE DEF a, b, c
  <1>6. /\ d \in Seq(Byte) /\ Len(d) = 4 /\ d[1] = MAGIC /\ d[2] = Len(list)
    <2>1. /\ d \in Seq(Byte) /\ Len(d) = Len(a) + Len(b)
          /\ \A i \in 1 .. Len(a) : d[i] = a[i]
      BY <1>2, <1>3, Joined
    <2> HIDE DEF d
    <2> QED
      BY <1>2, <1>3, <2>1
  <1> HIDE DEF d
  <1>7. /\ d \o c \in Seq(Byte) /\ Len(d \o c) = Len(d) + Len(c)
        /\ \A i \in 1 .. Len(d) : (d \o c)[i] = d[i]
    BY <1>4, <1>6, Joined
  <1> QED
    BY <1>4, <1>5, <1>6, <1>7

LEMMA PadFacts ==
    ASSUME size \in Nat, cksum \in Byte
    PROVE  LET pad == Append(Zeros(PadSize - 1), cksum)
           IN  /\ PadSize = TailSize(size) /\ PadSize \in 1 .. 16
               /\ pad \in Seq(Byte) /\ Len(pad) = PadSize
               /\ \A i \in 1 .. PadSize - 1 : pad[i] = 0
               /\ pad[PadSize] = cksum
  <1> DEFINE n == PadSize - 1
             z == Zeros(n)
             pad == Append(z, cksum)
  <1>1. PadSize = TailSize(size) /\ PadSize \in 1 .. 16
    BY DEF PadSize, TailSize
  <1>2. n \in Nat /\ n + 1 = PadSize
    BY <1>1
  <1> HIDE DEF n
  <1>3. z \in Seq(Byte) /\ Len(z) = n /\ \A i \in 1 .. n : z[i] = 0
    BY <1>2, ZerosTyped
  <1> HIDE DEF z
  <1>4. /\ pad \in Seq(Byte) /\ Len(pad) = n + 1 /\ pad[n + 1] = cksum
        /\ \A i \in 1 .. n : pad[i] = z[i]
    BY <1>3, AppendProperties
  <1> HIDE DEF pad
  <1>5. /\ PadSize = TailSize(size) /\ PadSize \in 1 .. 16
        /\ pad \in Seq(Byte) /\ Len(pad) = PadSize
        /\ \A i \in 1 .. n : pad[i] = 0
        /\ pad[PadSize] = cksum
    BY <1>1, <1>2, <1>3, <1>4
  <1> QED
    BY <1>5 DEF n, z, pad

\* A segment and its data.
LEMMA SegmentTyped ==
    ASSUME NEW s \in Section, Len(s.data) \in 0 .. Limit - 4
    PROVE  /\ Segment(s) \o Padded(s) \in Seq(Byte)
           /\ Len(Segment(s) \o Padded(s)) = 8 + RoundUp(Len(s.data))
           /\ \A i \in 1 .. 8 : (Segment(s) \o Padded(s))[i] = Segment(s)[i]
           /\ \A i \in 1 .. RoundUp(Len(s.data)) :
                 (Segment(s) \o Padded(s))[8 + i] = Padded(s)[i]
  <1> DEFINE a == Segment(s)
             b == Padded(s)
             n == RoundUp(Len(s.data))
  <1>1. a \in Seq(Byte) /\ Len(a) = 8
    BY SegmentFacts
  <1>2. b \in Seq(Byte) /\ Len(b) = n
    BY PaddedFacts
  <1> HIDE DEF a, b, n
  <1>3. /\ a \o b \in Seq(Byte) /\ Len(a \o b) = Len(a) + Len(b)
        /\ \A i \in 1 .. Len(a) : (a \o b)[i] = a[i]
        /\ \A i \in 1 .. Len(b) : (a \o b)[Len(a) + i] = b[i]
    <2>1. a \in Seq(Byte) /\ b \in Seq(Byte)
      BY <1>1, <1>2
    <2> QED
      BY ONLY <2>1, Joined
  <1>4. /\ a \o b \in Seq(Byte) /\ Len(a \o b) = 8 + n
        /\ \A i \in 1 .. 8 : (a \o b)[i] = a[i]
        /\ \A i \in 1 .. n : (a \o b)[8 + i] = b[i]
    BY <1>1, <1>2, <1>3
  <1> QED
    BY <1>4 DEF a, b, n

-----------------------------------------------------------------------------
(* Types, the options and the stages of an image *)

\* What has been done at each stage.
StageInv ==
    /\ pc \in {"Header", "Segment", "Padding", "Made"} => Len(list) \in 2 .. MaxList
    /\ pc = "Segment" => done < Len(list)
    /\ pc \in {"Padding", "Made"} => done = Len(list)
    /\ pc \in {"Options", "Header"} =>
          file = <<>> /\ done = 0 /\ size = 0 /\ cksum = CKSUM_MAGIC
    /\ pc = "Options" => list = <<>>
    /\ spoilt # 0 => pc = "Made"
    /\ flash.bytes # <<>> => pc \in {"Made", "Raw"} /\ Len(file) >= 4

FormatInv == TypeOK /\ ParmInv /\ StageInv

LEMMA ParmKept ==
    ASSUME ParmInv, UNCHANGED <<val, mask, options>>
    PROVE  ParmInv'
  BY DEF ParmInv, Named, Wanted, SelectLastInSeq

LEMMA FormatInit == Init => FormatInv
  <1> SUFFICES ASSUME Init PROVE FormatInv
    OBVIOUS
  <1>1. NoValue \in [Bits -> 0 .. 3] /\ NoValue \in [Bits -> Byte]
    BY DEF NoValue, Byte
  <1>2. CKSUM_MAGIC \in Byte
    BY DEF CKSUM_MAGIC, Byte
  <1>3. TypeOK
    BY <1>1, <1>2, FormatAssumption DEF Init, TypeOK
  <1>4. \A b \in Bits : ~Named(b) /\ val[b] = 0
    BY DEF Init, Named, NoValue
  <1>5. ParmInv
    BY <1>1, <1>4 DEF Init, ParmInv
  <1>6. StageInv
    BY DEF Init, StageInv
  <1> QED
    BY <1>3, <1>5, <1>6 DEF FormatInv

LEMMA FormatSetParms ==
    ASSUME FormatInv, NEW m \in SUBSET Parms, NEW new \in New, SetParms(m, new)
    PROVE  FormatInv'
  <1>1. ParmInv'
    BY SetParmsKeepsParms DEF FormatInv
  <1>2. val' \in [Bits -> Byte] /\ mask' \subseteq Parms
    <2>1. \A n \in 0 .. 3 : n \in Byte
      BY DEF Byte
    <2> QED
      BY <1>1, <2>1 DEF ParmInv
  <1>3. Len(options') <= MaxEvents
    <2>1. options \in Seq(Option) /\ [sets |-> m, to |-> new] \in Option
      BY DEF FormatInv, ParmInv, Option, New
    <2>2. Len(options') = Len(options) + 1 /\ Len(options) \in Nat
      BY <2>1, AppendProperties, LenProperties DEF SetParms
    <2>3. MaxEvents \in Nat
      BY FormatAssumption
    <2> QED
      BY <2>2, <2>3 DEF SetParms, Eventful
  <1>4. UNCHANGED <<pc, list, used, done, cksum, size, file, flash, spoilt>>
    BY DEF SetParms
  <1>5. TypeOK'
    BY <1>2, <1>3, <1>4 DEF FormatInv, TypeOK
  <1>6. StageInv'
    BY <1>4 DEF FormatInv, StageInv
  <1> QED
    BY <1>1, <1>5, <1>6 DEF FormatInv

LEMMA FormatMakeImage ==
    ASSUME FormatInv, MakeImage
    PROVE  FormatInv'
  <1>1. PICK n \in 2 .. MaxList : list' \in [1 .. n -> Names]
    BY DEF MakeImage
  <1>2. list' \in Seq(Names) /\ Len(list') = n /\ n \in Nat
    BY <1>1, FunctionIsSeq
  <1>3. /\ pc = "Options" /\ pc' = "Header" /\ used' = val
        /\ UNCHANGED <<val, mask, options, done, cksum, size, file, flash, spoilt>>
    BY DEF MakeImage
  <1>4. ParmInv'
    BY <1>3, ParmKept DEF FormatInv
  <1>5. done = 0 /\ 0 \in 0 .. n
    BY <1>2, <1>3 DEF FormatInv, StageInv
  <1>6. TypeOK'
    BY <1>2, <1>3, <1>5 DEF FormatInv, TypeOK
  <1>7. StageInv'
    BY <1>2, <1>3, <1>5 DEF FormatInv, StageInv
  <1> QED
    BY <1>4, <1>6, <1>7 DEF FormatInv

\* Nothing has been changed in a file that is still being written, and nothing
\* of it been sent.
LEMMA Untouched ==
    ASSUME FormatInv, pc \notin {"Made", "Raw"}
    PROVE  spoilt = 0 /\ flash.bytes = <<>>
  BY DEF FormatInv, StageInv

LEMMA FormatStops ==
    ASSUME FormatInv, pc \notin {"Made", "Raw"}, NEW s \in Seq(Byte), Stops(s), Rest
    PROVE  FormatInv'
  <1>1. CutShort(file, s, file')
    BY StopsFacts DEF FormatInv, TypeOK
  <1>2. file' \in Seq(Byte) /\ 0 \in 0 .. Len(file')
    BY <1>1, LenProperties DEF CutShort, Longer
  <1>3. /\ pc' = "Failed"
        /\ UNCHANGED <<val, mask, options, list, used, flash, spoilt, done, cksum, size>>
    BY DEF Stops, Rest
  <1>4. ParmInv'
    BY <1>3, ParmKept DEF FormatInv
  <1>5. spoilt = 0 /\ flash.bytes = <<>>
    BY Untouched
  <1>6. TypeOK'
    BY <1>2, <1>3, <1>5 DEF FormatInv, TypeOK
  <1>7. StageInv'
    BY <1>3, <1>5 DEF StageInv
  <1> QED
    BY <1>4, <1>6, <1>7 DEF FormatInv

LEMMA FormatWriteHeader ==
    ASSUME FormatInv, WriteHeader
    PROVE  FormatInv'
  <1>1. pc = "Header" /\ Rest /\ Len(list) \in 2 .. MaxList
    BY DEF WriteHeader, FormatInv, StageInv
  <1>2. Header \in Seq(Byte) /\ Len(Header) = 8
    BY <1>1, HeaderFacts DEF FormatInv
  <1>3. CASE Stops(Header)
    BY <1>1, <1>2, <1>3, FormatStops
  <1>4. CASE Wrote(Header) /\ pc' = "Segment" /\ UNCHANGED <<done, cksum>>
    <2>1. file' \in Seq(Byte) /\ 0 \in 0 .. Len(file')
      <3>1. file' = file \o Header /\ file \in Seq(Byte)
        BY <1>4 DEF Wrote, FormatInv, TypeOK
      <3>2. file' \in Seq(Byte)
        BY <1>2, <3>1, ConcatProperties
      <3> QED
        BY <3>2, LenProperties
    <2>2. size' \in Nat
      BY <1>2, <1>4 DEF Wrote, FormatInv, TypeOK
    <2>3. spoilt = 0 /\ flash.bytes = <<>>
      BY <1>1, Untouched
    <2>4. done = 0 /\ 0 < Len(list)
      BY <1>1 DEF FormatInv, StageInv
    <2>5. UNCHANGED <<val, mask, options, list, used, flash, spoilt, done, cksum>>
      BY <1>1, <1>4 DEF Rest
    <2>6. ParmInv'
      BY <2>5, ParmKept DEF FormatInv
    <2>7. TypeOK'
      BY <1>4, <2>1, <2>2, <2>3, <2>5 DEF FormatInv, TypeOK
    <2>8. StageInv'
      BY <1>1, <1>4, <2>3, <2>4, <2>5 DEF StageInv
    <2> QED
      BY <2>6, <2>7, <2>8 DEF FormatInv
  <1> QED
    BY <1>3, <1>4 DEF WriteHeader

LEMMA FormatNoSection ==
    ASSUME FormatInv, NoSection
    PROVE  FormatInv'
  <1>1. /\ pc = "Segment" /\ pc' = "Failed"
        /\ UNCHANGED <<val, mask, options, list, used, flash, spoilt, done, cksum, size, file>>
    BY DEF NoSection, Rest
  <1>2. spoilt = 0 /\ flash.bytes = <<>>
    BY <1>1, Untouched
  <1>3. ParmInv'
    BY <1>1, ParmKept DEF FormatInv
  <1>4. TypeOK'
    BY <1>1 DEF FormatInv, TypeOK
  <1>5. StageInv'
    BY <1>1, <1>2 DEF StageInv
  <1> QED
    BY <1>3, <1>4, <1>5 DEF FormatInv

\* The section whose turn it is.
Turn == Elf[SectionNum(NextName)]

LEMMA TurnTyped ==
    ASSUME SectionNum(NextName) # 0
    PROVE  Turn \in Section /\ Len(Turn.data) \in 0 .. Limit - 4
  BY SectionFound, SectionTyped DEF Turn

\* The checksum after more data.
LEMMA SummedTyped ==
    ASSUME NEW s \in Section, NEW sum \in Byte
    PROVE  Checksum(sum, s.data) \in Byte /\ Checksum(sum, Padded(s)) = Checksum(sum, s.data)
  <1> DEFINE d == s.data
             p == Padded(s)
  <1>1. d \in Seq(Byte)
    BY DEF Section
  <1>2. /\ p \in Seq(Byte) /\ Len(d) <= Len(p)
        /\ \A i \in 1 .. Len(d) : p[i] = d[i]
        /\ \A i \in Len(d) + 1 .. Len(p) : p[i] = 0
    <2>1. Len(p) = RoundUp(Len(d))
      BY PaddedFacts
    <2> QED
      BY <2>1, PaddedFacts
  <1> HIDE DEF d, p
  <1>3. Checksum(sum, d) \in Byte
    BY <1>1, ChecksumTyped
  <1>4. Checksum(sum, p) = Checksum(sum, d)
    BY <1>1, <1>2, ChecksumOfZeros
  <1> QED
    BY <1>3, <1>4 DEF d, p

LEMMA FormatWriteSegment ==
    ASSUME FormatInv, WriteSegment
    PROVE  FormatInv'
  <1> DEFINE s == Turn
  <1>1. pc = "Segment" /\ Rest /\ done < Len(list) /\ Len(list) \in 2 .. MaxList
    BY DEF WriteSegment, FormatInv, StageInv
  <1>2. s \in Section /\ Len(s.data) \in 0 .. Limit - 4
    BY TurnTyped DEF WriteSegment
  <1>3. spoilt = 0 /\ flash.bytes = <<>>
    BY <1>1, Untouched
  <1>4. \/ /\ SegmentWritten(s) \/ SegmentSkipped(s)
           /\ done' = done + 1
           /\ pc' = IF done + 1 = Len(list) THEN "Padding" ELSE "Segment"
        \/ Stops(Segment(s) \o Padded(s))
    BY DEF WriteSegment, Turn
  <1> HIDE DEF s
  <1>5. Segment(s) \o Padded(s) \in Seq(Byte)
    BY <1>2, SegmentTyped
  <1>6. CASE Stops(Segment(s) \o Padded(s))
    BY <1>1, <1>5, <1>6, FormatStops
  <1>7. CASE /\ SegmentWritten(s) \/ SegmentSkipped(s)
             /\ done' = done + 1
             /\ pc' = IF done + 1 = Len(list) THEN "Padding" ELSE "Segment"
    <2>1. file \in Seq(Byte) /\ cksum \in Byte /\ size \in Nat /\ done \in Nat
      BY DEF FormatInv, TypeOK
    <2>2. file' \in Seq(Byte)
      <3>1. Segment(s) \in Seq(Byte) /\ Padded(s) \in Seq(Byte)
        BY <1>2, SegmentFacts, PaddedFacts
      <3>2. file \o Segment(s) \in Seq(Byte)
        BY <2>1, <3>1, ConcatProperties
      <3>3. (file \o Segment(s)) \o Padded(s) \in Seq(Byte)
        BY <3>1, <3>2, ConcatProperties
      <3>4. file' = file \o Segment(s) \/ file' = (file \o Segment(s)) \o Padded(s)
        BY <1>7 DEF SegmentWritten, SegmentSkipped
      <3> QED
        BY <3>2, <3>3, <3>4
    <2>3. cksum' \in Byte
      BY <1>2, <1>7, <2>1, SummedTyped DEF SegmentWritten, SegmentSkipped
    <2>4. size' \in Nat
      <3>1. RoundUp(Len(s.data)) \in Nat
        BY <1>2, RoundUpFits, RoundUpFacts
      <3>2. size' = size + 8 + RoundUp(Len(s.data))
        BY <1>7 DEF SegmentWritten, SegmentSkipped
      <3> QED
        BY <2>1, <3>1, <3>2
    <2>5. 0 \in 0 .. Len(file')
      BY <2>2, LenProperties
    <2>6. /\ done' \in 0 .. Len(list) /\ pc' \in {"Padding", "Segment"}
          /\ pc' = "Segment" => done' < Len(list)
          /\ pc' = "Padding" => done' = Len(list)
      <3>1. Len(list) \in Nat
        BY DEF FormatInv, TypeOK
      <3>2. done + 1 \in 0 .. Len(list) /\ (done + 1 # Len(list) => done + 1 < Len(list))
        BY <1>1, <2>1, <3>1
      <3> QED
        BY <1>7, <3>2
    <2>7. UNCHANGED <<val, mask, options, list, used, flash, spoilt>>
      BY <1>1 DEF Rest
    <2>8. ParmInv'
      BY <2>7, ParmKept DEF FormatInv
    <2>9. TypeOK'
      BY <1>3, <2>2, <2>3, <2>4, <2>5, <2>6, <2>7 DEF FormatInv, TypeOK
    <2>10. StageInv'
      BY <1>1, <1>3, <2>6, <2>7 DEF StageInv
    <2> QED
      BY <2>8, <2>9, <2>10 DEF FormatInv
  <1> QED
    BY <1>4, <1>6, <1>7

LEMMA FormatWritePadding ==
    ASSUME FormatInv, WritePadding
    PROVE  FormatInv'
  <1> DEFINE pad == Append(Zeros(PadSize - 1), cksum)
  <1>1. /\ pc = "Padding" /\ Rest /\ done = Len(list) /\ Len(list) \in 2 .. MaxList
        /\ size \in Nat /\ cksum \in Byte /\ file \in Seq(Byte)
    BY DEF WritePadding, FormatInv, StageInv, TypeOK
  <1>2. pad \in Seq(Byte) /\ Len(pad) \in Nat
    <2>1. pad \in Seq(Byte)
      BY <1>1, PadFacts
    <2> QED
      BY <2>1, LenProperties
  <1>3. \/ Wrote(pad) /\ pc' = "Made" /\ UNCHANGED <<done, cksum>>
        \/ Stops(pad)
    BY DEF WritePadding
  <1> HIDE DEF pad
  <1>4. CASE Stops(pad)
    BY <1>1, <1>2, <1>4, FormatStops
  <1>5. CASE Wrote(pad) /\ pc' = "Made" /\ UNCHANGED <<done, cksum>>
    <2>1. file' \in Seq(Byte) /\ 0 \in 0 .. Len(file')
      <3>1. file' \in Seq(Byte)
        BY <1>1, <1>2, <1>5, ConcatProperties DEF Wrote
      <3> QED
        BY <3>1, LenProperties
    <2>2. size' \in Nat
      BY <1>1, <1>2, <1>5 DEF Wrote
    <2>3. spoilt = 0 /\ flash.bytes = <<>>
      BY <1>1, Untouched
    <2>4. UNCHANGED <<val, mask, options, list, used, flash, spoilt, done, cksum>>
      BY <1>1, <1>5 DEF Rest
    <2>5. ParmInv'
      BY <2>4, ParmKept DEF FormatInv
    <2>6. TypeOK'
      BY <1>5, <2>1, <2>2, <2>3, <2>4 DEF FormatInv, TypeOK
    <2>7. StageInv'
      BY <1>1, <1>5, <2>3, <2>4 DEF StageInv
    <2> QED
      BY <2>5, <2>6, <2>7 DEF FormatInv
  <1> QED
    BY <1>3, <1>4, <1>5

LEMMA FormatMakeRaw ==
    ASSUME FormatInv, MakeRaw
    PROVE  FormatInv'
  <1>1. PICK name \in Names : list' = <<name>>
    BY DEF MakeRaw
  <1> DEFINE k == SectionNum(list'[1])
             s == Elf[k]
  <1>2. /\ pc = "Options" /\ used' = val
        /\ UNCHANGED <<val, mask, options, flash, spoilt>>
    BY DEF MakeRaw
  <1>3. \/ /\ k = 0 /\ pc' = "Failed" /\ UNCHANGED <<done, cksum, size, file>>
        \/ /\ k # 0 /\ file' = s.data /\ cksum' = Checksum(cksum, s.data)
           /\ pc' = "Raw" /\ done' = 1 /\ size' = size
        \/ k # 0 /\ Stops(s.data)
    BY DEF MakeRaw
  <1>4. k # 0 => s \in Section /\ s.data \in Seq(Byte)
    <2> HIDE DEF k
    <2>1. k # 0 => k \in 1 .. Len(Elf)
      BY SectionFound DEF k
    <2> QED
      BY <2>1, SectionTyped DEF Section
  <1> HIDE DEF k, s
  <1>5. list' \in Seq(Names) /\ Len(list') = 1
    BY <1>1
  <1>6. /\ spoilt = 0 /\ flash.bytes = <<>> /\ file \in Seq(Byte) /\ cksum \in Byte
        /\ size \in Nat /\ done = 0
    BY <1>2, Untouched DEF FormatInv, TypeOK, StageInv
  <1>7. /\ pc' \in {"Raw", "Failed"} /\ done' \in 0 .. 1 /\ cksum' \in Byte /\ size' = size
        /\ file' \in Seq(Byte)
    <2>1. CASE k = 0 /\ pc' = "Failed" /\ UNCHANGED <<done, cksum, size, file>>
      BY <1>6, <2>1
    <2>2. CASE /\ k # 0 /\ file' = s.data /\ cksum' = Checksum(cksum, s.data)
               /\ pc' = "Raw" /\ done' = 1 /\ size' = size
      BY <1>4, <1>6, <2>2, SummedTyped
    <2>3. CASE k # 0 /\ Stops(s.data)
      <3>1. CutShort(file, s.data, file')
        BY <1>4, <1>6, <2>3, StopsFacts
      <3>2. pc' = "Failed" /\ UNCHANGED <<done, cksum, size>>
        BY <2>3 DEF Stops
      <3> QED
        BY <1>6, <3>1, <3>2 DEF CutShort, Longer
    <2> QED
      BY <1>3, <2>1, <2>2, <2>3
  <1>8. 0 \in 0 .. Len(file')
    BY <1>7, LenProperties
  <1>9. ParmInv'
    BY <1>2, ParmKept DEF FormatInv
  <1>10. TypeOK'
    BY <1>2, <1>5, <1>6, <1>7, <1>8 DEF FormatInv, TypeOK
  <1>11. StageInv'
    BY <1>2, <1>6, <1>7 DEF StageInv
  <1> QED
    BY <1>9, <1>10, <1>11 DEF FormatInv

\* g is f with the byte i changed by x.
Changed(f, i, x, g) ==
    /\ g \in Seq(Byte) /\ Len(g) = Len(f)
    /\ i \in 1 .. Len(f) /\ x \in Byte \ {0} /\ g[i] = Xor(f[i], x)
    /\ \A j \in 1 .. Len(f) : j # i => g[j] = f[j]

LEMMA SpoilFacts ==
    ASSUME file \in Seq(Byte), Spoil
    PROVE  \E x \in Byte : Changed(file, spoilt', x, file')
  <1>1. PICK i \in 1 .. Len(file), x \in SpoiltBy :
           file' = [file EXCEPT ![i] = Xor(@, x)] /\ spoilt' = i
    BY DEF Spoil
  <1>2. x \in Byte \ {0}
    BY FormatAssumption
  <1>3. file[i] \in Byte
    BY ElementOfSeq
  <1>4. Xor(file[i], x) \in Byte
    BY <1>2, <1>3, XorTyped
  <1>5. /\ file' \in Seq(Byte) /\ Len(file') = Len(file) /\ file'[i] = Xor(file[i], x)
        /\ \A j \in 1 .. Len(file) : j # i => file'[j] = file[j]
    <2> DEFINE y == Xor(file[i], x)
    <2>1. file' = [file EXCEPT ![i] = y] /\ y \in Byte
      BY <1>1, <1>4
    <2> HIDE DEF y
    <2>2. /\ file' \in Seq(Byte) /\ Len(file') = Len(file) /\ file'[i] = y
          /\ \A j \in 1 .. Len(file) : j # i => file'[j] = file[j]
      BY <2>1, ExceptSeq
    <2> QED
      BY <2>2 DEF y
  <1> QED
    BY <1>1, <1>2, <1>5 DEF Changed

LEMMA FormatSpoil ==
    ASSUME FormatInv, Spoil
    PROVE  FormatInv'
  <1>1. /\ pc = "Made" /\ flash.bytes = <<>> /\ file \in Seq(Byte)
        /\ UNCHANGED <<pc, val, mask, options, list, used, done, cksum, size, flash>>
    BY DEF FormatInv, TypeOK, Spoil
  <1>2. PICK x \in Byte : Changed(file, spoilt', x, file')
    BY <1>1, SpoilFacts
  <1>3. file' \in Seq(Byte) /\ spoilt' \in 0 .. Len(file')
    BY <1>1, <1>2, LenProperties DEF Changed
  <1>4. ParmInv'
    BY <1>1, ParmKept DEF FormatInv
  <1>5. TypeOK'
    BY <1>1, <1>3 DEF FormatInv, TypeOK
  <1>6. StageInv'
    BY <1>1 DEF FormatInv, StageInv
  <1> QED
    BY <1>4, <1>5, <1>6 DEF FormatInv

\* The first block differs from the file in two bytes at most.
SentFrom(f, g) ==
    /\ g \in Seq(Byte) /\ Len(g) = Len(f)
    /\ \A i \in DOMAIN f \ {3, 4} : g[i] = f[i]

\* The two bytes hold the parameters.
LEMMA ParmsThere ==
    ASSUME NEW p, p["mode"] \in 0 .. 3, p["other"] \in 0 .. 63,
           p["size"] \in 0 .. 15, p["freq"] \in 0 .. 15,
           NEW f, f[3] = ParmBytes(p)[1], f[4] = ParmBytes(p)[2]
    PROVE  /\ ParmBytes(p)[1] \in Byte /\ ParmBytes(p)[2] \in Byte
           /\ \A b \in Bits : ParmsOf(f)[b] = p[b]
  <1>1. \A m \in 0 .. 3, o \in 0 .. 63 : /\ o * 4 + m \in Byte
                                         /\ (o * 4 + m) % 4 = m /\ (o * 4 + m) \div 4 = o
    BY DEF Byte
  <1>2. \A z, q \in 0 .. 15 : /\ z * 16 + q \in Byte
                              /\ (z * 16 + q) % 16 = q /\ (z * 16 + q) \div 16 = z
    BY DEF Byte
  <1>3. f[3] = p["other"] * 4 + p["mode"] /\ f[4] = p["size"] * 16 + p["freq"]
    BY DEF ParmBytes
  <1>4. /\ ParmsOf(f)["mode"] = p["mode"] /\ ParmsOf(f)["other"] = p["other"]
        /\ ParmsOf(f)["size"] = p["size"] /\ ParmsOf(f)["freq"] = p["freq"]
    BY <1>1, <1>2, <1>3 DEF ParmsOf
  <1> QED
    BY <1>1, <1>2, <1>3, <1>4, BitsAre

LEMMA ParmsTyped ==
    ASSUME NEW f, f[3] \in Byte, f[4] \in Byte
    PROVE  /\ ParmsOf(f)["mode"] \in 0 .. 3 /\ ParmsOf(f)["other"] \in 0 .. 63
           /\ ParmsOf(f)["size"] \in 0 .. 15 /\ ParmsOf(f)["freq"] \in 0 .. 15
  BY DEF ParmsOf, Byte

\* What the patch puts there.
LEMMA PatchFacts ==
    ASSUME ParmInv, NEW f, f[3] \in Byte, f[4] \in Byte
    PROVE  LET p == PatchedParms(f)
           IN  /\ p["mode"] \in 0 .. 3 /\ p["other"] \in 0 .. 63
               /\ p["size"] \in 0 .. 15 /\ p["freq"] \in 0 .. 15
               /\ \A b \in Bits : p[b] = IF Named(b) THEN Wanted(b) ELSE ParmsOf(f)[b]
  <1> DEFINE p == PatchedParms(f)
             o == ParmsOf(f)
  <1>1. /\ o["mode"] \in 0 .. 3 /\ o["other"] \in 0 .. 63
        /\ o["size"] \in 0 .. 15 /\ o["freq"] \in 0 .. 15
    BY ParmsTyped
  <1>2. \A b \in Bits : o[b] \in Byte
    BY <1>1, BitsAre DEF Byte
  <1>3. \A b \in Bits : val[b] \in 0 .. 3 /\ val[b] \in Byte
    BY DEF ParmInv, Byte
  <1> HIDE DEF o
  <1>4. \A b \in Bits : p[b] = Or(IF b \in mask THEN 0 ELSE o[b], val[b])
    BY DEF PatchedParms, o
  <1> HIDE DEF p
  <1>5. ASSUME NEW b \in Bits
        PROVE  p[b] = IF Named(b) THEN Wanted(b) ELSE o[b]
    <2>1. CASE Named(b)
      <3>1. b \in mask /\ val[b] = Wanted(b)
        BY <2>1 DEF ParmInv
      <3> QED
        BY <1>3, <1>4, <2>1, <3>1, OrZero
    <2>2. CASE ~Named(b)
      <3>1. b \notin mask /\ val[b] = 0
        BY <2>2 DEF ParmInv
      <3> QED
        BY <1>2, <1>4, <2>2, <3>1, OrZero
    <2> QED
      BY <2>1, <2>2
  <1>6. \A b \in Bits : p[b] = o[b] \/ (b \in Parms /\ p[b] \in 0 .. 3)
    <2> SUFFICES ASSUME NEW b \in Bits, Named(b)
                 PROVE  b \in Parms /\ p[b] \in 0 .. 3
      BY <1>5
    <2>1. val[b] = Wanted(b) /\ b \in Parms
      BY DEF ParmInv, Named
    <2> QED
      BY <1>3, <1>5, <2>1
  <1>7. /\ p["mode"] \in 0 .. 3 /\ p["other"] \in 0 .. 63
        /\ p["size"] \in 0 .. 15 /\ p["freq"] \in 0 .. 15
    <2>1. 0 .. 3 \subseteq 0 .. 15
      OBVIOUS
    <2> QED
      BY <1>1, <1>6, <2>1, BitsAre
  <1> QED
    BY <1>5, <1>7 DEF p, o

\* What a download sends.
LEMMA DownloadFacts ==
    ASSUME FormatInv, NEW zero \in BOOLEAN, Download(zero)
    PROVE  /\ flash'.zero = zero /\ flash' \in [zero : BOOLEAN, bytes : Seq(Byte)]
           /\ SentFrom(file, flash'.bytes)
           /\ IF zero /\ IsImage(file)
              THEN \A b \in Bits : ParmsOf(flash'.bytes)[b]
                                      = IF Named(b) THEN Wanted(b) ELSE ParmsOf(file)[b]
              ELSE flash'.bytes = file
  <1> DEFINE f == file
             p == PatchedParms(f)
             x == ParmBytes(p)[1]
             y == ParmBytes(p)[2]
             g == [f EXCEPT ![3] = x]
             h == [g EXCEPT ![4] = y]
             Patched == zero /\ IsImage(f) /\ mask # {}
  <1>1. f \in Seq(Byte) /\ Len(f) >= 4 /\ Len(f) \in Nat
    BY LenProperties DEF Download, FormatInv, TypeOK
  <1>2. flash' = [zero |-> zero, bytes |-> IF Patched THEN h ELSE f]
    BY DEF Download, ReplaceAt
  <1>3. flash'.zero = zero /\ flash'.bytes = IF Patched THEN h ELSE f
    BY <1>2
  <1>4. 3 \in 1 .. Len(f) /\ 4 \in 1 .. Len(f) /\ DOMAIN f = 1 .. Len(f)
    BY <1>1, LenProperties
  <1>5. f[3] \in Byte /\ f[4] \in Byte
    BY <1>1, <1>4, ElementOfSeq
  <1>6. /\ p["mode"] \in 0 .. 3 /\ p["other"] \in 0 .. 63
        /\ p["size"] \in 0 .. 15 /\ p["freq"] \in 0 .. 15
        /\ \A b \in Bits : p[b] = IF Named(b) THEN Wanted(b) ELSE ParmsOf(f)[b]
    BY <1>5, PatchFacts DEF FormatInv
  <1>7. x \in Byte /\ y \in Byte
    <2>1. \A q, r \in Nat : <<q, r>>[1] = q /\ <<q, r>>[2] = r
      OBVIOUS
    <2>2. \A o \in 0 .. 63, m \in 0 .. 3 : o * 4 + m \in Byte
      BY DEF Byte
    <2>3. \A q, r \in 0 .. 15 : q * 16 + r \in Byte
      BY DEF Byte
    <2> HIDE DEF p
    <2> QED
      BY <1>6, <2>1, <2>2, <2>3 DEF ParmBytes
  <1> HIDE DEF f, p, x, y
  <1>8. /\ g \in Seq(Byte) /\ Len(g) = Len(f) /\ g[3] = x
        /\ \A i \in 1 .. Len(f) : i # 3 => g[i] = f[i]
    BY <1>1, <1>4, <1>7, ExceptSeq
  <1> HIDE DEF g
  <1>9. /\ h \in Seq(Byte) /\ Len(h) = Len(f) /\ h[4] = y
        /\ \A i \in 1 .. Len(f) : i # 4 => h[i] = g[i]
    BY <1>4, <1>7, <1>8, ExceptSeq
  <1> HIDE DEF h
  <1>10. h[3] = x /\ h[4] = y /\ SentFrom(f, h)
    BY <1>4, <1>8, <1>9 DEF SentFrom
  <1>11. SentFrom(f, f)
    BY <1>1 DEF SentFrom
  <1>12. \A b \in Bits : ParmsOf(h)[b] = p[b]
    BY <1>6, <1>10, ParmsThere DEF x, y
  <1>13. flash'.bytes \in Seq(Byte) /\ SentFrom(f, flash'.bytes)
    BY <1>1, <1>3, <1>9, <1>10, <1>11
  <1>14. flash' \in [zero : BOOLEAN, bytes : Seq(Byte)]
    BY <1>1, <1>2, <1>9
  <1>15. ASSUME zero, IsImage(f), NEW b \in Bits
         PROVE  ParmsOf(flash'.bytes)[b] = IF Named(b) THEN Wanted(b) ELSE ParmsOf(f)[b]
    <2>1. CASE mask # {}
      BY <1>3, <1>6, <1>12, <1>15, <2>1
    <2>2. CASE mask = {}
      <3>1. ~Named(b)
        BY <2>2 DEF FormatInv, ParmInv
      <3>2. flash'.bytes = f
        BY <1>3, <2>2
      <3> QED
        BY <3>1, <3>2
    <2> QED
      BY <2>1, <2>2
  <1>16. ~(zero /\ IsImage(f)) => flash'.bytes = f
    BY <1>3
  <1> QED
    BY <1>3, <1>13, <1>14, <1>15, <1>16 DEF f

LEMMA FormatDownload ==
    ASSUME FormatInv, NEW zero \in BOOLEAN, Download(zero)
    PROVE  FormatInv'
  <1>1. /\ pc \in {"Made", "Raw"} /\ Len(file) >= 4
        /\ UNCHANGED <<pc, val, mask, options, list, used, done, cksum, size, file, spoilt>>
    BY DEF Download
  <1>2. flash' \in [zero : BOOLEAN, bytes : Seq(Byte)]
    BY DownloadFacts
  <1>3. ParmInv'
    BY <1>1, ParmKept DEF FormatInv
  <1>4. TypeOK'
    BY <1>1, <1>2 DEF FormatInv, TypeOK
  <1>5. StageInv'
    BY <1>1 DEF FormatInv, StageInv
  <1> QED
    BY <1>3, <1>4, <1>5 DEF FormatInv

LEMMA FormatUnchanged ==
    ASSUME FormatInv, UNCHANGED vars
    PROVE  FormatInv'
  <1>1. ParmInv'
    BY ParmKept DEF FormatInv, vars
  <1>2. TypeOK' /\ StageInv'
    BY DEF FormatInv, TypeOK, StageInv, vars
  <1> QED
    BY <1>1, <1>2 DEF FormatInv

LEMMA FormatNext == FormatInv /\ [Next]_vars => FormatInv'
  <1> SUFFICES ASSUME FormatInv, [Next]_vars PROVE FormatInv'
    OBVIOUS
  <1>1. CASE SetOption
    BY <1>1, OptionsSet, FormatSetParms
  <1>2. CASE MakeImage
    BY <1>2, FormatMakeImage
  <1>3. CASE WriteHeader
    BY <1>3, FormatWriteHeader
  <1>4. CASE NoSection
    BY <1>4, FormatNoSection
  <1>5. CASE WriteSegment
    BY <1>5, FormatWriteSegment
  <1>6. CASE WritePadding
    BY <1>6, FormatWritePadding
  <1>7. CASE MakeRaw
    BY <1>7, FormatMakeRaw
  <1>8. CASE Spoil
    BY <1>8, FormatSpoil
  <1>9. ASSUME NEW zero \in BOOLEAN, Download(zero) PROVE FormatInv'
    BY <1>9, FormatDownload
  <1>10. CASE UNCHANGED vars
    BY <1>10, FormatUnchanged
  <1> QED
    BY <1>1, <1>2, <1>3, <1>4, <1>5, <1>6, <1>7, <1>8, <1>9, <1>10 DEF Next

LEMMA FormatAlways == Spec => []FormatInv
  <1> QED
    BY FormatInit, FormatNext, PTL DEF Spec

\* The variables of the making of images have their types (esp.cpp:590-681).
THEOREM FormatTyped == Spec => []TypeOK
  <1>1. FormatInv => TypeOK
    BY DEF FormatInv
  <1> QED
    BY <1>1, FormatAlways, PTL

-----------------------------------------------------------------------------
(* The download *)

\* The first block is made of the file, and nothing changes any more.
SentInv == flash.bytes # <<>> => SentFrom(file, flash.bytes) /\ ParmsArrive

LEMMA SentNext ==
    ASSUME FormatInv, SentInv, [Next]_vars
    PROVE  SentInv'
  <1>1. CASE \E zero \in BOOLEAN : Download(zero)
    <2>1. PICK zero \in BOOLEAN : Download(zero)
      BY <1>1
    <2>2. /\ flash'.zero = zero /\ SentFrom(file, flash'.bytes)
          /\ IF zero /\ IsImage(file)
             THEN \A b \in Bits : ParmsOf(flash'.bytes)[b]
                                     = IF Named(b) THEN Wanted(b) ELSE ParmsOf(file)[b]
             ELSE flash'.bytes = file
      BY <2>1, DownloadFacts
    <2>3. UNCHANGED <<file, options>>
      BY <2>1 DEF Download
    <2>4. [i \in DOMAIN file \ {3, 4} |-> flash'.bytes[i]]
             = [i \in DOMAIN file \ {3, 4} |-> file[i]]
      BY <2>2 DEF SentFrom
    <2>5. \A b : Named(b)' = Named(b) /\ Wanted(b)' = Wanted(b)
      <3>1. options' = options
        BY <2>3
      <3> QED
        BY <3>1 DEF Named, Wanted, SelectLastInSeq
    <2>6. IsBootImage' = IsImage(file) /\ file' = file
      BY <2>3 DEF IsBootImage, IsImage
    <2>7. ParmsArrive'
      BY <2>2, <2>4, <2>5, <2>6 DEF ParmsArrive
    <2> QED
      BY <2>2, <2>3, <2>7 DEF SentInv
  <1>2. CASE UNCHANGED <<file, flash, options>>
    <2>1. SentFrom(file, flash.bytes)' <=> SentFrom(file, flash.bytes)
      BY <1>2
    <2>2. file' = file /\ flash' = flash /\ options' = options
      BY <1>2
    <2>3. \A b : Named(b)' = Named(b) /\ Wanted(b)' = Wanted(b)
      BY <2>2 DEF Named, Wanted, SelectLastInSeq
    <2>4. ParmsArrive => ParmsArrive'
      BY <2>2, <2>3 DEF ParmsArrive, IsBootImage
    <2> QED
      BY <1>2, <2>1, <2>4 DEF SentInv
  <1>3. CASE ~(\E zero \in BOOLEAN : Download(zero)) /\ Next
    <2>1. flash' = flash
      BY <1>3 DEF Next, SetOption, SetParms, MakeImage, WriteHeader, NoSection,
                  WriteSegment, WritePadding, MakeRaw, Spoil, Rest
    <2>2. CASE flash.bytes = <<>>
      BY <2>1, <2>2 DEF SentInv
    <2>3. CASE flash.bytes # <<>>
      <3>1. pc \in {"Made", "Raw"}
        BY <2>3 DEF FormatInv, StageInv
      <3>2. FALSE
        BY <1>3, <2>3, <3>1 DEF Next, SetOption, SetParms, MakeImage, WriteHeader, NoSection,
                  WriteSegment, WritePadding, MakeRaw, Spoil
      <3> QED
        BY <3>2
    <2> QED
      BY <2>2, <2>3
  <1> QED
    BY <1>1, <1>2, <1>3 DEF vars

LEMMA SentAlways == Spec => []SentInv
  <1>1. Init => SentInv
    BY DEF Init, SentInv
  <1> QED
    BY <1>1, FormatAlways, SentNext, PTL DEF Spec

\* The parameters of the Flash arrive in the header with the value the last
\* option that names them gave, and nothing else of the image is changed on
\* its way (esp.cpp:503, esp_tool.cpp:1273).
THEOREM ParmsArriveAlways == Spec => []ParmsArrive
  <1>1. SentInv => ParmsArrive
    BY DEF SentInv, ParmsArrive
  <1> QED
    BY <1>1, SentAlways, PTL

-----------------------------------------------------------------------------
(* Where the bytes of an image are *)

\* The segments end one after the other.
LEMMA EndsRise ==
    ASSUME NEW f, NEW k \in Nat, NEW e, NEW E, Laid(f, k, e, E)
    PROVE  \A j \in 0 .. k : \A i \in 0 .. j : e[i] <= e[j]
  <1> DEFINE G == {j \in 0 .. k : \A i \in 0 .. j : e[i] <= e[j]}
  <1>1. \A i \in 0 .. k : e[i] \in Nat
    BY DEF Laid
  <1>2. ASSUME NEW j \in 1 .. k PROVE e[j - 1] <= e[j]
    <2>1. e[j] = e[j - 1] + 8 + Len(E[j].data) /\ Len(E[j].data) \in Nat
      BY LenProperties DEF Laid, Segments
    <2>2. j - 1 \in 0 .. k /\ j \in 0 .. k
      BY <1>2
    <2> QED
      BY <1>1, <2>1, <2>2
  <1>3. 0 \in G
    BY <1>1
  <1>4. ASSUME NEW j \in 1 .. k, j - 1 \in G PROVE j \in G
    <2>1. \A i \in 0 .. j - 1 : e[i] <= e[j - 1]
      BY <1>4
    <2>2. j \in 0 .. k /\ j - 1 \in 0 .. k
      BY <1>4
    <2> SUFFICES ASSUME NEW i \in 0 .. j PROVE e[i] <= e[j]
      BY <2>2
    <2>3. CASE i = j
      BY <1>1, <2>2, <2>3
    <2>4. CASE i # j
      <3>1. i \in 0 .. j - 1 /\ i \in 0 .. k
        BY <2>2, <2>4
      <3> QED
        BY <1>1, <1>2, <2>1, <2>2, <3>1
    <2> QED
      BY <2>3, <2>4
  <1> HIDE DEF G
  <1>5. \A j \in 0 .. k : j \in G
    BY <1>3, <1>4, BoundedInduction
  <1> QED
    BY <1>5 DEF G

\* Four bytes in the same place say the same.
LEMMA SameNumber ==
    ASSUME NEW f, NEW g, NEW p \in Nat, NEW q \in Nat,
           \A i \in 1 .. 4 : g[q + i] = f[p + i]
    PROVE  Number(g, q) = Number(f, p)
  <1>1. /\ g[q + 1] = f[p + 1] /\ g[q + 2] = f[p + 2]
        /\ g[q + 3] = f[p + 3] /\ g[q + 4] = f[p + 4]
    OBVIOUS
  <1> QED
    BY <1>1 DEF Number

\* The place of segment i.
LEMMA Places ==
    ASSUME NEW f, NEW k \in Nat, NEW e, NEW E, Laid(f, k, e, E), NEW i \in 1 .. k
    PROVE  /\ e[i - 1] \in Nat /\ e[i - 1] >= 8 /\ e[i] \in Nat
           /\ Len(E[i].data) \in Nat /\ e[i] = e[i - 1] + 8 + Len(E[i].data)
           /\ e[k] \in Nat /\ e[i] <= e[k] /\ E[i].data \in Seq(Byte)
  <1>1. i \in 0 .. k /\ i - 1 \in 0 .. k /\ k \in 0 .. k
    OBVIOUS
  <1>2. E[i].data \in Seq(Byte)
    BY DEF Laid, Segments
  <1>3. Len(E[i].data) \in Nat
    BY <1>2, LenProperties
  <1>4. /\ e[i - 1] \in Nat /\ e[i - 1] >= 8 /\ e[i] \in Nat /\ e[k] \in Nat
        /\ e[i] = e[i - 1] + 8 + Len(E[i].data)
    BY <1>1 DEF Laid
  <1>5. e[i] <= e[k]
    BY <1>1, EndsRise
  <1> QED
    BY <1>2, <1>3, <1>4, <1>5

\* A file with the same bytes there has the same segments.
LEMMA LaidSame ==
    ASSUME NEW f, NEW k \in Nat, NEW e, NEW E, Laid(f, k, e, E),
           NEW g, Len(g) \in Nat, e[k] <= Len(g), \A i \in 9 .. e[k] : g[i] = f[i]
    PROVE  Laid(g, k, e, E)
  <1>1. ASSUME NEW i \in 1 .. k
        PROVE  /\ Number(g, e[i - 1]) = Number(f, e[i - 1])
               /\ Number(g, e[i - 1] + 4) = Number(f, e[i - 1] + 4)
               /\ e[i] <= Len(g)
               /\ \A j \in 1 .. Len(E[i].data) : g[e[i - 1] + 8 + j] = f[e[i - 1] + 8 + j]
    <2>0. /\ e[i - 1] \in Nat /\ e[i - 1] >= 8 /\ e[i] \in Nat
          /\ Len(E[i].data) \in Nat /\ e[i] = e[i - 1] + 8 + Len(E[i].data)
          /\ e[k] \in Nat /\ e[i] <= e[k]
      <3>1. Laid(f, k, e, E) /\ k \in Nat /\ i \in 1 .. k
        OBVIOUS
      <3> QED
        BY ONLY <3>1, Places
    <2> DEFINE a == e[i - 1]
               n == Len(E[i].data)
               b == e[i]
               z == e[k]
    <2>1. a \in Nat /\ a >= 8 /\ n \in Nat /\ b = a + 8 + n /\ z \in Nat /\ b <= z
      BY <2>0
    <2>2. z <= Len(g) /\ \A j \in 9 .. z : g[j] = f[j]
      OBVIOUS
    <2> HIDE DEF a, b, n, z
    <2>3. \A j \in 1 .. 8 : g[a + j] = f[a + j]
      BY <2>1, <2>2
    <2>4. \A j \in 1 .. 4 : g[a + j] = f[a + j] /\ g[(a + 4) + j] = f[(a + 4) + j]
      <3> SUFFICES ASSUME NEW j \in 1 .. 4
                   PROVE  g[a + j] = f[a + j] /\ g[(a + 4) + j] = f[(a + 4) + j]
        OBVIOUS
      <3>1. j \in 1 .. 8 /\ 4 + j \in 1 .. 8 /\ (a + 4) + j = a + (4 + j)
        BY <2>1
      <3> QED
        BY <2>3, <3>1
    <2>5. Number(g, a) = Number(f, a) /\ Number(g, a + 4) = Number(f, a + 4)
      <3>1. a + 4 \in Nat
        BY <2>1
      <3> QED
        BY <2>1, <2>4, <3>1, SameNumber
    <2>6. \A j \in 1 .. n : g[a + 8 + j] = f[a + 8 + j]
      <3> SUFFICES ASSUME NEW j \in 1 .. n PROVE g[a + 8 + j] = f[a + 8 + j]
        OBVIOUS
      <3>1. a + 8 + j \in 9 .. z
        BY <2>1
      <3> QED
        BY <2>2, <3>1
    <2>7. b <= Len(g)
      BY <2>1, <2>2
    <2> QED
      BY <2>5, <2>6, <2>7 DEF a, b, n
  <1> QED
    BY <1>1 DEF Laid

\* g has the bytes of f and one more segment, X[k + 1].
Extended(f, k, e, E, g, d, X) ==
    /\ Laid(f, k, e, E) /\ Len(g) \in Nat /\ \A i \in 9 .. e[k] : g[i] = f[i]
    /\ X \in [1 .. k + 1 -> Segments] /\ \A i \in 1 .. k : X[i] = E[i]
    /\ d \in [0 .. k + 1 -> Nat] /\ \A i \in 0 .. k : d[i] = e[i]
    /\ d[k + 1] = e[k] + 8 + Len(X[k + 1].data) /\ d[k + 1] <= Len(g)
    /\ Number(g, e[k]) = X[k + 1].addr
    /\ Number(g, e[k] + 4) = Len(X[k + 1].data)
    /\ \A j \in 1 .. Len(X[k + 1].data) : g[e[k] + 8 + j] = X[k + 1].data[j]

LEMMA LaidLonger ==
    ASSUME NEW f, NEW k \in Nat, NEW e, NEW E, NEW g, NEW d, NEW X,
           Extended(f, k, e, E, g, d, X)
    PROVE  Laid(g, k + 1, d, X)
  <1>a. /\ Laid(f, k, e, E) /\ Len(g) \in Nat /\ X \in [1 .. k + 1 -> Segments]
        /\ d \in [0 .. k + 1 -> Nat] /\ \A i \in 0 .. k : d[i] = e[i]
        /\ d[k + 1] = e[k] + 8 + Len(X[k + 1].data) /\ d[k + 1] <= Len(g)
        /\ \A i \in 1 .. k : X[i] = E[i]
        /\ \A i \in 9 .. e[k] : g[i] = f[i]
        /\ Number(g, e[k]) = X[k + 1].addr
        /\ Number(g, e[k] + 4) = Len(X[k + 1].data)
        /\ \A j \in 1 .. Len(X[k + 1].data) : g[e[k] + 8 + j] = X[k + 1].data[j]
    BY DEF Extended
  <1> DEFINE n == Len(X[k + 1].data)
  <1>1. n \in Nat
    <2>1. k + 1 \in 1 .. k + 1
      OBVIOUS
    <2> QED
      BY <1>a, <2>1, LenProperties DEF Segments
  <1>2. e \in [0 .. k -> Nat] /\ e[0] = 8 /\ k \in 0 .. k /\ e[k] \in Nat
        /\ \A i \in 0 .. k : e[i] >= 8
    <2>1. Laid(f, k, e, E) /\ k \in Nat
      BY <1>a
    <2> QED
      BY ONLY <2>1 DEF Laid
  <1>3. Laid(g, k, e, E)
    <2>1. e[k] <= Len(g)
      BY <1>a, <1>1, <1>2
    <2> QED
      BY <1>a, <2>1, LaidSame
  <1>9. \A i \in 1 .. k : /\ e[i] = e[i - 1] + 8 + Len(E[i].data)
                         /\ Number(g, e[i - 1]) = E[i].addr
                         /\ Number(g, e[i - 1] + 4) = Len(E[i].data)
                         /\ e[i] <= Len(g)
                         /\ \A j \in 1 .. Len(E[i].data) :
                               g[e[i - 1] + 8 + j] = E[i].data[j]
    BY ONLY <1>3 DEF Laid
  <1>4. \A i \in 0 .. k : d[i] = e[i] /\ i \in 0 .. k + 1
    BY <1>a
  <1>5. d[k + 1] = e[k] + 8 + n /\ k + 1 \in 0 .. k + 1
    BY <1>a
  <1>6. d \in [0 .. k + 1 -> Nat]
    BY <1>a
  <1> HIDE DEF n
  <1>7. d[0] = 8 /\ \A i \in 0 .. k + 1 : d[i] >= 8
    <2>1. 0 \in 0 .. k /\ \A i \in 0 .. k + 1 : i \in 0 .. k \/ i = k + 1
      OBVIOUS
    <2>2. e[k] + 8 + n >= 8
      BY <1>1, <1>2
    <2> QED
      BY <1>2, <1>4, <1>5, <2>1, <2>2
  <1>8. ASSUME NEW i \in 1 .. k + 1
        PROVE  /\ d[i] = d[i - 1] + 8 + Len(X[i].data)
               /\ Number(g, d[i - 1]) = X[i].addr
               /\ Number(g, d[i - 1] + 4) = Len(X[i].data)
               /\ d[i] <= Len(g)
               /\ \A j \in 1 .. Len(X[i].data) : g[d[i - 1] + 8 + j] = X[i].data[j]
    <2>1. CASE i \in 1 .. k
      <3>1. d[i] = e[i] /\ d[i - 1] = e[i - 1] /\ X[i] = E[i]
        <4>1. i \in 0 .. k /\ i - 1 \in 0 .. k
          BY <2>1
        <4> QED
          BY <1>a, <1>4, <2>1, <4>1
      <3> QED
        BY <1>9, <2>1, <3>1
    <2>2. CASE i = k + 1
      <3>1. d[i] = e[k] + 8 + n /\ d[i - 1] = e[k] /\ Len(X[i].data) = n
        <4>1. i - 1 = k
          BY <2>2
        <4> QED
          BY <1>2, <1>4, <1>5, <2>2, <4>1 DEF n
      <3>2. /\ Number(g, e[k]) = X[i].addr /\ Number(g, e[k] + 4) = n
            /\ e[k] + 8 + n <= Len(g)
            /\ \A j \in 1 .. n : g[e[k] + 8 + j] = X[i].data[j]
        BY <1>a, <2>2 DEF n
      <3> HIDE DEF n
      <3> QED
        BY <3>1, <3>2
    <2>3. i \in 1 .. k \/ i = k + 1
      OBVIOUS
    <2> QED
      BY ONLY <2>1, <2>2, <2>3
  <1> QED
    BY <1>a, <1>6, <1>7, <1>8 DEF Laid

LEMMA SummedLonger ==
    ASSUME NEW k \in Nat, NEW E, NEW c, Summed(k, E, c),
           NEW X \in [1 .. k + 1 -> Segments], \A i \in 1 .. k : X[i] = E[i],
           NEW d, d = [i \in 0 .. k + 1 |->
                         IF i <= k THEN c[i] ELSE Checksum(c[k], X[k + 1].data)]
    PROVE  Summed(k + 1, X, d)
  <1>1. c \in [0 .. k -> Byte] /\ c[0] = CKSUM_MAGIC /\ k \in 0 .. k /\ 0 \in 0 .. k
    BY DEF Summed
  <1>2. Checksum(c[k], X[k + 1].data) \in Byte
    <2>1. k + 1 \in 1 .. k + 1 /\ c[k] \in Byte
      BY <1>1
    <2>2. X[k + 1].data \in Seq(Byte)
      BY <2>1 DEF Segments
    <2> QED
      BY <2>1, <2>2, ChecksumTyped
  <1>3. \A i \in 0 .. k + 1 : i \in 0 .. k \/ i = k + 1
    OBVIOUS
  <1>4. \A i \in 0 .. k : d[i] = c[i] /\ i \in 0 .. k + 1
    OBVIOUS
  <1>5. d[k + 1] = Checksum(c[k], X[k + 1].data)
    OBVIOUS
  <1>6. d \in [0 .. k + 1 -> Byte]
    <2>1. ASSUME NEW i \in 0 .. k + 1
          PROVE  (IF i <= k THEN c[i] ELSE Checksum(c[k], X[k + 1].data)) \in Byte
      <3>1. i <= k => i \in 0 .. k
        OBVIOUS
      <3> QED
        BY <1>1, <1>2, <3>1
    <2> QED
      BY <2>1
  <1>7. ASSUME NEW i \in 1 .. k + 1
        PROVE  d[i] = Checksum(d[i - 1], X[i].data)
    <2>1. CASE i \in 1 .. k
      <3>1. i \in 0 .. k /\ i - 1 \in 0 .. k
        BY <2>1
      <3> QED
        BY <1>4, <2>1, <3>1 DEF Summed
    <2>2. CASE i = k + 1
      <3>1. i - 1 = k
        BY <2>2
      <3> QED
        BY <1>1, <1>4, <1>5, <2>2, <3>1
    <2> QED
      BY <2>1, <2>2
  <1> QED
    BY <1>1, <1>4, <1>6, <1>7 DEF Summed

-----------------------------------------------------------------------------
(* The image that is made *)

\* The segments of the first k sections asked for.
Plan(k) == [i \in 1 .. k |-> [addr |-> Asked[i].addr, data |-> Padded(Asked[i])]]

\* f begins with the header and k segments, which end at e[1] to e[k] and have
\* the checksums c[1] to c[k].
Begun(f, k, e, c) ==
    /\ Headed(f) /\ f[2] = Len(list)
    /\ Laid(f, k, e, Plan(k)) /\ Summed(k, Plan(k), c)

\* All of it is there, and the tail.
Complete(f, e, c) ==
    LET k == Len(list)
    IN  /\ Begun(f, k, e, c) /\ Len(f) = e[k] + TailSize(e[k])
        /\ \A i \in 1 .. TailSize(e[k]) - 1 : f[e[k] + i] = 0
        /\ f[Len(f)] = c[k]

\* What the file holds when no seek fails.
FileInv ==
    /\ pc \in {"Segment", "Padding"} =>
          \E e, c : /\ Begun(file, done, e, c) /\ Len(file) = e[done]
                    /\ size = e[done] /\ cksum = c[done]
    /\ pc = "Made" /\ spoilt = 0 => \E e, c : Complete(file, e, c)
    /\ StumpNoticed /\ DataGuarded

\* The section done next is the next of the plan.
LEMMA NextOfPlan ==
    ASSUME list \in Seq(Names), NEW k \in Nat, k < Len(list),
           NEW s, s = Elf[SectionNum(list[k + 1])]
    PROVE  /\ \A i \in 1 .. k : Plan(k + 1)[i] = Plan(k)[i]
           /\ Plan(k + 1)[k + 1] = [addr |-> s.addr, data |-> Padded(s)]
  <1>1. Len(list) \in Nat
    BY LenProperties
  <1>2. k + 1 \in 1 .. Len(list) /\ k + 1 \in 1 .. k + 1 /\ \A i \in 1 .. k : i \in 1 .. k + 1
    BY <1>1
  <1>3. Asked[k + 1] = s
    BY <1>2 DEF Asked
  <1> QED
    BY <1>2, <1>3 DEF Plan

LEMMA PlanTyped ==
    ASSUME list \in Seq(Names), NEW k \in Nat, k < Len(list),
           NEW s \in Section, s = Elf[SectionNum(list[k + 1])],
           Plan(k) \in [1 .. k -> Segments]
    PROVE  Plan(k + 1) \in [1 .. k + 1 -> Segments]
  <1>1. [addr |-> s.addr, data |-> Padded(s)] \in Segments
    <2>1. s.addr \in Word
      BY DEF Section
    <2> QED
      BY <2>1, PaddedFacts DEF Segments
  <1>2. \A i \in 1 .. k : Plan(k + 1)[i] = Plan(k)[i]
    BY NextOfPlan
  <1>3. Plan(k + 1)[k + 1] = [addr |-> s.addr, data |-> Padded(s)]
    BY NextOfPlan
  <1>4. ASSUME NEW i \in 1 .. k + 1 PROVE Plan(k + 1)[i] \in Segments
    <2>1. CASE i \in 1 .. k
      BY <1>2, <2>1
    <2>2. CASE i = k + 1
      BY <1>1, <1>3, <2>2
    <2>3. i \in 1 .. k \/ i = k + 1
      OBVIOUS
    <2> QED
      BY ONLY <2>1, <2>2, <2>3
  <1>5. Plan(k + 1) = [i \in 1 .. k + 1 |-> Plan(k + 1)[i]]
    BY DEF Plan
  <1> QED
    BY <1>4, <1>5

\* With the header written no segment is there yet.
LEMMA NoneYet ==
    ASSUME NEW f, Headed(f), f[2] = Len(list), NEW e, e = [i \in 0 .. 0 |-> 8],
           NEW c, c = [i \in 0 .. 0 |-> CKSUM_MAGIC]
    PROVE  Begun(f, 0, e, c)
  <1>1. Plan(0) \in [1 .. 0 -> Segments]
    BY DEF Plan
  <1>2. e \in [0 .. 0 -> Nat] /\ e[0] = 8 /\ \A i \in 0 .. 0 : e[i] >= 8
    OBVIOUS
  <1>3. CKSUM_MAGIC \in Byte
    BY DEF CKSUM_MAGIC, Byte
  <1>4. c \in [0 .. 0 -> Byte] /\ c[0] = CKSUM_MAGIC
    BY <1>3
  <1>5. \A i \in 1 .. 0 : FALSE
    OBVIOUS
  <1>6. Laid(f, 0, e, Plan(0))
    BY <1>1, <1>2, <1>5 DEF Laid
  <1>7. Summed(0, Plan(0), c)
    BY <1>4, <1>5 DEF Summed
  <1> QED
    BY <1>6, <1>7 DEF Begun

\* Longer files begin alike.
LEMMA BegunLonger ==
    ASSUME NEW k \in Nat, NEW f, NEW e, NEW c, Begun(f, k, e, c), Len(f) = e[k],
           NEW s \in Seq(Byte), NEW g, Longer(f, s, g)
    PROVE  Begun(g, k, e, c) /\ Len(g) = e[k] + Len(s) /\ e[k] \in Nat /\ e[k] >= 8
  <1>1. /\ Headed(f) /\ f[2] = Len(list) /\ Laid(f, k, e, Plan(k)) /\ Summed(k, Plan(k), c)
    BY DEF Begun
  <1>2. k \in 0 .. k /\ e[k] \in Nat /\ e[k] >= 8
    BY <1>1 DEF Laid
  <1>3. /\ g \in Seq(Byte) /\ Len(g) = Len(f) + Len(s) /\ \A i \in 1 .. Len(f) : g[i] = f[i]
    BY DEF Longer
  <1>4. Len(s) \in Nat /\ Len(g) \in Nat /\ Len(g) = e[k] + Len(s) /\ e[k] <= Len(g)
    BY <1>2, <1>3, LenProperties
  <1>5. \A i \in 9 .. e[k] : g[i] = f[i]
    BY <1>2, <1>3
  <1>6. Laid(g, k, e, Plan(k))
    BY <1>1, <1>4, <1>5, LaidSame
  <1>7. g[1] = f[1] /\ g[2] = f[2] /\ Len(g) >= 8
    BY <1>2, <1>3, <1>4
  <1>8. Headed(g)
    BY <1>1, <1>3, <1>7 DEF Headed
  <1> QED
    BY <1>1, <1>2, <1>4, <1>6, <1>7, <1>8 DEF Begun

\* The header of a segment is read as it was written.
LEMMA SegmentThere ==
    ASSUME NEW s \in Section, Len(s.data) \in 0 .. Limit - 4,
           NEW g, NEW a \in Nat, \A i \in 1 .. 8 : g[a + i] = Segment(s)[i]
    PROVE  Number(g, a) = s.addr /\ Number(g, a + 4) = RoundUp(Len(s.data))
  <1> DEFINE h == Segment(s)
  <1>1. Number(h, 0) = s.addr /\ Number(h, 4) = RoundUp(Len(s.data))
    BY SegmentFacts
  <1>2. \A i \in 1 .. 8 : g[a + i] = h[i]
    OBVIOUS
  <1> HIDE DEF h
  <1>3. \A i \in 1 .. 4 : g[a + i] = h[0 + i] /\ g[(a + 4) + i] = h[4 + i]
    <2> SUFFICES ASSUME NEW i \in 1 .. 4
                 PROVE  g[a + i] = h[0 + i] /\ g[(a + 4) + i] = h[4 + i]
      OBVIOUS
    <2>1. i \in 1 .. 8 /\ 4 + i \in 1 .. 8 /\ (a + 4) + i = a + (4 + i) /\ 0 + i = i
      OBVIOUS
    <2> QED
      BY <1>2, <2>1
  <1>4. 0 \in Nat /\ 4 \in Nat /\ a + 4 \in Nat
    OBVIOUS
  <1>5. Number(g, a) = Number(h, 0)
    BY <1>3, <1>4, SameNumber
  <1>6. Number(g, a + 4) = Number(h, 4)
    BY <1>3, <1>4, SameNumber
  <1> QED
    BY <1>1, <1>5, <1>6

\* s is the section after the first k of the list, and g is f with its segment.
Adds(f, k, e, c, s, g) ==
    /\ k < Len(list) /\ s = Elf[SectionNum(list[k + 1])]
    /\ s \in Section /\ Len(s.data) \in 0 .. Limit - 4
    /\ Begun(f, k, e, c) /\ Len(f) = e[k]
    /\ Longer(f, Segment(s) \o Padded(s), g)

LEMMA BegunOneMore ==
    ASSUME list \in Seq(Names), NEW k \in Nat, NEW s, NEW f, NEW e, NEW c, NEW g,
           Adds(f, k, e, c, s, g)
    PROVE  \E d, b : /\ Begun(g, k + 1, d, b) /\ Len(g) = d[k + 1]
                     /\ d[k + 1] = e[k] + 8 + RoundUp(Len(s.data))
                     /\ b[k + 1] = Checksum(c[k], s.data)
  <1>a. /\ k < Len(list) /\ s = Elf[SectionNum(list[k + 1])]
        /\ s \in Section /\ Len(s.data) \in 0 .. Limit - 4
        /\ Begun(f, k, e, c) /\ Len(f) = e[k]
        /\ Longer(f, Segment(s) \o Padded(s), g)
    BY DEF Adds
  <1> DEFINE seg == Segment(s) \o Padded(s)
             p == Padded(s)
             n == RoundUp(Len(s.data))
             X == Plan(k + 1)
             a == e[k]
             d == [i \in 0 .. k + 1 |-> IF i <= k THEN e[i] ELSE a + 8 + Len(X[k + 1].data)]
             b == [i \in 0 .. k + 1 |-> IF i <= k THEN c[i] ELSE Checksum(c[k], X[k + 1].data)]
  <1>1. /\ seg \in Seq(Byte) /\ Len(seg) = 8 + n
        /\ \A i \in 1 .. 8 : seg[i] = Segment(s)[i]
        /\ \A i \in 1 .. n : seg[8 + i] = p[i]
    BY <1>a, SegmentTyped
  <1>2. p \in Seq(Byte) /\ Len(p) = n /\ n \in Nat
    BY <1>a, PaddedFacts, RoundUpFits, RoundUpFacts
  <1>3. Begun(g, k, e, c) /\ Len(g) = a + Len(seg) /\ a \in Nat /\ a >= 8
    BY <1>a, <1>1, BegunLonger
  <1>4. /\ \A i \in 1 .. a : g[i] = f[i]
        /\ \A i \in 1 .. Len(seg) : g[a + i] = seg[i]
    BY <1>a, <1>3 DEF Longer
  <1>5. X[k + 1] = [addr |-> s.addr, data |-> p] /\ \A i \in 1 .. k : X[i] = Plan(k)[i]
    BY <1>a, NextOfPlan
  <1>6. X[k + 1].addr = s.addr /\ X[k + 1].data = p /\ Len(X[k + 1].data) = n
    BY <1>2, <1>5
  <1>7. Laid(f, k, e, Plan(k)) /\ Summed(k, Plan(k), c) /\ Headed(f) /\ f[2] = Len(list)
    BY <1>a DEF Begun
  <1>8. X \in [1 .. k + 1 -> Segments]
    <2>1. Plan(k) \in [1 .. k -> Segments]
      BY <1>7 DEF Laid
    <2> QED
      BY <1>a, <2>1, PlanTyped
  <1> HIDE DEF seg, p, n, X, a
  <1>9. Number(g, a) = s.addr /\ Number(g, a + 4) = n
    <2>1. \A i \in 1 .. 8 : g[a + i] = Segment(s)[i]
      <3>1. \A i \in 1 .. 8 : i \in 1 .. Len(seg)
        BY <1>1, <1>2
      <3> QED
        BY <1>1, <1>4, <3>1
    <2> QED
      BY <1>a, <1>3, <2>1, SegmentThere DEF n
  <1>10. \A j \in 1 .. n : g[a + 8 + j] = p[j]
    <2> SUFFICES ASSUME NEW j \in 1 .. n PROVE g[a + 8 + j] = p[j]
      OBVIOUS
    <2>1. 8 + j \in 1 .. Len(seg) /\ a + 8 + j = a + (8 + j)
      BY <1>1, <1>2, <1>3
    <2> QED
      BY <1>1, <1>4, <2>1
  <1>11. Len(g) = a + 8 + n /\ Len(g) \in Nat
    BY <1>1, <1>2, <1>3
  <1>12. /\ d \in [0 .. k + 1 -> Nat] /\ d[k + 1] = a + 8 + n
         /\ \A i \in 0 .. k : d[i] = e[i]
    <2>1. \A i \in 0 .. k : e[i] \in Nat
      BY <1>7 DEF Laid
    <2>2. ASSUME NEW i \in 0 .. k + 1
          PROVE  (IF i <= k THEN e[i] ELSE a + 8 + Len(X[k + 1].data)) \in Nat
      <3>1. i <= k => i \in 0 .. k
        OBVIOUS
      <3> QED
        BY <1>2, <1>3, <1>6, <2>1, <3>1
    <2>3. d \in [0 .. k + 1 -> Nat]
      BY <2>2
    <2>4. k + 1 \in 0 .. k + 1 /\ ~(k + 1 <= k)
      OBVIOUS
    <2>5. d[k + 1] = a + 8 + n
      BY <1>6, <2>4
    <2>6. \A i \in 0 .. k : d[i] = e[i]
      <3>1. \A i \in 0 .. k : i \in 0 .. k + 1 /\ i <= k
        OBVIOUS
      <3> QED
        BY <3>1
    <2> QED
      BY <2>3, <2>5, <2>6
  <1>14. b[k + 1] = Checksum(c[k], p)
    <2>1. k + 1 \in 0 .. k + 1 /\ ~(k + 1 <= k)
      OBVIOUS
    <2> QED
      BY <1>6, <2>1
  <1> HIDE DEF d
  <1>15. Laid(g, k + 1, d, X)
    <2>1. \A i \in 9 .. e[k] : g[i] = f[i]
      BY <1>a, <1>3, <1>4 DEF a
    <2>2. e[k] + 8 + Len(X[k + 1].data) <= Len(g)
      BY <1>3, <1>2, <1>6, <1>11 DEF a
    <2>3. Number(g, e[k]) = X[k + 1].addr /\ Number(g, e[k] + 4) = Len(X[k + 1].data)
      BY <1>6, <1>9 DEF a
    <2>4. \A j \in 1 .. Len(X[k + 1].data) : g[e[k] + 8 + j] = X[k + 1].data[j]
      BY <1>6, <1>10 DEF a
    <2>5. k \in Nat /\ Laid(f, k, e, Plan(k)) /\ Len(g) \in Nat
      BY <1>7, <1>11
    <2>6. \A i \in 1 .. k : X[i] = Plan(k)[i]
      BY <1>5
    <2>7. /\ d \in [0 .. k + 1 -> Nat] /\ d[k + 1] = e[k] + 8 + Len(X[k + 1].data)
          /\ \A i \in 0 .. k : d[i] = e[i]
      BY <1>6, <1>12 DEF a
    <2>8. Extended(f, k, e, Plan(k), g, d, X)
      BY ONLY <1>8, <2>1, <2>2, <2>3, <2>4, <2>5, <2>6, <2>7 DEF Extended
    <2> QED
      BY <2>8, LaidLonger
  <1>16. Summed(k + 1, X, b)
    BY <1>5, <1>7, <1>8, SummedLonger
  <1> HIDE DEF b
  <1>17. Headed(g) /\ g[2] = Len(list)
    BY <1>3 DEF Begun
  <1>18. Begun(g, k + 1, d, b)
    BY <1>15, <1>16, <1>17 DEF Begun, X
  <1>19. Checksum(c[k], p) = Checksum(c[k], s.data)
    <2>1. c[k] \in Byte
      BY <1>7 DEF Summed
    <2> QED
      BY <1>a, <2>1, SummedTyped DEF p
  <1> QED
    BY <1>11, <1>12, <1>14, <1>18, <1>19 DEF a, n

\* A segment of which a part is missing.
LEMMA StumpOfSegment ==
    ASSUME list \in Seq(Names), NEW k \in Nat, k < Len(list),
           NEW s \in Section, Len(s.data) \in 0 .. Limit - 4,
           NEW f, NEW e, NEW c, Begun(f, k, e, c), Len(f) = e[k],
           NEW g, CutShort(f, Segment(s) \o Padded(s), g)
    PROVE  Info(g).stat = "error"
  <1> DEFINE seg == Segment(s) \o Padded(s)
             n == RoundUp(Len(s.data))
             a == e[k]
  <1>1. PICK m \in 0 .. Len(seg) - 1, r \in Seq(Byte) :
           Len(r) = m /\ Longer(f, r, g) /\ \A i \in 1 .. m : r[i] = seg[i]
    BY DEF CutShort
  <1>2. Len(seg) = 8 + n /\ n \in Nat /\ \A i \in 1 .. 8 : seg[i] = Segment(s)[i]
    BY SegmentTyped, RoundUpFits, RoundUpFacts
  <1>3. Begun(g, k, e, c) /\ Len(g) = a + m /\ a \in Nat
    BY <1>1, BegunLonger
  <1>4. \A i \in 1 .. m : g[a + i] = r[i]
    BY <1>1 DEF Longer
  <1> HIDE DEF seg, n, a
  <1>5. m \in Nat /\ m < 8 + n
    BY <1>1, <1>2
  <1>6. a + 8 > Len(g) \/ (Number(g, a + 4) = n /\ a + 8 + n > Len(g))
    <2>1. CASE m < 8
      BY <1>3, <1>5, <2>1
    <2>2. CASE m >= 8
      <3>1. \A i \in 1 .. 8 : i \in 1 .. m
        BY <1>5, <2>2
      <3>2. \A i \in 1 .. 8 : g[a + i] = Segment(s)[i]
        BY <1>1, <1>2, <1>4, <3>1
      <3>3. Number(g, a + 4) = n
        BY <1>3, <3>2, SegmentThere DEF n
      <3> QED
        BY <1>2, <1>3, <1>5, <3>3
    <2> QED
      BY <1>5, <2>1, <2>2
  <1>7. /\ g \in Seq(Byte) /\ g[2] = Len(list) /\ Laid(g, k, e, Plan(k))
        /\ Summed(k, Plan(k), c) /\ Len(list) \in Nat
    BY <1>3, LenProperties DEF Begun, Headed
  <1>8. \/ e[k] + 8 > Len(g)
        \/ Number(g, e[k] + 4) \in Nat /\ e[k] + 8 + Number(g, e[k] + 4) > Len(g)
    BY <1>2, <1>6 DEF a
  <1>9. ~Scan(g).ok
    BY <1>7, <1>8, NotFound
  <1> QED
    BY <1>9, InfoOfStump

\* A file without the next segment, or without all of the header.
LEMMA StumpOfFile ==
    ASSUME list \in Seq(Names), NEW k \in Nat, k < Len(list),
           NEW f, NEW e, NEW c, Begun(f, k, e, c), Len(f) = e[k]
    PROVE  Info(f).stat = "error"
  <1>1. /\ f \in Seq(Byte) /\ f[2] = Len(list) /\ Laid(f, k, e, Plan(k))
        /\ Summed(k, Plan(k), c) /\ Len(list) \in Nat
    BY LenProperties DEF Begun, Headed
  <1>2. e[k] + 8 > Len(f)
    <2>1. k \in 0 .. k /\ e[k] \in Nat
      BY <1>1 DEF Laid
    <2> QED
      BY <2>1
  <1>3. ~Scan(f).ok
    BY <1>1, <1>2, NotFound
  <1> QED
    BY <1>3, InfoOfStump

LEMMA StumpOfHeader ==
    ASSUME NEW s \in Seq(Byte), Len(s) = 8, NEW g, CutShort(<<>>, s, g)
    PROVE  Info(g).stat = "error"
  <1>1. Len(g) < 8
    BY DEF CutShort, Longer
  <1> QED
    BY <1>1, InfoOfStump

LEMMA StumpOfTail ==
    ASSUME NEW k \in Nat, k = Len(list), NEW f, NEW e, NEW c, Begun(f, k, e, c),
           Len(f) = e[k], NEW s \in Seq(Byte), Len(s) = TailSize(e[k]),
           NEW g, CutShort(f, s, g)
    PROVE  Info(g).stat = "error"
  <1>1. PICK m \in 0 .. Len(s) - 1, r \in Seq(Byte) :
           Len(r) = m /\ Longer(f, r, g)
    BY DEF CutShort
  <1>2. Begun(g, k, e, c) /\ Len(g) = e[k] + m /\ e[k] \in Nat
    BY <1>1, BegunLonger
  <1>3. TailSize(e[k]) \in 1 .. 16
    BY <1>2, TailSizeFacts
  <1>4. e[k] <= Len(g) /\ Len(g) < e[k] + TailSize(e[k])
    BY <1>1, <1>2, <1>3
  <1>5. Headed(g) /\ g[2] = k /\ Laid(g, k, e, Plan(k)) /\ Summed(k, Plan(k), c)
    BY <1>2 DEF Begun
  <1> QED
    BY <1>4, <1>5, InfoOfShortTail

LEMMA CompleteFacts ==
    ASSUME list \in Seq(Names), NEW f, NEW e, NEW c, Complete(f, e, c)
    PROVE  LET k == Len(list)
           IN  /\ k \in Nat /\ Headed(f) /\ f[2] = k /\ Laid(f, k, e, Plan(k))
               /\ Summed(k, Plan(k), c) /\ Len(f) = e[k] + TailSize(e[k])
               /\ e[k] \in Nat /\ e[k] >= 8 /\ TailSize(e[k]) \in 1 .. 16
               /\ c[k] \in Byte /\ Len(f) \in Nat /\ f \in Seq(Byte)
  <1> DEFINE k == Len(list)
  <1>1. k \in Nat /\ k \in 0 .. k
    BY LenProperties
  <1>2. /\ Headed(f) /\ f[2] = k /\ Laid(f, k, e, Plan(k))
        /\ Summed(k, Plan(k), c) /\ Len(f) = e[k] + TailSize(e[k])
    BY DEF Complete, Begun
  <1> HIDE DEF k
  <1>3. e[k] \in Nat /\ e[k] >= 8 /\ c[k] \in Byte
    BY <1>1, <1>2 DEF Laid, Summed
  <1>4. f \in Seq(Byte) /\ Len(f) \in Nat
    BY <1>2, LenProperties DEF Headed
  <1> QED
    BY <1>1, <1>2, <1>3, <1>4, TailSizeFacts DEF k

\* The checksum takes its tail to zero.
LEMMA CompleteTail ==
    ASSUME list \in Seq(Names), NEW f, NEW e, NEW c, Complete(f, e, c),
           NEW t \in Seq(Byte), Len(t) = TailSize(e[Len(list)]),
           \A i \in 1 .. TailSize(e[Len(list)]) : t[i] = f[e[Len(list)] + i]
    PROVE  Checksum(c[Len(list)], t) = 0
  <1> DEFINE k == Len(list)
             n == TailSize(e[k]) - 1
             a == e[k]
             sum == c[k]
  <1>1. /\ Len(f) = a + TailSize(a) /\ a \in Nat /\ TailSize(a) \in 1 .. 16
        /\ sum \in Byte
    BY CompleteFacts
  <1>2. /\ \A i \in 1 .. TailSize(a) - 1 : f[a + i] = 0
        /\ f[Len(f)] = sum
    BY DEF Complete
  <1>3. Len(t) = TailSize(a) /\ \A i \in 1 .. TailSize(a) : t[i] = f[a + i]
    OBVIOUS
  <1> HIDE DEF a, sum
  <1>4. n \in Nat /\ TailSize(a) = n + 1
    BY <1>1 DEF a
  <1> HIDE DEF n
  <1>5. \A i \in 1 .. n : t[i] = 0
    <2>1. \A i \in 1 .. n : i \in 1 .. n + 1 /\ i \in 1 .. (n + 1) - 1
      BY <1>4
    <2> QED
      BY <1>2, <1>3, <1>4, <2>1
  <1>6. t[n + 1] = sum
    <2>1. n + 1 \in 1 .. n + 1
      BY <1>4
    <2> QED
      BY <1>1, <1>2, <1>3, <1>4, <2>1
  <1>7. Checksum(sum, t) = 0
    BY <1>1, <1>3, <1>4, <1>5, <1>6, ChecksumOfTail
  <1> QED
    BY <1>7 DEF sum

LEMMA InfoOfComplete ==
    ASSUME list \in Seq(Names), NEW f, NEW e, NEW c, Complete(f, e, c)
    PROVE  /\ Info(f).stat = "read" /\ Info(f).segs = FirstOf(Plan(Len(list)), Len(list))
           /\ Info(f).end = Len(f) /\ Info(f).good /\ Len(f) % 16 = 0
  <1> DEFINE k == Len(list)
             E == Plan(k)
             tail == TailOf(f, e[k])
  <1>1. /\ k \in Nat /\ Headed(f) /\ f[2] = k /\ Laid(f, k, e, E)
        /\ Summed(k, E, c) /\ Len(f) = e[k] + TailSize(e[k]) /\ e[k] \in Nat
    BY CompleteFacts
  <1>2. Whole(f, k, e, E, c) /\ k \in Nat
    BY <1>1 DEF Whole
  <1> HIDE DEF k, E
  <1>4. /\ tail \in Seq(Byte) /\ Len(tail) = TailSize(e[k])
        /\ \A i \in 1 .. TailSize(e[k]) : tail[i] = f[e[k] + i]
        /\ Info(f).stat = "read" /\ Info(f).segs = FirstOf(E, k)
        /\ Info(f).end = Len(f) /\ (Info(f).good <=> Checksum(c[k], tail) = 0)
    BY <1>2, InfoOfImage
  <1> HIDE DEF tail
  <1>5. Checksum(c[k], tail) = 0
    BY <1>4, CompleteTail DEF k
  <1>6. Info(f).good
    BY <1>4, <1>5
  <1>7. Len(f) % 16 = 0
    BY <1>1, TailSizeFacts
  <1> QED
    BY <1>4, <1>6, <1>7 DEF k, E

\* What is sent of it is an image just as well.
LEMMA SentComplete ==
    ASSUME list \in Seq(Names), NEW f, NEW e, NEW c, Complete(f, e, c),
           NEW g, SentFrom(f, g)
    PROVE  Complete(g, e, c)
  <1> DEFINE k == Len(list)
             a == e[k]
             n == TailSize(a)
             E == Plan(k)
  <1>1. /\ k \in Nat /\ Headed(f) /\ f[2] = k /\ Laid(f, k, e, E)
        /\ Summed(k, E, c) /\ Len(f) = a + n
        /\ a \in Nat /\ a >= 8 /\ n \in 1 .. 16 /\ f \in Seq(Byte) /\ Len(f) \in Nat
    BY CompleteFacts
  <1>2. /\ \A i \in 1 .. n - 1 : f[a + i] = 0
        /\ f[Len(f)] = c[k]
    BY DEF Complete
  <1>3. g \in Seq(Byte) /\ Len(g) = Len(f) /\ DOMAIN f = 1 .. Len(f)
    BY <1>1, LenProperties DEF SentFrom
  <1>4. \A i \in 1 .. Len(f) : i # 3 /\ i # 4 => g[i] = f[i]
    BY <1>3 DEF SentFrom
  <1> HIDE DEF k, a, n, E
  <1>5. g[1] = f[1] /\ g[2] = f[2] /\ Len(g) >= 8
    BY <1>1, <1>3, <1>4 DEF Headed
  <1>6. Laid(g, k, e, E)
    <2>1. e[k] <= Len(g) /\ \A i \in 9 .. e[k] : g[i] = f[i]
      BY <1>1, <1>3, <1>4 DEF a
    <2> QED
      BY <1>1, <1>3, <2>1, LaidSame
  <1>7. \A i \in 1 .. n - 1 : g[a + i] = 0
    <2> SUFFICES ASSUME NEW i \in 1 .. n - 1 PROVE g[a + i] = 0
      OBVIOUS
    <2>1. a + i \in 1 .. Len(f) /\ a + i # 3 /\ a + i # 4
      BY <1>1
    <2> QED
      BY <1>2, <1>4, <2>1
  <1>8. g[Len(g)] = c[k]
    BY <1>1, <1>2, <1>3, <1>4
  <1>9. Begun(g, k, e, c)
    BY <1>1, <1>3, <1>5, <1>6 DEF Begun, Headed, k, E
  <1> QED
    BY <1>1, <1>3, <1>7, <1>8, <1>9 DEF Complete, k, a, n

LEMMA PlanIs ==
    ASSUME list \in Seq(Names)
    PROVE  FirstOf(Plan(Len(list)), Len(list))
              = [i \in DOMAIN Asked |-> [addr |-> Asked[i].addr, data |-> Padded(Asked[i])]]
  <1> DEFINE k == Len(list)
  <1>1. DOMAIN Asked = 1 .. k
    BY DEF Asked
  <1> HIDE DEF k
  <1>2. \A i \in 1 .. k : Plan(k)[i] = [addr |-> Asked[i].addr, data |-> Padded(Asked[i])]
    BY DEF Plan
  <1>3. [j \in 1 .. k |-> Plan(k)[j]]
           = [i \in 1 .. k |-> [addr |-> Asked[i].addr, data |-> Padded(Asked[i])]]
    BY <1>2
  <1> QED
    BY <1>1, <1>3 DEF FirstOf, k

LEMMA ReadBackOf ==
    ASSUME list \in Seq(Names), NEW f, NEW e, NEW c, Complete(f, e, c)
    PROVE  /\ Info(f).stat = "read" /\ Info(f).good
           /\ Info(f).end = Len(f) /\ Len(f) % 16 = 0
           /\ Info(f).segs = [i \in DOMAIN Asked |-> [addr |-> Asked[i].addr,
                                                      data |-> Padded(Asked[i])]]
  BY InfoOfComplete, PlanIs

LEMMA FileReadsBack ==
    ASSUME list \in Seq(Names), FileInv, SentInv
    PROVE  ReadBack
  <1> SUFFICES ASSUME pc = "Made", spoilt = 0, NEW f \in {file, flash.bytes} \ {<<>>}
               PROVE  \E e, c : Complete(f, e, c)
    BY ReadBackOf DEF ReadBack
  <1>1. PICK e, c : Complete(file, e, c)
    BY DEF FileInv
  <1>2. CASE f = file
    BY <1>1, <1>2
  <1>3. CASE f = flash.bytes
    BY <1>1, <1>3, SentComplete DEF SentInv
  <1> QED
    BY <1>2, <1>3

-----------------------------------------------------------------------------
(* Steps *)

LEMMA ListKept ==
    ASSUME list' = list
    PROVE  \A f, k, e, c : /\ Begun(f, k, e, c) => Begun(f, k, e, c)'
                           /\ Complete(f, e, c) => Complete(f, e, c)'
  <1>1. \A k : Plan(k)' = Plan(k)
    BY DEF Plan, Asked
  <1>2. ASSUME NEW f, NEW k, NEW e, NEW c
        PROVE  Begun(f, k, e, c)' = Begun(f, k, e, c)
    BY <1>1 DEF Begun
  <1>3. ASSUME NEW f, NEW e, NEW c
        PROVE  Complete(f, e, c)' = Complete(f, e, c)
    BY <1>2 DEF Complete
  <1> QED
    BY <1>2, <1>3

LEMMA FileKept ==
    ASSUME FileInv, UNCHANGED <<pc, list, done, cksum, size, file, spoilt>>
    PROVE  FileInv'
  <1>1. /\ pc' = pc /\ list' = list /\ done' = done /\ cksum' = cksum /\ size' = size
        /\ file' = file /\ spoilt' = spoilt
    OBVIOUS
  <1>2. \A f, k, e, c : /\ Begun(f, k, e, c) => Begun(f, k, e, c)'
                        /\ Complete(f, e, c) => Complete(f, e, c)'
    BY <1>1, ListKept
  <1>3. ASSUME pc' \in {"Segment", "Padding"}
        PROVE  \E e, c : /\ Begun(file, done, e, c)' /\ Len(file') = e[done']
                         /\ size' = e[done'] /\ cksum' = c[done']
    <2>1. PICK e, c : /\ Begun(file, done, e, c) /\ Len(file) = e[done]
                      /\ size = e[done] /\ cksum = c[done]
      BY <1>1, <1>3 DEF FileInv
    <2>2. Begun(file, done, e, c)'
      BY <1>1, <1>2, <2>1
    <2> QED
      BY <1>1, <2>1, <2>2
  <1>4. ASSUME pc' = "Made", spoilt' = 0
        PROVE  \E e, c : Complete(file, e, c)'
    <2>1. PICK e, c : Complete(file, e, c)
      BY <1>1, <1>4 DEF FileInv
    <2>2. Complete(file, e, c)'
      BY <1>1, <1>2, <2>1
    <2> QED
      BY <2>2
  <1>5. StumpNoticed'
    BY <1>1 DEF FileInv, StumpNoticed
  <1>6. DataGuarded'
    <2>1. Ends' = Ends /\ \A n : Asked[n]' = Asked[n]
      BY <1>1 DEF Ends, Asked
    <2> QED
      BY <1>1, <2>1 DEF FileInv, DataGuarded
  <1> QED
    BY <1>3, <1>4, <1>5, <1>6 DEF FileInv

\* A stump is noticed.
LEMMA FileStops ==
    ASSUME pc' = "Failed", Info(file').stat = "error"
    PROVE  FileInv'
  <1>1. StumpNoticed'
    BY DEF StumpNoticed
  <1>2. DataGuarded'
    BY DEF DataGuarded
  <1> QED
    BY <1>1, <1>2 DEF FileInv

LEMMA FileElsewhere ==
    ASSUME pc' \in {"Options", "Header", "Raw"} \/ (pc' = "Failed" /\ Len(list') = 1)
    PROVE  FileInv'
  <1>1. StumpNoticed'
    <2>1. CASE pc' \in {"Options", "Header", "Raw"}
      BY <2>1 DEF StumpNoticed
    <2>2. CASE pc' = "Failed" /\ Len(list') = 1
      <3>1. ~(Len(list') > 1)
        BY <2>2
      <3> QED
        BY <3>1 DEF StumpNoticed
    <2> QED
      BY <2>1, <2>2
  <1>2. DataGuarded'
    BY DEF DataGuarded
  <1> QED
    BY <1>1, <1>2 DEF FileInv

LEMMA FileWriteHeader ==
    ASSUME FormatInv, WriteHeader
    PROVE  FileInv'
  <1>1. /\ pc = "Header" /\ list' = list /\ Len(list) \in 2 .. MaxList /\ file = <<>>
        /\ done = 0 /\ size = 0 /\ cksum = CKSUM_MAGIC
    BY DEF WriteHeader, Rest, FormatInv, StageInv
  <1>2. /\ Header \in Seq(Byte) /\ Len(Header) = 8 /\ Header[1] = MAGIC
        /\ Header[2] = Len(list)
    BY <1>1, HeaderFacts DEF FormatInv
  <1>3. CASE Stops(Header)
    <2>1. CutShort(<<>>, Header, file')
      BY <1>1, <1>2, <1>3, StopsFacts
    <2>2. Info(file').stat = "error"
      BY <1>2, <2>1, StumpOfHeader
    <2>3. pc' = "Failed"
      BY <1>3 DEF Stops
    <2> QED
      BY <2>2, <2>3, FileStops
  <1>4. CASE Wrote(Header) /\ pc' = "Segment" /\ UNCHANGED <<done, cksum>>
    <2>0. PICK f : f = file'
      OBVIOUS
    <2>1. f = <<>> \o Header /\ size' = 0 + Len(Header)
      BY <1>1, <1>4, <2>0 DEF Wrote
    <2>2. f = Header /\ size' = 8
      BY <1>2, <2>1, ConcatEmptySeq
    <2>3. Headed(f) /\ f[2] = Len(list)
      <3>1. f \in Seq(Byte) /\ Len(f) = 8 /\ f[1] = MAGIC /\ f[2] = Len(list)
        BY <1>2, <2>2
      <3> QED
        BY <3>1 DEF Headed
    <2> DEFINE e == [i \in 0 .. 0 |-> 8]
               c == [i \in 0 .. 0 |-> CKSUM_MAGIC]
    <2>4. e[0] = 8 /\ c[0] = CKSUM_MAGIC
      OBVIOUS
    <2>5. Begun(f, 0, e, c)
      BY <2>3, NoneYet
    <2> HIDE DEF e, c
    <2>6. Begun(f, 0, e, c)'
      BY <1>1, <2>5, ListKept
    <2>7. done' = 0 /\ cksum' = CKSUM_MAGIC /\ pc' = "Segment" /\ Len(f) = 8
      BY <1>1, <1>2, <1>4, <2>2
    <2>8. \E e1, c1 : /\ Begun(file, done, e1, c1)' /\ Len(file') = e1[done']
                      /\ size' = e1[done'] /\ cksum' = c1[done']
      <3>1. Begun(file, done, e, c)'
        BY <2>0, <2>6, <2>7
      <3> QED
        BY <2>0, <2>2, <2>4, <2>7, <3>1
    <2>9. StumpNoticed' /\ DataGuarded'
      BY <2>7 DEF StumpNoticed, DataGuarded
    <2> QED
      BY <2>7, <2>8, <2>9 DEF FileInv
  <1> QED
    BY <1>3, <1>4 DEF WriteHeader

LEMMA FileNoSection ==
    ASSUME FormatInv, FileInv, NoSection
    PROVE  FileInv'
  <1>1. /\ pc = "Segment" /\ pc' = "Failed" /\ file' = file
    BY DEF NoSection
  <1>2. PICK e, c : Begun(file, done, e, c) /\ Len(file) = e[done]
    BY <1>1 DEF FileInv
  <1>3. list \in Seq(Names) /\ done \in Nat /\ done < Len(list)
    BY <1>1 DEF FormatInv, TypeOK, StageInv
  <1>4. Info(file).stat = "error"
    BY <1>2, <1>3, StumpOfFile
  <1> QED
    BY <1>1, <1>4, FileStops

LEMMA FileWriteSegment ==
    ASSUME ~SeekFails, FormatInv, FileInv, WriteSegment
    PROVE  FileInv'
  <1> DEFINE s == Turn
             seg == Segment(s) \o Padded(s)
  <1>1. pc = "Segment" /\ list' = list /\ done < Len(list)
    BY DEF WriteSegment, Rest, FormatInv, StageInv
  <1>2. s \in Section /\ Len(s.data) \in 0 .. Limit - 4 /\ s = Elf[SectionNum(list[done + 1])]
    BY TurnTyped DEF WriteSegment, Turn, NextName
  <1>3. list \in Seq(Names) /\ done \in Nat /\ file \in Seq(Byte)
    BY DEF FormatInv, TypeOK
  <1>4. PICK e, c : /\ Begun(file, done, e, c) /\ Len(file) = e[done]
                    /\ size = e[done] /\ cksum = c[done]
    BY <1>1 DEF FileInv
  <1>5. \/ /\ SegmentWritten(s) \/ SegmentSkipped(s)
           /\ done' = done + 1
           /\ pc' = IF done + 1 = Len(list) THEN "Padding" ELSE "Segment"
        \/ Stops(seg)
    BY DEF WriteSegment, Turn
  <1>6. seg \in Seq(Byte)
    BY <1>2, SegmentTyped
  <1> HIDE DEF s
  <1>7. CASE Stops(seg)
    <2>1. CutShort(file, seg, file')
      BY <1>3, <1>6, <1>7, StopsFacts
    <2>2. Info(file').stat = "error"
      BY <1>1, <1>2, <1>3, <1>4, <2>1, StumpOfSegment
    <2>3. pc' = "Failed"
      BY <1>7 DEF Stops
    <2> QED
      BY <2>2, <2>3, FileStops
  <1>8. CASE /\ SegmentWritten(s) /\ done' = done + 1
             /\ pc' = IF done + 1 = Len(list) THEN "Padding" ELSE "Segment"
    <2>1. /\ file' = file \o Segment(s) \o Padded(s)
          /\ size' = size + 8 + RoundUp(Len(s.data)) /\ cksum' = Checksum(cksum, s.data)
      BY <1>8 DEF SegmentWritten
    <2>2. file' = file \o seg
      <3>1. Segment(s) \in Seq(Byte) /\ Padded(s) \in Seq(Byte)
        BY <1>2, SegmentFacts, PaddedFacts
      <3>2. (file \o Segment(s)) \o Padded(s) = file \o (Segment(s) \o Padded(s))
        BY ONLY <1>3, <3>1, ConcatAssociative
      <3> QED
        BY <2>1, <3>2
    <2>3. PICK f, k : f = file' /\ k = done + 1
      OBVIOUS
    <2>4. Longer(file, seg, f)
      BY <1>3, <1>6, <2>2, <2>3, WroteFacts
    <2>5. PICK d, b : /\ Begun(f, done + 1, d, b) /\ Len(f) = d[done + 1]
                      /\ d[done + 1] = e[done] + 8 + RoundUp(Len(s.data))
                      /\ b[done + 1] = Checksum(c[done], s.data)
      <3>1. Adds(file, done, e, c, s, f)
        BY <1>1, <1>2, <1>4, <2>4 DEF Adds
      <3> QED
        BY <1>3, <3>1, BegunOneMore
    <2>6. f = file' /\ done' = k
      BY <1>8, <2>3
    <2>7. Begun(f, k, d, b)'
      BY <1>1, <2>3, <2>5, ListKept
    <2>8. Begun(file, done, d, b)'
      BY <2>6, <2>7
    <2>9. Len(file') = d[done'] /\ size' = d[done'] /\ cksum' = b[done']
      BY <1>4, <2>1, <2>3, <2>5, <2>6
    <2>10. pc' \in {"Segment", "Padding"}
      BY <1>8
    <2>11. StumpNoticed' /\ DataGuarded'
      BY <2>10 DEF StumpNoticed, DataGuarded
    <2> QED
      BY <2>8, <2>9, <2>10, <2>11 DEF FileInv
  <1>9. ~SegmentSkipped(s)
    BY DEF SegmentSkipped
  <1> QED
    BY <1>5, <1>7, <1>8, <1>9

LEMMA FileWritePadding ==
    ASSUME FormatInv, FileInv, WritePadding
    PROVE  FileInv'
  <1> DEFINE pad == Append(Zeros(PadSize - 1), cksum)
             k == Len(list)
             n == PadSize
  <1>1. /\ pc = "Padding" /\ list' = list /\ done = k /\ k \in Nat /\ spoilt' = spoilt
        /\ size \in Nat /\ cksum \in Byte /\ file \in Seq(Byte) /\ list \in Seq(Names)
    BY LenProperties DEF WritePadding, Rest, FormatInv, StageInv, TypeOK
  <1>2. /\ n = TailSize(size) /\ n \in 1 .. 16
        /\ pad \in Seq(Byte) /\ Len(pad) = n
        /\ \A i \in 1 .. n - 1 : pad[i] = 0
        /\ pad[n] = cksum
    BY <1>1, PadFacts
  <1>3. PICK e, c : /\ Begun(file, k, e, c) /\ Len(file) = e[k]
                    /\ size = e[k] /\ cksum = c[k]
    BY <1>1 DEF FileInv
  <1>4. \/ Wrote(pad) /\ pc' = "Made" /\ UNCHANGED <<done, cksum>>
        \/ Stops(pad)
    BY DEF WritePadding
  <1> HIDE DEF pad, n
  <1>5. CASE Stops(pad)
    <2>1. CutShort(file, pad, file')
      BY <1>1, <1>2, <1>5, StopsFacts
    <2>2. Len(pad) = TailSize(e[k])
      BY <1>2, <1>3
    <2>3. Info(file').stat = "error"
      BY <1>1, <1>2, <1>3, <2>1, <2>2, StumpOfTail
    <2>4. pc' = "Failed"
      BY <1>5 DEF Stops
    <2> QED
      BY <2>3, <2>4, FileStops
  <1>6. CASE Wrote(pad) /\ pc' = "Made" /\ UNCHANGED <<done, cksum>>
    <2>1. Longer(file, pad, file')
      BY <1>1, <1>2, <1>6, WroteFacts DEF Wrote
    <2>2. Begun(file', k, e, c) /\ Len(file') = e[k] + n /\ e[k] \in Nat
      BY <1>1, <1>2, <1>3, <2>1, BegunLonger
    <2>3. \A i \in 1 .. n : file'[e[k] + i] = pad[i]
      BY <1>2, <1>3, <2>1 DEF Longer
    <2>4. \A i \in 1 .. n - 1 : file'[e[k] + i] = 0
      <3>1. \A i \in 1 .. n - 1 : i \in 1 .. n
        BY <1>2
      <3> QED
        BY <1>2, <2>3, <3>1
    <2>5. file'[e[k] + n] = c[k]
      <3>1. n \in 1 .. n
        BY <1>2
      <3> QED
        BY <1>2, <1>3, <2>3, <3>1
    <2>6. n = TailSize(e[k])
      BY <1>2, <1>3
    <2>f. PICK f : f = file'
      OBVIOUS
    <2>7. Complete(f, e, c)
      BY <2>2, <2>4, <2>5, <2>6, <2>f DEF Complete
    <2>8. Complete(f, e, c)'
      BY <1>1, <2>7, ListKept
    <2>9. Complete(file, e, c)'
      BY <2>8, <2>f
    <2>10. spoilt' = 0
      BY <1>1, Untouched
    <2>11. StumpNoticed' /\ DataGuarded'
      BY <1>6, <2>10 DEF StumpNoticed, DataGuarded
    <2> QED
      BY <1>6, <2>9, <2>11 DEF FileInv
  <1> QED
    BY <1>4, <1>5, <1>6

-----------------------------------------------------------------------------
(* A byte of the data that has changed *)

LEMMA EndsAre ==
    ASSUME list \in Seq(Names), NEW f, NEW e, Laid(f, Len(list), e, Plan(Len(list)))
    PROVE  \A n \in 0 .. Len(list) : Ends[n] = e[n]
  <1> DEFINE k == Len(list)
             More(x, i) == x + 8 + Len(Padded(Asked[i]))
             Equation(l) == l = [i \in 0 .. k |-> IF i = 0 THEN 8 ELSE More(l[i - 1], i)]
             h == [i \in 0 .. k |-> e[i]]
  <1>1. Ends = CHOOSE l : Equation(l)
    BY DEF Ends
  <1>2. /\ e[0] = 8
        /\ \A i \in 1 .. k : e[i] = e[i - 1] + 8 + Len(Plan(k)[i].data)
    BY DEF Laid
  <1>3. \A i \in 1 .. k : Plan(k)[i].data = Padded(Asked[i])
    BY DEF Plan
  <1>4. k \in Nat
    BY LenProperties
  <1> HIDE DEF k
  <1>5. \A i \in 1 .. k : e[i] = More(e[i - 1], i)
    BY <1>2, <1>3
  <1> HIDE DEF More
  <1>6. Equation(h)
    <2>1. ASSUME NEW i \in 0 .. k
          PROVE  h[i] = IF i = 0 THEN 8 ELSE More(h[i - 1], i)
      <3>1. CASE i = 0
        BY <1>2, <3>1
      <3>2. CASE i # 0
        <4>1. i \in 1 .. k /\ i - 1 \in 0 .. k
          BY <1>4, <3>2
        <4>2. h[i] = e[i] /\ h[i - 1] = e[i - 1]
          BY <4>1
        <4> QED
          BY <1>5, <3>2, <4>1, <4>2
      <3> QED
        BY <3>1, <3>2
    <2>2. h = [i \in 0 .. k |-> h[i]]
      OBVIOUS
    <2> HIDE DEF h
    <2> QED
      BY <2>1, <2>2
  <1>7. \A i \in 0 .. k : h[i] = e[i]
    OBVIOUS
  <1> HIDE DEF h
  <1>8. ASSUME NEW l, Equation(l) PROVE Agree(k, l, h)
    <2>1. \A i \in 0 .. k : /\ l[i] = IF i = 0 THEN 8 ELSE More(l[i - 1], i)
                            /\ h[i] = IF i = 0 THEN 8 ELSE More(h[i - 1], i)
      BY <1>6, <1>8
    <2>2. l[0] = h[0]
      BY <1>4, <2>1
    <2>3. ASSUME NEW i \in 1 .. k, l[i - 1] = h[i - 1] PROVE l[i] = h[i]
      <3>1. i \in 0 .. k /\ i # 0
        BY <1>4
      <3> QED
        BY <2>1, <2>3, <3>1
    <2> QED
      BY <1>4, <2>2, <2>3, RecursionUnique
  <1> HIDE DEF Equation
  <1>9. Equation(CHOOSE l : Equation(l))
    BY <1>6
  <1> QED
    BY <1>1, <1>7, <1>8, <1>9 DEF Agree, k

LEMMA ChangedSum ==
    ASSUME NEW sum \in Byte, NEW s \in Seq(Byte), NEW i, NEW x, NEW t,
           Changed(s, i, x, t)
    PROVE  Checksum(sum, t) = Xor(Checksum(sum, s), x)
  <1>1. /\ t \in Seq(Byte) /\ Len(t) = Len(s) /\ i \in 1 .. Len(s) /\ x \in Byte
        /\ t[i] = Xor(s[i], x) /\ \A j \in 1 .. Len(s) : j # i => t[j] = s[j]
    BY DEF Changed
  <1> QED
    BY <1>1, ChecksumChanges

\* A byte of the tail.
LEMMA TailChanged ==
    ASSUME list \in Seq(Names), NEW f, NEW e, NEW c, Complete(f, e, c),
           NEW i, NEW x, NEW g, Changed(f, i, x, g), i > e[Len(list)]
    PROVE  Info(g).stat = "read" /\ ~Info(g).good
  <1> DEFINE k == Len(list)
             a == e[k]
             E == Plan(k)
             n == TailSize(a)
             t == TailOf(f, a)
             u == TailOf(g, a)
  <1>1. /\ k \in Nat /\ Headed(f) /\ f[2] = k /\ Laid(f, k, e, E)
        /\ Summed(k, E, c) /\ Len(f) = a + n
        /\ a \in Nat /\ a >= 8 /\ n \in 1 .. 16 /\ c[k] \in Byte /\ Len(f) \in Nat
    BY CompleteFacts
  <1>2. /\ g \in Seq(Byte) /\ Len(g) = Len(f)
        /\ i \in 1 .. Len(f) /\ x \in Byte \ {0} /\ g[i] = Xor(f[i], x)
        /\ \A j \in 1 .. Len(f) : j # i => g[j] = f[j]
    BY DEF Changed
  <1>3. i > a
    OBVIOUS
  <1> HIDE DEF k, E, a, n
  <1>4. Laid(g, k, e, E)
    <2>1. e[k] <= Len(g) /\ \A j \in 9 .. e[k] : g[j] = f[j]
      BY <1>1, <1>2, <1>3 DEF a
    <2> QED
      BY <1>1, <1>2, <2>1, LaidSame
  <1>5. g[1] = f[1] /\ g[2] = f[2]
    <2>1. 1 \in 1 .. Len(f) /\ 2 \in 1 .. Len(f) /\ i # 1 /\ i # 2
      BY <1>1, <1>2, <1>3 DEF Headed
    <2> QED
      BY <1>2, <2>1
  <1>6. Whole(g, k, e, E, c)
    <2>1. Headed(g)
      BY <1>1, <1>2, <1>5 DEF Headed
    <2> QED
      BY <1>1, <1>2, <1>4, <1>5, <2>1 DEF Whole, a, n
  <1>7. Whole(f, k, e, E, c)
    BY <1>1 DEF Whole, a, n
  <1>8. /\ t \in Seq(Byte) /\ Len(t) = n /\ \A j \in 1 .. n : t[j] = f[a + j]
        /\ Info(f).stat = "read" /\ (Info(f).good <=> Checksum(c[k], t) = 0)
    BY <1>1, <1>7, InfoOfImage DEF a, n
  <1>9. /\ u \in Seq(Byte) /\ Len(u) = n /\ \A j \in 1 .. n : u[j] = g[a + j]
        /\ Info(g).stat = "read" /\ (Info(g).good <=> Checksum(c[k], u) = 0)
    BY <1>1, <1>6, InfoOfImage DEF a, n
  <1> HIDE DEF t, u
  <1>10. Checksum(c[k], t) = 0
    BY <1>8, CompleteTail DEF k, a, n
  <1>11. PICK m \in 1 .. n : m = i - a
    BY <1>1, <1>2, <1>3
  <1>12. u[m] = Xor(t[m], x)
    <2>1. a + m = i
      BY <1>1, <1>2, <1>11
    <2> QED
      BY <1>2, <1>8, <1>9, <2>1
  <1>13. \A j \in 1 .. n : j # m => u[j] = t[j]
    <2> SUFFICES ASSUME NEW j \in 1 .. n, j # m PROVE u[j] = t[j]
      OBVIOUS
    <2>1. a + j \in 1 .. Len(f) /\ a + j # i
      BY <1>1, <1>2, <1>11
    <2> QED
      BY <1>2, <1>8, <1>9, <2>1
  <1>14. Checksum(c[k], u) = Xor(Checksum(c[k], t), x)
    <2>1. Changed(t, m, x, u)
      BY <1>2, <1>8, <1>9, <1>12, <1>13 DEF Changed
    <2> QED
      BY <1>1, <1>8, <2>1, ChangedSum
  <1>15. Checksum(c[k], u) = x
    BY <1>2, <1>10, <1>14, XorZero
  <1> QED
    BY <1>2, <1>9, <1>15

\* The byte i is in the data of segment n, and no other segment has it.
LEMMA OnlyThere ==
    ASSUME NEW f, NEW k \in Nat, NEW e, NEW E, Laid(f, k, e, E), NEW n \in 1 .. k,
           NEW i \in Nat, i <= e[n], i > e[n] - Len(E[n].data)
    PROVE  /\ \A j \in 1 .. k : \A p \in 1 .. 8 : e[j - 1] + p # i
           /\ \A j \in 1 .. k : j # n => \A p \in 1 .. Len(E[j].data) : e[j - 1] + 8 + p # i
           /\ i - (e[n - 1] + 8) \in 1 .. Len(E[n].data) /\ i >= 9 /\ i <= e[k]
  <1>1. ASSUME NEW j \in 1 .. k
        PROVE  /\ e[j - 1] \in Nat /\ e[j - 1] >= 8 /\ e[j] \in Nat
               /\ Len(E[j].data) \in Nat /\ e[j] = e[j - 1] + 8 + Len(E[j].data)
               /\ e[k] \in Nat /\ e[j] <= e[k]
    <2>1. Laid(f, k, e, E) /\ k \in Nat /\ j \in 1 .. k
      OBVIOUS
    <2> QED
      BY ONLY <2>1, Places
  <1> DEFINE a == e[n - 1]
             m == Len(E[n].data)
  <1>2. a \in Nat /\ a >= 8 /\ m \in Nat /\ e[n] = a + 8 + m /\ e[n] \in Nat
    BY <1>1
  <1>3. e[k] \in Nat /\ e[n] <= e[k]
    BY <1>1
  <1>4. i <= e[n] /\ i > e[n] - m
    OBVIOUS
  <1> HIDE DEF a, m
  <1>5. i > a + 8 /\ i <= a + 8 + m /\ i - (a + 8) \in 1 .. m /\ i >= 9 /\ i <= e[k]
    BY <1>2, <1>3, <1>4
  <1>6. \A j \in 0 .. k : \A h \in 0 .. j : e[h] <= e[j]
    BY EndsRise
  <1>7. ASSUME NEW j \in 1 .. k, j < n PROVE i > e[j]
    <2>1. n - 1 \in 0 .. k /\ j \in 0 .. n - 1
      BY <1>7
    <2>2. e[j] <= a
      BY <1>6, <2>1 DEF a
    <2>3. e[j] \in Nat
      BY <1>1
    <2> QED
      BY <1>2, <1>5, <2>2, <2>3
  <1>8. ASSUME NEW j \in 1 .. k, j > n PROVE i <= e[j - 1]
    <2>1. j - 1 \in 0 .. k /\ n \in 0 .. j - 1
      BY <1>8
    <2>2. e[n] <= e[j - 1] /\ e[j - 1] \in Nat
      BY <1>1, <1>6, <2>1
    <2> QED
      BY <1>2, <1>4, <2>2
  <1>9. ASSUME NEW j \in 1 .. k, NEW p \in 1 .. 8 PROVE e[j - 1] + p # i
    <2>1. CASE j = n
      BY <1>2, <1>5, <2>1 DEF a
    <2>2. CASE j < n
      <3>1. /\ e[j - 1] \in Nat /\ Len(E[j].data) \in Nat
            /\ e[j] = e[j - 1] + 8 + Len(E[j].data)
        BY <1>1
      <3>2. i > e[j]
        BY <1>7, <2>2
      <3> QED
        BY <3>1, <3>2
    <2>3. CASE j > n
      <3>1. i <= e[j - 1] /\ e[j - 1] \in Nat
        BY <1>1, <1>8, <2>3
      <3> QED
        BY <3>1
    <2> QED
      BY <2>1, <2>2, <2>3
  <1>10. ASSUME NEW j \in 1 .. k, j # n, NEW p \in 1 .. Len(E[j].data)
         PROVE  e[j - 1] + 8 + p # i
    <2>1. Len(E[j].data) \in Nat /\ e[j - 1] \in Nat /\ e[j] = e[j - 1] + 8 + Len(E[j].data)
      BY <1>1
    <2>2. p \in Nat /\ p >= 1 /\ p <= Len(E[j].data)
      BY <2>1
    <2>3. CASE j < n
      <3>1. e[j - 1] + 8 + p <= e[j] /\ i > e[j]
        BY <1>7, <2>1, <2>2, <2>3
      <3> QED
        BY <2>1, <2>2, <3>1
    <2>4. CASE j > n
      <3>1. i <= e[j - 1]
        BY <1>8, <2>4
      <3> QED
        BY <2>1, <2>2, <3>1
    <2> QED
      BY <1>10, <2>3, <2>4
  <1> QED
    BY <1>5, <1>9, <1>10 DEF a, m

\* The segment n of X is that of E but for one byte.
ChangedSegment(E, n, m, x, X, k) ==
    /\ X \in [1 .. k -> Segments] /\ X[n].addr = E[n].addr
    /\ Changed(E[n].data, m, x, X[n].data)
    /\ \A j \in 1 .. k : j # n => X[j] = E[j]

LEMMA ChangedSegmentIs ==
    ASSUME NEW k \in Nat, NEW E \in [1 .. k -> Segments], NEW n \in 1 .. k,
           NEW m \in 1 .. Len(E[n].data), NEW x \in Byte \ {0}
    PROVE  \E X : ChangedSegment(E, n, m, x, X, k)
  <1> DEFINE d == E[n].data
             y == Xor(d[m], x)
             g == [d EXCEPT ![m] = y]
             new == [addr |-> E[n].addr, data |-> g]
             X == [j \in 1 .. k |-> IF j = n THEN new ELSE E[j]]
  <1>1. d \in Seq(Byte) /\ E[n].addr \in Word
    BY DEF Segments
  <1>2. d[m] \in Byte
    BY <1>1, ElementOfSeq
  <1>3. y \in Byte
    BY <1>2, XorTyped
  <1> HIDE DEF y
  <1>4. /\ g \in Seq(Byte) /\ Len(g) = Len(d) /\ g[m] = y
        /\ \A j \in 1 .. Len(d) : j # m => g[j] = d[j]
    BY <1>1, <1>3, ExceptSeq
  <1> HIDE DEF g
  <1>5. Changed(d, m, x, g)
    BY <1>4 DEF Changed, y
  <1>6. new \in Segments /\ new.addr = E[n].addr /\ new.data = g
    BY <1>1, <1>4 DEF Segments
  <1> HIDE DEF new
  <1>7. X \in [1 .. k -> Segments] /\ X[n] = new /\ \A j \in 1 .. k : j # n => X[j] = E[j]
    BY <1>6
  <1> HIDE DEF X
  <1>8. ChangedSegment(E, n, m, x, X, k)
    BY <1>5, <1>6, <1>7 DEF ChangedSegment, d
  <1> QED
    BY <1>8

\* So does the file hold the segments X.
LEMMA LaidChanged ==
    ASSUME NEW f, NEW k \in Nat, NEW e, NEW E, Laid(f, k, e, E), NEW n \in 1 .. k,
           NEW i, NEW x, NEW g, Changed(f, i, x, g),
           i <= e[n], i > e[n] - Len(E[n].data),
           NEW X, ChangedSegment(E, n, i - (e[n - 1] + 8), x, X, k)
    PROVE  Laid(g, k, e, X)
  <1> DEFINE m == i - (e[n - 1] + 8)
  <1>1. /\ Len(g) = Len(f) /\ i \in 1 .. Len(f) /\ g[i] = Xor(f[i], x) /\ i \in Nat
        /\ \A j \in 1 .. Len(f) : j # i => g[j] = f[j]
    BY DEF Changed
  <1>2. /\ \A j \in 1 .. k : \A p \in 1 .. 8 : e[j - 1] + p # i
        /\ \A j \in 1 .. k : j # n => \A p \in 1 .. Len(E[j].data) : e[j - 1] + 8 + p # i
        /\ m \in 1 .. Len(E[n].data)
    <2>1. /\ Laid(f, k, e, E) /\ k \in Nat /\ n \in 1 .. k /\ i \in Nat
          /\ i <= e[n] /\ i > e[n] - Len(E[n].data)
      BY <1>1
    <2> QED
      BY ONLY <2>1, OnlyThere
  <1>3. /\ X \in [1 .. k -> Segments] /\ X[n].addr = E[n].addr
        /\ Changed(E[n].data, m, x, X[n].data)
        /\ \A j \in 1 .. k : j # n => X[j] = E[j]
    BY DEF ChangedSegment
  <1>4. /\ Len(X[n].data) = Len(E[n].data) /\ X[n].data[m] = Xor(E[n].data[m], x)
        /\ \A j \in 1 .. Len(E[n].data) : j # m => X[n].data[j] = E[n].data[j]
    BY <1>3 DEF Changed
  <1>5. \A j \in 1 .. k : X[j].addr = E[j].addr /\ Len(X[j].data) = Len(E[j].data)
    BY <1>3, <1>4
  <1>6. ASSUME NEW j \in 1 .. k
        PROVE  /\ Number(g, e[j - 1]) = Number(f, e[j - 1])
               /\ Number(g, e[j - 1] + 4) = Number(f, e[j - 1] + 4)
               /\ \A p \in 1 .. Len(E[j].data) : g[e[j - 1] + 8 + p] = X[j].data[p]
    <2>0. /\ e[j - 1] \in Nat /\ e[j] \in Nat /\ e[j] = e[j - 1] + 8 + Len(E[j].data)
          /\ Len(E[j].data) \in Nat
      <3>1. Laid(f, k, e, E) /\ k \in Nat /\ j \in 1 .. k
        OBVIOUS
      <3> QED
        BY ONLY <3>1, Places
    <2> DEFINE a == e[j - 1]
               l == Len(E[j].data)
    <2>1. /\ a \in Nat /\ l \in Nat /\ a + 8 + l <= Len(f) /\ Len(f) \in Int
          /\ \A p \in 1 .. l : f[a + 8 + p] = E[j].data[p]
      <3>1. e[j] <= Len(f) /\ \A p \in 1 .. l : f[a + 8 + p] = E[j].data[p]
        BY DEF Laid
      <3> QED
        BY <1>1, <2>0, <3>1
    <2>2. \A p \in 1 .. 8 : a + p # i
      BY <1>2
    <2> HIDE DEF a, l
    <2>3. \A p \in 1 .. 8 : g[a + p] = f[a + p]
      <3>1. \A p \in 1 .. 8 : a + p \in 1 .. Len(f)
        BY <2>1
      <3> QED
        BY <1>1, <2>2, <3>1
    <2>4. \A p \in 1 .. 4 : g[a + p] = f[a + p] /\ g[(a + 4) + p] = f[(a + 4) + p]
      <3> SUFFICES ASSUME NEW p \in 1 .. 4
                   PROVE  g[a + p] = f[a + p] /\ g[(a + 4) + p] = f[(a + 4) + p]
        OBVIOUS
      <3>1. p \in 1 .. 8 /\ 4 + p \in 1 .. 8 /\ (a + 4) + p = a + (4 + p)
        BY <2>1
      <3> QED
        BY <2>3, <3>1
    <2>5. a + 4 \in Nat
      BY <2>1
    <2>6. Number(g, a) = Number(f, a) /\ Number(g, a + 4) = Number(f, a + 4)
      BY <2>1, <2>4, <2>5, SameNumber
    <2>7. ASSUME NEW p \in 1 .. l PROVE g[a + 8 + p] = X[j].data[p]
      <3>1. a + 8 + p \in 1 .. Len(f) /\ f[a + 8 + p] = E[j].data[p]
        BY <2>1
      <3>2. CASE j # n
        <4>1. a + 8 + p # i
          BY <1>2, <3>2 DEF a, l
        <4> QED
          BY <1>1, <1>3, <3>1, <3>2, <4>1
      <3>3. CASE j = n
        <4>1. m = i - (a + 8)
          BY <3>3 DEF a
        <4>2. p = m <=> a + 8 + p = i
          BY <1>1, <2>1, <4>1
        <4> HIDE DEF m
        <4>3. CASE p = m
          BY <1>1, <1>4, <3>1, <3>3, <4>2, <4>3
        <4>4. CASE p # m
          <5>1. p \in 1 .. Len(E[n].data)
            BY <3>3 DEF l
          <5> QED
            BY <1>1, <1>4, <3>1, <3>3, <4>2, <4>4, <5>1
        <4> QED
          BY <4>3, <4>4
      <3> QED
        BY <3>2, <3>3
    <2> QED
      BY <2>6, <2>7 DEF a, l
  <1> HIDE DEF m
  <1>7. /\ e \in [0 .. k -> Nat] /\ e[0] = 8 /\ \A j \in 0 .. k : e[j] >= 8
        /\ \A j \in 1 .. k : /\ e[j] = e[j - 1] + 8 + Len(E[j].data)
                             /\ Number(f, e[j - 1]) = E[j].addr
                             /\ Number(f, e[j - 1] + 4) = Len(E[j].data)
                             /\ e[j] <= Len(f)
    BY DEF Laid
  <1>8. ASSUME NEW j \in 1 .. k
        PROVE  /\ e[j] = e[j - 1] + 8 + Len(X[j].data)
               /\ Number(g, e[j - 1]) = X[j].addr
               /\ Number(g, e[j - 1] + 4) = Len(X[j].data)
               /\ e[j] <= Len(g)
               /\ \A p \in 1 .. Len(X[j].data) : g[e[j - 1] + 8 + p] = X[j].data[p]
    BY <1>1, <1>5, <1>6, <1>7
  <1> QED
    BY <1>3, <1>7, <1>8 DEF Laid

\* The checksums after segment n are changed alike.
LEMMA SummedChanged ==
    ASSUME NEW k \in Nat, NEW E \in [1 .. k -> Segments], NEW c, Summed(k, E, c),
           NEW n \in 1 .. k, NEW m, NEW x \in Byte, NEW X, ChangedSegment(E, n, m, x, X, k)
    PROVE  \E b : Summed(k, X, b) /\ b[k] = Xor(c[k], x)
  <1> DEFINE b == [j \in 0 .. k |-> IF j < n THEN c[j] ELSE Xor(c[j], x)]
  <1>1. /\ c \in [0 .. k -> Byte] /\ c[0] = CKSUM_MAGIC
        /\ \A j \in 1 .. k : c[j] = Checksum(c[j - 1], E[j].data)
    BY DEF Summed
  <1>2. \A j \in 0 .. k : c[j] \in Byte /\ Xor(c[j], x) \in Byte
    BY <1>1, XorTyped
  <1>3. b \in [0 .. k -> Byte]
    BY <1>2
  <1>4. /\ 0 \in 0 .. k /\ 0 < n /\ k \in 0 .. k /\ ~(k < n)
        /\ \A j \in 1 .. k : j \in 0 .. k /\ j - 1 \in 0 .. k
    OBVIOUS
  <1>5. b[0] = CKSUM_MAGIC /\ b[k] = Xor(c[k], x)
    BY <1>1, <1>4
  <1>6. ASSUME NEW j \in 1 .. k PROVE b[j] = Checksum(b[j - 1], X[j].data)
    <2>0. E[j].data \in Seq(Byte) /\ c[j - 1] \in Byte /\ c[j] = Checksum(c[j - 1], E[j].data)
      BY <1>1, <1>4 DEF Segments
    <2>1. CASE j < n
      <3>1. b[j] = c[j] /\ b[j - 1] = c[j - 1]
        <4>1. j - 1 < n
          BY <2>1
        <4> QED
          BY <1>4, <2>1, <4>1
      <3>2. X[j] = E[j]
        BY <2>1 DEF ChangedSegment
      <3> QED
        BY <2>0, <3>1, <3>2
    <2>2. CASE j = n
      <3>1. b[j] = Xor(c[j], x) /\ b[j - 1] = c[j - 1]
        <4>1. j - 1 < n /\ ~(j < n)
          BY <2>2
        <4> QED
          BY <1>4, <2>2, <4>1
      <3>2. Changed(E[j].data, m, x, X[j].data)
        BY <2>2 DEF ChangedSegment
      <3>3. Checksum(c[j - 1], X[j].data) = Xor(Checksum(c[j - 1], E[j].data), x)
        BY <2>0, <3>2, ChangedSum
      <3> QED
        BY <2>0, <3>1, <3>3
    <2>3. CASE j > n
      <3>1. b[j] = Xor(c[j], x) /\ b[j - 1] = Xor(c[j - 1], x)
        <4>1. ~(j - 1 < n) /\ ~(j < n)
          BY <2>3
        <4> QED
          BY <1>4, <2>3, <4>1
      <3>2. X[j] = E[j]
        BY <2>3 DEF ChangedSegment
      <3>3. Checksum(Xor(c[j - 1], x), E[j].data) = Xor(Checksum(c[j - 1], E[j].data), x)
        BY <2>0, ChecksumShifts
      <3> QED
        BY <2>0, <3>1, <3>2, <3>3
    <2> QED
      BY <2>1, <2>2, <2>3
  <1> HIDE DEF b
  <1>7. Summed(k, X, b)
    BY <1>3, <1>5, <1>6 DEF Summed
  <1> QED
    BY <1>5, <1>7

\* A byte of the data of a segment.
LEMMA SegmentChanged ==
    ASSUME list \in Seq(Names), NEW f, NEW e, NEW c, Complete(f, e, c),
           NEW i, NEW x, NEW g, Changed(f, i, x, g), NEW n \in 1 .. Len(list),
           i <= e[n], i > e[n] - Len(Plan(Len(list))[n].data)
    PROVE  Info(g).stat = "read" /\ ~Info(g).good
  <1> DEFINE k == Len(list)
             a == e[k]
             E == Plan(k)
             l == TailSize(a)
             u == TailOf(g, a)
             m == i - (e[n - 1] + 8)
  <1>1. /\ k \in Nat /\ Headed(f) /\ f[2] = k /\ Laid(f, k, e, E)
        /\ Summed(k, E, c) /\ Len(f) = a + l
        /\ a \in Nat /\ a >= 8 /\ l \in 1 .. 16 /\ c[k] \in Byte /\ Len(f) \in Nat
    BY CompleteFacts
  <1>2. /\ g \in Seq(Byte) /\ Len(g) = Len(f) /\ i \in Nat
        /\ i \in 1 .. Len(f) /\ x \in Byte \ {0} /\ g[i] = Xor(f[i], x)
        /\ \A j \in 1 .. Len(f) : j # i => g[j] = f[j]
    BY DEF Changed
  <1>3. /\ n \in 1 .. k /\ i <= e[n] /\ i > e[n] - Len(E[n].data)
        /\ Changed(f, i, x, g)
    OBVIOUS
  <1> HIDE DEF k, E, a, l
  <1>4. m \in 1 .. Len(E[n].data) /\ i >= 9 /\ i <= a
    <2>1. /\ Laid(f, k, e, E) /\ k \in Nat /\ n \in 1 .. k /\ i \in Nat
          /\ i <= e[n] /\ i > e[n] - Len(E[n].data)
      BY <1>1, <1>2, <1>3
    <2> QED
      BY ONLY <2>1, OnlyThere DEF a
  <1>5. E \in [1 .. k -> Segments]
    BY <1>1 DEF Laid
  <1>6. PICK X : ChangedSegment(E, n, m, x, X, k)
    BY <1>1, <1>2, <1>3, <1>4, <1>5, ChangedSegmentIs
  <1>7. PICK b : Summed(k, X, b) /\ b[k] = Xor(c[k], x)
    BY <1>1, <1>2, <1>3, <1>5, <1>6, SummedChanged
  <1>8. Laid(g, k, e, X)
    BY <1>1, <1>3, <1>6, LaidChanged
  <1>9. g[1] = f[1] /\ g[2] = f[2]
    <2>1. 1 \in 1 .. Len(f) /\ 2 \in 1 .. Len(f) /\ i # 1 /\ i # 2
      BY <1>1, <1>2, <1>4 DEF Headed
    <2> QED
      BY <1>2, <2>1
  <1>10. Whole(g, k, e, X, b)
    <2>1. Headed(g)
      BY <1>1, <1>2, <1>9 DEF Headed
    <2> QED
      BY <1>1, <1>2, <1>7, <1>8, <1>9, <2>1 DEF Whole, a, l
  <1>11. /\ u \in Seq(Byte) /\ Len(u) = l /\ \A j \in 1 .. l : u[j] = g[a + j]
         /\ Info(g).stat = "read" /\ (Info(g).good <=> Checksum(b[k], u) = 0)
    BY <1>1, <1>10, InfoOfImage DEF a, l
  <1> HIDE DEF u
  <1>12. \A j \in 1 .. l : u[j] = f[a + j]
    <2>1. \A j \in 1 .. l : a + j \in 1 .. Len(f) /\ a + j # i
      BY <1>1, <1>2, <1>4
    <2> QED
      BY <1>2, <1>11, <2>1
  <1>13. Checksum(c[k], u) = 0
    BY <1>11, <1>12, CompleteTail DEF k, a, l
  <1>14. Checksum(Xor(c[k], x), u) = Xor(Checksum(c[k], u), x)
    BY <1>1, <1>2, <1>11, ChecksumShifts
  <1>15. Checksum(b[k], u) = x
    BY <1>2, <1>7, <1>13, <1>14, XorZero
  <1> QED
    BY <1>2, <1>11, <1>15

LEMMA FileSpoil ==
    ASSUME FormatInv, FileInv, Spoil
    PROVE  FileInv'
  <1> DEFINE k == Len(list)
  <1>1. /\ pc = "Made" /\ pc' = "Made" /\ spoilt = 0 /\ list' = list /\ file \in Seq(Byte)
        /\ list \in Seq(Names) /\ k \in Nat
    BY LenProperties DEF Spoil, FormatInv, TypeOK
  <1>2. PICK e, c : Complete(file, e, c)
    BY <1>1 DEF FileInv
  <1>3. PICK x \in Byte : Changed(file, spoilt', x, file')
    BY <1>1, SpoilFacts
  <1>4. PICK g, i : g = file' /\ i = spoilt'
    OBVIOUS
  <1>5. Changed(file, i, x, g)
    BY <1>3, <1>4
  <1>6. i # 0
    BY <1>1, <1>5, LenProperties DEF Changed
  <1>7. Laid(file, k, e, Plan(k))
    BY <1>1, <1>2, CompleteFacts
  <1>8. \A n \in 0 .. k : Ends[n] = e[n]
    BY <1>1, <1>7, EndsAre
  <1>9. \A n \in 1 .. k : Padded(Asked[n]) = Plan(k)[n].data
    BY DEF Plan
  <1>10. ASSUME \/ i > Ends[k]
                \/ \E n \in 1 .. k : i <= Ends[n] /\ i > Ends[n] - Len(Padded(Asked[n]))
         PROVE  Info(g).stat = "read" /\ ~Info(g).good
    <2>1. CASE i > Ends[k]
      <3>1. k \in 0 .. k
        BY <1>1
      <3>2. i > e[k]
        BY <1>8, <2>1, <3>1
      <3> QED
        BY <1>1, <1>2, <1>5, <3>2, TailChanged
    <2>2. ASSUME NEW n \in 1 .. k, i <= Ends[n], i > Ends[n] - Len(Padded(Asked[n]))
          PROVE  Info(g).stat = "read" /\ ~Info(g).good
      <3>1. n \in 0 .. k
        BY <1>1
      <3>2. i <= e[n] /\ i > e[n] - Len(Plan(k)[n].data)
        BY <1>8, <1>9, <2>2, <3>1
      <3> QED
        BY <1>1, <1>2, <1>5, <3>2, SegmentChanged
    <2> QED
      BY <1>10, <2>1, <2>2
  <1>11. Ends' = Ends /\ \A n : Asked[n]' = Asked[n]
    BY <1>1 DEF Ends, Asked
  <1>12. DataGuarded'
    BY <1>1, <1>4, <1>10, <1>11 DEF DataGuarded
  <1>13. StumpNoticed'
    BY <1>1 DEF StumpNoticed
  <1> QED
    BY <1>1, <1>4, <1>6, <1>12, <1>13 DEF FileInv

-----------------------------------------------------------------------------
(* The theorems about images *)

LEMMA FileInit == Init => FileInv
  BY DEF Init, FileInv, StumpNoticed, DataGuarded

LEMMA FileNext ==
    ASSUME ~SeekFails, FormatInv, FileInv, [Next]_vars
    PROVE  FileInv'
  <1>1. CASE SetOption
    <2>1. UNCHANGED <<pc, list, done, cksum, size, file, spoilt>>
      BY <1>1 DEF SetOption, SetParms
    <2> QED
      BY <2>1, FileKept
  <1>2. CASE MakeImage
    <2>1. pc' = "Header"
      BY <1>2 DEF MakeImage
    <2> QED
      BY <2>1, FileElsewhere
  <1>3. CASE WriteHeader
    BY <1>3, FileWriteHeader
  <1>4. CASE NoSection
    BY <1>4, FileNoSection
  <1>5. CASE WriteSegment
    BY <1>5, FileWriteSegment
  <1>6. CASE WritePadding
    BY <1>6, FileWritePadding
  <1>7. CASE MakeRaw
    <2>1. Len(list') = 1
      BY <1>7 DEF MakeRaw
    <2>2. pc' \in {"Raw", "Failed"}
      BY <1>7 DEF MakeRaw, Stops
    <2> QED
      BY <2>1, <2>2, FileElsewhere
  <1>8. CASE Spoil
    BY <1>8, FileSpoil
  <1>9. ASSUME NEW zero \in BOOLEAN, Download(zero) PROVE FileInv'
    <2>1. UNCHANGED <<pc, list, done, cksum, size, file, spoilt>>
      BY <1>9 DEF Download
    <2> QED
      BY <2>1, FileKept
  <1>10. CASE UNCHANGED vars
    <2>1. UNCHANGED <<pc, list, done, cksum, size, file, spoilt>>
      BY <1>10 DEF vars
    <2> QED
      BY <2>1, FileKept
  <1> QED
    BY <1>1, <1>2, <1>3, <1>4, <1>5, <1>6, <1>7, <1>8, <1>9, <1>10 DEF Next

LEMMA FileAlways ==
    ASSUME ~SeekFails
    PROVE  Spec => []FileInv
  <1>1. FormatInv /\ FileInv /\ [Next]_vars => FileInv'
    BY FileNext
  <1> QED
    BY <1>1, FileInit, FormatAlways, PTL DEF Spec

\* What WriteSections (esp.cpp:590) makes, stdImageInfo (esp.cpp:1183) reads
\* back, whatever sections of whatever sizes are asked for, when no seek in the
\* ELF file fails.
THEOREM ImageReadBack ==
    ASSUME ~SeekFails
    PROVE  Spec => []ReadBack
  <1>1. FormatInv /\ FileInv /\ SentInv => ReadBack
    BY FileReadsBack DEF FormatInv, TypeOK
  <1> QED
    BY <1>1, FileAlways, FormatAlways, SentAlways, PTL

\* A file that could not be finished is not taken for a correct image
\* (esp.cpp:640-681).
THEOREM StumpAlwaysNoticed ==
    ASSUME ~SeekFails
    PROVE  Spec => []StumpNoticed
  <1>1. FileInv => StumpNoticed
    BY DEF FileInv
  <1> QED
    BY <1>1, FileAlways, PTL

\* A byte of the data or of the tail that has changed is noticed
\* (esp.cpp:1285).
THEOREM DataAlwaysGuarded ==
    ASSUME ~SeekFails
    PROVE  Spec => []DataGuarded
  <1>1. FileInv => DataGuarded
    BY DEF FileInv
  <1> QED
    BY <1>1, FileAlways, PTL

==============================================================================
