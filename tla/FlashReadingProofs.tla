------------------------- MODULE FlashReadingProofs -------------------------
(***************************************************************************)
(* Theorems about PacketReader, for every session, every number of replies *)
(* to SYNC, and whatever bytes the line loses, spoils or adds.             *)
(*                                                                         *)
(* Then theorems about FlashReading: for every content of the Flash, every *)
(* length and size of a block, and whatever goes wrong but for the bytes   *)
(* on the line, the file is what was asked for.  At the end, theorems      *)
(* about TickTimer: how long its readPacket and readByte wait.             *)
(***************************************************************************)
EXTENDS FlashReading, SequenceFacts, TLAPS

-----------------------------------------------------------------------------
(* SLIP *)

LEMMA EscapedTyped == \A b \in Byte : Escaped(b) \in Seq(Byte)
  <1> SUFFICES ASSUME NEW b \in Byte PROVE Escaped(b) \in Seq(Byte)
    OBVIOUS
  <1>1. \A x, y \in Byte : <<x>> \in Seq(Byte) /\ <<x, y>> \in Seq(Byte)
    OBVIOUS
  <1>2. 219 \in Byte /\ 220 \in Byte /\ 221 \in Byte
    BY DEF Byte
  <1>3. Escaped(b) \in {<<219, 220>>, <<219, 221>>, <<b>>}
    BY DEF Escaped
  <1>4. PICK x \in Byte, y \in Byte : Escaped(b) \in {<<x>>, <<x, y>>}
    BY <1>2, <1>3, Zenon
  <1> QED
    BY <1>1, <1>4, Zenon

\* One more byte is encoded at the end.
LEMMA EncodedAppend ==
    ASSUME NEW s \in Seq(Byte), NEW b \in Byte
    PROVE  /\ Encoded(s) \in Seq(Byte)
           /\ Encoded(Append(s, b)) = Encoded(s) \o Escaped(b)
  <1> DEFINE parts == [i \in DOMAIN s |-> Escaped(s[i])]
             more  == Append(s, b)
             parts2 == [i \in DOMAIN more |-> Escaped(more[i])]
             x == Escaped(b)
  <1>0. Len(s) \in Nat /\ DOMAIN s = 1 .. Len(s) /\ \A i \in 1 .. Len(s) : s[i] \in Byte
    OBVIOUS
  <1>1. parts \in Seq(Seq(Byte)) /\ Len(parts) = Len(s) /\ x \in Seq(Byte)
    <2>1. parts \in [1 .. Len(s) -> Seq(Byte)]
      BY <1>0, EscapedTyped
    <2> QED
      BY <1>0, <2>1, EscapedTyped, FunctionIsSeq
  <1>2. /\ DOMAIN more = 1 .. Len(s) + 1 /\ more[Len(s) + 1] = b
        /\ \A i \in 1 .. Len(s) : more[i] = s[i]
    BY <1>0
  <1>3. parts2 = Append(parts, x)
    <2>1. /\ Append(parts, x) \in [1 .. Len(s) + 1 -> Seq(Byte)]
          /\ Append(parts, x)[Len(s) + 1] = x
          /\ \A i \in 1 .. Len(s) : Append(parts, x)[i] = parts[i]
      <3> HIDE DEF parts, x
      <3>1. Append(parts, x) \in Seq(Seq(Byte)) /\ Len(Append(parts, x)) = Len(s) + 1
        BY <1>1, AppendProperties
      <3>2. Append(parts, x)[Len(s) + 1] = x
            /\ \A i \in 1 .. Len(s) : Append(parts, x)[i] = parts[i]
        BY <1>1, AppendProperties
      <3> QED
        BY <3>1, <3>2, LenProperties
    <2>2. \A i \in 1 .. Len(s) : parts[i] = Escaped(s[i]) /\ parts2[i] = Escaped(s[i])
      BY <1>0, <1>2
    <2>3. parts2[Len(s) + 1] = x /\ DOMAIN parts2 = 1 .. Len(s) + 1
      BY <1>0, <1>2
    <2>4. \A i \in 1 .. Len(s) + 1 : i = Len(s) + 1 \/ i \in 1 .. Len(s)
      BY <1>0
    <2> DEFINE app == Append(parts, x)
    <2>5. parts2 = [i \in 1 .. Len(s) + 1 |-> parts2[i]]
      BY <1>2
    <2> HIDE DEF parts, parts2, x, more
    <2>6. \A i \in 1 .. Len(s) + 1 : parts2[i] = app[i]
      BY <2>1, <2>2, <2>3, <2>4
    <2>7. app = [i \in 1 .. Len(s) + 1 |-> app[i]]
      BY <2>1
    <2> QED
      BY <2>5, <2>6, <2>7
  <1>4. Encoded(s) = FlattenSeq(parts) /\ Encoded(more) = FlattenSeq(parts2)
    BY DEF Encoded
  <1> HIDE DEF parts, parts2, x, more
  <1>5. FlattenSeq(parts) \in Seq(Byte) /\ FlattenSeq(parts2) = FlattenSeq(parts) \o x
    BY <1>1, <1>3, FlattenAppend
  <1> QED
    BY <1>4, <1>5 DEF x, more

LEMMA EncodedEmpty == Encoded(<<>>) = <<>>
  BY FlattenEmpty DEF Encoded

\* ReadByte undoes WriteByte: the bytes it takes for one are the ones that
\* WriteByte makes of it, and it does not meet the end of what is available.
LEMMA SlipUndone ==
    ASSUME NEW q \in Seq(Byte), Len(q) >= 2
    PROVE  /\ SlipByte(q).used \in {1, 2}
           /\ SlipByte(q).stat \in {-3, -1, 1, 2}
           /\ SlipByte(q).stat \in {1, 2} =>
                 /\ SlipByte(q).byte \in Byte
                 /\ SubSeq(q, 1, SlipByte(q).used) = Escaped(SlipByte(q).byte)
  <1>1. q[1] \in Byte /\ q[2] \in Byte /\ Len(q) \in Nat
    OBVIOUS
  <1>2. SubSeq(q, 1, 1) = <<q[1]>> /\ SubSeq(q, 1, 2) = <<q[1], q[2]>>
    BY FirstElements
  <1>3. CASE q[1] = 192
    BY <1>3 DEF SlipByte
  <1>4. CASE q[1] \notin {192, 219}
    <2>1. SlipByte(q) = [stat |-> 1, byte |-> q[1], used |-> 1]
      BY <1>4 DEF SlipByte
    <2>2. Escaped(q[1]) = <<q[1]>>
      BY <1>4 DEF Escaped
    <2> QED
      BY <1>1, <1>2, <2>1, <2>2
  <1>5. CASE q[1] = 219
    <2> DEFINE b == IF q[2] = 220 THEN 192 ELSE IF q[2] = 221 THEN 219 ELSE q[2]
    <2>1. SlipByte(q) = [stat |-> IF q[2] \in {220, 221} THEN 2 ELSE -3,
                         byte |-> b, used |-> 2]
      BY <1>1, <1>5 DEF SlipByte
    <2>2. b \in Byte
      BY <1>1 DEF Byte
    <2>3. q[2] \in {220, 221} => Escaped(b) = <<219, q[2]>>
      BY DEF Escaped
    <2> HIDE DEF b
    <2> QED
      BY <1>2, <1>5, <2>1, <2>2, <2>3
  <1> QED
    BY <1>3, <1>4, <1>5

\* The bytes of an encoding: no frame byte is among them, and the last of them
\* is not an escape.
Encoding(e, n) ==
    /\ \A i \in 1 .. Len(e) : e[i] # 192
    /\ n > 0 <=> Len(e) > 0
    /\ Len(e) > 0 => e[Len(e)] # 219

LEMMA EscapedBytes ==
    ASSUME NEW b \in Byte
    PROVE  /\ Escaped(b) \in Seq(Byte)
           /\ \/ /\ b \notin {192, 219} /\ Len(Escaped(b)) = 1
                 /\ Escaped(b)[1] = b
              \/ /\ b \in {192, 219} /\ Len(Escaped(b)) = 2
                 /\ Escaped(b)[1] = 219
                 /\ Escaped(b)[2] = IF b = 192 THEN 220 ELSE 221
  <1>1. Escaped(b) \in Seq(Byte)
    BY EscapedTyped
  <1>2. CASE b = 192
    <2>1. Escaped(b) = <<219, 220>>
      BY <1>2 DEF Escaped
    <2> QED
      BY <1>1, <1>2, <2>1
  <1>3. CASE b = 219
    <2>1. Escaped(b) = <<219, 221>>
      BY <1>3 DEF Escaped
    <2> QED
      BY <1>1, <1>3, <2>1
  <1>4. CASE b \notin {192, 219}
    <2>1. Escaped(b) = <<b>>
      BY <1>4 DEF Escaped
    <2> QED
      BY <1>1, <1>4, <2>1
  <1> QED
    BY <1>2, <1>3, <1>4

\* A sequence that is not empty is one shorter and its last element.
LEMMA FrontAndLast ==
    ASSUME NEW S, NEW s \in Seq(S), NEW n \in Nat, Len(s) = n + 1
    PROVE  /\ SubSeq(s, 1, n) \in Seq(S) /\ Len(SubSeq(s, 1, n)) = n
           /\ s[n + 1] \in S /\ s = Append(SubSeq(s, 1, n), s[n + 1])
  <1> DEFINE f == SubSeq(s, 1, n)
  <1>1. /\ f \in Seq(S) /\ Len(f) = n /\ \A i \in 1 .. n : f[i] = s[i]
    <2>1. 0 \in 0 .. Len(s) /\ n \in 0 .. Len(s) /\ 0 + 1 = 1 /\ n - 0 = n
          /\ \A i \in 1 .. n : 0 + i = i
      OBVIOUS
    <2> QED
      BY <2>1, Slice
  <1>2. s[n + 1] \in S
    BY ElementOfSeq
  <1> HIDE DEF f
  <1>3. s = Append(f, s[n + 1])
    BY <1>1, <1>2, LastAppended
  <1> QED
    BY <1>1, <1>2, <1>3 DEF f

LEMMA EncodedBytes ==
    ASSUME NEW s \in Seq(Byte)
    PROVE  Encoded(s) \in Seq(Byte) /\ Encoding(Encoded(s), Len(s))
  <1> DEFINE G == {n \in 0 .. Len(s) :
                      \A r \in Seq(Byte) : Len(r) = n =>
                          Encoded(r) \in Seq(Byte) /\ Encoding(Encoded(r), n)}
  <1>1. Len(s) \in Nat /\ 0 \in 0 .. Len(s) /\ Len(s) \in 0 .. Len(s)
    BY LenProperties
  <1>2. 0 \in G
    <2>1. ASSUME NEW r \in Seq(Byte), Len(r) = 0
          PROVE  Encoded(r) \in Seq(Byte) /\ Encoding(Encoded(r), 0)
      <3>1. r = <<>>
        BY <2>1, EmptySeq
      <3>2. Encoded(r) = <<>> /\ <<>> \in Seq(Byte) /\ Len(<<>>) = 0
        BY <3>1, EncodedEmpty, EmptySeq
      <3> QED
        BY <3>2 DEF Encoding
    <2> QED
      BY <1>1, <2>1
  <1>3. ASSUME NEW n \in 1 .. Len(s), n - 1 \in G PROVE n \in G
    <2>1. n \in 0 .. Len(s) /\ n - 1 \in Nat /\ (n - 1) + 1 = n /\ n > 0
      BY <1>1
    <2>2. ASSUME NEW r \in Seq(Byte), Len(r) = n
          PROVE  Encoded(r) \in Seq(Byte) /\ Encoding(Encoded(r), n)
      <3> DEFINE f == SubSeq(r, 1, n - 1)
                 b == r[n]
                 e == Encoded(f)
                 x == Escaped(b)
      <3>1. f \in Seq(Byte) /\ Len(f) = n - 1 /\ b \in Byte /\ r = Append(f, b)
        BY <2>1, <2>2, FrontAndLast
      <3>2. e \in Seq(Byte) /\ Encoding(e, n - 1)
        BY <1>3, <3>1
      <3> HIDE DEF f, b
      <3>3. Encoded(r) = e \o x
        BY <3>1, EncodedAppend
      <3>4. /\ x \in Seq(Byte) /\ Len(x) \in {1, 2} /\ x[Len(x)] # 219
            /\ \A i \in 1 .. Len(x) : x[i] # 192
        <4>1. /\ x \in Seq(Byte)
              /\ \/ b \notin {192, 219} /\ Len(x) = 1 /\ x[1] = b
                 \/ /\ b \in {192, 219} /\ Len(x) = 2 /\ x[1] = 219
                    /\ x[2] = IF b = 192 THEN 220 ELSE 221
          BY <3>1, EscapedBytes
        <4> HIDE DEF x
        <4>2. \A i \in 1 .. Len(x) : i = 1 \/ (i = 2 /\ Len(x) = 2)
          <5>1. Len(x) \in {1, 2}
            BY <4>1
          <5>2. \A l \in {1, 2} : \A i \in 1 .. l : i = 1 \/ (i = 2 /\ l = 2)
            OBVIOUS
          <5> QED
            BY <5>1, <5>2, Zenon
        <4> QED
          BY <4>1, <4>2
      <3> HIDE DEF e, x
      <3>5. /\ e \o x \in Seq(Byte) /\ Len(e \o x) = Len(e) + Len(x)
            /\ \A i \in 1 .. Len(e) + Len(x) :
                  (e \o x)[i] = IF i <= Len(e) THEN e[i] ELSE x[i - Len(e)]
        BY <3>2, <3>4, ConcatProperties
      <3>6. Len(e) \in Nat
        BY <3>2, LenProperties
      <3>7. ASSUME NEW i \in 1 .. Len(e) + Len(x) PROVE (e \o x)[i] # 192
        <4>1. CASE i <= Len(e)
          <5>1. i \in 1 .. Len(e)
            BY <3>6, <4>1
          <5> QED
            BY <3>2, <3>5, <4>1, <5>1 DEF Encoding
        <4>2. CASE ~(i <= Len(e))
          <5>1. i - Len(e) \in 1 .. Len(x)
            <6>1. Len(x) \in Nat /\ Len(e) \in Nat /\ i \in Nat
                  /\ i <= Len(e) + Len(x) /\ i > Len(e)
              BY <3>4, <3>6, <4>2
            <6> QED
              BY <6>1
          <5> QED
            BY <3>4, <3>5, <4>2, <5>1
        <4> QED
          BY <4>1, <4>2
      <3>8. Len(e \o x) > 0 /\ (e \o x)[Len(e \o x)] # 219
        <4>1. /\ Len(e) + Len(x) \in 1 .. Len(e) + Len(x)
              /\ ~(Len(e) + Len(x) <= Len(e)) /\ Len(e) + Len(x) > 0
              /\ (Len(e) + Len(x)) - Len(e) = Len(x)
          <5>1. Len(e) \in Nat /\ Len(x) \in {1, 2}
            BY <3>4, <3>6
          <5>2. \A m \in Nat, l \in {1, 2} :
                    /\ m + l \in 1 .. m + l /\ ~(m + l <= m) /\ m + l > 0
                    /\ (m + l) - m = l
            OBVIOUS
          <5> QED
            BY <5>1, <5>2, Zenon
        <4>2. (e \o x)[Len(e) + Len(x)] = x[Len(x)]
          BY <3>5, <4>1
        <4> QED
          BY <3>4, <3>5, <4>1, <4>2
      <3> QED
        BY <3>3, <3>5, <3>7, <3>8 DEF Encoding
    <2> QED
      BY <2>1, <2>2
  <1> HIDE DEF G
  <1>4. \A n \in 1 .. Len(s) : n - 1 \in G => n \in G
    BY <1>3
  <1>5. Len(s) \in G
    <2>1. \A n \in 0 .. Len(s) : n \in G
      BY <1>1, <1>2, <1>4, BoundedInduction
    <2> QED
      BY <1>1, <2>1
  <1> QED
    BY <1>5 DEF G

\* What two encodings end with when they are equal.
LEMMA EndsEqual ==
    ASSUME NEW e \in Seq(Byte), NEW f \in Seq(Byte), NEW b \in Byte, NEW c \in Byte,
           NEW m, NEW n, Encoding(e, m), Encoding(f, n),
           e \o Escaped(b) = f \o Escaped(c)
    PROVE  b = c /\ e = f
  <1> DEFINE x == Escaped(b)
             y == Escaped(c)
             g == e \o x
  <1>1. /\ x \in Seq(Byte) /\ y \in Seq(Byte)
        /\ \/ b \notin {192, 219} /\ Len(x) = 1 /\ x[1] = b
           \/ /\ b \in {192, 219} /\ Len(x) = 2 /\ x[1] = 219
              /\ x[2] = IF b = 192 THEN 220 ELSE 221
        /\ \/ c \notin {192, 219} /\ Len(y) = 1 /\ y[1] = c
           \/ /\ c \in {192, 219} /\ Len(y) = 2 /\ y[1] = 219
              /\ y[2] = IF c = 192 THEN 220 ELSE 221
    BY EscapedBytes
  <1>2. g = f \o y
    OBVIOUS
  <1>3. /\ Len(g) = Len(e) + Len(x)
        /\ \A i \in 1 .. Len(e) + Len(x) :
              g[i] = IF i <= Len(e) THEN e[i] ELSE x[i - Len(e)]
    BY <1>1, ConcatProperties
  <1>4. /\ Len(g) = Len(f) + Len(y)
        /\ \A i \in 1 .. Len(f) + Len(y) :
              g[i] = IF i <= Len(f) THEN f[i] ELSE y[i - Len(f)]
    BY <1>1, <1>2, ConcatProperties
  <1>5. Len(e) \in Nat /\ Len(f) \in Nat
    BY LenProperties
  <1>6. /\ Len(e) > 0 => e[Len(e)] # 219
        /\ Len(f) > 0 => f[Len(f)] # 219
    BY DEF Encoding
  <1>7. (Len(x) = 1) <=> (Len(y) = 1)
    <2>1. ASSUME Len(x) = 1, Len(y) = 2 PROVE FALSE
      <3>1. Len(e) = Len(f) + 1 /\ Len(e) >= 1 /\ Len(e) \in 1 .. Len(e) + Len(x)
            /\ Len(e) <= Len(e) /\ Len(e) \in 1 .. Len(f) + Len(y)
            /\ ~(Len(e) <= Len(f)) /\ Len(e) - Len(f) = 1
        BY <1>3, <1>4, <1>5, <2>1
      <3>2. g[Len(e)] = e[Len(e)] /\ g[Len(e)] = y[1]
        BY <1>3, <1>4, <3>1
      <3> QED
        BY <1>1, <1>6, <2>1, <3>1, <3>2
    <2>2. ASSUME Len(x) = 2, Len(y) = 1 PROVE FALSE
      <3>1. Len(f) = Len(e) + 1 /\ Len(f) >= 1 /\ Len(f) \in 1 .. Len(f) + Len(y)
            /\ Len(f) <= Len(f) /\ Len(f) \in 1 .. Len(e) + Len(x)
            /\ ~(Len(f) <= Len(e)) /\ Len(f) - Len(e) = 1
        BY <1>3, <1>4, <1>5, <2>2
      <3>2. g[Len(f)] = f[Len(f)] /\ g[Len(f)] = x[1]
        BY <1>3, <1>4, <3>1
      <3> QED
        BY <1>1, <1>6, <2>2, <3>1, <3>2
    <2> QED
      BY <1>1, <2>1, <2>2
  <1>8. Len(x) = Len(y) /\ Len(e) = Len(f)
    BY <1>1, <1>3, <1>4, <1>5, <1>7
  <1>9. \A i \in 1 .. Len(x) : x[i] = y[i]
    <2> SUFFICES ASSUME NEW i \in 1 .. Len(x) PROVE x[i] = y[i]
      OBVIOUS
    <2>1. /\ Len(e) + i \in 1 .. Len(e) + Len(x) /\ ~(Len(e) + i <= Len(e))
          /\ (Len(e) + i) - Len(e) = i
      BY <1>1, <1>5
    <2> QED
      BY <1>3, <1>4, <1>8, <2>1
  <1> HIDE DEF x, y, g
  <1>10. x = y
    BY <1>1, <1>8, <1>9, SeqEqual
  <1>11. b = c
    BY <1>1, <1>10
  <1>12. e = f
    <2>1. \A S : \A s, t, v \in Seq(S) : s \o v = t \o v => s = t
      BY ConcatSimplifications
    <2>2. e \o x = f \o x /\ x \in Seq(Byte)
      BY <1>1, <1>2, <1>10 DEF g
    <2> QED
      BY <2>1, <2>2
  <1> QED
    BY <1>11, <1>12

\* Different contents are encoded differently.
LEMMA EncodedInjective ==
    ASSUME NEW s \in Seq(Byte), NEW t \in Seq(Byte), Encoded(s) = Encoded(t)
    PROVE  s = t
  <1> DEFINE G == {n \in 0 .. Len(s) :
                      \A r, q \in Seq(Byte) :
                          Len(r) = n /\ Encoded(r) = Encoded(q) => r = q}
  <1>1. Len(s) \in Nat /\ 0 \in 0 .. Len(s) /\ Len(s) \in 0 .. Len(s)
    BY LenProperties
  <1>2. \A r, q \in Seq(Byte) : Encoded(r) = Encoded(q) =>
            (Len(r) > 0 <=> Len(q) > 0)
    BY EncodedBytes DEF Encoding
  <1>3. 0 \in G
    <2>1. ASSUME NEW r \in Seq(Byte), NEW q \in Seq(Byte), Len(r) = 0,
                 Encoded(r) = Encoded(q)
          PROVE  r = q
      <3>1. Len(q) = 0
        <4>1. Len(q) \in Nat
          BY LenProperties
        <4>2. Len(r) > 0 <=> Len(q) > 0
          BY <1>2, <2>1, Zenon
        <4> QED
          BY <2>1, <4>1, <4>2
      <3> QED
        BY <2>1, <3>1, EmptySeq
    <2> QED
      BY <1>1, <2>1
  <1>4. ASSUME NEW n \in 1 .. Len(s), n - 1 \in G PROVE n \in G
    <2>1. n \in 0 .. Len(s) /\ n - 1 \in Nat /\ (n - 1) + 1 = n /\ n > 0
      BY <1>1
    <2>2. ASSUME NEW r \in Seq(Byte), NEW q \in Seq(Byte), Len(r) = n,
                 Encoded(r) = Encoded(q)
          PROVE  r = q
      <3> DEFINE m == Len(q) - 1
                 f == SubSeq(r, 1, n - 1)
                 g == SubSeq(q, 1, m)
                 b == r[n]
                 c == q[m + 1]
      <3>1. m \in Nat /\ Len(q) = m + 1
        <4>1. Len(q) \in Nat /\ Len(q) > 0
          BY <1>2, <2>1, <2>2, LenProperties
        <4> QED
          BY <4>1
      <3> HIDE DEF m
      <3>2. f \in Seq(Byte) /\ Len(f) = n - 1 /\ b \in Byte /\ r = Append(f, b)
        BY <2>1, <2>2, FrontAndLast
      <3>3. g \in Seq(Byte) /\ c \in Byte /\ q = Append(g, c)
        BY <3>1, FrontAndLast
      <3> HIDE DEF f, g, b, c
      <3>4. Encoded(f) \o Escaped(b) = Encoded(g) \o Escaped(c)
        <4>1. /\ Encoded(Append(f, b)) = Encoded(f) \o Escaped(b)
              /\ Encoded(Append(g, c)) = Encoded(g) \o Escaped(c)
          BY <3>2, <3>3, EncodedAppend
        <4> QED
          BY <2>2, <3>2, <3>3, <4>1, Zenon
      <3>5. /\ Encoded(f) \in Seq(Byte) /\ Encoding(Encoded(f), Len(f))
            /\ Encoded(g) \in Seq(Byte) /\ Encoding(Encoded(g), Len(g))
        BY <3>2, <3>3, EncodedBytes
      <3>6. b = c /\ Encoded(f) = Encoded(g)
        BY <3>2, <3>3, <3>4, <3>5, EndsEqual
      <3>7. f = g
        BY <1>4, <3>2, <3>3, <3>6
      <3> QED
        BY <3>2, <3>3, <3>6, <3>7
    <2> QED
      BY <2>1, <2>2
  <1> HIDE DEF G
  <1>5. \A n \in 1 .. Len(s) : n - 1 \in G => n \in G
    BY <1>4
  <1>6. Len(s) \in G
    <2>1. \A n \in 0 .. Len(s) : n \in G
      BY <1>1, <1>3, <1>5, BoundedInduction
    <2> QED
      BY <1>1, <2>1
  <1> QED
    BY <1>6 DEF G

-----------------------------------------------------------------------------
(* Packets one behind the other *)

Stream(q) == FlattenSeq([i \in DOMAIN q |-> Packet(q[i])])

\* A frame byte, the bytes e and a frame byte, in f from its position p.
FrameIn(f, p, e) ==
    /\ f[p] = 192 /\ f[p + Len(e) + 1] = 192
    /\ \A i \in 1 .. Len(e) : f[p + i] = e[i]

\* What lies between two frame bytes, and is not empty, is the content of one
\* of the first k packets; of the last one only when f ends with it.
Whole(f, e, q, k) ==
    /\ k > 0 => Len(f) > 0 /\ f[Len(f)] = 192
    /\ \A p \in 1 .. Len(f) :
          p + Len(e) + 1 <= Len(f) /\ FrameIn(f, p, e) =>
              \E i \in 1 .. k : /\ e = Encoded(q[i])
                                /\ i = k => p + Len(e) + 1 = Len(f)

LEMMA PacketBytes ==
    ASSUME NEW s \in Seq(Byte)
    PROVE  /\ Packet(s) \in Seq(Byte) /\ Len(Packet(s)) = Len(Encoded(s)) + 2
           /\ Packet(s)[1] = 192 /\ Packet(s)[Len(Encoded(s)) + 2] = 192
           /\ \A i \in 1 .. Len(Encoded(s)) : Packet(s)[1 + i] = Encoded(s)[i]
  <1> DEFINE E == Encoded(s)
             P == Packet(s)
  <1>e. E \in Seq(Byte) /\ Len(E) \in Nat
    BY EncodedBytes, LenProperties
  <1>p. P = (<< 192 >> \o E) \o << 192 >>
    BY DEF Packet
  <1> HIDE DEF E, P
  <1> DEFINE a == << 192 >>
             h == a \o E
  <1>1. a \in Seq(Byte) /\ Len(a) = 1 /\ a[1] = 192
    BY DEF Byte
  <1> HIDE DEF a
  <1>2. /\ h \in Seq(Byte) /\ Len(h) = 1 + Len(E)
        /\ \A i \in 1 .. 1 + Len(E) : h[i] = IF i <= 1 THEN a[i] ELSE E[i - 1]
    <2>1. /\ h \in Seq(Byte) /\ Len(h) = Len(a) + Len(E)
          /\ \A i \in 1 .. Len(a) + Len(E) :
                h[i] = IF i <= Len(a) THEN a[i] ELSE E[i - Len(a)]
      <3>1. a \in Seq(Byte) /\ E \in Seq(Byte)
        BY <1>e, <1>1
      <3> QED
        BY <3>1, ConcatProperties
    <2> QED
      BY <1>1, <2>1
  <1> HIDE DEF h
  <1>3. /\ P \in Seq(Byte) /\ Len(P) = Len(h) + 1
        /\ \A i \in 1 .. Len(h) + 1 : P[i] = IF i <= Len(h) THEN h[i] ELSE a[i - Len(h)]
    BY <1>p, <1>1, <1>2, ConcatProperties DEF h, a
  <1>4. P[1] = 192
    <2>1. 1 \in 1 .. Len(h) + 1 /\ 1 <= Len(h) /\ 1 \in 1 .. 1 + Len(E) /\ 1 <= 1
      BY <1>e, <1>2
    <2> QED
      BY <1>1, <1>2, <1>3, <2>1
  <1>5. P[Len(E) + 2] = 192
    <2>1. Len(E) + 2 \in 1 .. Len(h) + 1 /\ ~(Len(E) + 2 <= Len(h))
          /\ (Len(E) + 2) - Len(h) = 1
      BY <1>e, <1>2
    <2> QED
      BY <1>1, <1>3, <2>1
  <1>6. ASSUME NEW i \in 1 .. Len(E) PROVE P[1 + i] = E[i]
    <2>1. 1 + i \in 1 .. Len(h) + 1 /\ 1 + i <= Len(h) /\ 1 + i \in 1 .. 1 + Len(E)
          /\ ~(1 + i <= 1) /\ (1 + i) - 1 = i
      BY <1>e, <1>2
    <2> QED
      BY <1>2, <1>3, <2>1
  <1> QED
    BY <1>e, <1>2, <1>3, <1>4, <1>5, <1>6 DEF E, P

LEMMA FramedBehind ==
    ASSUME NEW e \in Seq(Byte), Len(e) > 0, \A i \in 1 .. Len(e) : e[i] # 192,
           NEW q, NEW k \in Nat \ {0}, q[k] \in Seq(Byte),
           NEW f \in Seq(Byte), Whole(f, e, q, k - 1), k - 1 = 0 => f = <<>>
    PROVE  Whole(f \o Packet(q[k]), e, q, k)
  <1> DEFINE E == Encoded(q[k])
             P == Packet(q[k])
             g == f \o P
             L == Len(f)
  <1>1. E \in Seq(Byte) /\ Len(E) \in Nat /\ \A i \in 1 .. Len(E) : E[i] # 192
    BY EncodedBytes, LenProperties DEF Encoding
  <1>2. P = (<< 192 >> \o E) \o << 192 >>
    BY DEF Packet
  <1>3. Len(f) \in Nat /\ Len(e) \in Nat /\ Len(e) >= 1
    BY LenProperties
  <1> HIDE DEF E, P
  <1>4. /\ P \in Seq(Byte) /\ Len(P) = Len(E) + 2
        /\ P[1] = 192 /\ P[Len(E) + 2] = 192
        /\ \A i \in 1 .. Len(E) : P[1 + i] = E[i]
    BY PacketBytes DEF E, P
  <1>5. /\ g \in Seq(Byte) /\ Len(g) = L + Len(E) + 2
        /\ \A i \in 1 .. L : g[i] = f[i]
        /\ g[L + 1] = 192 /\ g[L + Len(E) + 2] = 192
        /\ \A i \in 1 .. Len(E) : g[L + 1 + i] = E[i]
    <2>1. /\ g \in Seq(Byte) /\ Len(g) = Len(f) + Len(P)
          /\ \A i \in 1 .. Len(f) + Len(P) :
                g[i] = IF i <= Len(f) THEN f[i] ELSE P[i - Len(f)]
      <3>1. f \in Seq(Byte) /\ P \in Seq(Byte)
        BY <1>4
      <3> QED
        BY <3>1, ConcatProperties
    <2>2. \A i \in 1 .. L : g[i] = f[i]
      <3>1. \A i \in 1 .. L : i \in 1 .. Len(f) + Len(P) /\ i <= Len(f)
        BY <1>1, <1>3, <1>4
      <3> QED
        BY <2>1, <3>1
    <2>3. ASSUME NEW i \in 1 .. Len(E) + 2 PROVE g[L + i] = P[i]
      <3>1. L + i \in 1 .. Len(f) + Len(P) /\ ~(L + i <= Len(f)) /\ (L + i) - Len(f) = i
        BY <1>1, <1>3, <1>4
      <3> QED
        BY <2>1, <3>1
    <2> HIDE DEF g, L
    <2>4. g[L + 1] = P[1] /\ g[L + (Len(E) + 2)] = P[Len(E) + 2]
      BY <1>1, <2>3
    <2>5. ASSUME NEW i \in 1 .. Len(E) PROVE g[L + 1 + i] = E[i]
      <3>1. 1 + i \in 1 .. Len(E) + 2 /\ L + (1 + i) = L + 1 + i
        BY <1>1, <1>3 DEF L
      <3> QED
        BY <1>4, <2>3, <3>1
    <2>6. L + (Len(E) + 2) = L + Len(E) + 2 /\ Len(f) + Len(P) = L + Len(E) + 2
      BY <1>1, <1>3, <1>4 DEF L
    <2> QED
      BY <1>4, <2>1, <2>2, <2>4, <2>5, <2>6
  <1>6. L \in Nat
    BY <1>3
  <1> HIDE DEF g, L
  <1>7. ASSUME NEW p \in 1 .. Len(g), p + Len(e) + 1 <= Len(g), FrameIn(g, p, e)
        PROVE  \E i \in 1 .. k : /\ e = Encoded(q[i])
                                 /\ i = k => p + Len(e) + 1 = Len(g)
    <2> DEFINE r == p + Len(e) + 1
    <2>1. /\ p \in Nat /\ p >= 1 /\ r \in Nat /\ r = p + Len(e) + 1 /\ r <= Len(g)
          /\ g[p] = 192 /\ g[r] = 192 /\ \A i \in 1 .. Len(e) : g[p + i] = e[i]
      BY <1>3, <1>7 DEF FrameIn
    <2> HIDE DEF r
    <2>2. CASE r <= L
      <3>1. p \in 1 .. Len(f) /\ p + Len(e) + 1 <= Len(f)
        BY <1>3, <1>6, <2>1, <2>2 DEF L
      <3>2. FrameIn(f, p, e)
        <4>1. /\ p \in 1 .. L /\ p + Len(e) + 1 \in 1 .. L
              /\ \A i \in 1 .. Len(e) : p + i \in 1 .. L
          BY <1>3, <1>6, <2>1, <2>2
        <4> QED
          BY <1>5, <2>1, <4>1 DEF FrameIn
      <3>3. PICK i \in 1 .. k - 1 : e = Encoded(q[i])
        BY <3>1, <3>2 DEF Whole
      <3>4. i \in 1 .. k /\ i # k
        OBVIOUS
      <3> QED
        BY <3>3, <3>4
    <2>3. CASE r = L + 1
      <3>1. L >= 1 /\ L = p + Len(e) /\ L \in 1 .. L /\ Len(e) \in 1 .. Len(e)
        <4>1. r = p + Len(e) + 1 /\ p \in Nat /\ p >= 1
          BY <2>1
        <4>2. L \in Nat /\ Len(e) \in Nat /\ Len(e) >= 1
          BY <1>3, <1>6
        <4> QED
          BY ONLY <2>3, <4>1, <4>2
      <3>2. g[L] = f[L] /\ g[L] = e[Len(e)]
        BY <1>5, <2>1, <3>1
      <3>3. f[L] = 192
        <4>1. f # <<>>
          BY <3>1, EmptySeq DEF L
        <4>2. k - 1 > 0
          BY <4>1
        <4> QED
          BY <4>2 DEF Whole, L
      <3> QED
        BY <3>1, <3>2, <3>3
    <2>4. CASE r > L + 1
      <3>1. r = L + Len(E) + 2
        <4>1. ASSUME r # L + Len(E) + 2 PROVE FALSE
          <5>1. r - (L + 1) \in 1 .. Len(E) /\ L + 1 + (r - (L + 1)) = r
            <6>1. Len(g) = L + Len(E) + 2 /\ Len(E) \in Nat
              BY <1>1, <1>5
            <6>2. r \in Nat /\ r <= Len(g)
              BY <2>1
            <6>3. \A l, m, x \in Nat : x > l + 1 /\ x <= l + m + 2 /\ x # l + m + 2 =>
                      x - (l + 1) \in 1 .. m /\ l + 1 + (x - (l + 1)) = x
              OBVIOUS
            <6> QED
              BY <1>6, <2>4, <4>1, <6>1, <6>2, <6>3, Zenon
          <5> QED
            BY <1>1, <1>5, <2>1, <5>1
        <4> QED
          BY <4>1
      <3>2. p = L + 1
        <4>1. ASSUME p > L + 1 PROVE FALSE
          <5>1. p - (L + 1) \in 1 .. Len(E) /\ L + 1 + (p - (L + 1)) = p
            BY <1>1, <1>3, <1>6, <2>1, <3>1, <4>1
          <5> QED
            BY <1>1, <1>5, <2>1, <5>1
        <4>2. ASSUME p < L + 1 PROVE FALSE
          <5>1. (L + 1) - p \in 1 .. Len(e) /\ p + ((L + 1) - p) = L + 1
            BY <1>3, <1>6, <2>1, <2>4, <4>2
          <5>2. g[L + 1] = e[(L + 1) - p]
            BY <2>1, <5>1
          <5> QED
            BY <1>5, <5>1, <5>2
        <4> QED
          BY <1>6, <2>1, <4>1, <4>2
      <3>3. e = E
        <4>1. Len(e) = Len(E)
          BY <1>1, <1>3, <1>6, <2>1, <3>1, <3>2
        <4>2. \A i \in 1 .. Len(e) : e[i] = E[i]
          BY <1>5, <2>1, <3>2, <4>1
        <4> QED
          BY <1>1, <4>1, <4>2, SeqEqual
      <3>4. k \in 1 .. k /\ p + Len(e) + 1 = Len(g)
        BY <1>5, <2>1, <3>1
      <3> QED
        BY <3>3, <3>4 DEF E
    <2> QED
      BY <1>6, <2>1, <2>2, <2>3, <2>4
  <1>8. Len(g) > 0 /\ g[Len(g)] = 192
    BY <1>1, <1>5, <1>6
  <1> QED
    BY <1>7, <1>8 DEF Whole, g, P

LEMMA PacketTyped == \A s \in Seq(Byte) : Packet(s) \in Seq(Byte)
  <1> SUFFICES ASSUME NEW s \in Seq(Byte) PROVE Packet(s) \in Seq(Byte)
    OBVIOUS
  <1>1. << 192 >> \in Seq(Byte)
    BY DEF Byte
  <1>2. Encoded(s) \in Seq(Byte)
    BY EncodedAppend DEF Byte
  <1> QED
    BY <1>1, <1>2, ConcatProperties DEF Packet

\* The packets of contents.
PacketsOf(q) == [i \in DOMAIN q |-> Packet(q[i])]

LEMMA PacketsTyped ==
    ASSUME NEW q \in Seq(Seq(Byte))
    PROVE  /\ PacketsOf(q) \in Seq(Seq(Byte)) /\ Len(PacketsOf(q)) = Len(q)
           /\ \A i \in 1 .. Len(q) : PacketsOf(q)[i] = Packet(q[i])
           /\ Stream(q) = FlattenSeq(PacketsOf(q)) /\ Stream(q) \in Seq(Byte)
  <1> DEFINE p == PacketsOf(q)
  <1>1. /\ Len(q) \in Nat /\ DOMAIN q = 1 .. Len(q)
        /\ \A i \in 1 .. Len(q) : q[i] \in Seq(Byte)
    BY LenProperties, ElementOfSeq
  <1>2. p \in [1 .. Len(q) -> Seq(Byte)]
    BY <1>1, PacketTyped DEF PacketsOf
  <1>3. \A i \in 1 .. Len(q) : p[i] = Packet(q[i])
    BY <1>1 DEF PacketsOf
  <1>4. Stream(q) = FlattenSeq(p)
    BY DEF Stream, PacketsOf
  <1> HIDE DEF p
  <1>5. p \in Seq(Seq(Byte)) /\ Len(p) = Len(q)
    BY <1>1, <1>2, FunctionIsSeq
  <1>6. FlattenSeq(p) \in Seq(Byte)
    BY <1>5, FlattenTyped
  <1> QED
    BY <1>3, <1>4, <1>5, <1>6 DEF p

LEMMA StreamConcat ==
    ASSUME NEW q \in Seq(Seq(Byte)), NEW r \in Seq(Seq(Byte))
    PROVE  q \o r \in Seq(Seq(Byte)) /\ Stream(q \o r) = Stream(q) \o Stream(r)
  <1> DEFINE a == PacketsOf(q)
             b == PacketsOf(r)
             c == PacketsOf(q \o r)
  <1>1. /\ q \o r \in Seq(Seq(Byte)) /\ Len(q \o r) = Len(q) + Len(r)
        /\ \A i \in 1 .. Len(q) + Len(r) :
              (q \o r)[i] = IF i <= Len(q) THEN q[i] ELSE r[i - Len(q)]
    BY ConcatProperties
  <1>2. Len(q) \in Nat /\ Len(r) \in Nat
    BY LenProperties
  <1>3. /\ a \in Seq(Seq(Byte)) /\ Len(a) = Len(q) /\ Stream(q) = FlattenSeq(a)
        /\ \A i \in 1 .. Len(q) : a[i] = Packet(q[i])
    BY PacketsTyped
  <1>4. /\ b \in Seq(Seq(Byte)) /\ Len(b) = Len(r) /\ Stream(r) = FlattenSeq(b)
        /\ \A i \in 1 .. Len(r) : b[i] = Packet(r[i])
    BY PacketsTyped
  <1>5. /\ c \in Seq(Seq(Byte)) /\ Len(c) = Len(q) + Len(r)
        /\ Stream(q \o r) = FlattenSeq(c)
        /\ \A i \in 1 .. Len(q) + Len(r) : c[i] = Packet((q \o r)[i])
    BY <1>1, PacketsTyped
  <1> HIDE DEF a, b, c
  <1>6. /\ a \o b \in Seq(Seq(Byte)) /\ Len(a \o b) = Len(a) + Len(b)
        /\ \A i \in 1 .. Len(a) + Len(b) :
              (a \o b)[i] = IF i <= Len(a) THEN a[i] ELSE b[i - Len(a)]
    <2>1. a \in Seq(Seq(Byte)) /\ b \in Seq(Seq(Byte))
      BY <1>3, <1>4
    <2> QED
      BY <2>1, ConcatProperties
  <1>7. ASSUME NEW i \in 1 .. Len(q) + Len(r) PROVE c[i] = (a \o b)[i]
    <2>1. CASE i <= Len(q)
      <3>1. i \in 1 .. Len(q)
        BY <1>2, <2>1
      <3> QED
        BY <1>1, <1>3, <1>4, <1>5, <1>6, <2>1, <3>1
    <2>2. CASE ~(i <= Len(q))
      <3>1. i - Len(q) \in 1 .. Len(r)
        BY <1>2, <2>2
      <3>2. c[i] = Packet(r[i - Len(q)]) /\ (a \o b)[i] = b[i - Len(q)]
        BY <1>1, <1>3, <1>4, <1>5, <1>6, <2>2
      <3> QED
        BY <1>4, <3>1, <3>2
    <2> QED
      BY <2>1, <2>2
  <1>8. c = a \o b
    <2>1. Len(c) = Len(a \o b) /\ \A i \in 1 .. Len(c) : c[i] = (a \o b)[i]
      BY <1>3, <1>4, <1>5, <1>6, <1>7
    <2> QED
      BY <1>5, <1>6, <2>1, SeqEqual
  <1>9. FlattenSeq(a \o b) = FlattenSeq(a) \o FlattenSeq(b)
    BY <1>3, <1>4, FlattenConcat
  <1> QED
    BY <1>1, <1>3, <1>4, <1>5, <1>8, <1>9

LEMMA StreamOfOne ==
    ASSUME NEW x \in Seq(Byte)
    PROVE  /\ <<x>> \in Seq(Seq(Byte)) /\ Len(<<x>>) = 1 /\ <<x>>[1] = x
           /\ Stream(<<x>>) = Packet(x)
  <1>1. <<x>> \in Seq(Seq(Byte)) /\ Len(<<x>>) = 1 /\ <<x>>[1] = x
    OBVIOUS
  <1>2. PacketsOf(<<x>>) = <<Packet(x)>>
    BY DEF PacketsOf
  <1>3. FlattenSeq(<<Packet(x)>>) = Packet(x)
    <2> DEFINE p == Packet(x)
    <2>1. p \in Seq(Byte)
      BY PacketTyped
    <2> HIDE DEF p
    <2>2. <<>> \in Seq(Seq(Byte)) /\ Append(<<>>, p) = <<p>>
      OBVIOUS
    <2>3. FlattenSeq(Append(<<>>, p)) = FlattenSeq(<<>>) \o p
      BY <2>1, <2>2, FlattenAppend
    <2>4. <<>> \o p = p
      BY <2>1, ConcatEmptySeq
    <2> QED
      BY <2>2, <2>3, <2>4, FlattenEmpty DEF p
  <1> QED
    BY <1>1, <1>2, <1>3, PacketsTyped

LEMMA StreamEmpty ==
    <<>> \in Seq(Seq(Byte)) /\ Len(<<>>) = 0 /\ Stream(<<>>) = <<>>
  <1>1. PacketsOf(<<>>) = <<>>
    BY DEF PacketsOf
  <1> QED
    BY <1>1, FlattenEmpty, EmptySeq DEF Stream, PacketsOf

LEMMA WholePackets ==
    ASSUME NEW e \in Seq(Byte), Len(e) > 0, \A i \in 1 .. Len(e) : e[i] # 192,
           NEW q \in Seq(Seq(Byte))
    PROVE  Whole(Stream(q), e, q, Len(q))
  <1> DEFINE n == Len(q)
             p == PacketsOf(q)
  <1>1. /\ p \in Seq(Seq(Byte)) /\ Len(p) = n /\ Stream(q) = FlattenSeq(p)
        /\ \A i \in 1 .. n : p[i] = Packet(q[i])
    BY PacketsTyped
  <1>2. n \in Nat /\ \A i \in 1 .. n : q[i] \in Seq(Byte)
    BY LenProperties, ElementOfSeq
  <1> HIDE DEF n, p
  <1>3. PICK g \in [0 .. n -> Seq(Byte)] :
           /\ g[0] = <<>>
           /\ \A i \in 1 .. n : g[i] = g[i - 1] \o p[i]
           /\ FlattenSeq(p) = g[n]
    <2>1. PICK h \in [0 .. Len(p) -> Seq(Byte)] :
             /\ h[0] = <<>>
             /\ \A i \in 1 .. Len(p) : h[i] = h[i - 1] \o p[i]
             /\ FlattenSeq(p) = h[Len(p)]
      BY <1>1, FlattenPrefixes
    <2>2. Len(p) = n
      BY <1>1
    <2> QED
      BY <2>1, <2>2, Zenon
  <1> DEFINE G == {k \in 0 .. n : Whole(g[k], e, q, k)}
  <1>4. 0 \in G
    <2>1. 0 \in 0 .. n /\ Len(g[0]) = 0
      BY <1>2, <1>3, EmptySeq
    <2> QED
      BY <2>1 DEF Whole
  <1>5. ASSUME NEW k \in 1 .. n, k - 1 \in G PROVE k \in G
    <2> DEFINE f == g[k - 1]
    <2>1. k \in 0 .. n /\ k \in Nat \ {0} /\ k - 1 \in 0 .. n /\ (k - 1 = 0 => k = 1)
      BY <1>2
    <2>2. f \in Seq(Byte) /\ Whole(f, e, q, k - 1) /\ (k - 1 = 0 => f = <<>>)
      BY <1>3, <1>5, <2>1
    <2>3. g[k] = f \o Packet(q[k]) /\ q[k] \in Seq(Byte)
      BY <1>1, <1>2, <1>3
    <2> HIDE DEF f
    <2>4. Whole(f \o Packet(q[k]), e, q, k)
      BY <2>1, <2>2, <2>3, FramedBehind
    <2> QED
      BY <2>1, <2>3, <2>4
  <1> HIDE DEF G
  <1>6. n \in G
    <2>1. \A k \in 1 .. n : k - 1 \in G => k \in G
      BY <1>5
    <2>2. \A k \in 0 .. n : k \in G
      BY <1>2, <1>4, <2>1, BoundedInduction
    <2> QED
      BY <1>2, <2>2
  <1> QED
    BY <1>1, <1>3, <1>6 DEF G, n

\* A packet found in a row of packets is one of them, and when it is the last
\* nothing follows it.
LEMMA FoundIsSent ==
    ASSUME NEW q \in Seq(Seq(Byte)), NEW c \in Seq(Byte), c # <<>>,
           NEW z \in Seq(Byte), NEW t \in Seq(Byte),
           z \o (Packet(c) \o t) = Stream(q)
    PROVE  \E i \in 1 .. Len(q) : q[i] = c /\ (i = Len(q) => t = <<>>)
  <1> DEFINE e == Encoded(c)
             F == Stream(q)
             p == Len(z) + 1
  <1>1. /\ e \in Seq(Byte) /\ Len(e) > 0 /\ Len(e) \in Nat
        /\ \A i \in 1 .. Len(e) : e[i] # 192
    <2>1. Len(c) > 0
      BY EmptySeq, LenProperties
    <2> QED
      BY <2>1, EncodedBytes, LenProperties DEF Encoding
  <1>2. Len(z) \in Nat /\ Len(t) \in Nat
    BY LenProperties
  <1>3. Packet(c) = (<< 192 >> \o e) \o << 192 >> /\ Packet(c) \in Seq(Byte)
    BY PacketTyped DEF Packet
  <1> HIDE DEF e
  <1>4. /\ Len(Packet(c)) = Len(e) + 2
        /\ Packet(c)[1] = 192 /\ Packet(c)[Len(e) + 2] = 192
        /\ \A i \in 1 .. Len(e) : Packet(c)[1 + i] = e[i]
    BY <1>1, PacketBytes DEF e
  <1> DEFINE P == Packet(c)
  <1> HIDE DEF P
  <1>5. /\ F = z \o (P \o t) /\ P \o t \in Seq(Byte) /\ Len(P \o t) = Len(e) + 2 + Len(t)
        /\ \A i \in 1 .. Len(e) + 2 : (P \o t)[i] = P[i]
    <2>1. P \in Seq(Byte) /\ Len(P) = Len(e) + 2
      BY <1>3, <1>4 DEF P
    <2>2. /\ P \o t \in Seq(Byte) /\ Len(P \o t) = Len(P) + Len(t)
          /\ \A i \in 1 .. Len(P) + Len(t) :
                (P \o t)[i] = IF i <= Len(P) THEN P[i] ELSE t[i - Len(P)]
      BY <2>1, ConcatProperties
    <2>3. \A i \in 1 .. Len(e) + 2 : i \in 1 .. Len(P) + Len(t) /\ i <= Len(P)
      BY <1>1, <1>2, <2>1
    <2>4. F = z \o (P \o t)
      BY DEF P
    <2> QED
      BY <2>1, <2>2, <2>3, <2>4
  <1> DEFINE u == P \o t
  <1> HIDE DEF u, F
  <1>6. /\ Len(F) = Len(z) + Len(u)
        /\ \A i \in 1 .. Len(u) : F[Len(z) + i] = u[i]
    <2>1. F = z \o u /\ u \in Seq(Byte) /\ Len(u) \in Nat
      BY <1>5, LenProperties DEF u
    <2>2. /\ Len(F) = Len(z) + Len(u)
          /\ \A i \in 1 .. Len(z) + Len(u) :
                F[i] = IF i <= Len(z) THEN z[i] ELSE u[i - Len(z)]
      BY <2>1, ConcatProperties
    <2>3. ASSUME NEW i \in 1 .. Len(u) PROVE F[Len(z) + i] = u[i]
      <3>1. /\ Len(z) + i \in 1 .. Len(z) + Len(u) /\ ~(Len(z) + i <= Len(z))
            /\ (Len(z) + i) - Len(z) = i
        BY <1>2, <2>1
      <3> QED
        BY <2>2, <3>1
    <2> QED
      BY <2>2, <2>3
  <1>7. Len(u) = Len(e) + 2 + Len(t) /\ \A i \in 1 .. Len(e) + 2 : u[i] = P[i]
    BY <1>5 DEF u
  <1>8. ASSUME NEW i \in 1 .. Len(e) + 2 PROVE F[Len(z) + i] = P[i]
    <2>1. i \in 1 .. Len(u)
      BY <1>1, <1>2, <1>7
    <2> QED
      BY <1>6, <1>7, <2>1
  <1>9. FrameIn(F, p, e)
    <2>1. 1 \in 1 .. Len(e) + 2 /\ Len(e) + 2 \in 1 .. Len(e) + 2
      BY <1>1
    <2>2. p + Len(e) + 1 = Len(z) + (Len(e) + 2)
      BY <1>1, <1>2
    <2>3. F[p] = 192 /\ F[p + Len(e) + 1] = 192
      BY <1>4, <1>8, <2>1, <2>2 DEF P
    <2>4. ASSUME NEW i \in 1 .. Len(e) PROVE F[p + i] = e[i]
      <3>1. 1 + i \in 1 .. Len(e) + 2 /\ p + i = Len(z) + (1 + i)
        BY <1>1, <1>2
      <3> QED
        BY <1>4, <1>8, <3>1 DEF P
    <2> QED
      BY <2>3, <2>4 DEF FrameIn
  <1>10. /\ p \in 1 .. Len(F) /\ p + Len(e) + 1 <= Len(F)
         /\ p + Len(e) + 1 = Len(F) => Len(t) = 0
    BY <1>1, <1>2, <1>6, <1>7
  <1>11. Whole(F, e, q, Len(q))
    BY <1>1, WholePackets DEF F
  <1> HIDE DEF p
  <1>12. PICK i \in 1 .. Len(q) : e = Encoded(q[i])
                                  /\ (i = Len(q) => p + Len(e) + 1 = Len(F))
    BY <1>9, <1>10, <1>11 DEF Whole
  <1>13. q[i] = c
    <2>1. q[i] \in Seq(Byte)
      BY ElementOfSeq
    <2> QED
      BY <1>12, <2>1, EncodedInjective DEF e
  <1> QED
    BY <1>10, <1>12, <1>13, EmptySeq

-----------------------------------------------------------------------------
(* Types *)

\* The commands, and what the device answers to them.
LEMMA AnswersTyped ==
    ASSUME NEW k \in 1 .. Len(Session)
    PROVE  /\ Session[k].op \in Byte \ {0}
           /\ Answer(Session[k]) \in Seq(Byte)
           /\ Packet(Reply(Session[k], BadStatus)) \in Seq(Byte)
  <1> DEFINE c == Session[k]
  <1>1. c.op \in Byte \ {0} /\ c.val \in [1 .. 4 -> Byte]
    <2>1. c \in [op : Byte \ {0}, val : [1 .. 4 -> Byte]]
      BY SessionAssumption, ElementOfSeq
    <2> QED
      BY <2>1
  <1> HIDE DEF c
  <1>2. ASSUME NEW status \in {Status, BadStatus}
        PROVE  Packet(Reply(c, status)) \in Seq(Byte)
    <2>1. /\ status \in Seq(Byte) /\ Len(status) = 2
          /\ <<1, c.op, 2, 0>> \in Seq(Byte)
      <3>1. /\ \A x, y \in Byte : <<x, y>> \in Seq(Byte) /\ Len(<<x, y>>) = 2
            /\ \A w, x, y, z \in Byte : <<w, x, y, z>> \in Seq(Byte)
        OBVIOUS
      <3>2. /\ 0 \in Byte /\ 1 \in Byte /\ 2 \in Byte /\ 5 \in Byte
            /\ c.op \in Byte
        BY <1>1 DEF Byte
      <3>3. status \in Seq(Byte) /\ Len(status) = 2
        BY <3>1, <3>2, Zenon DEF Status, BadStatus
      <3>4. <<1, c.op, 2, 0>> \in Seq(Byte)
        BY <3>1, <3>2, Zenon
      <3> QED
        BY <3>3, <3>4
    <2>2. c.val \in Seq(Byte)
      BY <1>1, FunctionIsSeq
    <2>3. Reply(c, status) \in Seq(Byte)
      BY <2>1, <2>2, ConcatProperties DEF Reply
    <2> QED
      BY <2>3, PacketTyped
  <1>3. Answer(c) \in Seq(Byte)
    <2> DEFINE n == IF c.op = SYNC THEN SyncReplies ELSE 1
               p == Packet(Reply(c, Status))
               parts == [i \in 1 .. n |-> p]
    <2>1. n \in Nat /\ p \in Seq(Byte)
      BY <1>2, SessionAssumption
    <2> HIDE DEF n, p
    <2>2. parts \in [1 .. n -> Seq(Byte)]
      BY <2>1
    <2> HIDE DEF parts
    <2>3. parts \in Seq(Seq(Byte))
      BY <2>1, <2>2, FunctionIsSeq
    <2>4. FlattenSeq(parts) \in Seq(Byte)
      BY <2>3, FlattenTyped
    <2> QED
      BY <2>4 DEF Answer, n, p, parts
  <1> QED
    BY <1>1, <1>2, <1>3 DEF c

\* What was read of the packet so far: the frame byte and the encoding of the
\* bytes that were decoded; and how far the header and the body have come.
Progress ==
    /\ state = "begin" => hdr = <<>> /\ body = <<>> /\ taken = <<>>
    /\ state # "begin" => Reading /\ taken = << 192 >> \o Encoded(hdr \o body)
    /\ state = "header" => Len(hdr) < HDR_LEN /\ body = <<>>
    /\ state \in {"body", "end"} => Len(hdr) = HDR_LEN /\ HeaderAccepted(hdr)
    /\ state = "body" => Len(body) < BodyLen(hdr)
    /\ state = "end" => Len(body) = BodyLen(hdr)

\* Connect makes another attempt only while it has one.
SyncsLeft == pc \in {"Send", "Reply", "Drain"} => syncs < MaxSyncs

ReaderInv ==
    /\ TypeOK
    /\ Progress
    /\ SyncsLeft
    /\ EscapesWhole
    /\ AcceptedIsPacket

\* The packet that last records, once it was accepted.
Accepted(k, bytes, content) ==
    /\ bytes = Packet(content)
    /\ SubSeq(content, 1, 4) = <<1, Session[k].op, 2, 0>>
    /\ SubSeq(content, HDR_LEN + 1, Len(content)) = Status

LEMMA ReaderInit == Init => ReaderInv
  <1> SUFFICES ASSUME Init PROVE ReaderInv
    OBVIOUS
  <1>1. Len(Session) \in Nat \ {0}
    BY SessionAssumption, EmptySeq
  <1>2. \A S : <<>> \in Seq(S) /\ Len(<<>>) = 0
    BY EmptySeq
  <1>3. TypeOK
    BY <1>1, <1>2, SessionAssumption DEF Init, TypeOK, Results, HDR_LEN
  <1>4. Progress /\ SyncsLeft /\ EscapesWhole /\ AcceptedIsPacket
    BY SessionAssumption
    DEF Init, Progress, SyncsLeft, EscapesWhole, AcceptedIsPacket
  <1> QED
    BY <1>3, <1>4 DEF ReaderInv

\* Where the callers of readPacket go on.
LEMMA ContinueStep ==
    ASSUME TypeOK, SyncsLeft, pc \in {"Send", "Reply", "Drain"},
           CommandFailed \/ \E r : Continue(r)
    PROVE  /\ pc' \in {"Send", "Reply", "Drain", "Done", "Failed"}
           /\ step' \in 1 .. Len(Session) /\ syncs' \in 0 .. MaxSyncs
           /\ SyncsLeft'
  <1>1. /\ step \in 1 .. Len(Session) /\ syncs \in 0 .. MaxSyncs
        /\ syncs < MaxSyncs /\ MaxSyncs \in Nat /\ Len(Session) \in Nat
    BY SessionAssumption, LenProperties DEF TypeOK, SyncsLeft
  <1>2. CASE CommandFailed
    BY <1>1, <1>2 DEF CommandFailed, SyncsLeft
  <1>3. CASE NextCommand
    BY <1>1, <1>3 DEF NextCommand, SyncsLeft
  <1>4. CASE UNCHANGED caller
    BY <1>1, <1>4 DEF caller, SyncsLeft
  <1>5. CASE pc' = "Drain" /\ UNCHANGED <<step, syncs>>
    BY <1>1, <1>5 DEF SyncsLeft
  <1>6. ASSUME NEW r, Continue(r)
        PROVE  \/ CommandFailed \/ NextCommand \/ UNCHANGED caller
               \/ pc' = "Drain" /\ UNCHANGED <<step, syncs>>
    BY <1>6 DEF Continue
  <1> QED
    BY <1>2, <1>3, <1>4, <1>5, <1>6

\* The bytes that are read and the ones that stay.
LEMMA CutTyped ==
    ASSUME NEW q \in Seq(Byte), NEW n \in 0 .. Len(q)
    PROVE  SubSeq(q, 1, n) \in Seq(Byte) /\ SubSeq(q, n + 1, Len(q)) \in Seq(Byte)
  <1>1. Len(q) \in Nat /\ \A i \in 1 .. Len(q) : q[i] \in Byte
    BY LenProperties, ElementOfSeq
  <1>2. n \in Int /\ n + 1 \in Int /\ 1 .. n \subseteq 1 .. Len(q)
        /\ n + 1 .. Len(q) \subseteq 1 .. Len(q)
    BY <1>1
  <1> QED
    BY <1>1, <1>2, SubSeqProperties

LEMMA FaultTyped ==
    ASSUME faults \in Seq(FaultKinds), NEW f, Fault(f)
    PROVE  faults' \in Seq(FaultKinds) /\ Len(faults') <= MaxFaults
  <1>1. f \in FaultKinds /\ faults' = Append(faults, f) /\ Len(faults) < MaxFaults
    BY SessionAssumption DEF Fault
  <1>2. Len(faults) \in Nat /\ MaxFaults \in Nat
    BY SessionAssumption, LenProperties
  <1>3. faults' \in Seq(FaultKinds) /\ Len(faults') = Len(faults) + 1
    BY <1>1, AppendProperties
  <1> QED
    BY <1>1, <1>2, <1>3

LEMMA ReturnKeeps ==
    ASSUME ReaderInv, Reading, NEW r \in Results \ {"none", "data"},
           NEW n \in 0 .. Len(rx), Return(r, n), line' = line,
           faults' \in Seq(FaultKinds), Len(faults') <= MaxFaults,
           r = "ok" => Accepted(step, taken \o SubSeq(rx, 1, n), hdr \o body)
    PROVE  ReaderInv'
  <1>1. /\ last' = [step |-> step, result |-> r,
                    bytes |-> taken \o SubSeq(rx, 1, n), content |-> hdr \o body]
        /\ rx' \in {<<>>, SubSeq(rx, n + 1, Len(rx))}
        /\ state' = "begin" /\ hdr' = <<>> /\ body' = <<>> /\ taken' = <<>>
        /\ Continue(r)
    BY DEF Return, Fresh
  <1>2. /\ taken \in Seq(Byte) /\ hdr \in Seq(Byte) /\ body \in Seq(Byte)
        /\ rx \in Seq(Byte) /\ line \in Seq(Byte) /\ step \in 1 .. Len(Session)
    BY DEF ReaderInv, TypeOK
  <1>3. /\ pc' \in {"Send", "Reply", "Drain", "Done", "Failed"}
        /\ step' \in 1 .. Len(Session) /\ syncs' \in 0 .. MaxSyncs /\ SyncsLeft'
    BY <1>1, ContinueStep DEF ReaderInv, Reading
  <1>4. SubSeq(rx, 1, n) \in Seq(Byte) /\ rx' \in Seq(Byte)
    BY <1>1, <1>2, CutTyped, EmptySeq
  <1>5. /\ last'.step \in 0 .. Len(Session) /\ last'.result \in Results
        /\ last'.bytes \in Seq(Byte) /\ last'.content \in Seq(Byte)
    <2>1. taken \o SubSeq(rx, 1, n) \in Seq(Byte) /\ hdr \o body \in Seq(Byte)
      BY <1>2, <1>4, ConcatProperties
    <2> QED
      BY <1>1, <1>2, <2>1
  <1>6. \A S : <<>> \in Seq(S) /\ Len(<<>>) = 0
    BY EmptySeq
  <1>7. TypeOK'
    BY <1>1, <1>2, <1>3, <1>4, <1>5, <1>6 DEF TypeOK, HDR_LEN
  <1>8. Progress' /\ EscapesWhole'
    BY <1>1 DEF Progress, EscapesWhole
  <1>9. AcceptedIsPacket'
    BY <1>1 DEF AcceptedIsPacket, Accepted
  <1> QED
    BY <1>3, <1>7, <1>8, <1>9 DEF ReaderInv

-----------------------------------------------------------------------------
(* Reading a packet *)

\* One byte is decoded.
LEMMA DecodedAppends ==
    ASSUME NEW s \in Seq(Byte), taken = << 192 >> \o Encoded(s), rx \in Seq(Byte),
           Len(rx) >= 2, SlipByte(rx).stat \in {1, 2}
    PROVE  /\ SlipByte(rx).byte \in Byte /\ SlipByte(rx).used \in 0 .. Len(rx)
           /\ Append(s, SlipByte(rx).byte) \in Seq(Byte)
           /\ taken \o SubSeq(rx, 1, SlipByte(rx).used)
                  = << 192 >> \o Encoded(Append(s, SlipByte(rx).byte))
  <1> DEFINE b == SlipByte(rx)
             x == Escaped(b.byte)
  <1>1. b.byte \in Byte /\ b.used \in {1, 2} /\ SubSeq(rx, 1, b.used) = x
    BY SlipUndone
  <1>2. Len(rx) \in Nat /\ b.used \in 0 .. Len(rx)
    BY <1>1, LenProperties
  <1> HIDE DEF b
  <1>3. Encoded(s) \in Seq(Byte) /\ Encoded(Append(s, b.byte)) = Encoded(s) \o x
    BY <1>1, EncodedAppend
  <1>4. << 192 >> \in Seq(Byte) /\ x \in Seq(Byte)
    <2>1. << 192 >> \in Seq(Byte)
      BY DEF Byte
    <2> QED
      BY <1>1, <2>1, EscapedTyped
  <1> HIDE DEF x
  <1>5. (<< 192 >> \o Encoded(s)) \o x = << 192 >> \o (Encoded(s) \o x)
    BY <1>3, <1>4, ConcatAssociative
  <1>6. Append(s, b.byte) \in Seq(Byte)
    BY <1>1, AppendProperties
  <1> QED
    BY <1>1, <1>2, <1>3, <1>5, <1>6 DEF b

LEMMA BodyLenTyped ==
    ASSUME NEW h \in Seq(Byte), Len(h) = HDR_LEN
    PROVE  /\ h[3] \in Byte /\ h[4] \in Byte
           /\ BodyLen(h) \in Nat
  <1> DEFINE x == h[3]
             y == h[4]
  <1>1. 3 \in 1 .. Len(h) /\ 4 \in 1 .. Len(h)
    BY DEF HDR_LEN
  <1>2. x \in Byte /\ y \in Byte
    BY <1>1, ElementOfSeq
  <1>3. BodyLen(h) = x + 256 * y
    BY DEF BodyLen
  <1> HIDE DEF x, y
  <1>4. x + 256 * y \in Nat
    BY <1>2 DEF Byte
  <1>5. BodyLen(h) \in Nat
    BY <1>3, <1>4
  <1> QED
    BY <1>2, <1>5 DEF x, y

\* A header and a body of two bytes.
LEMMA HeaderAndBody ==
    ASSUME NEW h \in Seq(Byte), NEW b \in Seq(Byte), Len(h) = 8, Len(b) = 2
    PROVE  /\ h \o b \in Seq(Byte) /\ Len(h \o b) = 10
           /\ SubSeq(h \o b, 1, 4) = <<h[1], h[2], h[3], h[4]>>
           /\ SubSeq(h \o b, 9, 10) = b
  <1>1. /\ 1 \in 1 .. Len(h) /\ 4 \in 1 .. Len(h)
        /\ 9 \in Len(h) + 1 .. Len(h) + Len(b)
        /\ 10 \in Len(h) + 1 .. Len(h) + Len(b)
        /\ 9 - Len(h) = 1 /\ 10 - Len(h) = Len(b) /\ Len(h) + Len(b) = 10
    OBVIOUS
  <1>2. h \o b \in Seq(Byte) /\ Len(h \o b) = 10
    BY <1>1, ConcatProperties
  <1>3. SubSeq(h \o b, 1, 4) = <<h[1], h[2], h[3], h[4]>>
    <2>1. SubSeq(h \o b, 1, 4) = SubSeq(h, 1, 4)
      BY <1>1, SubSeqOfConcat1
    <2>2. SubSeq(h, 1, 4) = <<h[1], h[2], h[3], h[4]>>
      <3>1. Len(h) >= 4
        OBVIOUS
      <3> QED
        BY <3>1, FirstFour
    <2> QED
      BY <2>1, <2>2, Zenon
  <1>4. SubSeq(h \o b, 9, 10) = b
    <2>1. SubSeq(h \o b, 9, 10) = SubSeq(b, 9 - Len(h), 10 - Len(h))
      BY <1>1, SubSeqOfConcat2
    <2>2. SubSeq(b, 1, Len(b)) = b
      BY SubSeqFull
    <2> QED
      BY <1>1, <2>1, <2>2, Zenon
  <1> QED
    BY <1>2, <1>3, <1>4, Zenon

\* A packet whose header answers the command and whose body is Status is what
\* AcceptedIsPacket says.
LEMMA EndAccepts ==
    ASSUME ReaderInv, state = "end", body = Status, rx \in Seq(Byte),
           Len(rx) >= 1, rx[1] = 192
    PROVE  Accepted(step, taken \o SubSeq(rx, 1, 1), hdr \o body)
  <1>1. /\ hdr \in Seq(Byte) /\ body \in Seq(Byte)
        /\ Len(hdr) = 8 /\ Len(body) = BodyLen(hdr) /\ Len(body) = 2
        /\ hdr[1] = 1 /\ hdr[2] = Session[step].op
        /\ taken = << 192 >> \o Encoded(hdr \o body)
    <2>1. Len(Status) = 2
      BY DEF Status
    <2> QED
      BY <2>1 DEF ReaderInv, TypeOK, Progress, HeaderAccepted, Cmd, HDR_LEN
  <1>2. hdr[3] = 2 /\ hdr[4] = 0
    <2> DEFINE x == hdr[3]
               y == hdr[4]
    <2>1. x \in Byte /\ y \in Byte
      BY <1>1, BodyLenTyped DEF HDR_LEN
    <2>2. x + 256 * y = 2
      BY <1>1 DEF BodyLen
    <2> HIDE DEF x, y
    <2>3. x = 2 /\ y = 0
      BY <2>1, <2>2 DEF Byte
    <2> QED
      BY <2>3 DEF x, y
  <1>3. /\ SubSeq(hdr \o body, 1, 4) = <<1, Session[step].op, 2, 0>>
        /\ SubSeq(hdr \o body, HDR_LEN + 1, Len(hdr \o body)) = Status
    <2>1. /\ Len(hdr \o body) = 10
          /\ SubSeq(hdr \o body, 1, 4) = <<hdr[1], hdr[2], hdr[3], hdr[4]>>
          /\ SubSeq(hdr \o body, 9, 10) = body
      BY <1>1, HeaderAndBody
    <2>2. HDR_LEN + 1 = 9
      BY DEF HDR_LEN
    <2> QED
      BY <1>1, <1>2, <2>1, <2>2, Zenon
  <1>4. taken \o SubSeq(rx, 1, 1) = Packet(hdr \o body)
    <2>1. SubSeq(rx, 1, 1) = << 192 >>
      BY FirstElements
    <2> QED
      BY <1>1, <2>1 DEF Packet
  <1> QED
    BY <1>3, <1>4 DEF Accepted

LEMMA FrameByteKeeps ==
    ASSUME ReaderInv, FrameByte
    PROVE  ReaderInv'
  <1>t. /\ rx \in Seq(Byte) /\ hdr \in Seq(Byte) /\ body \in Seq(Byte)
        /\ faults \in Seq(FaultKinds) /\ Len(faults) <= MaxFaults
        /\ line \in Seq(Byte) /\ Len(rx) \in Nat
    BY LenProperties DEF ReaderInv, TypeOK
  <1>1. /\ Reading /\ Len(rx) >= 1 /\ 1 \in 0 .. Len(rx)
        /\ state \in {"begin", "end"} /\ UNCHANGED <<line, faults>>
    BY <1>t DEF FrameByte, Ready, Needs
  <1>2. CASE rx[1] # 192 /\ Return("frame", 1)
    BY <1>t, <1>1, <1>2, ReturnKeeps DEF Results
  <1>3. CASE /\ rx[1] = 192 /\ state = "end"
             /\ Return(IF body = Status THEN "ok" ELSE "refused", 1)
    <2>1. CASE body = Status
      BY <1>t, <1>1, <1>3, <2>1, EndAccepts, ReturnKeeps DEF Results
    <2>2. CASE body # Status
      BY <1>t, <1>1, <1>3, <2>2, ReturnKeeps DEF Results
    <2> QED
      BY <2>1, <2>2
  <1>4. CASE /\ rx[1] = 192 /\ state = "begin"
             /\ GoOn("header", 1) /\ UNCHANGED <<hdr, body>>
    <2>1. /\ state' = "header" /\ taken' = <<>> \o SubSeq(rx, 1, 1)
          /\ rx' = SubSeq(rx, 2, Len(rx))
          /\ hdr' = <<>> /\ body' = <<>>
          /\ UNCHANGED <<pc, step, syncs, last, line, faults>>
      BY <1>1, <1>4 DEF GoOn, ReaderInv, Progress
    <2>2. rx' \in Seq(Byte) /\ SubSeq(rx, 1, 1) \in Seq(Byte)
      BY <1>t, <1>1, <2>1, CutTyped
    <2>3. taken' = << 192 >> /\ << 192 >> \in Seq(Byte)
      <3>1. << 192 >> \in Seq(Byte)
        BY DEF Byte
      <3>2. SubSeq(rx, 1, 1) = << 192 >>
        BY <1>t, <1>1, <1>4, FirstElements
      <3> QED
        BY <2>1, <3>1, <3>2, ConcatEmptySeq
    <2>4. taken' = << 192 >> \o Encoded(hdr' \o body')
      <3>1. hdr' \o body' = <<>>
        BY <2>1
      <3>2. << 192 >> \o <<>> = << 192 >>
        BY <2>3, ConcatEmptySeq
      <3> QED
        BY <2>3, <3>1, <3>2, EncodedEmpty
    <2>5. TypeOK'
      BY <1>t, <2>1, <2>2, <2>3, EmptySeq DEF ReaderInv, TypeOK, HDR_LEN
    <2>6. Progress'
      <3>1. Len(hdr') = 0
        BY <2>1, EmptySeq
      <3> QED
        <4>1. state' = "header" /\ body' = <<>> /\ Len(hdr') < 8
          BY <2>1, <3>1
        <4>2. Reading'
          BY <1>1, <2>1 DEF Reading
        <4> QED
          BY <2>4, <4>1, <4>2 DEF Progress, HDR_LEN
    <2> QED
      BY <2>1, <2>5, <2>6
      DEF ReaderInv, SyncsLeft, EscapesWhole, AcceptedIsPacket
  <1> QED
    BY <1>2, <1>3, <1>4 DEF FrameByte

LEMMA WrongByteKeeps ==
    ASSUME ReaderInv, WrongByte
    PROVE  ReaderInv'
  <1> DEFINE b == SlipByte(rx)
  <1>1. /\ Reading /\ rx \in Seq(Byte) /\ Len(rx) >= 2 /\ Len(rx) \in Nat
        /\ faults \in Seq(FaultKinds) /\ Len(faults) <= MaxFaults
        /\ UNCHANGED <<line, faults>>
    BY LenProperties DEF ReaderInv, TypeOK, WrongByte, Ready, Needs
  <1>2. b.used \in {1, 2} /\ b.stat \in {-3, -1, 1, 2}
    BY <1>1, SlipUndone
  <1>3. /\ b.stat \notin {1, 2}
        /\ Return(IF b.stat \in {0, -2} THEN "data" ELSE "frame", b.used)
    BY DEF WrongByte
  <1> HIDE DEF b
  <1>4. Return("frame", b.used)
    <2>1. b.stat \notin {0, -2}
      BY <1>2
    <2> QED
      BY <1>3, <2>1, Zenon
  <1>5. b.used \in 0 .. Len(rx)
    BY <1>1, <1>2
  <1>6. "frame" \in Results \ {"none", "data"} /\ "frame" # "ok"
    BY DEF Results
  <1> QED
    BY <1>1, <1>4, <1>5, <1>6, ReturnKeeps

LEMMA HeaderByteKeeps ==
    ASSUME ReaderInv, HeaderByte
    PROVE  ReaderInv'
  <1> DEFINE b == SlipByte(rx)
             h == Append(hdr, b.byte)
  <1>1. /\ Reading /\ rx \in Seq(Byte) /\ Len(rx) >= 2 /\ Len(rx) \in Nat
        /\ faults \in Seq(FaultKinds) /\ Len(faults) <= MaxFaults
        /\ UNCHANGED <<line, faults>> /\ state = "header" /\ b.stat \in {1, 2}
        /\ hdr \in Seq(Byte) /\ Len(hdr) < HDR_LEN /\ body = <<>>
        /\ taken = << 192 >> \o Encoded(hdr \o body) /\ Len(hdr) \in Nat
    BY LenProperties
    DEF ReaderInv, TypeOK, Progress, HeaderByte, Ready, Needs
  <1>2. hdr \o body = hdr
    BY <1>1, ConcatEmptySeq
  <1>3. /\ b.byte \in Byte /\ b.used \in 0 .. Len(rx) /\ h \in Seq(Byte)
        /\ taken \o SubSeq(rx, 1, b.used) = << 192 >> \o Encoded(h)
    BY <1>1, <1>2, DecodedAppends
  <1>4. h \o <<>> = h /\ Len(h) = Len(hdr) + 1
    BY <1>1, <1>3, ConcatEmptySeq, AppendProperties
  <1>5. \/ Len(h) < HDR_LEN /\ GoOn("header", b.used) /\ hdr' = h /\ body' = body
        \/ Return("header", b.used)
        \/ /\ Len(h) = HDR_LEN /\ HeaderAccepted(h)
           /\ GoOn(IF BodyLen(h) > 0 THEN "body" ELSE "end", b.used)
           /\ hdr' = h /\ body' = body
    BY DEF HeaderByte
  <1> HIDE DEF b, h
  <1>6. CASE Return("header", b.used)
    <2>1. "header" \in Results \ {"none", "data"} /\ "header" # "ok"
      BY DEF Results
    <2> QED
      BY <1>1, <1>3, <1>6, <2>1, ReturnKeeps
  <1>7. ASSUME NEW s, GoOn(s, b.used), hdr' = h, body' = body,
               \/ s = "header" /\ Len(h) < HDR_LEN
               \/ /\ s = IF BodyLen(h) > 0 THEN "body" ELSE "end"
                  /\ Len(h) = HDR_LEN /\ HeaderAccepted(h)
        PROVE  ReaderInv'
    <2>1. /\ state' = s /\ body' = <<>> /\ hdr' = h
          /\ taken' = << 192 >> \o Encoded(hdr' \o body')
          /\ rx' = SubSeq(rx, b.used + 1, Len(rx))
          /\ UNCHANGED <<pc, step, syncs, last, line, faults>>
      BY <1>1, <1>3, <1>4, <1>7 DEF GoOn
    <2>2. rx' \in Seq(Byte) /\ taken' \in Seq(Byte)
      <3>1. SubSeq(rx, 1, b.used) \in Seq(Byte) /\ rx' \in Seq(Byte)
        BY <1>1, <1>3, <2>1, CutTyped
      <3>2. taken' = taken \o SubSeq(rx, 1, b.used) /\ taken \in Seq(Byte)
        BY <1>7 DEF GoOn, ReaderInv, TypeOK
      <3> QED
        BY <3>1, <3>2, ConcatProperties
    <2>3. s \in {"header", "body", "end"} /\ Len(h) <= HDR_LEN
      BY <1>1, <1>4, <1>7 DEF HDR_LEN
    <2>4. TypeOK'
      BY <1>3, <2>1, <2>2, <2>3, EmptySeq DEF ReaderInv, TypeOK
    <2>5. Progress'
      <3>1. Len(body') = 0 /\ Reading'
        BY <1>1, <2>1, EmptySeq DEF Reading
      <3>2. HeaderAccepted(hdr)' = HeaderAccepted(h) /\ BodyLen(hdr)' = BodyLen(h)
        BY <2>1 DEF HeaderAccepted, BodyLen, Cmd
      <3>3. BodyLen(h) \in Nat \/ s = "header"
        <4>1. CASE Len(h) = HDR_LEN
          BY <1>3, <4>1, BodyLenTyped
        <4> QED
          BY <1>7, <4>1
      <3> QED
        BY <1>7, <2>1, <2>3, <3>1, <3>2, <3>3 DEF Progress, HDR_LEN
    <2> QED
      BY <2>1, <2>4, <2>5
      DEF ReaderInv, SyncsLeft, EscapesWhole, AcceptedIsPacket
  <1> QED
    BY <1>5, <1>6, <1>7

LEMMA BodyByteKeeps ==
    ASSUME ReaderInv, BodyByte
    PROVE  ReaderInv'
  <1> DEFINE b == SlipByte(rx)
             more == Append(body, b.byte)
  <1>1. /\ Reading /\ rx \in Seq(Byte) /\ Len(rx) >= 2 /\ Len(rx) \in Nat
        /\ UNCHANGED <<hdr, line, faults>> /\ state = "body" /\ b.stat \in {1, 2}
        /\ hdr \in Seq(Byte) /\ Len(hdr) = HDR_LEN /\ HeaderAccepted(hdr)
        /\ body \in Seq(Byte) /\ Len(body) < BodyLen(hdr) /\ Len(body) \in Nat
        /\ taken = << 192 >> \o Encoded(hdr \o body)
        /\ body' = more
        /\ GoOn(IF Len(body) + 1 >= BodyLen(hdr) THEN "end" ELSE "body", b.used)
    BY LenProperties
    DEF ReaderInv, TypeOK, Progress, BodyByte, Ready, Needs
  <1>2. hdr \o body \in Seq(Byte)
    BY <1>1, ConcatProperties
  <1>3. /\ b.byte \in Byte /\ b.used \in 0 .. Len(rx)
        /\ taken \o SubSeq(rx, 1, b.used)
               = << 192 >> \o Encoded(Append(hdr \o body, b.byte))
    BY <1>1, <1>2, DecodedAppends
  <1> HIDE DEF b
  <1>4. more \in Seq(Byte) /\ Len(more) = Len(body) + 1
    BY <1>1, <1>3, AppendProperties
  <1>5. Append(hdr \o body, b.byte) = hdr \o more
    <2>1. /\ Append(body, b.byte) = body \o <<b.byte>>
          /\ Append(hdr \o body, b.byte) = (hdr \o body) \o <<b.byte>>
      BY <1>1, <1>2, <1>3, AppendIsConcat
    <2>2. <<b.byte>> \in Seq(Byte)
      BY <1>3
    <2> QED
      BY <1>1, <2>1, <2>2, ConcatAssociative
  <1> HIDE DEF more
  <1>6. BodyLen(hdr) \in Nat
    BY <1>1, BodyLenTyped
  <1>7. /\ state' = IF Len(more) >= BodyLen(hdr) THEN "end" ELSE "body"
        /\ body' = more /\ hdr' = hdr
        /\ taken' = << 192 >> \o Encoded(hdr' \o body')
        /\ rx' = SubSeq(rx, b.used + 1, Len(rx))
        /\ UNCHANGED <<pc, step, syncs, last, line, faults>>
    BY <1>1, <1>3, <1>4, <1>5 DEF GoOn
  <1>8. rx' \in Seq(Byte) /\ taken' \in Seq(Byte)
    <2>1. SubSeq(rx, 1, b.used) \in Seq(Byte) /\ rx' \in Seq(Byte)
      BY <1>1, <1>3, <1>7, CutTyped
    <2>2. taken' = taken \o SubSeq(rx, 1, b.used) /\ taken \in Seq(Byte)
      BY <1>1 DEF GoOn, ReaderInv, TypeOK
    <2> QED
      BY <2>1, <2>2, ConcatProperties
  <1>9. Len(more) <= BodyLen(hdr) /\ BodyLen(hdr)' = BodyLen(hdr)
        /\ HeaderAccepted(hdr)' = HeaderAccepted(hdr)
    BY <1>1, <1>4, <1>6, <1>7 DEF BodyLen, HeaderAccepted, Cmd
  <1>10. TypeOK'
    BY <1>1, <1>4, <1>7, <1>8, <1>9 DEF ReaderInv, TypeOK
  <1>11. Progress'
    <2>1. Reading'
      BY <1>1, <1>7 DEF Reading
    <2>2. Len(more) \in Nat
      BY <1>1, <1>4
    <2> QED
      BY <1>1, <1>6, <1>7, <1>9, <2>1, <2>2 DEF Progress
  <1> QED
    BY <1>7, <1>10, <1>11
    DEF ReaderInv, SyncsLeft, EscapesWhole, AcceptedIsPacket

LEMMA TimeoutKeeps ==
    ASSUME ReaderInv, Timeout
    PROVE  ReaderInv'
  <1>1. /\ Reading /\ rx \in Seq(Byte) /\ Len(rx) \in Nat /\ line' = line
        /\ Return("timeout", 0)
    BY LenProperties DEF ReaderInv, TypeOK, Timeout
  <1>2. faults' \in Seq(FaultKinds) /\ Len(faults') <= MaxFaults
    BY FaultTyped DEF ReaderInv, TypeOK, Timeout
  <1>3. /\ "timeout" \in Results \ {"none", "data"} /\ "timeout" # "ok"
        /\ 0 \in 0 .. Len(rx)
    BY <1>1 DEF Results
  <1> QED
    BY <1>1, <1>2, <1>3, ReturnKeeps

-----------------------------------------------------------------------------
(* Commands, and the line *)

LEMMA SendCommandKeeps ==
    ASSUME ReaderInv, SendCommand
    PROVE  ReaderInv'
  <1>1. /\ pc = "Send" /\ rx' = <<>> /\ pc' = "Reply"
        /\ UNCHANGED <<step, syncs, state, hdr, body, taken, last>>
    BY DEF SendCommand
  <1>2. /\ line \in Seq(Byte) /\ step \in 1 .. Len(Session)
        /\ faults \in Seq(FaultKinds) /\ Len(faults) <= MaxFaults
    BY DEF ReaderInv, TypeOK
  <1>3. /\ Answer(Cmd) \in Seq(Byte)
        /\ Packet(Reply(Cmd, BadStatus)) \in Seq(Byte)
    BY <1>2, AnswersTyped DEF Cmd
  <1>4. line' \in Seq(Byte) /\ faults' \in Seq(FaultKinds) /\ Len(faults') <= MaxFaults
    <2>1. CASE line' = line \o Answer(Cmd) /\ UNCHANGED faults
      BY <1>2, <1>3, <2>1, ConcatProperties
    <2>2. CASE Fault("no_answer") /\ UNCHANGED line
      BY <1>2, <2>2, FaultTyped
    <2>3. CASE Fault("bad_status") /\ line' = line \o Packet(Reply(Cmd, BadStatus))
      BY <1>2, <1>3, <2>3, FaultTyped, ConcatProperties
    <2> QED
      BY <2>1, <2>2, <2>3 DEF SendCommand
  <1>5. TypeOK'
    BY <1>1, <1>4, EmptySeq DEF ReaderInv, TypeOK, BodyLen
  <1>6. Progress'
    BY <1>1 DEF ReaderInv, Progress, Reading
  <1> QED
    BY <1>1, <1>5, <1>6 DEF ReaderInv, SyncsLeft, EscapesWhole, AcceptedIsPacket

LEMMA SendFailsKeeps ==
    ASSUME ReaderInv, SendFails
    PROVE  ReaderInv'
  <1>1. /\ pc = "Send" /\ rx' = <<>> /\ CommandFailed
        /\ UNCHANGED <<state, hdr, body, taken, last, line>>
    BY DEF SendFails
  <1>2. faults' \in Seq(FaultKinds) /\ Len(faults') <= MaxFaults
    BY FaultTyped DEF SendFails, ReaderInv, TypeOK
  <1>3. /\ pc' \in {"Send", "Reply", "Drain", "Done", "Failed"}
        /\ step' \in 1 .. Len(Session) /\ syncs' \in 0 .. MaxSyncs /\ SyncsLeft'
    BY <1>1, ContinueStep DEF ReaderInv
  <1>4. TypeOK'
    BY <1>1, <1>2, <1>3, EmptySeq DEF ReaderInv, TypeOK, BodyLen
  <1>5. state = "begin"
    BY <1>1 DEF ReaderInv, Progress, Reading
  <1>6. Progress'
    BY <1>1, <1>5 DEF ReaderInv, Progress
  <1> QED
    BY <1>1, <1>3, <1>4, <1>6 DEF ReaderInv, EscapesWhole, AcceptedIsPacket

\* What happens on the line does not touch what has been read.
LEMMA LineKeeps ==
    ASSUME ReaderInv, UNCHANGED <<pc, step, syncs, state, hdr, body, taken, last>>,
           rx' \in Seq(Byte), line' \in Seq(Byte),
           faults' \in Seq(FaultKinds), Len(faults') <= MaxFaults
    PROVE  ReaderInv'
  <1>1. TypeOK'
    BY DEF ReaderInv, TypeOK, BodyLen
  <1>2. Progress'
    BY DEF ReaderInv, Progress, Reading, HeaderAccepted, BodyLen, Cmd
  <1> QED
    BY <1>1, <1>2 DEF ReaderInv, SyncsLeft, EscapesWhole, AcceptedIsPacket

LEMMA ReaderStep == ReaderInv /\ [Next]_vars => ReaderInv'
  <1> SUFFICES ASSUME ReaderInv, [Next]_vars PROVE ReaderInv'
    OBVIOUS
  <1>1. /\ rx \in Seq(Byte) /\ line \in Seq(Byte)
        /\ faults \in Seq(FaultKinds) /\ Len(faults) <= MaxFaults
    BY DEF ReaderInv, TypeOK
  <1>2. /\ line # <<>> => Head(line) \in Byte /\ Tail(line) \in Seq(Byte)
        /\ WrongBytes \subseteq Byte
    BY <1>1, SessionAssumption, HeadTailProperties
  <1>3. \A b \in Byte : Append(rx, b) \in Seq(Byte) /\ <<b>> \in Seq(Byte)
    BY <1>1, AppendProperties
  <1>4. CASE Arrive
    <2>1. rx' \in Seq(Byte) /\ line' \in Seq(Byte)
      BY <1>2, <1>3, <1>4 DEF Arrive
    <2> QED
      BY <1>1, <1>4, <2>1, LineKeeps DEF Arrive
  <1>5. CASE LoseByte
    <2>1. line' \in Seq(Byte) /\ rx' = rx
      BY <1>2, <1>5 DEF LoseByte
    <2> QED
      BY <1>1, <1>5, <2>1, LineKeeps, FaultTyped DEF LoseByte
  <1>6. CASE SpoilByte
    <2>1. PICK b \in WrongBytes : line' = <<b>> \o Tail(line)
      BY <1>6 DEF SpoilByte
    <2>2. <<b>> \in Seq(Byte) /\ Tail(line) \in Seq(Byte)
      BY <1>2, <1>3, <1>6 DEF SpoilByte
    <2>3. line' \in Seq(Byte) /\ rx' = rx
      BY <1>6, <2>1, <2>2, ConcatProperties DEF SpoilByte
    <2> QED
      BY <1>1, <1>6, <2>3, LineKeeps, FaultTyped DEF SpoilByte
  <1>7. CASE StrayByte
    <2>1. rx' \in Seq(Byte) /\ line' = line
      BY <1>2, <1>3, <1>7 DEF StrayByte
    <2> QED
      BY <1>1, <1>7, <2>1, LineKeeps, FaultTyped DEF StrayByte
  <1>8. CASE UNCHANGED vars
    BY <1>1, <1>8, LineKeeps DEF vars
  <1> QED
    BY <1>4, <1>5, <1>6, <1>7, <1>8, SendCommandKeeps, SendFailsKeeps,
       FrameByteKeeps, WrongByteKeeps, HeaderByteKeeps, BodyByteKeeps,
       TimeoutKeeps
    DEF Next, Host, Environment

LEMMA ReaderInvariant == Spec => []ReaderInv
  BY ReaderInit, ReaderStep, PTL DEF Spec

\* The variables keep their types, and the body that is read is never longer
\* than the header says (esp.cpp:1734), whatever arrives.
THEOREM ReaderTyped == Spec => []TypeOK
  <1>1. ReaderInv => TypeOK
    BY DEF ReaderInv
  <1> QED
    BY <1>1, ReaderInvariant, PTL

\* ReadByte is never called at the end of what is available (esp.cpp:1672,
\* serial.cpp:439): whatever the line does to the bytes, an escape is decoded
\* together with the byte after it.
THEOREM EscapesStayWhole == Spec => []EscapesWhole
  <1>1. ReaderInv => EscapesWhole
    BY DEF ReaderInv
  <1> QED
    BY <1>1, ReaderInvariant, PTL

\* Whatever the line loses, spoils or adds, a reply that is taken for good
\* (esp.cpp:1841) is one whole packet, encoded as WriteByte would have
\* encoded it, with a header that answers the command and a status of two
\* zeros.
THEOREM AcceptedPackets == Spec => []AcceptedIsPacket
  <1>1. ReaderInv => AcceptedIsPacket
    BY DEF ReaderInv
  <1> QED
    BY <1>1, ReaderInvariant, PTL

-----------------------------------------------------------------------------
(* No byte is lost, spoilt or added: only whole packets are received *)

Calling == pc \in {"Send", "Reply", "Drain"}

Answers(k) == {Reply(Session[k], Status), Reply(Session[k], BadStatus)}

\* The contents q were sent by the device: replies to SYNC, and perhaps as the
\* last one the answer to the command for which the host waits.
Sent(q) ==
    \A i \in 1 .. Len(q) :
        \/ q[i] \in Answers(1)
        \/ pc = "Reply" /\ step > 1 /\ i = Len(q) /\ q[i] \in Answers(step)

\* What has been read of this packet and what is still to be read.
Ahead == taken \o (rx \o line)

\* It is what is left of the packets of q.
EndOf(q) == \E z \in Seq(Byte) : z \o Ahead = Stream(q)

OnlyPackets == \E q \in Seq(Seq(Byte)) : Sent(q) /\ EndOf(q)

ValuesInv ==
    /\ ReaderInv
    /\ pc = "Drain" => step = 1
    /\ Clean /\ Calling => OnlyPackets
    /\ ValuesTrue

LEMMA ConcatTyped == \A s, t \in Seq(Byte) : s \o t \in Seq(Byte)
  BY ConcatProperties

LEMMA FaultsCount ==
    ASSUME faults \in Seq(FaultKinds), NEW f, Fault(f)
    PROVE  /\ Clean' => Clean
           /\ f \in ByteFaults => ~Clean'
  <1>1. f \in FaultKinds /\ faults' = Append(faults, f)
    BY SessionAssumption DEF Fault
  <1>2. /\ Len(faults) \in Nat /\ Len(faults') = Len(faults) + 1
        /\ faults'[Len(faults) + 1] = f
        /\ \A i \in 1 .. Len(faults) : faults'[i] = faults[i]
    BY <1>1, AppendProperties, LenProperties
  <1>3. \A i \in 1 .. Len(faults) : i \in 1 .. Len(faults')
    BY <1>2
  <1>4. Contains(faults', f)
    <2>1. Len(faults) + 1 \in 1 .. Len(faults')
      BY <1>2
    <2> QED
      BY <1>2, <2>1 DEF Contains
  <1>5. \A x : Contains(faults, x) => Contains(faults', x)
    BY <1>2, <1>3 DEF Contains
  <1> QED
    BY <1>4, <1>5 DEF Clean

\* A reply carries the kind of the command and the value the device has for it.
LEMMA AnswerContents ==
    ASSUME NEW k \in 1 .. Len(Session), NEW c \in Answers(k)
    PROVE  /\ c \in Seq(Byte) /\ Len(c) = 10 /\ c # <<>>
           /\ c[2] = Session[k].op /\ SubSeq(c, 5, 8) = Session[k].val
  <1> DEFINE o == Session[k].op
             v == Session[k].val
             h == <<1, o, 2, 0>>
  <1>1. o \in Byte /\ v \in [1 .. 4 -> Byte]
    <2>1. Session[k] \in [op : Byte \ {0}, val : [1 .. 4 -> Byte]]
      BY SessionAssumption, ElementOfSeq
    <2> QED
      BY <2>1
  <1>2. PICK s \in {Status, BadStatus} : c = Reply(Session[k], s)
    BY DEF Answers
  <1>3. s \in Seq(Byte) /\ Len(s) = 2
    <2>1. \A x, y \in Byte : <<x, y>> \in Seq(Byte) /\ Len(<<x, y>>) = 2
      OBVIOUS
    <2>2. 0 \in Byte /\ 1 \in Byte /\ 5 \in Byte
      BY DEF Byte
    <2> QED
      BY <2>1, <2>2, Zenon DEF Status, BadStatus
  <1>4. c = (h \o v) \o s
    BY <1>2, <1>3 DEF Reply
  <1> HIDE DEF o, v
  <1>5. h \in Seq(Byte) /\ Len(h) = 4 /\ h[2] = o
    <2>1. /\ \A w, x, y, z \in Byte : <<w, x, y, z>> \in Seq(Byte)
          /\ 1 \in Byte /\ 2 \in Byte /\ 0 \in Byte
      <3>1. \A w, x, y, z \in Byte : <<w, x, y, z>> \in Seq(Byte)
        OBVIOUS
      <3>2. 1 \in Byte /\ 2 \in Byte /\ 0 \in Byte
        BY DEF Byte
      <3> QED
        BY <3>1, <3>2
    <2>2. h \in Seq(Byte)
      BY <1>1, <2>1
    <2>3. Len(h) = 4 /\ h[2] = o
      OBVIOUS
    <2> QED
      BY <2>2, <2>3
  <1>6. v \in Seq(Byte) /\ Len(v) = 4
    BY <1>1, FunctionIsSeq
  <1> DEFINE u == h \o v
  <1> HIDE DEF h
  <1>7. /\ u \in Seq(Byte) /\ Len(u) = 8
        /\ \A i \in 1 .. 8 : u[i] = IF i <= 4 THEN h[i] ELSE v[i - 4]
    <2>1. /\ u \in Seq(Byte) /\ Len(u) = Len(h) + Len(v)
          /\ \A i \in 1 .. Len(h) + Len(v) : u[i] = IF i <= Len(h) THEN h[i] ELSE v[i - Len(h)]
      <3>1. h \in Seq(Byte) /\ v \in Seq(Byte)
        BY <1>5, <1>6
      <3> QED
        BY <3>1, ConcatProperties
    <2>2. Len(h) = 4 /\ Len(v) = 4 /\ 4 + 4 = 8
      BY <1>5, <1>6
    <2> HIDE DEF u
    <2> QED
      BY <2>1, <2>2
  <1> HIDE DEF u
  <1>8. /\ c \in Seq(Byte) /\ Len(c) = 10
        /\ \A i \in 1 .. 10 : c[i] = IF i <= 8 THEN u[i] ELSE s[i - 8]
    <2>1. c = u \o s /\ u \in Seq(Byte)
      BY <1>4, <1>7 DEF u, h
    <2>2. /\ c \in Seq(Byte) /\ Len(c) = Len(u) + Len(s)
          /\ \A i \in 1 .. Len(u) + Len(s) : c[i] = IF i <= Len(u) THEN u[i] ELSE s[i - Len(u)]
      BY <1>3, <2>1, ConcatProperties
    <2>3. Len(u) = 8 /\ Len(s) = 2 /\ 8 + 2 = 10
      BY <1>3, <1>7
    <2> QED
      BY <2>2, <2>3
  <1>9. c[2] = o
    <2>1. 2 \in 1 .. 10 /\ 2 \in 1 .. 8 /\ 2 <= 8 /\ 2 <= 4
      OBVIOUS
    <2> QED
      BY <1>5, <1>7, <1>8, <2>1
  <1>10. SubSeq(c, 5, 8) = v
    <2> DEFINE w == SubSeq(c, 5, 8)
    <2>1. w \in Seq(Byte) /\ Len(w) = 4 /\ \A i \in 1 .. 4 : w[i] = c[4 + i]
      <3>1. 4 \in 0 .. Len(c) /\ 8 \in 4 .. Len(c) /\ 4 + 1 = 5 /\ 8 - 4 = 4
        BY <1>8
      <3> QED
        BY <1>8, <3>1, Slice
    <2>2. \A i \in 1 .. 4 : c[4 + i] = v[i]
      <3>1. \A i \in 1 .. 4 : /\ 4 + i \in 1 .. 10 /\ 4 + i \in 1 .. 8
                              /\ 4 + i <= 8 /\ ~(4 + i <= 4) /\ (4 + i) - 4 = i
        OBVIOUS
      <3> QED
        BY <1>7, <1>8, <3>1
    <2> HIDE DEF w
    <2>3. w = v
      BY <1>6, <2>1, <2>2, SeqEqual
    <2> QED
      BY <2>3 DEF w
  <1>11. c # <<>>
    <2> SUFFICES ASSUME c = <<>> PROVE FALSE
      OBVIOUS
    <2>1. Len(c) = 0
      BY EmptySeq
    <2> QED
      BY <1>8, <2>1
  <1> QED
    BY <1>8, <1>9, <1>10, <1>11 DEF o, v

\* What the device sends is a row of packets.
LEMMA AnswerStream ==
    ASSUME NEW k \in 1 .. Len(Session)
    PROVE  \E r \in Seq(Seq(Byte)) :
              /\ Answer(Session[k]) = Stream(r) /\ \A i \in 1 .. Len(r) : r[i] \in Answers(k)
              /\ k > 1 => Len(r) = 1
  <1> DEFINE c == Reply(Session[k], Status)
             n == IF Session[k].op = SYNC THEN SyncReplies ELSE 1
             r == [i \in 1 .. n |-> c]
  <1>1. c \in Answers(k) /\ c \in Seq(Byte) /\ n \in Nat
    <2>1. c \in Answers(k)
      BY DEF Answers
    <2> QED
      BY <2>1, AnswerContents, SessionAssumption
  <1>2. k > 1 => n = 1
    BY SessionAssumption
  <1>3. Answer(Session[k]) = FlattenSeq([i \in 1 .. n |-> Packet(c)])
    BY DEF Answer
  <1> HIDE DEF c, n
  <1>4. r \in [1 .. n -> Seq(Byte)] /\ DOMAIN r = 1 .. n /\ \A i \in 1 .. n : r[i] = c
    BY <1>1
  <1>5. [i \in DOMAIN r |-> Packet(r[i])] = [i \in 1 .. n |-> Packet(c)]
    BY <1>4
  <1> HIDE DEF r
  <1>6. r \in Seq(Seq(Byte)) /\ Len(r) = n
    BY <1>1, <1>4, FunctionIsSeq
  <1>7. Answer(Session[k]) = Stream(r)
    BY <1>3, <1>5 DEF Stream
  <1> QED
    BY <1>1, <1>2, <1>4, <1>6, <1>7

\* The host reads x, the first part of what it could read.
LEMMA ReadsOn ==
    ASSUME TypeOK, NEW n \in 0 .. Len(rx)
    PROVE  /\ SubSeq(rx, 1, n) \in Seq(Byte) /\ SubSeq(rx, n + 1, Len(rx)) \in Seq(Byte)
           /\ Ahead = (taken \o SubSeq(rx, 1, n)) \o (SubSeq(rx, n + 1, Len(rx)) \o line)
  <1> DEFINE x == SubSeq(rx, 1, n)
             y == SubSeq(rx, n + 1, Len(rx))
  <1>1. taken \in Seq(Byte) /\ rx \in Seq(Byte) /\ line \in Seq(Byte)
    BY DEF TypeOK
  <1>2. x \in Seq(Byte) /\ y \in Seq(Byte)
    BY <1>1, CutTyped
  <1>3. rx = x \o y
    <2>1. /\ 1 \in 1 .. Len(rx) + 1 /\ n \in 1 - 1 .. Len(rx)
          /\ Len(rx) \in n .. Len(rx) /\ Len(rx) \in Nat
      BY <1>1, LenProperties
    <2>2. x \o y = SubSeq(rx, 1, Len(rx))
      BY <1>1, <2>1, ConcatAdjacentSubSeq
    <2>3. SubSeq(rx, 1, Len(rx)) = rx
      <3> DEFINE w == SubSeq(rx, 1, Len(rx))
      <3>1. /\ w \in Seq(Byte) /\ Len(w) = Len(rx)
            /\ \A i \in 1 .. Len(rx) : w[i] = rx[i]
        <4>1. 0 \in 0 .. Len(rx) /\ Len(rx) \in 0 .. Len(rx) /\ 0 + 1 = 1
              /\ Len(rx) - 0 = Len(rx) /\ \A i \in 1 .. Len(rx) : 0 + i = i
          BY <2>1
        <4> QED
          BY <1>1, <4>1, Slice
      <3> HIDE DEF w
      <3>2. w = rx
        BY <1>1, <3>1, SeqEqual
      <3> QED
        BY <3>2 DEF w
    <2> QED
      BY <2>2, <2>3
  <1> HIDE DEF x, y
  <1>4. /\ (x \o y) \o line = x \o (y \o line)
        /\ taken \o (x \o (y \o line)) = (taken \o x) \o (y \o line)
    <2> DEFINE w == y \o line
    <2>1. w \in Seq(Byte)
      BY <1>1, <1>2, ConcatTyped
    <2>2. (x \o y) \o line = x \o (y \o line)
      BY <1>1, <1>2, ConcatAssociative
    <2> HIDE DEF w
    <2>3. taken \o (x \o w) = (taken \o x) \o w
      BY <1>1, <1>2, <2>1, ConcatAssociative
    <2> QED
      BY <2>2, <2>3 DEF w
  <1>5. Ahead = (taken \o x) \o (y \o line)
    BY <1>3, <1>4 DEF Ahead
  <1> QED
    BY <1>2, <1>5 DEF x, y

\* When the first part of what is ahead is gone, the rest is still an end.
LEMMA EndStays ==
    ASSUME NEW q, EndOf(q), NEW a \in Seq(Byte), NEW b \in Seq(Byte), Ahead = a \o b
    PROVE  \E z \in Seq(Byte) : z \o b = Stream(q)
  <1>1. PICK z \in Seq(Byte) : z \o (a \o b) = Stream(q)
    BY DEF EndOf
  <1>2. z \o a \in Seq(Byte) /\ (z \o a) \o b = z \o (a \o b)
    BY ConcatTyped, ConcatAssociative
  <1> QED
    BY <1>1, <1>2

\* The reply that is accepted is one that was sent, for this command; and when
\* it is not one to SYNC nothing is left of what was sent.
LEMMA AcceptedIsSent ==
    ASSUME TypeOK, Calling, OnlyPackets, pc = "Drain" => step = 1,
           NEW n \in 0 .. Len(rx), NEW c \in Seq(Byte), Len(c) >= 4,
           Accepted(step, taken \o SubSeq(rx, 1, n), c)
    PROVE  /\ SubSeq(c, 5, 8) = Session[step].val
           /\ step > 1 => SubSeq(rx, n + 1, Len(rx)) \o line = <<>>
  <1> DEFINE x == SubSeq(rx, 1, n)
             t == SubSeq(rx, n + 1, Len(rx)) \o line
  <1>1. step \in 1 .. Len(Session) /\ line \in Seq(Byte) /\ Len(Session) \in Nat
    BY SessionAssumption, LenProperties DEF TypeOK
  <1>2. t \in Seq(Byte) /\ Ahead = (taken \o x) \o t
    BY <1>1, ReadsOn, ConcatTyped
  <1>3. taken \o x = Packet(c) /\ SubSeq(c, 1, 4) = <<1, Session[step].op, 2, 0>>
    BY DEF Accepted
  <1> HIDE DEF t, x
  <1>4. c[2] = Session[step].op /\ c # <<>>
    <2>1. SubSeq(c, 1, 4) = <<c[1], c[2], c[3], c[4]>>
      BY FirstFour
    <2>2. c # <<>>
      BY EmptySeq
    <2> QED
      BY <1>3, <2>1, <2>2
  <1>5. PICK q \in Seq(Seq(Byte)) : Sent(q) /\ EndOf(q)
    BY DEF OnlyPackets
  <1>6. PICK z \in Seq(Byte) : z \o (Packet(c) \o t) = Stream(q)
    BY <1>2, <1>3, <1>5 DEF EndOf
  <1>7. PICK i \in 1 .. Len(q) : q[i] = c /\ (i = Len(q) => t = <<>>)
    BY <1>2, <1>4, <1>6, FoundIsSent
  <1>8. CASE c \in Answers(1)
    <2>1. 1 \in 1 .. Len(Session)
      BY <1>1
    <2>2. c[2] = Session[1].op /\ SubSeq(c, 5, 8) = Session[1].val
      BY <1>8, <2>1, AnswerContents
    <2>3. step = 1
      <3>1. Session[step].op = SYNC
        BY <1>4, <2>2, SessionAssumption
      <3>2. step \in 2 .. Len(Session) \/ step = 1
        BY <1>1
      <3> QED
        BY <3>1, <3>2, SessionAssumption
    <2> QED
      BY <2>2, <2>3
  <1>9. CASE /\ pc = "Reply" /\ step > 1 /\ i = Len(q) /\ c \in Answers(step)
    BY <1>1, <1>7, <1>9, AnswerContents DEF t
  <1> QED
    BY <1>5, <1>7, <1>8, <1>9 DEF Sent

\* One turn of readPacket that reads n bytes.
ReadStep(n) ==
    \/ \E s : GoOn(s, n)
    \/ \E r : /\ Return(r, n)
              /\ r = "ok" => /\ state = "end"
                             /\ Accepted(step, taken \o SubSeq(rx, 1, n), hdr \o body)

LEMMA PacketSteps ==
    ASSUME ReaderInv, FrameByte \/ WrongByte \/ HeaderByte \/ BodyByte \/ Timeout
    PROVE  /\ Reading /\ line' = line /\ (Clean' => Clean)
           /\ \E n \in 0 .. Len(rx) : ReadStep(n)
  <1>1. rx \in Seq(Byte) /\ Len(rx) \in Nat /\ faults \in Seq(FaultKinds)
    BY LenProperties DEF ReaderInv, TypeOK
  <1>2. CASE FrameByte
    <2>1. /\ Reading /\ Len(rx) >= 1 /\ 1 \in 0 .. Len(rx) /\ UNCHANGED <<line, faults>>
      BY <1>1, <1>2 DEF FrameByte, Ready, Needs
    <2>2. Clean' => Clean
      BY <2>1 DEF Clean
    <2>3. ReadStep(1)
      <3>1. CASE Return("frame", 1)
        BY <3>1 DEF ReadStep
      <3>2. CASE GoOn("header", 1)
        BY <3>2 DEF ReadStep
      <3>3. CASE /\ rx[1] = 192 /\ state = "end"
                 /\ Return(IF body = Status THEN "ok" ELSE "refused", 1)
        <4>1. body = Status => Accepted(step, taken \o SubSeq(rx, 1, 1), hdr \o body)
          BY <1>1, <2>1, <3>3, EndAccepts
        <4> DEFINE r == IF body = Status THEN "ok" ELSE "refused"
        <4>2. r = "ok" => body = Status
          OBVIOUS
        <4>3. Return(r, 1)
          BY <3>3
        <4> HIDE DEF r
        <4> QED
          BY <3>3, <4>1, <4>2, <4>3 DEF ReadStep
      <3> QED
        BY <1>2, <3>1, <3>2, <3>3 DEF FrameByte
    <2> QED
      BY <2>1, <2>2, <2>3
  <1>3. ASSUME Ready, state \in {"header", "body"}
        PROVE  Reading /\ Len(rx) >= 2 /\ SlipByte(rx).used \in 0 .. Len(rx)
    <2>1. Reading /\ Len(rx) >= 2
      BY <1>3 DEF Ready, Needs
    <2>2. SlipByte(rx).used \in {1, 2}
      BY <1>1, <2>1, SlipUndone
    <2> QED
      BY <1>1, <2>1, <2>2
  <1>4. CASE WrongByte
    <2>1. /\ Ready /\ state \in {"header", "body"} /\ UNCHANGED <<line, faults>>
          /\ Return(IF SlipByte(rx).stat \in {0, -2} THEN "data" ELSE "frame",
                    SlipByte(rx).used)
      BY <1>4 DEF WrongByte
    <2>2. Clean' => Clean
      BY <2>1 DEF Clean
    <2> DEFINE n == SlipByte(rx).used
               r == IF SlipByte(rx).stat \in {0, -2} THEN "data" ELSE "frame"
    <2>3. r # "ok" /\ Return(r, n)
      BY <2>1
    <2>4. n \in 0 .. Len(rx) /\ Reading
      BY <1>3, <2>1
    <2> HIDE DEF n, r
    <2> QED
      BY <2>1, <2>2, <2>3, <2>4 DEF ReadStep
  <1>5. CASE HeaderByte
    <2> DEFINE n == SlipByte(rx).used
    <2>1. /\ Ready /\ state = "header" /\ UNCHANGED <<line, faults>>
          /\ (\E s : GoOn(s, n)) \/ Return("header", n)
      BY <1>5 DEF HeaderByte
    <2>2. Clean' => Clean
      BY <2>1 DEF Clean
    <2>3. n \in 0 .. Len(rx) /\ Reading
      BY <1>3, <2>1
    <2> HIDE DEF n
    <2> QED
      BY <2>1, <2>2, <2>3 DEF ReadStep
  <1>6. CASE BodyByte
    <2> DEFINE n == SlipByte(rx).used
    <2>1. /\ Ready /\ state = "body" /\ UNCHANGED <<line, faults>>
          /\ \E s : GoOn(s, n)
      BY <1>6 DEF BodyByte
    <2>2. Clean' => Clean
      BY <2>1 DEF Clean
    <2>3. n \in 0 .. Len(rx) /\ Reading
      BY <1>3, <2>1
    <2> HIDE DEF n
    <2> QED
      BY <2>1, <2>2, <2>3 DEF ReadStep
  <1>7. CASE Timeout
    <2>1. Reading /\ UNCHANGED line /\ Return("timeout", 0)
          /\ (UNCHANGED faults \/ Fault("late"))
      BY <1>7 DEF Timeout
    <2>2. Clean' => Clean
      BY <1>1, <2>1, FaultsCount DEF Clean
    <2>3. 0 \in 0 .. Len(rx)
      BY <1>1
    <2> QED
      BY <2>1, <2>2, <2>3 DEF ReadStep
  <1> QED
    BY <1>2, <1>4, <1>5, <1>6, <1>7

LEMMA GoOnValues ==
    ASSUME ValuesInv, ReaderInv', line' = line, Clean' => Clean,
           NEW n \in 0 .. Len(rx), NEW s, GoOn(s, n)
    PROVE  ValuesInv'
  <1>1. /\ UNCHANGED <<pc, step, last>> /\ taken' = taken \o SubSeq(rx, 1, n)
        /\ rx' = SubSeq(rx, n + 1, Len(rx))
    BY DEF GoOn
  <1>2. Ahead' = Ahead
    BY <1>1, ReadsOn DEF ValuesInv, ReaderInv, Ahead
  <1>3. OnlyPackets => OnlyPackets'
    BY <1>1, <1>2 DEF OnlyPackets, EndOf, Sent
  <1>4. ValuesTrue'
    BY <1>1 DEF ValuesInv, ValuesTrue, Clean
  <1> QED
    BY <1>1, <1>3, <1>4 DEF ValuesInv, Calling

LEMMA ReturnValues ==
    ASSUME ValuesInv, ReaderInv', Reading, line' = line, Clean' => Clean,
           NEW n \in 0 .. Len(rx), NEW r, Return(r, n),
           r = "ok" => /\ state = "end"
                       /\ Accepted(step, taken \o SubSeq(rx, 1, n), hdr \o body)
    PROVE  ValuesInv'
  <1> DEFINE x == SubSeq(rx, 1, n)
             y == SubSeq(rx, n + 1, Len(rx))
             c == hdr \o body
  <1>1. /\ last' = [step |-> step, result |-> r, bytes |-> taken \o x, content |-> c]
        /\ rx' = IF pc = "Reply" /\ Cmd.op = SYNC /\ r # "ok" THEN <<>> ELSE y
        /\ taken' = <<>> /\ Continue(r)
    BY DEF Return, Fresh
  <1>2. /\ TypeOK /\ Calling /\ pc \in {"Reply", "Drain"} /\ (pc = "Drain" => step = 1)
        /\ step \in 1 .. Len(Session) /\ taken \in Seq(Byte) /\ line \in Seq(Byte)
        /\ rx' \in Seq(Byte)
    BY DEF ValuesInv, ReaderInv, TypeOK, Reading, Calling
  <1>3. /\ x \in Seq(Byte) /\ y \in Seq(Byte)
        /\ Ahead = (taken \o x) \o (y \o line)
    BY <1>2, ReadsOn
  <1>4. ASSUME r = "ok", Clean
        PROVE  SubSeq(c, 5, 8) = Session[step].val /\ (step > 1 => y \o line = <<>>)
    <2>1. c \in Seq(Byte) /\ Len(c) >= 4
      <3>1. hdr \in Seq(Byte) /\ body \in Seq(Byte) /\ Len(hdr) = 8 /\ Len(body) \in Nat
        BY <1>4, LenProperties DEF ValuesInv, ReaderInv, TypeOK, Progress, HDR_LEN
      <3>2. c \in Seq(Byte) /\ Len(c) = Len(hdr) + Len(body)
        BY <3>1, ConcatProperties
      <3> QED
        BY <3>1, <3>2
    <2>2. Accepted(step, taken \o SubSeq(rx, 1, n), c) /\ OnlyPackets
      BY <1>2, <1>4 DEF ValuesInv
    <2> HIDE DEF c
    <2> QED
      BY <1>2, <2>1, <2>2, AcceptedIsSent
  <1>5. ValuesTrue'
    BY <1>1, <1>4 DEF ValuesTrue, Clean
  <1>6. step > 1 => Cmd.op # SYNC
    <2>1. step > 1 => step \in 2 .. Len(Session)
      BY <1>2
    <2> QED
      BY <2>1, SessionAssumption DEF Cmd
  \* While it connects the host meets replies to SYNC only.
  <1>7. ASSUME step = 1, Clean, pc' # "Done" PROVE OnlyPackets'
    <2>1. PICK q \in Seq(Seq(Byte)) : Sent(q) /\ EndOf(q)
      BY <1>2, <1>7 DEF ValuesInv, OnlyPackets
    <2>2. \A i \in 1 .. Len(q) : q[i] \in Answers(1)
      BY <1>7, <2>1 DEF Sent
    <2>3. Ahead' = rx' \o line
      <3>1. rx' \o line \in Seq(Byte)
        BY <1>2, ConcatTyped
      <3> QED
        BY <1>1, <3>1, ConcatEmptySeq DEF Ahead
    <2> HIDE DEF x, y
    <2>4. \E a \in Seq(Byte) : Ahead = a \o (rx' \o line)
      <3>1. CASE rx' = y
        BY <1>2, <1>3, <3>1, ConcatTyped
      <3>2. CASE rx' = <<>>
        <4>1. <<>> \o line = line
          BY <1>2, ConcatEmptySeq
        <4>2. taken \o x \in Seq(Byte)
          BY <1>2, <1>3, ConcatTyped
        <4> DEFINE a == taken \o x
        <4>3. a \in Seq(Byte)
          BY <4>2
        <4> HIDE DEF a
        <4>4. a \o y \in Seq(Byte) /\ (a \o y) \o line = a \o (y \o line)
          <5>1. a \o y \in Seq(Byte)
            BY <1>3, <4>3, ConcatTyped
          <5>2. a \in Seq(Byte) /\ y \in Seq(Byte) /\ line \in Seq(Byte)
            BY <1>2, <1>3, <4>3
          <5>3. (a \o y) \o line = a \o (y \o line)
            BY ONLY <5>2, ConcatAssociative
          <5> QED
            BY <5>1, <5>3
        <4> QED
          BY <1>3, <3>2, <4>1, <4>4 DEF a
      <3> QED
        BY <1>1, <3>1, <3>2
    <2>5. PICK a \in Seq(Byte) : Ahead = a \o (rx' \o line)
      BY <2>4
    <2> DEFINE b == rx' \o line
    <2>6. b \in Seq(Byte)
      BY <1>2, ConcatTyped
    <2> HIDE DEF b
    <2>7. PICK z \in Seq(Byte) : z \o b = Stream(q)
      BY <2>1, <2>5, <2>6, EndStays DEF b
    <2>8. EndOf(q)'
      BY <2>3, <2>7 DEF EndOf, b
    <2>9. Sent(q)'
      BY <2>2 DEF Sent
    <2> QED
      BY <2>8, <2>9 DEF OnlyPackets
  \* After it a command was answered by the last of what was sent.
  <1>8. ASSUME step > 1, Clean, pc' \in {"Send", "Reply", "Drain"} PROVE OnlyPackets' /\ pc' = "Send"
    <2>1. pc = "Reply" /\ Cmd.op # SYNC
      BY <1>2, <1>6, <1>8
    <2>2. r = "ok" /\ NextCommand
      <3>1. CASE r # "ok"
        <4>1. CommandFailed
          BY <1>1, <2>1, <3>1 DEF Continue
        <4> QED
          BY <1>8, <2>1, <4>1 DEF CommandFailed
      <3>2. CASE r = "ok"
        BY <1>1, <2>1, <3>2 DEF Continue
      <3> QED
        BY <3>1, <3>2
    <2>3. y \o line = <<>> /\ rx' = y
      BY <1>1, <1>4, <1>8, <2>2
    <2>4. Ahead' = <<>>
      <3>1. <<>> \o <<>> = <<>>
        BY EmptySeq, ConcatEmptySeq
      <3> QED
        BY <1>1, <2>3, <3>1 DEF Ahead
    <2>5. <<>> \in Seq(Byte) /\ <<>> \o <<>> = <<>>
      BY EmptySeq, ConcatEmptySeq
    <2>6. EndOf(<<>>)'
      BY <2>4, <2>5, StreamEmpty DEF EndOf
    <2>7. Sent(<<>>)'
      BY StreamEmpty DEF Sent
    <2>8. pc' = "Send"
      BY <1>8, <2>2 DEF NextCommand
    <2> QED
      BY <2>6, <2>7, <2>8, StreamEmpty DEF OnlyPackets
  <1>9. pc' = "Drain" => step' = 1
    <2>1. CASE step > 1
      <3>1. pc = "Reply" /\ Cmd.op # SYNC
        BY <1>2, <1>6, <2>1
      <3>2. CommandFailed \/ NextCommand
        BY <1>1, <3>1 DEF Continue
      <3> QED
        BY <3>2 DEF CommandFailed, NextCommand
    <2>2. CASE step = 1
      <3>1. NextCommand \/ CommandFailed \/ UNCHANGED step
        BY <1>1, <1>2 DEF Continue, caller
      <3> QED
        BY <2>2, <3>1 DEF NextCommand, CommandFailed
    <2> QED
      BY <1>2, <2>1, <2>2
  <1>10. Clean' /\ Calling' => OnlyPackets'
    <2>1. step = 1 \/ step > 1
      BY <1>2
    <2> QED
      BY <1>7, <1>8, <2>1 DEF Calling
  <1> QED
    BY <1>5, <1>9, <1>10 DEF ValuesInv

\* The packets of r are sent in answer to the command.
LEMMA SentOn ==
    ASSUME ValuesInv, Clean, pc = "Send", pc' = "Reply", rx' = <<>>,
           UNCHANGED <<step, taken>>,
           NEW r \in Seq(Seq(Byte)), \A i \in 1 .. Len(r) : r[i] \in Answers(step),
           step > 1 => Len(r) \in {0, 1}, line' = line \o Stream(r)
    PROVE  OnlyPackets'
  <1>1. /\ taken = <<>> /\ rx \in Seq(Byte) /\ line \in Seq(Byte)
        /\ step \in 1 .. Len(Session) /\ Len(Session) \in Nat
    BY SessionAssumption, LenProperties
    DEF ValuesInv, ReaderInv, TypeOK, Progress, Reading
  <1>2. PICK q \in Seq(Seq(Byte)) : Sent(q) /\ EndOf(q)
    BY DEF ValuesInv, OnlyPackets, Calling
  <1>3. \A i \in 1 .. Len(q) : q[i] \in Answers(1)
    BY <1>2 DEF Sent
  <1> DEFINE s == Stream(r)
  <1>4. s \in Seq(Byte) /\ Stream(q) \in Seq(Byte) /\ line' \in Seq(Byte)
    BY <1>1, PacketsTyped, ConcatTyped
  <1>5. Ahead = rx \o line /\ Ahead' = line'
    <2>1. rx \o line \in Seq(Byte)
      BY <1>1, ConcatTyped
    <2>2. <<>> \o (rx \o line) = rx \o line /\ <<>> \o line' = line'
      BY <1>4, <2>1, ConcatEmptySeq
    <2> QED
      BY <1>1, <2>2 DEF Ahead
  <1>6. PICK z \in Seq(Byte) : z \o line = Stream(q)
    BY <1>1, <1>2, <1>5, EndStays
  <1>7. EndOf(q \o r)'
    <2> HIDE DEF s
    <2>1. z \o (line \o s) = (z \o line) \o s
      <3>1. z \in Seq(Byte) /\ line \in Seq(Byte) /\ s \in Seq(Byte)
        BY <1>1, <1>4, <1>6
      <3> QED
        BY ONLY <3>1, ConcatAssociative
    <2>2. Stream(q \o r) = Stream(q) \o s
      BY StreamConcat DEF s
    <2> QED
      BY <1>5, <1>6, <2>1, <2>2 DEF EndOf, s
  <1>8. Sent(q \o r)'
    <2>1. /\ q \o r \in Seq(Seq(Byte)) /\ Len(q \o r) = Len(q) + Len(r)
          /\ \A i \in 1 .. Len(q) + Len(r) :
                (q \o r)[i] = IF i <= Len(q) THEN q[i] ELSE r[i - Len(q)]
      BY ConcatProperties
    <2>2. Len(q) \in Nat /\ Len(r) \in Nat
      BY LenProperties
    <2>3. ASSUME NEW i \in 1 .. Len(q \o r)
          PROVE  \/ (q \o r)[i] \in Answers(1)
                 \/ step > 1 /\ i = Len(q \o r) /\ (q \o r)[i] \in Answers(step)
      <3>1. CASE i <= Len(q)
        <4>1. i \in 1 .. Len(q)
          BY <2>1, <2>2, <3>1
        <4> QED
          BY <1>3, <2>1, <3>1, <4>1
      <3>2. CASE ~(i <= Len(q))
        <4>1. i - Len(q) \in 1 .. Len(r)
          BY <2>1, <2>2, <3>2
        <4>2. (q \o r)[i] \in Answers(step)
          BY <2>1, <3>2, <4>1
        <4>3. CASE step = 1
          BY <4>2, <4>3
        <4>4. CASE step > 1
          <5>1. Len(r) = 1 /\ i - Len(q) = 1
            <6>1. Len(r) \in {0, 1}
              BY <4>4
            <6>2. i \in Int
              BY <2>1, <2>2
            <6>3. \A j \in Int, n \in {0, 1} : j \in 1 .. n => n = 1 /\ j = 1
              OBVIOUS
            <6>4. i - Len(q) \in Int
              BY <2>2, <6>2
            <6> QED
              BY <4>1, <6>1, <6>3, <6>4, Zenon
          <5>2. i = Len(q \o r)
            BY <2>1, <2>2, <5>1
          <5> QED
            BY <4>2, <4>4, <5>2
        <4> QED
          BY <1>1, <4>3, <4>4
      <3> QED
        BY <3>1, <3>2
    <2> QED
      BY <2>3 DEF Sent, Answers
  <1> QED
    BY <1>7, <1>8, StreamConcat DEF OnlyPackets

LEMMA SendCommandValues ==
    ASSUME ValuesInv, ReaderInv', SendCommand
    PROVE  ValuesInv'
  <1>1. /\ pc = "Send" /\ rx' = <<>> /\ pc' = "Reply"
        /\ UNCHANGED <<step, taken, last>>
    BY DEF SendCommand
  <1>2. /\ line \in Seq(Byte) /\ step \in 1 .. Len(Session) /\ faults \in Seq(FaultKinds)
        /\ Len(Session) \in Nat
    BY SessionAssumption, LenProperties DEF ValuesInv, ReaderInv, TypeOK
  <1>3. Clean' => Clean
    <2>1. UNCHANGED faults \/ \E f : Fault(f)
      BY DEF SendCommand
    <2> QED
      BY <1>2, <2>1, FaultsCount DEF Clean
  <1>4. \E r \in Seq(Seq(Byte)) :
            /\ \A i \in 1 .. Len(r) : r[i] \in Answers(step)
            /\ step > 1 => Len(r) \in {0, 1}
            /\ line' = line \o Stream(r)
    <2>1. CASE line' = line \o Answer(Cmd)
      <3>1. PICK r \in Seq(Seq(Byte)) :
                /\ Answer(Cmd) = Stream(r) /\ \A i \in 1 .. Len(r) : r[i] \in Answers(step)
                /\ step > 1 => Len(r) = 1
        BY <1>2, AnswerStream DEF Cmd
      <3> QED
        BY <2>1, <3>1
    <2>2. CASE UNCHANGED line
      <3>1. line \o <<>> = line
        BY <1>2, ConcatEmptySeq
      <3>2. \A i \in 1 .. Len(<<>>) : <<>>[i] \in Answers(step)
        BY StreamEmpty
      <3> QED
        BY <2>2, <3>1, <3>2, StreamEmpty
    <2>3. CASE line' = line \o Packet(Reply(Cmd, BadStatus))
      <3> DEFINE c == Reply(Cmd, BadStatus)
      <3>1. c \in Answers(step)
        BY DEF Answers, Cmd
      <3>2. c \in Seq(Byte)
        BY <1>2, <3>1, AnswerContents
      <3> HIDE DEF c
      <3>3. /\ <<c>> \in Seq(Seq(Byte)) /\ Len(<<c>>) = 1 /\ <<c>>[1] = c
            /\ Stream(<<c>>) = Packet(c)
        BY <3>2, StreamOfOne
      <3>4. \A i \in 1 .. 1 : i = 1
        OBVIOUS
      <3>5. \A i \in 1 .. Len(<<c>>) : <<c>>[i] \in Answers(step)
        BY <3>1, <3>3, <3>4
      <3>6. line' = line \o Stream(<<c>>)
        BY <2>3, <3>3 DEF c
      <3> QED
        BY <3>3, <3>5, <3>6
    <2> QED
      BY <2>1, <2>2, <2>3 DEF SendCommand
  <1>5. Clean => OnlyPackets'
    BY <1>1, <1>4, SentOn
  <1>6. ValuesTrue'
    BY <1>1, <1>3 DEF ValuesInv, ValuesTrue, Clean
  <1> QED
    BY <1>1, <1>3, <1>5, <1>6 DEF ValuesInv

LEMMA SendFailsValues ==
    ASSUME ValuesInv, ReaderInv', SendFails
    PROVE  ValuesInv'
  <1>1. /\ pc = "Send" /\ rx' = <<>> /\ CommandFailed
        /\ UNCHANGED <<state, taken, last, line>> /\ \E f : Fault(f)
    BY DEF SendFails
  <1>2. /\ line \in Seq(Byte) /\ rx \in Seq(Byte) /\ step \in 1 .. Len(Session)
        /\ taken = <<>> /\ faults \in Seq(FaultKinds) /\ Len(Session) \in Nat
    BY <1>1, SessionAssumption, LenProperties
    DEF ValuesInv, ReaderInv, TypeOK, Progress, Reading
  <1>3. Clean' => Clean
    BY <1>1, <1>2, FaultsCount
  <1>4. ASSUME Clean, pc' \in {"Send", "Reply", "Drain"} PROVE OnlyPackets' /\ pc' # "Drain"
    <2>1. Cmd.op = SYNC /\ pc' = "Send" /\ step' = step
      BY <1>1, <1>4 DEF CommandFailed
    <2>2. step = 1
      <3>1. step \in 2 .. Len(Session) \/ step = 1
        BY <1>2
      <3> QED
        BY <2>1, <3>1, SessionAssumption DEF Cmd
    <2>3. PICK q \in Seq(Seq(Byte)) : Sent(q) /\ EndOf(q)
      BY <1>1, <1>4 DEF ValuesInv, OnlyPackets, Calling
    <2>4. Ahead = rx \o line /\ Ahead' = line
      <3>1. rx \o line \in Seq(Byte)
        BY <1>2, ConcatTyped
      <3>2. <<>> \o (rx \o line) = rx \o line /\ <<>> \o (<<>> \o line) = line
        BY <1>2, <3>1, ConcatEmptySeq
      <3> QED
        BY <1>1, <1>2, <3>2 DEF Ahead
    <2>5. PICK z \in Seq(Byte) : z \o line = Stream(q)
      BY <1>2, <2>3, <2>4, EndStays
    <2>6. EndOf(q)'
      BY <2>4, <2>5 DEF EndOf
    <2>7. Sent(q)'
      BY <1>1, <2>2, <2>3 DEF Sent
    <2> QED
      BY <2>1, <2>6, <2>7 DEF OnlyPackets
  <1>5. pc' # "Drain"
    BY <1>1 DEF CommandFailed
  <1>6. ValuesTrue'
    BY <1>1, <1>3 DEF ValuesInv, ValuesTrue, Clean
  <1> QED
    BY <1>3, <1>4, <1>5, <1>6 DEF ValuesInv, Calling

\* A byte that arrives is what was first on its way.
LEMMA ArrivedByte ==
    ASSUME rx \in Seq(Byte), line \in Seq(Byte), line # <<>>
    PROVE  Append(rx, Head(line)) \o Tail(line) = rx \o line
  <1> DEFINE b == Head(line)
             r == Tail(line)
  <1>3. b \in Byte /\ r \in Seq(Byte) /\ line = <<b>> \o r
    <2>1. b \in Byte /\ r \in Seq(Byte)
      BY HeadTailProperties
    <2>2. line = <<b>> \o r
      <3> DEFINE w == <<b>> \o r
      <3>1. <<b>> \in Seq(Byte) /\ Len(<<b>>) = 1 /\ <<b>>[1] = b
        BY <2>1
      <3>2. /\ w \in Seq(Byte) /\ Len(w) = Len(<<b>>) + Len(r)
            /\ \A i \in 1 .. Len(<<b>>) + Len(r) :
                  w[i] = IF i <= Len(<<b>>) THEN <<b>>[i] ELSE r[i - Len(<<b>>)]
        BY <2>1, <3>1, ConcatProperties
      <3>3. /\ Len(line) \in Nat /\ Len(line) >= 1 /\ Len(r) = Len(line) - 1
            /\ \A i \in 1 .. Len(r) : r[i] = line[i + 1]
            /\ b = line[1]
        BY EmptySeq, HeadTailProperties, LenProperties
      <3> HIDE DEF w, b, r
      <3>4. Len(w) = Len(line) /\ \A i \in 1 .. Len(line) : i \in 1 .. Len(<<b>>) + Len(r)
        BY <3>1, <3>2, <3>3
      <3>5. ASSUME NEW i \in 1 .. Len(line) PROVE w[i] = line[i]
        <4>1. CASE i = 1
          <5>1. w[1] = <<b>>[1]
            BY <3>1, <3>2, <3>4, <4>1
          <5> QED
            BY <3>1, <3>3, <4>1, <5>1
        <4>2. CASE i # 1
          <5>1. ~(i <= Len(<<b>>)) /\ i - Len(<<b>>) = i - 1 /\ i - 1 \in 1 .. Len(r)
                /\ (i - 1) + 1 = i
            BY <3>1, <3>3, <4>2
          <5>2. w[i] = r[i - 1]
            BY <3>2, <3>4, <5>1
          <5> QED
            BY <3>3, <5>1, <5>2
        <4> QED
          BY <4>1, <4>2
      <3>6. w = line
        BY <3>2, <3>4, <3>5, SeqEqual
      <3> QED
        BY <3>6 DEF w
    <2> QED
      BY <2>1, <2>2
  <1> HIDE DEF b, r
  <1>4. Append(rx, b) \o r = rx \o line
    <2>1. <<b>> \in Seq(Byte) /\ Append(rx, b) = rx \o <<b>>
      BY <1>3, AppendIsConcat
    <2>2. (rx \o <<b>>) \o r = rx \o (<<b>> \o r)
      BY <1>3, <2>1, ConcatAssociative
    <2> QED
      BY <1>3, <2>1, <2>2
  <1> QED
    BY <1>4 DEF b, r

LEMMA ArriveValues ==
    ASSUME ValuesInv, ReaderInv', Arrive
    PROVE  ValuesInv'
  <1>1. /\ line # <<>> /\ rx' = Append(rx, Head(line)) /\ line' = Tail(line)
        /\ UNCHANGED <<pc, step, taken, last, faults>>
    BY DEF Arrive
  <1>2. /\ line \in Seq(Byte) /\ rx \in Seq(Byte) /\ taken \in Seq(Byte)
    BY DEF ValuesInv, ReaderInv, TypeOK
  <1>4. rx' \o line' = rx \o line
    BY <1>1, <1>2, ArrivedByte
  <1>5. OnlyPackets => OnlyPackets'
    BY <1>1, <1>4 DEF OnlyPackets, EndOf, Sent, Ahead
  <1> QED
    BY <1>1, <1>5 DEF ValuesInv, ValuesTrue, Calling, Clean

LEMMA ValuesInit == Init => ValuesInv
  <1> SUFFICES ASSUME Init PROVE ValuesInv
    OBVIOUS
  <1>1. /\ taken = <<>> /\ rx = <<>> /\ line = <<>> /\ pc = "Send" /\ step = 1
        /\ last.result = "none"
    BY DEF Init
  <1>2. <<>> \in Seq(Byte) /\ <<>> \o <<>> = <<>>
    BY EmptySeq, ConcatEmptySeq
  <1>3. Sent(<<>>) /\ EndOf(<<>>)
    <2>1. Ahead = <<>>
      BY <1>1, <1>2 DEF Ahead
    <2>2. EndOf(<<>>)
      BY <1>2, <2>1, StreamEmpty DEF EndOf
    <2>3. Sent(<<>>)
      BY StreamEmpty DEF Sent
    <2> QED
      BY <2>2, <2>3
  <1>4. OnlyPackets
    BY <1>3, StreamEmpty DEF OnlyPackets
  <1> QED
    BY <1>1, <1>4, ReaderInit DEF ValuesInv, ValuesTrue

LEMMA ValuesStep == ValuesInv /\ [Next]_vars => ValuesInv'
  <1> SUFFICES ASSUME ValuesInv, [Next]_vars PROVE ValuesInv'
    OBVIOUS
  <1>1. ReaderInv /\ ReaderInv' /\ faults \in Seq(FaultKinds)
    BY ReaderStep DEF ValuesInv, ReaderInv, TypeOK
  <1>2. CASE FrameByte \/ WrongByte \/ HeaderByte \/ BodyByte \/ Timeout
    <2>1. /\ Reading /\ line' = line /\ (Clean' => Clean)
          /\ \E n \in 0 .. Len(rx) : ReadStep(n)
      BY <1>1, <1>2, PacketSteps
    <2> QED
      BY <1>1, <2>1, GoOnValues, ReturnValues DEF ReadStep
  <1>3. CASE Environment
    <2>1. /\ UNCHANGED <<pc, step, last>> /\ \E f \in ByteFaults : Fault(f)
      BY <1>3 DEF Environment, LoseByte, SpoilByte, StrayByte, ByteFaults
    <2>2. ~Clean'
      BY <1>1, <2>1, FaultsCount
    <2> QED
      BY <1>1, <2>1, <2>2 DEF ValuesInv, ValuesTrue, Clean
  <1>4. CASE UNCHANGED vars
    BY <1>1, <1>4
    DEF vars, ValuesInv, ValuesTrue, Clean, Calling, OnlyPackets, Sent, EndOf, Ahead
  <1> QED
    BY <1>1, <1>2, <1>3, <1>4, SendCommandValues, SendFailsValues, ArriveValues
    DEF Next, Host

\* As long as the line spoils no byte, the value that is taken from a reply is
\* the one the device sent for this command (esp.cpp:1715, :184): whatever is
\* late, left out, flushed or cut, what is left of an earlier command is not
\* taken for the answer to the next one.
THEOREM TakenValuesTrue == Spec => []ValuesTrue
  <1>1. ValuesInv => ValuesTrue
    BY DEF ValuesInv
  <1>2. Spec => []ValuesInv
    BY ValuesInit, ValuesStep, PTL DEF Spec
  <1> QED
    BY <1>1, <1>2, PTL

-----------------------------------------------------------------------------
(* When nothing goes wrong *)

\* The encoding of what follows the first k bytes begins with the byte after
\* them.
LEMMA EncodedFrom ==
    ASSUME NEW g \in Seq(Byte), NEW k \in Nat, k < Len(g)
    PROVE  /\ g[k + 1] \in Byte
           /\ SubSeq(g, k + 1, Len(g)) \in Seq(Byte)
           /\ SubSeq(g, k + 2, Len(g)) \in Seq(Byte)
           /\ Encoded(SubSeq(g, k + 2, Len(g))) \in Seq(Byte)
           /\ Encoded(SubSeq(g, k + 1, Len(g)))
                = Escaped(g[k + 1]) \o Encoded(SubSeq(g, k + 2, Len(g)))
  <1> DEFINE b == g[k + 1]
             s == SubSeq(g, k + 2, Len(g))
             f == SubSeq(g, k + 1, Len(g))
             x == Escaped(b)
             parts == [i \in DOMAIN s |-> Escaped(s[i])]
             all == [i \in DOMAIN f |-> Escaped(f[i])]
  <1>1. /\ Len(g) \in Nat /\ k + 1 \in 1 .. Len(g) /\ Len(g) \in k + 1 .. Len(g)
        /\ k \in 0 .. Len(g) /\ k + 1 \in 0 .. Len(g) /\ (k + 1) + 1 = k + 2
    BY LenProperties
  <1>2. b \in Byte /\ f = <<b>> \o s
    BY <1>1, ElementOfSeq, SubSeqRecursiveFirst
  <1>3. f \in Seq(Byte) /\ s \in Seq(Byte) /\ Len(s) \in Nat
    <2>1. f \in Seq(Byte)
      BY <1>1, Halves
    <2>2. s \in Seq(Byte)
      BY <1>1, Halves
    <2> QED
      BY <2>1, <2>2, LenProperties
  <1>4. Encoded(s) \in Seq(Byte) /\ x \in Seq(Byte)
    BY <1>2, <1>3, EncodedBytes, EscapedTyped
  <1> HIDE DEF s, f, b
  <1>5. /\ Len(f) = 1 + Len(s) /\ f[1] = b
        /\ \A i \in 1 .. 1 + Len(s) : f[i] = IF i <= 1 THEN b ELSE s[i - 1]
    <2>1. <<b>> \in Seq(Byte) /\ Len(<<b>>) = 1 /\ <<b>>[1] = b
      BY <1>2
    <2>2. /\ Len(f) = 1 + Len(s)
          /\ \A i \in 1 .. 1 + Len(s) : f[i] = IF i <= 1 THEN <<b>>[i] ELSE s[i - 1]
      BY <1>2, <1>3, <2>1, ConcatProperties
    <2>3. \A i \in 1 .. 1 + Len(s) : i <= 1 => i = 1
      BY <1>3
    <2>4. 1 \in 1 .. 1 + Len(s)
      BY <1>3
    <2> QED
      BY <2>1, <2>2, <2>3, <2>4
  <1>6. /\ parts \in Seq(Seq(Byte)) /\ Len(parts) = Len(s)
        /\ \A i \in 1 .. Len(s) : parts[i] = Escaped(s[i])
    <2>1. DOMAIN s = 1 .. Len(s) /\ \A i \in 1 .. Len(s) : s[i] \in Byte
      BY <1>3, LenProperties, ElementOfSeq
    <2>2. parts \in [1 .. Len(s) -> Seq(Byte)]
      BY <2>1, EscapedTyped
    <2> QED
      BY <1>3, <2>1, <2>2, FunctionIsSeq
  <1>7. /\ all \in Seq(Seq(Byte)) /\ Len(all) = 1 + Len(s)
        /\ \A i \in 1 .. 1 + Len(s) : all[i] = Escaped(f[i])
    <2>1. DOMAIN f = 1 .. 1 + Len(s) /\ \A i \in 1 .. 1 + Len(s) : f[i] \in Byte
      BY <1>3, <1>5, LenProperties, ElementOfSeq
    <2>2. all \in [1 .. 1 + Len(s) -> Seq(Byte)]
      BY <2>1, EscapedTyped
    <2>3. 1 + Len(s) \in Nat
      BY <1>3
    <2> QED
      BY <2>1, <2>2, <2>3, FunctionIsSeq
  <1>8. Encoded(s) = FlattenSeq(parts) /\ Encoded(f) = FlattenSeq(all)
    BY DEF Encoded
  <1> HIDE DEF parts, all, x
  <1>9. /\ <<x>> \in Seq(Seq(Byte)) /\ Len(<<x>>) = 1 /\ <<x>>[1] = x
        /\ FlattenSeq(<<x>>) = x
    <2>1. <<>> \in Seq(Seq(Byte)) /\ Append(<<>>, x) = <<x>> /\ <<x>> \in Seq(Seq(Byte))
      BY <1>4
    <2>2. FlattenSeq(Append(<<>>, x)) = FlattenSeq(<<>>) \o x
      BY <1>4, <2>1, FlattenAppend
    <2>3. <<>> \o x = x
      BY <1>4, ConcatEmptySeq
    <2> QED
      BY <2>1, <2>2, <2>3, FlattenEmpty
  <1>10. all = <<x>> \o parts
    <2>1. /\ <<x>> \o parts \in Seq(Seq(Byte)) /\ Len(<<x>> \o parts) = 1 + Len(s)
          /\ \A i \in 1 .. 1 + Len(s) :
                (<<x>> \o parts)[i] = IF i <= 1 THEN <<x>>[i] ELSE parts[i - 1]
      BY <1>6, <1>9, ConcatProperties
    <2>2. \A i \in 1 .. 1 + Len(s) : all[i] = (<<x>> \o parts)[i]
      <3>1. ASSUME NEW i \in 1 .. 1 + Len(s) PROVE all[i] = (<<x>> \o parts)[i]
        <4>1. CASE i <= 1
          <5>1. i = 1
            BY <1>3, <4>1
          <5> QED
            BY <1>5, <1>7, <1>9, <2>1, <5>1 DEF x
        <4>2. CASE ~(i <= 1)
          <5>1. i - 1 \in 1 .. Len(s)
            BY <1>3, <4>2
          <5> QED
            BY <1>5, <1>6, <1>7, <2>1, <4>2, <5>1
        <4> QED
          BY <4>1, <4>2
      <3> QED
        BY <3>1
    <2> QED
      BY <1>7, <2>1, <2>2, SeqEqual
  <1>11. FlattenSeq(<<x>> \o parts) = x \o FlattenSeq(parts)
    BY <1>6, <1>9, FlattenConcat
  <1> QED
    BY <1>2, <1>3, <1>4, <1>8, <1>10, <1>11 DEF f, s, b, x

\* q, which has come, and w, which is to come, begin with the byte b, encoded,
\* and go on with t.
Brings(q, w, b, t) == q \o w = Escaped(b) \o t

\* b can be decoded from q, and what is left, with what is still to come, is t.
Decoded(q, w, b, t) ==
    /\ SlipByte(q).stat \in {1, 2} /\ SlipByte(q).byte = b
    /\ SlipByte(q).used \in 0 .. Len(q)
    /\ SubSeq(q, SlipByte(q).used + 1, Len(q)) \in Seq(Byte)
    /\ SubSeq(q, SlipByte(q).used + 1, Len(q)) \o w = t

\* When the encoding of b is next, and two bytes are there, ReadByte decodes b.
LEMMA DecodesNext ==
    ASSUME NEW b \in Byte, NEW q \in Seq(Byte), NEW w \in Seq(Byte), NEW t \in Seq(Byte),
           Brings(q, w, b, t), Len(q) >= 2
    PROVE  Decoded(q, w, b, t)
  <1> DEFINE x == Escaped(b)
  <1>1. /\ x \in Seq(Byte)
        /\ \/ b \notin {192, 219} /\ Len(x) = 1 /\ x[1] = b
           \/ /\ b \in {192, 219} /\ Len(x) = 2 /\ x[1] = 219
              /\ x[2] = IF b = 192 THEN 220 ELSE 221
    BY EscapedBytes
  <1>2. q \o w = x \o t
    BY DEF Brings
  <1>3. Len(q) \in Nat
    BY LenProperties
  <1> HIDE DEF x
  <1>4. Len(x) <= Len(q)
    BY <1>1, <1>3
  <1>5. /\ \A i \in 1 .. Len(x) : q[i] = x[i]
        /\ SubSeq(q, Len(x) + 1, Len(q)) \in Seq(Byte)
        /\ SubSeq(q, Len(x) + 1, Len(q)) \o w = t
    <2>1. x \in Seq(Byte) /\ Begins(q, w, x, t)
      BY <1>1, <1>2, <1>4 DEF Begins
    <2>2. Taken(q, w, x, t)
      BY <2>1, FirstTaken, Zenon
    <2>3. Len(x) \in 0 .. Len(q)
      BY <1>1, <1>3, <1>4
    <2> QED
      BY <2>2, <2>3, Halves DEF Taken
  <1>6. SlipByte(q).stat \in {1, 2} /\ SlipByte(q).byte = b /\ SlipByte(q).used = Len(x)
    <2>1. CASE b \notin {192, 219}
      <3>1. Len(x) = 1 /\ x[1] = b
        BY <1>1, <2>1
      <3>2. q[1] = b
        BY <1>5, <3>1
      <3>3. SlipByte(q) = [stat |-> 1, byte |-> q[1], used |-> 1]
        BY <2>1, <3>2 DEF SlipByte
      <3> QED
        BY <3>1, <3>2, <3>3
    <2>2. CASE b \in {192, 219}
      <3>1. Len(x) = 2 /\ x[1] = 219 /\ x[2] = IF b = 192 THEN 220 ELSE 221
        BY <1>1, <2>2
      <3>2. q[1] = 219 /\ q[2] = IF b = 192 THEN 220 ELSE 221
        BY <1>5, <3>1
      <3> DEFINE d == IF q[2] = 220 THEN 192 ELSE IF q[2] = 221 THEN 219 ELSE q[2]
      <3>3. SlipByte(q) = [stat |-> IF q[2] \in {220, 221} THEN 2 ELSE -3,
                           byte |-> d, used |-> 2]
        BY <1>3, <3>2 DEF SlipByte
      <3>4. d = b /\ q[2] \in {220, 221}
        BY <2>2, <3>2
      <3> HIDE DEF d
      <3> QED
        BY <3>1, <3>3, <3>4
    <2> QED
      BY <2>1, <2>2
  <1>7. Len(x) \in 0 .. Len(q)
    BY <1>1, <1>3, <1>4
  <1> QED
    BY <1>5, <1>6, <1>7 DEF Decoded

\* The reply to the command when nothing goes wrong.
Good == Reply(Cmd, Status)

LEMMA GoodBytes ==
    ASSUME step \in 1 .. Len(Session)
    PROVE  /\ Good \in Seq(Byte) /\ Len(Good) = 10
           /\ Good[1] = 1 /\ Good[2] = Cmd.op /\ Good[3] = 2 /\ Good[4] = 0
           /\ Good[9] = 0 /\ Good[10] = 0
  <1> DEFINE v == Cmd.val
             h == <<1, Cmd.op, 2, 0>>
             u == h \o v
             c == Good
  <1>1. Cmd.op \in Byte /\ v \in Seq(Byte) /\ Len(v) = 4
    <2>1. Session[step] \in [op : Byte \ {0}, val : [1 .. 4 -> Byte]]
      BY SessionAssumption, ElementOfSeq
    <2>2. Cmd.op \in Byte /\ v \in [1 .. 4 -> Byte]
      BY <2>1 DEF Cmd
    <2> HIDE DEF v
    <2> QED
      BY <2>2, FunctionIsSeq
  <1>2. h \in Seq(Byte) /\ Len(h) = 4 /\ h[1] = 1 /\ h[2] = Cmd.op /\ h[3] = 2 /\ h[4] = 0
    <2>1. \A w, x, y, z \in Byte : <<w, x, y, z>> \in Seq(Byte)
      OBVIOUS
    <2>2. 1 \in Byte /\ 2 \in Byte /\ 0 \in Byte
      BY DEF Byte
    <2> QED
      BY <1>1, <2>1, <2>2
  <1>3. Status \in Seq(Byte) /\ Len(Status) = 2 /\ Status[1] = 0 /\ Status[2] = 0
    BY DEF Status, Byte
  <1>4. c = u \o Status
    BY <1>3 DEF Good, Reply
  <1> HIDE DEF v, h, c
  <1>5. u \in Seq(Byte) /\ Len(u) = 8 /\ \A i \in 1 .. 4 : u[i] = h[i]
    <2>1. /\ u \in Seq(Byte) /\ Len(u) = Len(h) + Len(v)
          /\ \A i \in 1 .. Len(h) + Len(v) : u[i] = IF i <= Len(h) THEN h[i] ELSE v[i - Len(h)]
      BY <1>1, <1>2, ConcatProperties
    <2> HIDE DEF u
    <2> QED
      BY <1>1, <1>2, <2>1
  <1> HIDE DEF u
  <1>6. /\ c \in Seq(Byte) /\ Len(c) = 10
        /\ \A i \in 1 .. 10 : c[i] = IF i <= 8 THEN u[i] ELSE Status[i - 8]
    <2>1. /\ c \in Seq(Byte) /\ Len(c) = Len(u) + Len(Status)
          /\ \A i \in 1 .. Len(u) + Len(Status) :
                c[i] = IF i <= Len(u) THEN u[i] ELSE Status[i - Len(u)]
      BY <1>3, <1>4, <1>5, ConcatProperties
    <2> QED
      BY <1>3, <1>5, <2>1
  <1>7. c[1] = 1 /\ c[2] = Cmd.op /\ c[3] = 2 /\ c[4] = 0
    BY <1>2, <1>5, <1>6
  <1>8. c[9] = 0 /\ c[10] = 0
    BY <1>3, <1>6
  <1> QED
    BY <1>6, <1>7, <1>8 DEF c

\* m such replies.
Many(m) == FlattenSeq([i \in 1 .. m |-> Packet(Good)])

\* What is left of a packet when k bytes of its content g are decoded.
EndFrom(g, k) == Encoded(SubSeq(g, k + 1, Len(g))) \o << 192 >>

\* What is received and on its way is what is left of m replies, of the first
\* of which the bytes of hdr and body are decoded.
Remains(m) ==
    /\ state = "begin" => rx \o line = Many(m)
    /\ state # "begin" =>
          /\ m >= 1
          /\ \A i \in 1 .. Len(hdr \o body) : (hdr \o body)[i] = Good[i]
          /\ rx \o line = EndFrom(Good, Len(hdr \o body)) \o Many(m - 1)

\* The replies the host waits for: one, and more only to SYNC.
Owed(m) == pc = "Reply" => m >= 1 /\ (Cmd.op # SYNC => m = 1)

QuietInv ==
    /\ ReaderInv
    /\ faults = <<>> /\ pc \in {"Send", "Done"} => rx = <<>> /\ line = <<>>
    /\ faults = <<>> /\ Reading => \E m \in Nat : Owed(m) /\ Remains(m)

\* A packet is a frame byte and what is left of it then.
LEMMA PacketParts ==
    ASSUME NEW g \in Seq(Byte)
    PROVE  /\ << 192 >> \in Seq(Byte) /\ EndFrom(g, 0) \in Seq(Byte)
           /\ Packet(g) = << 192 >> \o EndFrom(g, 0)
  <1>1. << 192 >> \in Seq(Byte)
    BY DEF Byte
  <1>2. Encoded(g) \in Seq(Byte) /\ 0 + 1 = 1
    BY EncodedBytes
  <1>3. SubSeq(g, 1, Len(g)) = g
    BY SubSeqFull
  <1>4. (<< 192 >> \o Encoded(g)) \o << 192 >> = << 192 >> \o (Encoded(g) \o << 192 >>)
    BY <1>1, <1>2, ConcatAssociative
  <1>5. EndFrom(g, 0) = Encoded(g) \o << 192 >>
    BY <1>2, <1>3 DEF EndFrom
  <1> QED
    BY <1>1, <1>2, <1>4, <1>5, ConcatTyped DEF Packet

LEMMA ManyMore ==
    ASSUME step \in 1 .. Len(Session), NEW m \in Nat
    PROVE  /\ Many(m) \in Seq(Byte)
           /\ m = 0 => Many(m) = <<>>
           /\ m > 0 => Many(m) = (<< 192 >> \o EndFrom(Good, 0)) \o Many(m - 1)
  <1> DEFINE p == Packet(Good)
             row(n) == [i \in 1 .. n |-> p]
  <1>1. p \in Seq(Byte) /\ p = << 192 >> \o EndFrom(Good, 0) /\ <<p>> \in Seq(Seq(Byte))
    <2>1. p \in Seq(Byte) /\ p = << 192 >> \o EndFrom(Good, 0)
      BY GoodBytes, PacketTyped, PacketParts
    <2> HIDE DEF p
    <2> QED
      BY <2>1
  <1> HIDE DEF p
  <1>2. \A n \in Nat : row(n) \in Seq(Seq(Byte)) /\ Len(row(n)) = n
                       /\ \A i \in 1 .. n : row(n)[i] = p
    <2>1. ASSUME NEW n \in Nat
          PROVE  row(n) \in Seq(Seq(Byte)) /\ Len(row(n)) = n
                 /\ \A i \in 1 .. n : row(n)[i] = p
      <3>1. row(n) \in [1 .. n -> Seq(Byte)] /\ \A i \in 1 .. n : row(n)[i] = p
        BY <1>1
      <3> QED
        BY <3>1, FunctionIsSeq
    <2> QED
      BY <2>1
  <1>3. \A n : Many(n) = FlattenSeq(row(n))
    BY DEF Many, p
  <1> HIDE DEF row
  <1>4. Many(m) \in Seq(Byte)
    BY <1>2, <1>3, FlattenTyped
  <1>5. ASSUME m = 0 PROVE Many(m) = <<>>
    <2>1. row(0) \in Seq(Seq(Byte)) /\ Len(row(0)) = 0
      BY <1>2
    <2>2. row(0) = <<>>
      BY <2>1, EmptySeq
    <2> QED
      BY <1>3, <1>5, <2>2, FlattenEmpty
  <1>6. ASSUME m > 0 PROVE Many(m) = p \o Many(m - 1)
    <2>1. m - 1 \in Nat /\ 1 + (m - 1) = m
      BY <1>6
    <2>2. <<p>> \in Seq(Seq(Byte)) /\ Len(<<p>>) = 1 /\ <<p>>[1] = p
      BY <1>1
    <2>3. /\ <<p>> \o row(m - 1) \in Seq(Seq(Byte)) /\ Len(<<p>> \o row(m - 1)) = m
          /\ \A i \in 1 .. m : (<<p>> \o row(m - 1))[i]
                 = IF i <= 1 THEN <<p>>[i] ELSE row(m - 1)[i - 1]
      <3>1. row(m - 1) \in Seq(Seq(Byte)) /\ Len(row(m - 1)) = m - 1
        BY <1>2, <2>1
      <3> QED
        BY <2>1, <2>2, <3>1, ConcatProperties
    <2>4. \A i \in 1 .. m : row(m)[i] = (<<p>> \o row(m - 1))[i]
      <3>1. \A i \in 1 .. m : i = 1 \/ (~(i <= 1) /\ i - 1 \in 1 .. m - 1)
        OBVIOUS
      <3>2. \A i \in 1 .. m - 1 : row(m - 1)[i] = p
        BY <1>2, <2>1
      <3>3. ASSUME NEW i \in 1 .. m PROVE (<<p>> \o row(m - 1))[i] = p
        <4>1. CASE i = 1
          BY <2>2, <2>3, <4>1
        <4>2. CASE ~(i <= 1) /\ i - 1 \in 1 .. m - 1
          BY <2>3, <3>2, <4>2
        <4> QED
          BY <3>1, <4>1, <4>2
      <3> QED
        BY <1>2, <3>3
    <2>5. row(m) = <<p>> \o row(m - 1)
      BY <1>2, <2>3, <2>4, SeqEqual
    <2>6. FlattenSeq(<<p>>) = p
      <3>1. <<>> \in Seq(Seq(Byte)) /\ Append(<<>>, p) = <<p>>
        BY <1>1
      <3>2. FlattenSeq(Append(<<>>, p)) = FlattenSeq(<<>>) \o p
        BY <1>1, <3>1, FlattenAppend
      <3>3. <<>> \o p = p
        BY <1>1, ConcatEmptySeq
      <3> QED
        BY <3>1, <3>2, <3>3, FlattenEmpty
    <2>7. FlattenSeq(<<p>> \o row(m - 1)) = FlattenSeq(<<p>>) \o FlattenSeq(row(m - 1))
      BY <1>2, <2>1, <2>2, FlattenConcat
    <2> QED
      BY <1>3, <2>5, <2>6, <2>7
  <1> QED
    BY <1>1, <1>4, <1>5, <1>6

\* The next byte to be decoded of a packet with the content g.
LEMMA NextOf ==
    ASSUME NEW g \in Seq(Byte)
    PROVE  /\ \A k \in 0 .. Len(g) : EndFrom(g, k) \in Seq(Byte)
           /\ \A k \in Nat : k < Len(g) =>
                 /\ g[k + 1] \in Byte
                 /\ EndFrom(g, k) = Escaped(g[k + 1]) \o EndFrom(g, k + 1)
           /\ EndFrom(g, Len(g)) = << 192 >>
  <1>1. Len(g) \in Nat
    BY LenProperties
  <1>2. << 192 >> \in Seq(Byte)
    BY DEF Byte
  <1>3. ASSUME NEW k \in 0 .. Len(g) PROVE EndFrom(g, k) \in Seq(Byte)
    <2>1. SubSeq(g, k + 1, Len(g)) \in Seq(Byte)
      BY <1>1, CutTyped
    <2>2. Encoded(SubSeq(g, k + 1, Len(g))) \in Seq(Byte)
      BY <2>1, EncodedBytes
    <2> QED
      BY <1>2, <2>2, ConcatTyped DEF EndFrom
  <1>4. ASSUME NEW k \in Nat, k < Len(g)
        PROVE  /\ g[k + 1] \in Byte
               /\ EndFrom(g, k) = Escaped(g[k + 1]) \o EndFrom(g, k + 1)
    <2> DEFINE x == Escaped(g[k + 1])
               e == Encoded(SubSeq(g, k + 2, Len(g)))
    <2>1. /\ g[k + 1] \in Byte /\ e \in Seq(Byte)
          /\ Encoded(SubSeq(g, k + 1, Len(g))) = x \o e
      BY <1>4, EncodedFrom
    <2>2. x \in Seq(Byte)
      BY <2>1, EscapedTyped
    <2>3. (k + 1) + 1 = k + 2
      OBVIOUS
    <2>4. EndFrom(g, k) = (x \o e) \o << 192 >> /\ EndFrom(g, k + 1) = e \o << 192 >>
      BY <2>1, <2>3 DEF EndFrom
    <2> HIDE DEF x, e
    <2>5. (x \o e) \o << 192 >> = x \o (e \o << 192 >>)
      <3>1. x \in Seq(Byte) /\ e \in Seq(Byte)
        BY <2>1, <2>2
      <3> QED
        BY <1>2, <3>1, ConcatAssociative
    <2> QED
      BY <2>1, <2>4, <2>5 DEF x
  <1>5. EndFrom(g, Len(g)) = << 192 >>
    <2>1. SubSeq(g, Len(g) + 1, Len(g)) = <<>>
      BY <1>1, SubSeqEmpty
    <2>2. <<>> \o << 192 >> = << 192 >>
      BY <1>2, ConcatEmptySeq
    <2> QED
      BY <2>1, <2>2, EncodedEmpty DEF EndFrom
  <1> QED
    BY <1>3, <1>4, <1>5

\* Of a packet with the content g the first k bytes are decoded, and u follows
\* it.
Left(q, w, g, k, u) == q \o w = EndFrom(g, k) \o u

LEMMA DecodesOf ==
    ASSUME NEW g \in Seq(Byte), NEW k \in Nat, k < Len(g), NEW u \in Seq(Byte),
           NEW q \in Seq(Byte), NEW w \in Seq(Byte), Left(q, w, g, k, u), Len(q) >= 2
    PROVE  g[k + 1] \in Byte /\ Decoded(q, w, g[k + 1], EndFrom(g, k + 1) \o u)
  <1> DEFINE x == Escaped(g[k + 1])
             e == EndFrom(g, k + 1)
             t == e \o u
  <1>1. /\ g[k + 1] \in Byte /\ EndFrom(g, k) = x \o e
        /\ k + 1 \in 0 .. Len(g)
    <2>1. g[k + 1] \in Byte /\ EndFrom(g, k) = x \o e
      BY NextOf
    <2>2. k + 1 \in 0 .. Len(g)
      BY LenProperties
    <2> QED
      BY <2>1, <2>2
  <1>2. e \in Seq(Byte) /\ x \in Seq(Byte)
    BY <1>1, NextOf, EscapedTyped
  <1>3. t \in Seq(Byte) /\ Brings(q, w, g[k + 1], t)
    <2>1. (x \o e) \o u = x \o t
      BY ONLY <1>2, u \in Seq(Byte), ConcatAssociative
    <2> QED
      BY <1>1, <1>2, <2>1, ConcatTyped DEF Brings, Left
  <1> HIDE DEF t
  <1> QED
    BY <1>1, <1>3, DecodesNext DEF t

\* The next byte of a reply.
LEMMA NextEncoded ==
    ASSUME step \in 1 .. Len(Session)
    PROVE  /\ \A k \in 0 .. 10 : EndFrom(Good, k) \in Seq(Byte)
           /\ \A k \in 0 .. 9 :
                 /\ Good[k + 1] \in Byte
                 /\ EndFrom(Good, k) = Escaped(Good[k + 1]) \o EndFrom(Good, k + 1)
           /\ EndFrom(Good, 10) = << 192 >>
  <1>1. Good \in Seq(Byte) /\ Len(Good) = 10
    BY GoodBytes
  <1>2. \A k \in 0 .. 9 : k \in Nat /\ k < Len(Good)
    BY <1>1
  <1> QED
    BY <1>1, <1>2, NextOf

\* How much of the reply is decoded.
LEMMA SoFar ==
    ASSUME ReaderInv, NEW m \in Nat, Remains(m), state # "begin"
    PROVE  /\ hdr \in Seq(Byte) /\ body \in Seq(Byte) /\ hdr \o body \in Seq(Byte)
           /\ step \in 1 .. Len(Session)
           /\ Len(hdr \o body) \in 0 .. 10
           /\ state = "header" => hdr \o body = hdr /\ body = <<>> /\ Len(hdr) < 8
           /\ state = "body" => Len(hdr) = 8 /\ BodyLen(hdr) = 2
           /\ state \in {"header", "body"} => Len(hdr \o body) \in 0 .. 9
           /\ state = "end" => Len(hdr \o body) = 10 /\ body = Status
  <1> DEFINE s == hdr \o body
  <1>1. /\ hdr \in Seq(Byte) /\ body \in Seq(Byte) /\ step \in 1 .. Len(Session)
        /\ Len(hdr) \in Nat /\ Len(body) \in Nat /\ state \in {"header", "body", "end"}
        /\ \A i \in 1 .. Len(s) : s[i] = Good[i]
    BY LenProperties DEF ReaderInv, TypeOK, Remains
  <1>2. /\ s \in Seq(Byte) /\ Len(s) = Len(hdr) + Len(body)
        /\ \A i \in 1 .. Len(hdr) + Len(body) :
              s[i] = IF i <= Len(hdr) THEN hdr[i] ELSE body[i - Len(hdr)]
    BY <1>1, ConcatProperties
  <1> HIDE DEF s
  <1>3. /\ state = "header" => Len(hdr) < 8 /\ body = <<>>
        /\ state \in {"body", "end"} => Len(hdr) = 8
        /\ state = "body" => Len(body) < BodyLen(hdr)
        /\ state = "end" => Len(body) = BodyLen(hdr)
    BY DEF ReaderInv, Progress, HDR_LEN
  <1>4. Good \in Seq(Byte) /\ Good[3] = 2 /\ Good[4] = 0 /\ Good[9] = 0 /\ Good[10] = 0
    BY <1>1, GoodBytes
  <1>5. ASSUME Len(hdr) = 8 PROVE BodyLen(hdr) = 2
    <2>1. hdr[3] = s[3] /\ hdr[4] = s[4] /\ s[3] = Good[3] /\ s[4] = Good[4]
      BY <1>1, <1>2, <1>5
    <2> QED
      BY <1>4, <2>1 DEF BodyLen
  <1>6. state = "header" => Len(body) = 0 /\ s = hdr
    BY <1>1, <1>3, EmptySeq, ConcatEmptySeq DEF s
  <1>7. ASSUME state = "end" PROVE Len(s) = 10 /\ body = Status
    <2>1. Len(hdr) = 8 /\ Len(body) = 2 /\ Len(s) = 10
      <3>1. Len(hdr) = 8 /\ Len(body) = BodyLen(hdr)
        BY <1>3, <1>7
      <3>2. Len(hdr) = 8 /\ Len(body) = 2
        BY <1>5, <3>1
      <3> QED
        BY <1>2, <3>2
    <2>2. /\ s[9] = body[1] /\ s[10] = body[2]
          /\ s[9] = Good[9] /\ s[10] = Good[10]
      BY <1>1, <1>2, <2>1
    <2>3. Status \in Seq(Byte) /\ Len(Status) = 2 /\ Status[1] = 0 /\ Status[2] = 0
      BY DEF Status, Byte
    <2>4. \A i \in 1 .. 2 : body[i] = Status[i]
      <3>1. \A i \in 1 .. 2 : i = 1 \/ i = 2
        OBVIOUS
      <3> QED
        BY <1>4, <2>2, <2>3, <3>1
    <2>5. body = Status
      BY <1>1, <2>1, <2>3, <2>4, SeqEqual
    <2> QED
      BY <2>1, <2>5
  <1>8. state = "header" => Len(s) \in 0 .. 9
    <2>1. state = "header" => s = hdr /\ Len(hdr) < 8
      BY <1>3, <1>6
    <2>2. Len(hdr) \in Nat
      BY <1>1
    <2>3. \A l \in Nat : l < 8 => l \in 0 .. 9
      OBVIOUS
    <2> QED
      BY <2>1, <2>2, <2>3, Zenon
  <1>9. state = "body" => Len(hdr) = 8 /\ BodyLen(hdr) = 2 /\ Len(s) \in 0 .. 9
    <2>1. state = "body" => Len(hdr) = 8 /\ BodyLen(hdr) = 2 /\ Len(body) < 2
      BY <1>3, <1>5
    <2>2. Len(hdr) = 8 /\ Len(body) < 2 => Len(s) \in 0 .. 9
      BY <1>1, <1>2
    <2> QED
      BY <2>1, <2>2
  <1>10. Len(s) \in 0 .. 10
    BY <1>1, <1>7, <1>8, <1>9
  <1> QED
    BY <1>1, <1>2, <1>3, <1>6, <1>7, <1>8, <1>9, <1>10 DEF s

\* ReadByte decodes the next byte of the reply.
LEMMA DecodesReply ==
    ASSUME ReaderInv, NEW m \in Nat, Remains(m), state \in {"header", "body"}, Len(rx) >= 2
    PROVE  LET k == Len(hdr \o body)
               b == SlipByte(rx)
           IN  /\ b.stat \in {1, 2} /\ b.byte = Good[k + 1] /\ b.byte \in Byte
               /\ SubSeq(rx, b.used + 1, Len(rx)) \o line
                    = EndFrom(Good, k + 1) \o Many(m - 1)
  <1> DEFINE k == Len(hdr \o body)
  <1>1. /\ k \in 0 .. 9 /\ m - 1 \in Nat /\ step \in 1 .. Len(Session)
        /\ rx \o line = EndFrom(Good, k) \o Many(m - 1)
    <2>1. state # "begin"
      OBVIOUS
    <2>2. m >= 1 /\ rx \o line = EndFrom(Good, k) \o Many(m - 1)
      BY <2>1 DEF Remains
    <2>3. k \in 0 .. 9 /\ step \in 1 .. Len(Session)
      BY <2>1, SoFar
    <2> HIDE DEF k
    <2> QED
      BY <2>2, <2>3
  <1>2. rx \in Seq(Byte) /\ line \in Seq(Byte)
    BY DEF ReaderInv, TypeOK
  <1> HIDE DEF k
  <1>3. Good \in Seq(Byte) /\ Len(Good) = 10 /\ Many(m - 1) \in Seq(Byte)
    BY <1>1, GoodBytes, ManyMore
  <1>4. k \in Nat /\ k < Len(Good)
    BY <1>1, <1>3
  <1>5. Left(rx, line, Good, k, Many(m - 1))
    BY <1>1 DEF Left
  <1>6. Good[k + 1] \in Byte /\ Decoded(rx, line, Good[k + 1], EndFrom(Good, k + 1) \o Many(m - 1))
    BY <1>2, <1>3, <1>4, <1>5, DecodesOf
  <1> QED
    BY <1>6 DEF k, Decoded

\* One byte more is decoded.
LEMMA OneMoreByte ==
    ASSUME NEW s \in Seq(Byte), \A i \in 1 .. Len(s) : s[i] = Good[i],
           NEW b \in Byte, b = Good[Len(s) + 1]
    PROVE  /\ Append(s, b) \in Seq(Byte) /\ Len(Append(s, b)) = Len(s) + 1
           /\ \A i \in 1 .. Len(Append(s, b)) : Append(s, b)[i] = Good[i]
  <1> DEFINE t == Append(s, b)
  <1>1. /\ t \in Seq(Byte) /\ Len(t) = Len(s) + 1 /\ t[Len(s) + 1] = b
        /\ \A i \in 1 .. Len(s) : t[i] = s[i]
    BY AppendProperties
  <1> HIDE DEF t
  <1>2. \A i \in 1 .. Len(t) : i \in 1 .. Len(s) \/ i = Len(s) + 1
    BY <1>1, LenProperties
  <1>3. \A i \in 1 .. Len(t) : t[i] = Good[i]
    BY <1>1, <1>2
  <1> QED
    BY <1>1, <1>3 DEF t

LEMMA SameReplies ==
    ASSUME step' = step
    PROVE  /\ Good' = Good /\ \A m : Many(m)' = Many(m)
           /\ \A k : EndFrom(Good, k)' = EndFrom(Good, k)
  BY DEF Good, Many, EndFrom, Cmd, Reply

\* readPacket returns at the end of a reply, or in the loop of Sync because no
\* reply is left.
LEMMA ReturnQuiet ==
    ASSUME QuietInv, ReaderInv', Reading, line' = line,
           NEW n \in 0 .. Len(rx), NEW r, Return(r, n), NEW m \in Nat, Owed(m),
           \/ /\ r = "ok" /\ m >= 1
              /\ SubSeq(rx, n + 1, Len(rx)) \o line = Many(m - 1)
           \/ /\ r # "ok" /\ pc = "Drain"
              /\ SubSeq(rx, n + 1, Len(rx)) = <<>> /\ line = <<>>
    PROVE  QuietInv'
  <1> DEFINE y == SubSeq(rx, n + 1, Len(rx))
  <1>1. /\ rx \in Seq(Byte) /\ line \in Seq(Byte) /\ pc \in {"Reply", "Drain"}
        /\ step \in 1 .. Len(Session) /\ y \in Seq(Byte)
    <2>1. rx \in Seq(Byte) /\ n \in 0 .. Len(rx)
      BY DEF QuietInv, ReaderInv, TypeOK
    <2>2. y \in Seq(Byte)
      BY <2>1, CutTyped
    <2> HIDE DEF y
    <2> QED
      BY <2>2 DEF QuietInv, ReaderInv, TypeOK, Reading
  <1>2. /\ state' = "begin" /\ Continue(r)
        /\ rx' = IF pc = "Reply" /\ Cmd.op = SYNC /\ r # "ok" THEN <<>> ELSE y
    BY DEF Return, Fresh
  <1> HIDE DEF y
  \* The next command is made when nothing is left.
  <1>3. ASSUME NextCommand, rx' = <<>>, line = <<>> PROVE QuietInv'
    <2>1. pc' \in {"Send", "Done"}
      BY <1>3 DEF NextCommand
    <2> QED
      BY <1>3, <2>1 DEF QuietInv, Reading
  <1>4. CASE r # "ok" /\ pc = "Drain" /\ y = <<>> /\ line = <<>>
    <2>1. NextCommand /\ rx' = <<>>
      BY <1>2, <1>4 DEF Continue
    <2> QED
      BY <1>3, <1>4, <2>1
  <1>5. CASE r = "ok" /\ m >= 1 /\ y \o line = Many(m - 1)
    <2>1. rx' = y /\ m - 1 \in Nat
      BY <1>2, <1>5
    <2>2. CASE pc = "Reply" /\ Cmd.op # SYNC
      <3>1. NextCommand
        BY <1>2, <1>5, <2>2 DEF Continue
      <3>2. m - 1 = 0
        BY <2>2 DEF Owed
      <3>3. y \o line = <<>>
        BY <1>1, <1>5, <3>2, ManyMore
      <3>4. y = <<>> /\ line = <<>>
        BY <1>1, <3>3, ConcatEqualIffEmpty
      <3> QED
        BY <1>3, <2>1, <3>1, <3>4
    <2>3. CASE ~(pc = "Reply" /\ Cmd.op # SYNC)
      <3>1. pc' = "Drain" /\ step' = step
        BY <1>1, <1>2, <1>5, <2>3 DEF Continue, caller
      <3>2. Remains(m - 1)'
        BY <1>2, <1>5, <2>1, <3>1, SameReplies DEF Remains
      <3>3. Owed(m - 1)'
        BY <3>1 DEF Owed
      <3> QED
        BY <2>1, <3>1, <3>2, <3>3 DEF QuietInv
    <2> QED
      BY <2>2, <2>3
  <1> QED
    BY <1>4, <1>5 DEF y

LEMMA FrameByteQuiet ==
    ASSUME QuietInv, ReaderInv', faults = <<>>, FrameByte
    PROVE  QuietInv'
  <1>1. /\ Reading /\ rx \in Seq(Byte) /\ line \in Seq(Byte) /\ Len(rx) >= 1
        /\ 1 \in 0 .. Len(rx) /\ state \in {"begin", "end"} /\ line' = line
        /\ step \in 1 .. Len(Session) /\ ReaderInv
    <2>1. rx \in Seq(Byte) /\ Len(rx) \in Nat
      BY LenProperties DEF QuietInv, ReaderInv, TypeOK
    <2> QED
      BY <2>1 DEF QuietInv, ReaderInv, TypeOK, FrameByte, Ready, Needs
  <1>2. PICK m \in Nat : Owed(m) /\ Remains(m)
    BY <1>1 DEF QuietInv
  \* A frame byte is next.
  <1>3. ASSUME NEW t \in Seq(Byte), rx \o line = << 192 >> \o t
        PROVE  rx[1] = 192 /\ SubSeq(rx, 2, Len(rx)) \o line = t
    <2> DEFINE x == << 192 >>
    <2>1. x \in Seq(Byte) /\ Len(x) = 1 /\ x[1] = 192
      BY DEF Byte
    <2>2. rx \o line = x \o t
      BY <1>3
    <2> HIDE DEF x
    <2>3. Begins(rx, line, x, t)
      BY <1>1, <2>1, <2>2 DEF Begins
    <2>4. Taken(rx, line, x, t)
      BY <1>1, <1>3, <2>1, <2>3, FirstTaken, Zenon
    <2>5. 1 \in 1 .. Len(x) /\ Len(x) + 1 = 2
      BY <2>1
    <2> QED
      BY <2>1, <2>4, <2>5 DEF Taken
  <1>4. CASE state = "begin"
    <2>1. rx \o line = Many(m)
      BY <1>2, <1>4 DEF Remains
    <2>2. m > 0
      <3>1. CASE m = 0
        <4>1. rx \o line = <<>>
          BY <1>1, <2>1, <3>1, ManyMore
        <4>2. rx = <<>>
          BY <1>1, <4>1, ConcatEqualIffEmpty
        <4> QED
          BY <1>1, <4>2, EmptySeq
      <3> QED
        BY <3>1
    <2> DEFINE e == EndFrom(Good, 0)
               t == e \o Many(m - 1)
    <2>3. m - 1 \in Nat /\ e \in Seq(Byte) /\ Many(m - 1) \in Seq(Byte)
      <3>1. m - 1 \in Nat
        BY <2>2
      <3> QED
        BY <1>1, <3>1, NextEncoded, ManyMore
    <2>4. rx \o line = (<< 192 >> \o e) \o Many(m - 1)
      BY <1>1, <2>1, <2>2, ManyMore
    <2> HIDE DEF e
    <2>5. (<< 192 >> \o e) \o Many(m - 1) = << 192 >> \o t /\ t \in Seq(Byte)
      <3>1. << 192 >> \in Seq(Byte)
        BY DEF Byte
      <3> QED
        BY <2>3, <3>1, ConcatAssociative, ConcatTyped
    <2> HIDE DEF t
    <2>6. rx[1] = 192 /\ SubSeq(rx, 2, Len(rx)) \o line = t
      BY <1>3, <2>4, <2>5
    <2>7. GoOn("header", 1) /\ UNCHANGED <<hdr, body>>
      BY <1>4, <2>6 DEF FrameByte
    <2>8. /\ state' = "header" /\ rx' = SubSeq(rx, 2, Len(rx)) /\ UNCHANGED <<pc, step>>
          /\ hdr' = <<>> /\ body' = <<>>
      BY <1>1, <1>4, <2>7 DEF GoOn, ReaderInv, Progress
    <2>9. hdr' \o body' = <<>> /\ Len(hdr' \o body') = 0
      BY <2>8
    <2>10. Remains(m)'
      <3>1. rx' \o line' = EndFrom(Good, 0) \o Many(m - 1)
        BY <1>1, <2>6, <2>8 DEF t, e
      <3>2. EndFrom(Good, 0)' = EndFrom(Good, 0) /\ Many(m - 1)' = Many(m - 1)
        BY <2>8, SameReplies
      <3>3. \A i \in 1 .. Len(hdr' \o body') : (hdr' \o body')[i] = Good'[i]
        BY <2>9
      <3>4. (rx \o line)' = EndFrom(Good, Len(hdr \o body))' \o Many(m - 1)'
        BY <2>9, <3>1, <3>2 DEF EndFrom
      <3>5. m >= 1 /\ state' # "begin"
        BY <2>2, <2>8
      <3> QED
        BY <3>3, <3>4, <3>5, Zenon DEF Remains
    <2>11. Owed(m)'
      BY <1>2, <2>8 DEF Owed, Cmd
    <2> QED
      BY <1>1, <2>8, <2>10, <2>11 DEF QuietInv, Reading
  <1>5. CASE state = "end"
    <2>1. /\ Len(hdr \o body) = 10 /\ body = Status /\ m >= 1
          /\ rx \o line = EndFrom(Good, 10) \o Many(m - 1)
      <3>1. state # "begin"
        BY <1>5
      <3>2. m >= 1 /\ rx \o line = EndFrom(Good, Len(hdr \o body)) \o Many(m - 1)
        BY <1>2, <3>1 DEF Remains
      <3>3. Len(hdr \o body) = 10 /\ body = Status
        BY <1>1, <1>2, <1>5, <3>1, SoFar
      <3> QED
        BY <3>2, <3>3
    <2>2. rx \o line = << 192 >> \o Many(m - 1) /\ Many(m - 1) \in Seq(Byte)
      <3>1. m - 1 \in Nat
        BY <2>1
      <3> QED
        BY <1>1, <2>1, <3>1, NextEncoded, ManyMore
    <2>3. rx[1] = 192 /\ SubSeq(rx, 1 + 1, Len(rx)) \o line = Many(m - 1)
      BY <1>3, <2>2
    <2>4. Return("ok", 1)
      BY <1>5, <2>1, <2>3 DEF FrameByte
    <2> QED
      BY <1>1, <1>2, <2>1, <2>3, <2>4, ReturnQuiet
  <1> QED
    BY <1>1, <1>4, <1>5

LEMMA WrongByteQuiet ==
    ASSUME QuietInv, faults = <<>>, WrongByte
    PROVE  FALSE
  <1>1. /\ Reading /\ Len(rx) >= 2 /\ state \in {"header", "body"} /\ ReaderInv
        /\ SlipByte(rx).stat \notin {1, 2}
    BY DEF QuietInv, WrongByte, Ready, Needs
  <1>2. PICK m \in Nat : Remains(m)
    BY <1>1 DEF QuietInv
  <1> QED
    BY <1>1, <1>2, DecodesReply

\* One byte of the reply is decoded, of the header or of the body.
LEMMA DecodedQuiet ==
    ASSUME QuietInv, ReaderInv', faults = <<>>, Reading, Len(rx) >= 2, line' = line,
           state \in {"header", "body"}, NEW m \in Nat, Owed(m), Remains(m),
           NEW s, s \in {"header", "body", "end"}, GoOn(s, SlipByte(rx).used),
           \/ /\ state = "header" /\ hdr' = Append(hdr, SlipByte(rx).byte)
              /\ body' = body
           \/ hdr' = hdr /\ body' = Append(body, SlipByte(rx).byte)
    PROVE  QuietInv'
  <1> DEFINE k == Len(hdr \o body)
             b == SlipByte(rx)
             q == hdr \o body
  <1>1. /\ state' = s /\ rx' = SubSeq(rx, b.used + 1, Len(rx)) /\ UNCHANGED <<pc, step>>
    BY DEF GoOn
  <1>2. /\ hdr \in Seq(Byte) /\ body \in Seq(Byte) /\ q \in Seq(Byte) /\ k = Len(q)
        /\ step \in 1 .. Len(Session) /\ state # "begin"
        /\ state = "header" => q = hdr /\ body = <<>>
    <2>1. state # "begin" /\ ReaderInv
      BY DEF QuietInv
    <2> QED
      BY <2>1, SoFar
  <1>3. /\ b.byte = Good[k + 1] /\ b.byte \in Byte
        /\ SubSeq(rx, b.used + 1, Len(rx)) \o line = EndFrom(Good, k + 1) \o Many(m - 1)
    BY DecodesReply DEF QuietInv
  <1>4. m >= 1 /\ \A i \in 1 .. Len(q) : q[i] = Good[i]
    BY <1>2 DEF Remains
  <1> HIDE DEF q, b, k
  <1>5. hdr' \o body' = Append(q, b.byte)
    <2>1. CASE state = "header" /\ hdr' = Append(hdr, b.byte) /\ body' = body
      <3>1. Append(hdr, b.byte) \in Seq(Byte)
        BY <1>2, <1>3, AppendProperties
      <3>2. Append(hdr, b.byte) \o <<>> = Append(hdr, b.byte)
        BY <3>1, ConcatEmptySeq
      <3> QED
        BY <1>2, <2>1, <3>2
    <2>2. CASE hdr' = hdr /\ body' = Append(body, b.byte)
      <3>1. <<b.byte>> \in Seq(Byte)
        BY <1>3
      <3>2. Append(body, b.byte) = body \o <<b.byte>> /\ Append(q, b.byte) = q \o <<b.byte>>
        BY <1>2, <1>3, AppendIsConcat
      <3>3. (hdr \o body) \o <<b.byte>> = hdr \o (body \o <<b.byte>>)
        BY <1>2, <3>1, ConcatAssociative
      <3> QED
        BY <2>2, <3>2, <3>3 DEF q
    <2> QED
      BY <2>1, <2>2 DEF b
  <1>6. /\ Len(hdr' \o body') = k + 1
        /\ \A i \in 1 .. Len(hdr' \o body') : (hdr' \o body')[i] = Good[i]
    BY <1>2, <1>3, <1>4, <1>5, OneMoreByte
  <1>7. Remains(m)'
    <2>1. Good' = Good /\ Many(m - 1)' = Many(m - 1)
      BY <1>1, SameReplies
    <2>2. \A i \in 1 .. Len(hdr' \o body') : (hdr' \o body')[i] = Good'[i]
      BY <1>6, <2>1
    <2>3. (rx \o line)' = EndFrom(Good, Len(hdr \o body))' \o Many(m - 1)'
      BY <1>1, <1>3, <1>6, <2>1 DEF EndFrom
    <2>4. state' # "begin"
      BY <1>1
    <2> QED
      BY <1>4, <2>2, <2>3, <2>4, Zenon DEF Remains
  <1>8. Owed(m)'
    BY <1>1 DEF Owed, Cmd
  <1>9. Reading' /\ ~(pc' \in {"Send", "Done"})
    BY <1>1 DEF Reading
  <1> QED
    BY <1>7, <1>8, <1>9 DEF QuietInv

LEMMA HeaderByteQuiet ==
    ASSUME QuietInv, ReaderInv', faults = <<>>, HeaderByte
    PROVE  QuietInv'
  <1> DEFINE b == SlipByte(rx)
             h == Append(hdr, b.byte)
  <1>1. /\ Reading /\ Len(rx) >= 2 /\ state = "header" /\ line' = line /\ ReaderInv
    BY DEF QuietInv, HeaderByte, Ready, Needs
  <1>2. PICK m \in Nat : Owed(m) /\ Remains(m)
    BY <1>1 DEF QuietInv
  <1>3. /\ hdr \in Seq(Byte) /\ hdr \o body = hdr /\ step \in 1 .. Len(Session)
        /\ \A i \in 1 .. Len(hdr) : hdr[i] = Good[i]
    <2>1. state # "begin"
      BY <1>1
    <2>2. hdr \in Seq(Byte) /\ hdr \o body = hdr /\ step \in 1 .. Len(Session)
      BY <1>1, <1>2, <2>1, SoFar
    <2> QED
      BY <1>2, <2>1, <2>2 DEF Remains
  <1>4. b.byte = Good[Len(hdr) + 1] /\ b.byte \in Byte
    BY <1>1, <1>2, <1>3, DecodesReply
  <1> HIDE DEF b
  <1>5. h \in Seq(Byte) /\ \A i \in 1 .. Len(h) : h[i] = Good[i]
    BY <1>3, <1>4, OneMoreByte
  <1> HIDE DEF h
  <1>6. ASSUME Len(h) = 8 PROVE HeaderAccepted(h)
    <2>1. h[1] = Good[1] /\ h[2] = Good[2]
      BY <1>5, <1>6
    <2> QED
      BY <1>3, <2>1, GoodBytes DEF HeaderAccepted
  <1>7. PICK s \in {"header", "body", "end"} :
            GoOn(s, b.used) /\ hdr' = h /\ body' = body
    <2>1. CASE /\ Len(h) < HDR_LEN
               /\ GoOn("header", b.used) /\ hdr' = h /\ body' = body
      BY <2>1
    <2>2. CASE Len(h) = HDR_LEN /\ ~HeaderAccepted(h)
      BY <1>6, <2>2 DEF HDR_LEN
    <2>3. CASE /\ GoOn(IF BodyLen(h) > 0 THEN "body" ELSE "end", b.used)
               /\ hdr' = h /\ body' = body
      <3>1. CASE BodyLen(h) > 0
        BY <2>3, <3>1
      <3>2. CASE ~(BodyLen(h) > 0)
        BY <2>3, <3>2
      <3> QED
        BY <3>1, <3>2
    <2> QED
      BY <2>1, <2>2, <2>3 DEF HeaderByte, h, b
  <1> QED
    BY <1>1, <1>2, <1>7, DecodedQuiet DEF h, b

LEMMA BodyByteQuiet ==
    ASSUME QuietInv, ReaderInv', faults = <<>>, BodyByte
    PROVE  QuietInv'
  <1> DEFINE b == SlipByte(rx)
             s == IF Len(body) + 1 >= BodyLen(hdr) THEN "end" ELSE "body"
  <1>1. /\ Reading /\ Len(rx) >= 2 /\ state = "body" /\ line' = line /\ ReaderInv
        /\ hdr' = hdr /\ body' = Append(body, b.byte) /\ GoOn(s, b.used)
    BY DEF QuietInv, BodyByte, Ready, Needs
  <1>2. PICK m \in Nat : Owed(m) /\ Remains(m)
    BY <1>1 DEF QuietInv
  <1>3. s \in {"header", "body", "end"}
    OBVIOUS
  <1> HIDE DEF s
  <1> QED
    BY <1>1, <1>2, <1>3, DecodedQuiet

LEMMA TimeoutQuiet ==
    ASSUME QuietInv, ReaderInv', faults = <<>>, faults' = <<>>, Timeout
    PROVE  QuietInv'
  <1>1. /\ Reading /\ ReaderInv /\ rx \in Seq(Byte) /\ Len(rx) \in Nat
        /\ step \in 1 .. Len(Session) /\ Return("timeout", 0)
        /\ line' = line
    BY LenProperties DEF QuietInv, ReaderInv, TypeOK, Timeout
  <1>2. line = <<>> /\ ~Ready
    <2>1. ~Fault("late")
      <3>1. ASSUME Fault("late") PROVE FALSE
        <4>1. faults' = Append(<<>>, "late")
          BY <3>1 DEF Fault
        <4> QED
          BY <4>1
      <3> QED
        BY <3>1
    <2> QED
      BY <2>1 DEF Timeout
  <1>3. PICK m \in Nat : Owed(m) /\ Remains(m)
    BY <1>1 DEF QuietInv
  <1>4. rx \o line = rx /\ Len(rx) < Needs
    BY <1>1, <1>2, ConcatEmptySeq DEF Ready, Needs
  \* The rest of a reply is longer than what the reader waits for.
  <1>5. ASSUME NEW x \in Seq(Byte), NEW y \in Seq(Byte), rx = x \o y, x # <<>>
        PROVE  Len(rx) >= 1 /\ Len(rx) = Len(x) + Len(y) /\ Len(x) \in Nat /\ Len(x) >= 1
               /\ Len(y) \in Nat
    <2>1. Len(x) \in Nat \ {0} /\ Len(y) \in Nat
      BY <1>5, EmptySeq, LenProperties
    <2>2. Len(rx) = Len(x) + Len(y)
      BY <1>5, ConcatProperties
    <2> QED
      BY <2>1, <2>2
  <1>6. << 192 >> \in Seq(Byte) /\ Len(<< 192 >>) = 1 /\ << 192 >> # <<>>
    BY DEF Byte
  <1>7. ASSUME state # "begin" PROVE FALSE
    <2>1. /\ m - 1 \in Nat /\ Many(m - 1) \in Seq(Byte)
          /\ rx = EndFrom(Good, Len(hdr \o body)) \o Many(m - 1)
      <3>1. m >= 1 /\ rx = EndFrom(Good, Len(hdr \o body)) \o Many(m - 1)
        BY <1>3, <1>4, <1>7 DEF Remains
      <3>2. m - 1 \in Nat
        BY <3>1
      <3> QED
        BY <1>1, <3>1, <3>2, ManyMore
    <2>2. /\ Len(hdr \o body) \in 0 .. 10
          /\ state \in {"header", "body"} => Len(hdr \o body) \in 0 .. 9
          /\ state = "end" => Len(hdr \o body) = 10
      BY <1>1, <1>3, <1>7, SoFar
    <2>3. CASE state = "end"
      <3>1. rx = << 192 >> \o Many(m - 1)
        BY <1>1, <2>1, <2>2, <2>3, NextEncoded
      <3>2. Len(rx) >= 1
        BY <1>5, <1>6, <2>1, <3>1
      <3> QED
        BY <1>1, <1>4, <2>3, <3>2 DEF Needs
    <2>4. CASE state \in {"header", "body"}
      <3> DEFINE k == Len(hdr \o body)
                 c == Escaped(Good[k + 1])
                 e == Encoded(SubSeq(Good, k + 2, Len(Good)))
      <3>1. k \in 0 .. 9 /\ Good \in Seq(Byte) /\ Len(Good) = 10
        BY <1>1, <2>2, <2>4, GoodBytes
      <3>2. /\ k \in Nat /\ k < Len(Good) /\ (k + 1) + 1 = k + 2
        BY <3>1
      <3> HIDE DEF k
      <3>3. /\ Good[k + 1] \in Byte /\ e \in Seq(Byte)
            /\ Encoded(SubSeq(Good, k + 1, Len(Good))) = c \o e
        BY <3>1, <3>2, EncodedFrom
      <3>4. c \in Seq(Byte) /\ c # <<>>
        <4>1. c \in Seq(Byte) /\ Len(c) \in {1, 2}
          BY <3>3, EscapedBytes
        <4> HIDE DEF c
        <4>2. Len(c) # 0
          BY <4>1
        <4> QED
          BY <4>1, <4>2, EmptySeq
      <3> HIDE DEF c, e
      <3>5. rx = ((c \o e) \o << 192 >>) \o Many(m - 1)
        BY <2>1, <3>3 DEF EndFrom, k
      <3>6. /\ Len(c \o e) = Len(c) + Len(e) /\ c \o e \in Seq(Byte)
            /\ Len(c) \in Nat \ {0} /\ Len(e) \in Nat
        BY <3>3, <3>4, ConcatProperties, LenProperties, EmptySeq
      <3> DEFINE u == (c \o e) \o << 192 >>
      <3>7. u \in Seq(Byte) /\ Len(u) = Len(c \o e) + 1
        BY <1>6, <3>6, ConcatProperties
      <3>8. rx = u \o Many(m - 1)
        BY <3>5
      <3> HIDE DEF u
      <3>9. Len(rx) = Len(u) + Len(Many(m - 1)) /\ Len(Many(m - 1)) \in Nat
        BY <2>1, <3>7, <3>8, ConcatProperties, LenProperties
      <3>10. Len(rx) >= 2
        BY <3>6, <3>7, <3>9
      <3> QED
        BY <1>1, <1>4, <2>4, <3>10 DEF Needs
    <2> QED
      BY <1>1, <1>7, <2>3, <2>4 DEF ReaderInv, TypeOK
  <1>8. rx = <<>> /\ rx = Many(m)
    <2>1. rx = Many(m)
      BY <1>3, <1>4, <1>7 DEF Remains
    <2>2. Len(rx) < 1
      BY <1>4, <1>7 DEF Needs
    <2> QED
      BY <1>1, <2>1, <2>2, EmptySeq
  <1>9. m = 0
    <2>1. ASSUME m > 0 PROVE FALSE
      <3> DEFINE u == << 192 >> \o EndFrom(Good, 0)
      <3>1. /\ m - 1 \in Nat /\ Many(m - 1) \in Seq(Byte) /\ u \in Seq(Byte)
            /\ rx = u \o Many(m - 1)
        <4>1. m - 1 \in Nat
          BY <2>1
        <4>2. EndFrom(Good, 0) \in Seq(Byte)
          BY <1>1, NextEncoded
        <4>3. u \in Seq(Byte)
          BY <1>6, <4>2, ConcatTyped
        <4> HIDE DEF u
        <4>4. rx = u \o Many(m - 1)
          BY <1>1, <1>8, <2>1, ManyMore DEF u
        <4> QED
          BY <1>1, <4>1, <4>3, <4>4, ManyMore
      <3>2. u # <<>>
        <4>1. EndFrom(Good, 0) \in Seq(Byte)
          BY <1>1, NextEncoded
        <4> QED
          BY <1>6, <4>1, ConcatEqualIffEmpty
      <3> HIDE DEF u
      <3>3. Len(rx) >= 1
        BY <1>5, <3>1, <3>2
      <3> QED
        BY <1>8, <3>3
    <2> QED
      BY <2>1
  <1>10. pc = "Drain"
    BY <1>1, <1>3, <1>9 DEF Owed, Reading
  <1>11. 0 \in 0 .. Len(rx) /\ SubSeq(rx, 0 + 1, Len(rx)) = <<>>
    BY <1>8
  <1>12. "timeout" # "ok"
    OBVIOUS
  <1> QED
    BY <1>1, <1>2, <1>3, <1>10, <1>11, <1>12, ReturnQuiet

LEMMA SendCommandQuiet ==
    ASSUME QuietInv, ReaderInv', faults = <<>>, faults' = <<>>, SendCommand
    PROVE  QuietInv'
  <1>1. /\ pc = "Send" /\ line = <<>> /\ rx' = <<>> /\ pc' = "Reply"
        /\ UNCHANGED <<step, state>> /\ state = "begin" /\ step \in 1 .. Len(Session)
    BY DEF QuietInv, ReaderInv, TypeOK, Progress, SendCommand, Reading
  <1>2. \A f : ~Fault(f)
    <2>1. ASSUME NEW f, Fault(f) PROVE FALSE
      <3>1. faults' = Append(<<>>, f)
        BY <2>1 DEF Fault
      <3> QED
        BY <3>1
    <2> QED
      BY <2>1
  <1>3. line' = <<>> \o Answer(Cmd)
    BY <1>1, <1>2 DEF SendCommand
  <1> DEFINE m == IF Cmd.op = SYNC THEN SyncReplies ELSE 1
  <1>4. m \in Nat /\ m >= 1 /\ (Cmd.op # SYNC => m = 1)
    BY SessionAssumption
  <1>5. Answer(Cmd) = Many(m)
    BY DEF Answer, Many, Good
  <1> HIDE DEF m
  <1>6. Many(m) \in Seq(Byte)
    BY <1>1, <1>4, ManyMore
  <1>7. rx' \o line' = Many(m)
    BY <1>1, <1>3, <1>5, <1>6, ConcatEmptySeq
  <1>8. Remains(m)'
    <2>1. Many(m)' = Many(m)
      <3>1. \A n : Many(n)' = Many(n)
        BY <1>1, SameReplies
      <3>2. m' = m
        BY <1>1 DEF m, Cmd
      <3> QED
        BY <3>1, <3>2
    <2>2. state' = "begin" /\ (rx \o line)' = Many(m)'
      BY <1>1, <1>7, <2>1
    <2> QED
      BY <2>2, Zenon DEF Remains
  <1> QED
    BY <1>1, <1>4, <1>8 DEF QuietInv, Owed, Reading, Cmd, m

LEMMA SameRemains ==
    ASSUME UNCHANGED <<pc, step, state, hdr, body>>, rx' \o line' = rx \o line
    PROVE  \A m : (Remains(m) => Remains(m)') /\ (Owed(m) => Owed(m)')
  <1>1. ASSUME NEW m, Remains(m) PROVE Remains(m)'
    <2>1. Good' = Good /\ Many(m)' = Many(m) /\ Many(m - 1)' = Many(m - 1)
      BY SameReplies
    <2>2. state' = "begin" => (rx \o line)' = Many(m)'
      BY <1>1, <2>1 DEF Remains
    <2>3. state' # "begin" =>
              (rx \o line)' = EndFrom(Good, Len(hdr \o body))' \o Many(m - 1)'
      BY <1>1, <2>1 DEF Remains, EndFrom
    <2>4. state' # "begin" =>
              m >= 1 /\ \A i \in 1 .. Len(hdr' \o body') : (hdr' \o body')[i] = Good'[i]
      BY <1>1, <2>1 DEF Remains
    <2> QED
      BY <2>2, <2>3, <2>4, Zenon DEF Remains
  <1>2. \A m : Owed(m) => Owed(m)'
    BY DEF Owed, Cmd
  <1> QED
    BY <1>1, <1>2

LEMMA ArriveQuiet ==
    ASSUME QuietInv, ReaderInv', Arrive
    PROVE  QuietInv'
  <1>1. /\ line # <<>> /\ rx \in Seq(Byte) /\ line \in Seq(Byte)
        /\ rx' = Append(rx, Head(line)) /\ line' = Tail(line)
        /\ UNCHANGED <<pc, step, state, hdr, body, faults>>
    BY DEF QuietInv, ReaderInv, TypeOK, Arrive
  <1>2. rx' \o line' = rx \o line
    BY <1>1, ArrivedByte
  <1>3. \A m : (Remains(m) => Remains(m)') /\ (Owed(m) => Owed(m)')
    BY <1>1, <1>2, SameRemains
  <1>5. ~(faults = <<>> /\ pc \in {"Send", "Done"})
    BY <1>1 DEF QuietInv
  <1> QED
    BY <1>1, <1>3, <1>5 DEF QuietInv, Reading

LEMMA QuietInit == Init => QuietInv
  <1> SUFFICES ASSUME Init PROVE QuietInv
    OBVIOUS
  <1>1. ReaderInv
    BY ReaderInit
  <1> QED
    BY <1>1 DEF Init, QuietInv, Reading

LEMMA QuietStep == QuietInv /\ [Next]_vars => QuietInv'
  <1> SUFFICES ASSUME QuietInv, [Next]_vars PROVE QuietInv'
    OBVIOUS
  <1>1. ReaderInv /\ ReaderInv' /\ faults \in Seq(FaultKinds)
    BY ReaderStep DEF QuietInv, ReaderInv, TypeOK
  \* A fault is never forgotten.
  <1>2. \A f : Fault(f) => faults' # <<>>
    <2>1. ASSUME NEW f, Fault(f) PROVE faults' # <<>>
      <3>1. faults' = Append(faults, f) /\ f \in FaultKinds
        BY <2>1, SessionAssumption DEF Fault
      <3> QED
        BY <1>1, <3>1, AppendProperties
    <2> QED
      BY <2>1
  <1>3. (\E f : Fault(f)) \/ UNCHANGED faults
    BY DEF Next, Host, Environment, SendCommand, SendFails, FrameByte, WrongByte,
           HeaderByte, BodyByte, Timeout, Arrive, LoseByte, SpoilByte, StrayByte, vars
  <1>4. CASE faults' # <<>>
    BY <1>1, <1>4 DEF QuietInv
  <1>5. CASE faults' = <<>>
    <2>1. faults = <<>> /\ \A f : ~Fault(f)
      BY <1>2, <1>3, <1>5
    <2>2. ~SendFails /\ ~Environment
      BY <2>1 DEF SendFails, Environment, LoseByte, SpoilByte, StrayByte
    <2>3. CASE UNCHANGED vars
      <3>1. UNCHANGED <<pc, step, state, hdr, body, rx, line, faults>>
        BY <2>3 DEF vars
      <3>2. \A m : (Remains(m) => Remains(m)') /\ (Owed(m) => Owed(m)')
        BY <3>1, SameRemains
      <3> QED
        BY <1>1, <3>1, <3>2 DEF QuietInv, Reading
    <2> QED
      BY <1>1, <1>5, <2>1, <2>2, <2>3, SendCommandQuiet, FrameByteQuiet, WrongByteQuiet,
         HeaderByteQuiet, BodyByteQuiet, TimeoutQuiet, ArriveQuiet DEF Next, Host
  <1> QED
    BY <1>4, <1>5

\* When nothing goes wrong nothing is left on the line and in the buffer of the
\* driver when a command after the first is made (esp.cpp:184): the replies to
\* SYNC have all been discarded, wherever in time they fell, and every command
\* has had its reply.
THEOREM NothingLeftBehind == Spec => []Quiet
  <1>1. QuietInv => Quiet
    BY DEF QuietInv, Quiet
  <1>2. Spec => []QuietInv
    BY QuietInit, QuietStep, PTL DEF Spec
  <1> QED
    BY <1>1, <1>2, PTL

-----------------------------------------------------------------------------
(* FlashReading *)

-----------------------------------------------------------------------------
(* Blocks *)

LEMMA Products ==
    \A a, b \in Nat : a * b \in Nat /\ (a + 1) * b = a * b + b
  OBVIOUS

LEMMA ProductsOrdered ==
    ASSUME NEW a \in Nat, NEW n \in Nat, NEW b \in Nat, a <= n
    PROVE  a * b <= n * b
  <1>1. PICK d \in Nat : n = a + d
    <2>1. n - a \in Nat /\ n = a + (n - a)
      OBVIOUS
    <2> QED
      BY <2>1
  <1>2. n * b = a * b + d * b /\ d * b \in Nat /\ a * b \in Nat
    BY <1>1
  <1> QED
    BY <1>2

LEMMA Quotient ==
    \A a \in Nat, b \in Nat \ {0} :
        a \div b \in Nat /\ (a \div b) * b <= a /\ a < (a \div b) * b + b
  OBVIOUS

\* The blocks cover what was asked for, and the Flash goes on to their end.
LEMMA Sizes ==
    ASSUME length \in Lengths
    PROVE  /\ length \in Nat /\ Len(Content) \in Nat
           /\ BlkSize \in Nat \ {0} /\ BlkCnt \in Nat \ {0}
           /\ length <= BlkCnt * BlkSize /\ BlkCnt * BlkSize <= Len(Content)
  <1>1. /\ length \in Nat \ {0} /\ BLK \in Nat \ {0} /\ Len(Content) \in Nat
        /\ length + BLK <= Len(Content)
    BY ReadingAssumption, LenProperties
  <1>2. CASE length <= BLK
    <2>1. BlkSize = length /\ BlkCnt = 1
      BY <1>2 DEF BlkSize, BlkCnt
    <2> QED
      BY <1>1, <2>1
  <1>3. CASE ~(length <= BLK)
    <2> DEFINE a == length + BLK - 1
               d == a \div BLK
    <2>1. BlkSize = BLK /\ BlkCnt = d
      BY <1>3 DEF BlkSize, BlkCnt
    <2>2. a \in Nat
      BY <1>1
    <2>3. d \in Nat /\ d * BLK <= a /\ a < d * BLK + BLK
      BY <1>1, <2>2, Quotient
    <2>4. d # 0
      <3>1. a >= BLK
        BY <1>1, <1>3
      <3> HIDE DEF a, d
      <3>2. d = 0 => d * BLK = 0
        BY <1>1
      <3> QED
        BY <1>1, <2>2, <2>3, <3>1, <3>2
    <2> HIDE DEF d
    <2>5. length <= d * BLK /\ d * BLK <= Len(Content)
      <3> DEFINE p == d * BLK
      <3>1. p \in Nat /\ p <= a /\ a < p + BLK
        BY <1>1, <2>3
      <3> HIDE DEF p
      <3>2. length <= p /\ p <= Len(Content)
        BY <1>1, <3>1
      <3> QED
        BY <3>2 DEF p
    <2> QED
      BY <1>1, <2>1, <2>3, <2>4, <2>5
  <1> QED
    BY <1>1, <1>2, <1>3

Block(i) == SubSeq(Content, (i - 1) * BlkSize + 1, i * BlkSize)

LEMMA BlockBytes ==
    ASSUME length \in Lengths, NEW i \in Nat, i < BlkCnt
    PROVE  /\ Block(i + 1) \in Seq(Byte) /\ Len(Block(i + 1)) = BlkSize
           /\ i * BlkSize \in Nat
           /\ \A j \in 1 .. BlkSize : /\ i * BlkSize + j \in 1 .. Len(Content)
                                      /\ Block(i + 1)[j] = Content[i * BlkSize + j]
  <1>1. /\ BlkSize \in Nat \ {0} /\ BlkCnt \in Nat /\ Len(Content) \in Nat
        /\ BlkCnt * BlkSize <= Len(Content) /\ Content \in Seq(Byte)
    BY Sizes, ReadingAssumption
  <1> DEFINE m == i * BlkSize
             n == (i + 1) * BlkSize
  <1>2. m \in Nat /\ n = m + BlkSize /\ n <= Len(Content)
    <2>1. m \in Nat /\ n = m + BlkSize
      BY <1>1, Products
    <2>2. i + 1 \in Nat /\ i + 1 <= BlkCnt
      BY <1>1
    <2>3. n <= BlkCnt * BlkSize /\ BlkCnt * BlkSize \in Nat
      BY <1>1, <2>2, ProductsOrdered, Products
    <2> HIDE DEF m, n
    <2> QED
      BY <1>1, <2>1, <2>3
  <1>3. Block(i + 1) = SubSeq(Content, m + 1, n)
    <2>1. (i + 1) - 1 = i
      OBVIOUS
    <2> QED
      BY <2>1 DEF Block
  <1> HIDE DEF m, n
  <1>4. m \in 0 .. Len(Content) /\ n \in m .. Len(Content) /\ n - m = BlkSize
    BY <1>1, <1>2
  <1>5. /\ Block(i + 1) \in Seq(Byte) /\ Len(Block(i + 1)) = BlkSize
        /\ \A j \in 1 .. BlkSize : Block(i + 1)[j] = Content[m + j]
    <2>1. /\ SubSeq(Content, m + 1, n) \in Seq(Byte)
          /\ Len(SubSeq(Content, m + 1, n)) = n - m
          /\ \A j \in 1 .. n - m : SubSeq(Content, m + 1, n)[j] = Content[m + j]
      <3>1. Content \in Seq(Byte)
        BY <1>1
      <3> QED
        BY ONLY <1>4, <3>1, Slice
    <2> QED
      BY <1>3, <1>4, <2>1
  <1>6. \A j \in 1 .. BlkSize : m + j \in 1 .. Len(Content)
    BY <1>1, <1>2
  <1> QED
    BY <1>2, <1>5, <1>6 DEF m

\* The blocks after the first i, as the program sends them.
Following(i) == Stream([j \in 1 .. BlkCnt - i |-> Block(i + j)])

LEMMA FollowingBlocks ==
    ASSUME length \in Lengths
    PROVE  /\ Following(0) = Blocks /\ Following(BlkCnt) = <<>>
           /\ \A i \in 0 .. BlkCnt : Following(i) \in Seq(Byte)
           /\ \A i \in Nat : i < BlkCnt =>
                 Following(i) = (<< 192 >> \o EndFrom(Block(i + 1), 0)) \o Following(i + 1)
  <1> DEFINE row(i) == [j \in 1 .. BlkCnt - i |-> Block(i + j)]
  <1>1. BlkCnt \in Nat \ {0} /\ BlkSize \in Nat \ {0}
    BY Sizes
  <1>2. ASSUME NEW i \in 0 .. BlkCnt
        PROVE  /\ row(i) \in Seq(Seq(Byte)) /\ Len(row(i)) = BlkCnt - i
               /\ \A j \in 1 .. BlkCnt - i : row(i)[j] = Block(i + j)
               /\ Following(i) = Stream(row(i)) /\ Following(i) \in Seq(Byte)
    <2>1. BlkCnt - i \in Nat
      BY <1>1
    <2>2. ASSUME NEW j \in 1 .. BlkCnt - i PROVE Block(i + j) \in Seq(Byte)
      <3>1. i + j - 1 \in Nat /\ i + j - 1 < BlkCnt /\ (i + j - 1) + 1 = i + j
        BY <1>1
      <3>2. Block((i + j - 1) + 1) \in Seq(Byte)
        BY <3>1, BlockBytes
      <3> QED
        BY <3>1, <3>2
    <2>3. /\ row(i) \in [1 .. BlkCnt - i -> Seq(Byte)]
          /\ \A j \in 1 .. BlkCnt - i : row(i)[j] = Block(i + j)
      BY <2>2
    <2>4. row(i) \in Seq(Seq(Byte)) /\ Len(row(i)) = BlkCnt - i
      BY <2>1, <2>3, FunctionIsSeq
    <2>5. Following(i) = Stream(row(i))
      BY DEF Following
    <2> HIDE DEF row
    <2>6. Stream(row(i)) \in Seq(Byte)
      BY <2>4, PacketsTyped
    <2> QED
      BY <2>3, <2>4, <2>5, <2>6
  <1>3. Following(0) = Blocks
    <2>1. row(0) = [j \in 1 .. BlkCnt |-> Block(j)]
      BY <1>1
    <2>2. [j \in DOMAIN row(0) |-> Packet(row(0)[j])] = [j \in 1 .. BlkCnt |-> Packet(Block(j))]
      BY <2>1
    <2>3. 0 \in 0 .. BlkCnt
      BY <1>1
    <2>4. Following(0) = Stream(row(0))
      BY <1>2, <2>3
    <2> QED
      BY <2>2, <2>4 DEF Stream, Blocks, Block
  <1>4. Following(BlkCnt) = <<>>
    <2>1. BlkCnt \in 0 .. BlkCnt /\ BlkCnt - BlkCnt = 0
      BY <1>1
    <2>2. row(BlkCnt) \in Seq(Seq(Byte)) /\ Len(row(BlkCnt)) = 0
          /\ Following(BlkCnt) = Stream(row(BlkCnt))
      BY <1>2, <2>1
    <2> HIDE DEF row
    <2>3. row(BlkCnt) = <<>>
      BY <2>2, EmptySeq
    <2> QED
      BY <2>2, <2>3, StreamEmpty
  <1> HIDE DEF row
  <1>5. ASSUME NEW i \in Nat, i < BlkCnt
        PROVE  Following(i) = (<< 192 >> \o EndFrom(Block(i + 1), 0)) \o Following(i + 1)
    <2> DEFINE b == Block(i + 1)
    <2>1. b \in Seq(Byte)
      BY <1>5, BlockBytes
    <2> HIDE DEF b
    <2>2. /\ i \in 0 .. BlkCnt /\ i + 1 \in 0 .. BlkCnt /\ BlkCnt - i = 1 + (BlkCnt - (i + 1))
          /\ BlkCnt - (i + 1) \in Nat
      BY <1>1, <1>5
    <2>3. /\ row(i) \in Seq(Seq(Byte)) /\ Len(row(i)) = BlkCnt - i
          /\ \A j \in 1 .. BlkCnt - i : row(i)[j] = Block(i + j)
          /\ Following(i) = Stream(row(i))
      BY <1>2, <2>2
    <2>4. /\ row(i + 1) \in Seq(Seq(Byte)) /\ Len(row(i + 1)) = BlkCnt - (i + 1)
          /\ \A j \in 1 .. BlkCnt - (i + 1) : row(i + 1)[j] = Block((i + 1) + j)
          /\ Following(i + 1) = Stream(row(i + 1))
      BY <1>2, <2>2
    <2>5. <<b>> \in Seq(Seq(Byte)) /\ Len(<<b>>) = 1 /\ <<b>>[1] = b /\ Stream(<<b>>) = Packet(b)
      BY <2>1, StreamOfOne
    <2>6. row(i) = <<b>> \o row(i + 1)
      <3> DEFINE f == <<b>> \o row(i + 1)
      <3>1. /\ f \in Seq(Seq(Byte)) /\ Len(f) = Len(<<b>>) + Len(row(i + 1))
            /\ \A j \in 1 .. Len(<<b>>) + Len(row(i + 1)) :
                  f[j] = IF j <= Len(<<b>>) THEN <<b>>[j] ELSE row(i + 1)[j - Len(<<b>>)]
        BY <2>4, <2>5, ConcatProperties
      <3> HIDE DEF f
      <3>2. Len(f) = Len(row(i))
        BY <2>2, <2>3, <2>4, <2>5, <3>1
      <3>3. ASSUME NEW j \in 1 .. Len(row(i)) PROVE row(i)[j] = f[j]
        <4>1. j \in 1 .. BlkCnt - i /\ j \in 1 .. Len(<<b>>) + Len(row(i + 1))
          BY <2>2, <2>3, <2>4, <2>5
        <4>2. CASE j = 1
          <5>1. row(i)[1] = b /\ f[1] = <<b>>[1]
            BY <2>3, <2>5, <3>1, <4>1, <4>2 DEF b
          <5> QED
            BY <2>5, <4>2, <5>1
        <4>3. CASE j # 1
          <5>1. /\ ~(j <= Len(<<b>>)) /\ j - Len(<<b>>) = j - 1
                /\ j - 1 \in 1 .. BlkCnt - (i + 1) /\ (i + 1) + (j - 1) = i + j
            BY <2>2, <2>5, <4>1, <4>3
          <5>2. f[j] = row(i + 1)[j - 1]
            BY <3>1, <4>1, <5>1
          <5>3. row(i + 1)[j - 1] = Block((i + 1) + (j - 1)) /\ row(i)[j] = Block(i + j)
            BY <2>3, <2>4, <4>1, <5>1
          <5> QED
            BY <5>1, <5>2, <5>3
        <4> QED
          BY <4>2, <4>3
      <3>4. row(i) = f
        BY <2>3, <3>1, <3>2, <3>3, SeqEqual
      <3> QED
        BY <3>4 DEF f
    <2>7. Following(i) = Packet(b) \o Following(i + 1)
      BY <2>3, <2>4, <2>5, <2>6, StreamConcat
    <2> QED
      BY <2>1, <2>7, PacketParts DEF b
  <1> QED
    BY <1>2, <1>3, <1>4, <1>5

-----------------------------------------------------------------------------
(* Types, and where FlashRead is *)

\* Bytes of the blocks that have been read.
Place == blk * BlkSize + got

FTyped ==
    /\ length \in Lengths /\ stub \in BOOLEAN
    /\ phase \in {"start", "data", "end", "done", "failed"}
    /\ blk \in 0 .. BlkCnt /\ got \in 0 .. BlkSize
    /\ file \in Seq(Byte) /\ Len(file) = (IF Place < length THEN Place ELSE length)
    /\ pc # "Done" => phase = "start" /\ blk = 0 /\ got = 0
    /\ pc = "Drain" => step = 1
    /\ stub => pc \in {"Reply", "Done", "Failed"} /\ (pc = "Reply" => step = Len(Session))
    /\ phase \in {"start", "data", "end"} => blk < BlkCnt
    /\ phase = "start" => got = 0
    /\ phase = "data" => got < BlkSize
    /\ phase = "end" => got = BlkSize
    /\ phase = "done" => blk = BlkCnt /\ got = 0

LEMMA SameSizes ==
    ASSUME length' = length
    PROVE  /\ BlkSize' = BlkSize /\ BlkCnt' = BlkCnt /\ Blocks' = Blocks
           /\ \A i : Block(i)' = Block(i) /\ Following(i)' = Following(i)
  <1>1. BlkSize' = BlkSize /\ BlkCnt' = BlkCnt
    BY DEF BlkSize, BlkCnt
  <1>2. Blocks' = Blocks
    BY <1>1 DEF Blocks
  <1>3. \A i : Block(i)' = Block(i)
    BY <1>1 DEF Block
  <1>4. \A i : Following(i)' = Following(i)
    BY <1>1, <1>3 DEF Following
  <1> QED
    BY <1>1, <1>2, <1>3, <1>4

\* The first command is the only one the host makes again or drains the replies
\* of; every other ends the session when it fails.
LEMMA ReturnGoes ==
    ASSUME TypeOK, Reading, pc = "Drain" => step = 1, NEW r, NEW n, Return(r, n)
    PROVE  \/ step = 1 /\ pc' \in {"Send", "Drain", "Failed"} /\ (pc' = "Drain" => step' = 1)
           \/ step > 1 /\ pc = "Reply" /\ r # "ok" /\ pc' = "Failed"
           \/ /\ step > 1 /\ pc = "Reply" /\ r = "ok" /\ NextCommand
              /\ rx' = SubSeq(rx, n + 1, Len(rx))
  <1>1. step \in 1 .. Len(Session) /\ Len(Session) \in Nat /\ Len(Session) > 1
    BY SessionAssumption, ReadingAssumption, LenProperties DEF TypeOK
  <1>2. /\ rx' = IF pc = "Reply" /\ Cmd.op = SYNC /\ r # "ok" THEN <<>>
                 ELSE SubSeq(rx, n + 1, Len(rx))
        /\ Continue(r)
    BY DEF Return
  <1>3. CASE step = 1
    <2>1. Cmd.op = SYNC
      BY <1>3, SessionAssumption DEF Cmd
    <2>2. CASE pc = "Drain"
      <3>1. NextCommand \/ UNCHANGED caller
        BY <1>2, <2>2 DEF Continue
      <3> QED
        BY <1>1, <1>3, <2>2, <3>1 DEF NextCommand, caller
    <2>3. CASE pc = "Reply"
      <3>1. CommandFailed \/ (pc' = "Drain" /\ UNCHANGED <<step, syncs>>)
        BY <1>2, <2>1, <2>3 DEF Continue
      <3> QED
        BY <1>3, <3>1 DEF CommandFailed
    <2> QED
      BY <2>2, <2>3 DEF Reading
  <1>4. CASE step > 1
    <2>1. step \in 2 .. Len(Session)
      BY <1>1, <1>4
    <2>2. Cmd.op # SYNC /\ pc = "Reply"
      BY <1>4, <2>1, SessionAssumption DEF Cmd, Reading
    <2>3. CASE r # "ok"
      <3>1. CommandFailed
        BY <1>2, <2>2, <2>3 DEF Continue
      <3> QED
        BY <1>4, <2>2, <2>3, <3>1 DEF CommandFailed
    <2>4. CASE r = "ok"
      <3>1. NextCommand
        BY <1>2, <2>2, <2>4 DEF Continue
      <3> QED
        BY <1>2, <1>4, <2>2, <2>4, <3>1
    <2> QED
      BY <2>3, <2>4
  <1> QED
    BY <1>1, <1>3, <1>4

\* A step of the host in a command sends it, or is one of readPacket.
LEMMA HostSteps ==
    ASSUME ReaderInv, Host
    PROVE  \/ pc = "Send" /\ (SendCommand \/ SendFails)
           \/ /\ Reading /\ line' = line /\ (Clean' => Clean)
              /\ \E n \in 0 .. Len(rx) : ReadStep(n)
  <1>1. CASE SendCommand \/ SendFails
    BY <1>1 DEF SendCommand, SendFails
  <1>2. CASE FrameByte \/ WrongByte \/ HeaderByte \/ BodyByte \/ Timeout
    BY <1>2, PacketSteps
  <1> QED
    BY <1>1, <1>2 DEF Host

LEMMA CommandTyped ==
    ASSUME ReaderInv, FTyped, Command
    PROVE  FTyped'
  <1>1. /\ Host /\ stub' = (stub \/ Started)
        /\ UNCHANGED <<length, phase, blk, got, file>>
    BY DEF Command
  <1>2. /\ TypeOK /\ step \in 1 .. Len(Session) /\ Len(Session) \in Nat
        /\ Len(Session) > 1
    BY SessionAssumption, ReadingAssumption, LenProperties DEF ReaderInv, TypeOK
  <1>3. BlkSize' = BlkSize /\ BlkCnt' = BlkCnt /\ Place' = Place
    BY <1>1, SameSizes DEF Place
  <1>4. pc # "Done" /\ phase = "start" /\ blk = 0 /\ got = 0
    <2>1. pc # "Done"
      BY <1>1, HostSteps DEF Reading
    <2> QED
      BY <2>1 DEF FTyped
  <1>5. /\ pc' = "Drain" => step' = 1
        /\ stub' => pc' \in {"Reply", "Done", "Failed"} /\ (pc' = "Reply" => step' = Len(Session))
    <2>1. CASE pc = "Send" /\ SendCommand
      <3>1. ~stub /\ (stub' => step = Len(Session)) /\ pc' = "Reply" /\ step' = step
        BY <1>1, <2>1 DEF FTyped, Started, SendCommand
      <3> QED
        BY <3>1
    <2>2. CASE pc = "Send" /\ SendFails
      <3>1. ~stub /\ (stub' => step = Len(Session)) /\ CommandFailed
        BY <1>1, <2>2 DEF FTyped, Started, SendFails
      <3>2. stub' => pc' = "Failed"
        <4>1. step > 1 => Cmd.op # SYNC
          <5>1. step > 1 => step \in 2 .. Len(Session)
            BY <1>2
          <5> QED
            BY <5>1, SessionAssumption DEF Cmd
        <4> QED
          BY <1>2, <3>1, <4>1 DEF CommandFailed
      <3>3. pc' # "Drain"
        BY <3>1 DEF CommandFailed
      <3> QED
        BY <3>2, <3>3
    <2>3. ASSUME Reading, NEW n \in 0 .. Len(rx), ReadStep(n)
          PROVE  /\ pc' = "Drain" => step' = 1
                 /\ stub' => /\ pc' \in {"Reply", "Done", "Failed"}
                             /\ pc' = "Reply" => step' = Len(Session)
      <3>1. stub' = stub /\ (stub => pc = "Reply" /\ step = Len(Session))
            /\ (pc = "Drain" => step = 1)
        BY <1>1, <2>3 DEF FTyped, Started, Reading
      <3>2. CASE \E s : GoOn(s, n)
        BY <3>1, <3>2 DEF GoOn
      <3>3. ASSUME NEW r, Return(r, n)
            PROVE  /\ pc' = "Drain" => step' = 1
                   /\ stub' => pc' \in {"Done", "Failed"}
        <4>1. \/ step = 1 /\ (pc' = "Drain" => step' = 1)
              \/ step > 1 /\ pc' = "Failed"
              \/ step > 1 /\ NextCommand
          BY <1>2, <2>3, <3>1, <3>3, ReturnGoes
        <4> QED
          BY <1>2, <3>1, <4>1 DEF NextCommand
      <3> QED
        BY <2>3, <3>2, <3>3 DEF ReadStep
    <2> QED
      BY <1>1, <2>1, <2>2, <2>3, HostSteps
  <1>6. stub' \in BOOLEAN
    BY <1>1 DEF FTyped
  <1> QED
    BY <1>1, <1>3, <1>4, <1>5, <1>6 DEF FTyped

LEMMA TakenTyped ==
    ASSUME ReaderInv, FTyped, NEW n \in 0 .. Len(rx), Take(n)
    PROVE  /\ ReaderInv' /\ UNCHANGED <<pc, step, line, faults>>
           /\ rx' = SubSeq(rx, n + 1, Len(rx))
           /\ pc' = "Done" /\ (pc' = "Drain" => step' = 1)
  <1>1. /\ pc = "Done" /\ UNCHANGED <<pc, step, syncs, state, hdr, body, taken, last, line, faults>>
        /\ rx' = SubSeq(rx, n + 1, Len(rx))
    BY DEF Take, Reader, caller, reader
  <1>2. /\ rx \in Seq(Byte) /\ line \in Seq(Byte) /\ faults \in Seq(FaultKinds)
        /\ Len(faults) <= MaxFaults
    BY DEF ReaderInv, TypeOK
  <1>3. rx' \in Seq(Byte)
    BY <1>1, <1>2, CutTyped
  <1>4. ReaderInv'
    BY <1>1, <1>2, <1>3, LineKeeps
  <1> QED
    BY <1>1, <1>4

LEMMA MarkerTyped ==
    ASSUME ReaderInv, FTyped, StartMarker \/ EndMarker
    PROVE  FTyped' /\ ReaderInv'
  <1>1. /\ Len(rx) \in Nat /\ Len(rx) >= 1 /\ Take(1) /\ UNCHANGED <<length, stub, file>>
    BY LenProperties DEF StartMarker, EndMarker, Take, Wants, ReaderInv, TypeOK
  <1>2. 1 \in 0 .. Len(rx)
    BY <1>1
  <1>3. /\ ReaderInv' /\ UNCHANGED <<pc, step, line, faults>> /\ pc' = "Done"
    BY <1>1, <1>2, TakenTyped
  <1>4. BlkSize' = BlkSize /\ BlkCnt' = BlkCnt /\ BlkSize \in Nat \ {0} /\ BlkCnt \in Nat \ {0}
        /\ length \in Nat
    BY <1>1, SameSizes, Sizes DEF FTyped
  <1>5. /\ length' \in Lengths /\ stub' \in BOOLEAN /\ file' \in Seq(Byte)
        /\ stub' => pc' \in {"Reply", "Done", "Failed"} /\ (pc' = "Reply" => step' = Len(Session))
    BY <1>1, <1>3 DEF FTyped
  <1>6. CASE StartMarker
    <2>1. UNCHANGED <<blk, got>> /\ phase = "start" /\ phase' \in {"data", "failed"}
      BY <1>6 DEF StartMarker
    <2>2. Place' = Place
      BY <1>4, <2>1 DEF Place
    <2>3. got = 0
      BY <2>1 DEF FTyped
    <2> QED
      BY <1>1, <1>3, <1>4, <1>5, <2>1, <2>2, <2>3 DEF FTyped
  <1>7. CASE EndMarker
    <2>1. phase = "end" /\ got = BlkSize /\ blk < BlkCnt /\ blk \in Nat
      BY <1>4, <1>7 DEF EndMarker, FTyped
    <2>2. CASE rx[1] # 192
      <3>1. UNCHANGED <<blk, got>> /\ phase' = "failed"
        BY <1>7, <2>2 DEF EndMarker
      <3>2. Place' = Place
        BY <1>4, <3>1 DEF Place
      <3> QED
        BY <1>1, <1>3, <1>4, <1>5, <3>1, <3>2 DEF FTyped
    <2>3. CASE rx[1] = 192
      <3>1. /\ blk' = blk + 1 /\ got' = 0
            /\ phase' = IF blk + 1 = BlkCnt THEN "done" ELSE "start"
        BY <1>7, <2>3 DEF EndMarker
      <3>2. Place' = Place
        <4>1. (blk + 1) * BlkSize = blk * BlkSize + BlkSize /\ blk * BlkSize \in Nat
              /\ (blk + 1) * BlkSize \in Nat
          BY <1>4, <2>1, Products
        <4> QED
          BY <1>4, <2>1, <3>1, <4>1 DEF Place
      <3>3. blk' \in 0 .. BlkCnt /\ got' \in 0 .. BlkSize /\ (phase' = "start" => blk' < BlkCnt)
        BY <1>4, <2>1, <3>1
      <3> QED
        BY <1>1, <1>3, <1>4, <1>5, <3>1, <3>2, <3>3 DEF FTyped
    <2> QED
      BY <2>2, <2>3
  <1> QED
    BY <1>3, <1>6, <1>7

LEMMA DataTyped ==
    ASSUME ReaderInv, FTyped, DataByte
    PROVE  FTyped' /\ ReaderInv'
  <1> DEFINE b == SlipByte(rx)
  <1>1. rx \in Seq(Byte) /\ Len(rx) \in Nat /\ Len(rx) >= 2 /\ phase = "data"
    BY LenProperties DEF DataByte, Wants, ReaderInv, TypeOK
  <1>2. b.used \in 0 .. Len(rx) /\ (b.stat \in {1, 2} => b.byte \in Byte)
    BY <1>1, SlipUndone
  <1>3. /\ Take(b.used) /\ UNCHANGED <<length, stub, blk>>
        /\ \/ phase' = "failed" /\ UNCHANGED <<got, file>>
           \/ /\ b.stat \in {1, 2} /\ got' = got + 1
              /\ phase' = (IF got + 1 = BlkSize THEN "end" ELSE "data")
              /\ file' = (IF Place < length THEN Append(file, b.byte) ELSE file)
    BY DEF DataByte, Stored, Place
  <1> HIDE DEF b
  <1>4. ReaderInv' /\ UNCHANGED <<pc, step, line, faults>> /\ pc' = "Done"
    BY <1>2, <1>3, TakenTyped
  <1>5. BlkSize' = BlkSize /\ BlkCnt' = BlkCnt /\ BlkSize \in Nat \ {0} /\ BlkCnt \in Nat \ {0}
        /\ length \in Nat
    BY <1>3, SameSizes, Sizes DEF FTyped
  <1>6. got < BlkSize /\ blk < BlkCnt /\ blk \in Nat /\ got \in Nat
    BY <1>1, <1>5 DEF FTyped
  <1>7. CASE phase' = "failed" /\ UNCHANGED <<got, file>>
    <2>1. Place' = Place
      BY <1>3, <1>5, <1>7 DEF Place
    <2> QED
      BY <1>3, <1>4, <1>5, <1>7, <2>1 DEF FTyped
  <1>8. CASE /\ b.stat \in {1, 2} /\ got' = got + 1
             /\ phase' = (IF got + 1 = BlkSize THEN "end" ELSE "data")
             /\ file' = (IF Place < length THEN Append(file, b.byte) ELSE file)
    <2>1. Place \in Nat /\ Place' = Place + 1
      <3>1. blk * BlkSize \in Nat
        BY <1>5, <1>6, Products
      <3> QED
        BY <1>3, <1>5, <1>6, <1>8, <3>1 DEF Place
    <2>2. file \in Seq(Byte) /\ Len(file) = (IF Place < length THEN Place ELSE length)
      BY DEF FTyped
    <2>3. file' \in Seq(Byte) /\ Len(file') = (IF Place' < length THEN Place' ELSE length)
      <3>1. CASE Place < length
        <4>1. Append(file, b.byte) \in Seq(Byte) /\ Len(Append(file, b.byte)) = Len(file) + 1
          BY <1>2, <1>8, <2>2, AppendProperties
        <4> QED
          BY <1>5, <1>8, <2>1, <2>2, <3>1, <4>1
      <3>2. CASE ~(Place < length)
        BY <1>5, <1>8, <2>1, <2>2, <3>2
      <3> QED
        BY <3>1, <3>2
    <2>4. got' \in 0 .. BlkSize /\ (phase' = "data" => got' < BlkSize)
          /\ (phase' = "end" => got' = BlkSize)
      BY <1>5, <1>6, <1>8
    <2> QED
      BY <1>3, <1>4, <1>5, <1>6, <1>8, <2>3, <2>4 DEF FTyped
  <1> QED
    BY <1>3, <1>4, <1>7, <1>8

-----------------------------------------------------------------------------
(* What is on its way to the host while it makes its commands *)

\* e is the end of a row of answers to SYNC.
SyncsEnd(e) == \E q \in Seq(Seq(Byte)), z \in Seq(Byte) :
                  (\A i \in 1 .. Len(q) : q[i] \in Answers(1)) /\ z \o e = Stream(q)

LEMMA Reassociated ==
    \A a, b, c \in Seq(Byte) : a \o (b \o c) = (a \o b) \o c
  BY ConcatAssociative

LEMMA SyncContents ==
    ASSUME NEW c \in Answers(1)
    PROVE  c[2] = SYNC
  <1>1. 1 \in 1 .. Len(Session) /\ Session[1].op = SYNC
    BY SessionAssumption, ReadingAssumption, LenProperties
  <1> QED
    BY <1>1, AnswerContents

LEMMA EndOfSyncs ==
    ASSUME NEW a \in Seq(Byte), NEW b \in Seq(Byte), SyncsEnd(a \o b)
    PROVE  SyncsEnd(b)
  <1>1. PICK q \in Seq(Seq(Byte)), z \in Seq(Byte) :
            (\A i \in 1 .. Len(q) : q[i] \in Answers(1)) /\ z \o (a \o b) = Stream(q)
    BY DEF SyncsEnd
  <1>2. z \o a \in Seq(Byte) /\ (z \o a) \o b = Stream(q)
    BY <1>1, ConcatTyped, Reassociated
  <1> QED
    BY <1>1, <1>2 DEF SyncsEnd

LEMMA NoSyncs == SyncsEnd(<<>>)
  <1>1. <<>> \in Seq(Byte) /\ <<>> \o <<>> = <<>>
    BY EmptySeq, ConcatEmptySeq
  <1>2. \A i \in 1 .. Len(<<>>) : <<>>[i] \in Answers(1)
    BY StreamEmpty
  <1> QED
    BY <1>1, <1>2, StreamEmpty DEF SyncsEnd

LEMMA MoreSyncs ==
    ASSUME NEW e \in Seq(Byte), SyncsEnd(e),
           NEW r \in Seq(Seq(Byte)), \A i \in 1 .. Len(r) : r[i] \in Answers(1)
    PROVE  SyncsEnd(e \o Stream(r))
  <1>1. PICK q \in Seq(Seq(Byte)), z \in Seq(Byte) :
            (\A i \in 1 .. Len(q) : q[i] \in Answers(1)) /\ z \o e = Stream(q)
    BY DEF SyncsEnd
  <1> DEFINE f == q \o r
  <1>2. f \in Seq(Seq(Byte)) /\ Stream(f) = Stream(q) \o Stream(r) /\ Stream(r) \in Seq(Byte)
    BY StreamConcat, PacketsTyped
  <1>3. z \o (e \o Stream(r)) = Stream(f)
    <2>1. z \o (e \o Stream(r)) = (z \o e) \o Stream(r)
      BY <1>2, Reassociated
    <2> QED
      BY <1>1, <1>2, <2>1
  <1>4. /\ Len(f) = Len(q) + Len(r) /\ Len(q) \in Nat /\ Len(r) \in Nat
        /\ \A i \in 1 .. Len(q) + Len(r) : f[i] = IF i <= Len(q) THEN q[i] ELSE r[i - Len(q)]
    BY ConcatProperties, LenProperties
  <1> HIDE DEF f
  <1>5. ASSUME NEW i \in 1 .. Len(f) PROVE f[i] \in Answers(1)
    <2>1. CASE i <= Len(q)
      <3>1. i \in 1 .. Len(q) /\ f[i] = q[i]
        BY <1>4, <2>1
      <3> QED
        BY <1>1, <3>1
    <2>2. CASE ~(i <= Len(q))
      <3>1. i - Len(q) \in 1 .. Len(r) /\ f[i] = r[i - Len(q)]
        BY <1>4, <2>2
      <3> QED
        BY <3>1
    <2> QED
      BY <2>1, <2>2
  <1> QED
    BY <1>2, <1>3, <1>5 DEF SyncsEnd

\* No answer to SYNC is a packet with another command.
LEMMA NotAmongSyncs ==
    ASSUME NEW a \in Seq(Byte), NEW t \in Seq(Byte), a # <<>>, a[2] # SYNC
    PROVE  ~SyncsEnd(Packet(a) \o t)
  <1> SUFFICES ASSUME SyncsEnd(Packet(a) \o t) PROVE FALSE
    OBVIOUS
  <1>1. PICK q \in Seq(Seq(Byte)), z \in Seq(Byte) :
            (\A i \in 1 .. Len(q) : q[i] \in Answers(1)) /\ z \o (Packet(a) \o t) = Stream(q)
    BY DEF SyncsEnd
  <1>2. PICK i \in 1 .. Len(q) : q[i] = a
    BY <1>1, FoundIsSent
  <1> QED
    BY <1>1, <1>2, SyncContents

\* The packet a and t are the same bytes as e, the packet c and w.
Alike(a, t, e, c, w) == Packet(a) \o t = e \o (Packet(c) \o w)

\* A packet with another command, read behind answers to SYNC, is the one that
\* follows them.
LEMMA AcceptedIsFirst ==
    ASSUME NEW a \in Seq(Byte), NEW t \in Seq(Byte), a # <<>>, a[2] # SYNC,
           NEW e \in Seq(Byte), SyncsEnd(e), NEW c \in Seq(Byte), NEW w \in Seq(Byte),
           Alike(a, t, e, c, w)
    PROVE  t = w
  <1> DEFINE p == Packet(a)
             x == e \o Packet(c)
  <1>1. p \in Seq(Byte) /\ Packet(c) \in Seq(Byte) /\ x \in Seq(Byte)
    BY PacketTyped, ConcatTyped
  <1>2. x \o w = p \o t
    <2>1. p \o t = e \o (Packet(c) \o w)
      BY DEF Alike
    <2>2. e \o (Packet(c) \o w) = (e \o Packet(c)) \o w
      BY <1>1, Reassociated
    <2> QED
      BY <2>1, <2>2
  <1>3. Len(p) \in Nat /\ Len(x) \in Nat
    BY <1>1, LenProperties
  <1>4. CASE Len(p) <= Len(x)
    <2> DEFINE u == SubSeq(x, Len(p) + 1, Len(x))
    <2>1. Begins(x, w, p, t)
      BY <1>2, <1>4 DEF Begins
    <2> HIDE DEF p, x
    <2>2. SubSeq(x, 1, Len(p)) = p /\ u \o w = t
      <3>1. Taken(x, w, p, t)
        BY ONLY <1>1, <2>1, w \in Seq(Byte), t \in Seq(Byte), FirstTaken
      <3> QED
        BY <3>1 DEF Taken
    <2>3. u \in Seq(Byte) /\ x = p \o u
      <3>1. Len(p) \in 0 .. Len(x)
        BY <1>3, <1>4
      <3>2. u \in Seq(Byte) /\ x = SubSeq(x, 1, Len(p)) \o u
        BY <1>1, <3>1, Halves
      <3> QED
        BY <2>2, <3>2
    <2> HIDE DEF u
    <2>4. PICK q \in Seq(Seq(Byte)), z \in Seq(Byte) :
              (\A i \in 1 .. Len(q) : q[i] \in Answers(1)) /\ z \o e = Stream(q)
      BY DEF SyncsEnd
    <2> DEFINE f == q \o <<c>>
    <2>5. /\ <<c>> \in Seq(Seq(Byte)) /\ Len(<<c>>) = 1 /\ Stream(<<c>>) = Packet(c)
          /\ f \in Seq(Seq(Byte)) /\ Stream(f) = Stream(q) \o Packet(c)
      <3>1. /\ <<c>> \in Seq(Seq(Byte)) /\ Len(<<c>>) = 1 /\ Stream(<<c>>) = Packet(c)
        BY StreamOfOne
      <3>2. f \in Seq(Seq(Byte)) /\ Stream(f) = Stream(q) \o Stream(<<c>>)
        BY <3>1, StreamConcat
      <3> QED
        BY <3>1, <3>2
    <2>6. z \o (p \o u) = Stream(f)
      <3>1. z \o (e \o Packet(c)) = (z \o e) \o Packet(c)
        BY <1>1, Reassociated
      <3> QED
        BY <2>3, <2>4, <2>5, <3>1 DEF x
    <2>7. /\ Len(f) = Len(q) + 1 /\ Len(q) \in Nat
          /\ \A i \in 1 .. Len(q) : f[i] = q[i]
      <3>1. /\ Len(f) = Len(q) + Len(<<c>>)
            /\ \A i \in 1 .. Len(q) + Len(<<c>>) :
                  f[i] = IF i <= Len(q) THEN q[i] ELSE <<c>>[i - Len(q)]
        BY <2>5, ConcatProperties
      <3>2. Len(q) \in Nat
        BY LenProperties
      <3> QED
        BY <2>5, <3>1, <3>2
    <2> HIDE DEF f
    <2>8. PICK i \in 1 .. Len(f) : f[i] = a /\ (i = Len(f) => u = <<>>)
      <3>1. z \o (Packet(a) \o u) = Stream(f)
        BY <2>6 DEF p
      <3>2. /\ f \in Seq(Seq(Byte)) /\ u \in Seq(Byte) /\ z \in Seq(Byte)
            /\ a \in Seq(Byte) /\ a # <<>>
        BY <2>3, <2>5
      <3> QED
        BY ONLY <3>1, <3>2, FoundIsSent
    <2>9. i = Len(f)
      <3>1. ASSUME i \in 1 .. Len(q) PROVE FALSE
        BY <2>4, <2>7, <2>8, <3>1, SyncContents
      <3> QED
        BY <2>7, <3>1
    <2>10. <<>> \o w = w
      BY ConcatEmptySeq
    <2> QED
      BY <2>2, <2>8, <2>9, <2>10
  <1>5. CASE Len(x) < Len(p)
    <2>1. /\ Len(p) = Len(Encoded(a)) + 2 /\ Encoded(a) \in Seq(Byte)
          /\ \A i \in 1 .. Len(Encoded(a)) : p[1 + i] = Encoded(a)[i] /\ Encoded(a)[i] # 192
      BY PacketBytes, EncodedBytes DEF Encoding
    <2>2. x[Len(x)] = 192 /\ Len(x) >= 2
      <3>1. /\ Len(Packet(c)) = Len(Encoded(c)) + 2 /\ Len(Encoded(c)) \in Nat
            /\ Packet(c)[Len(Encoded(c)) + 2] = 192
        BY PacketBytes, EncodedBytes, LenProperties
      <3>2. /\ Len(x) = Len(e) + Len(Packet(c)) /\ Len(e) \in Nat
            /\ \A i \in 1 .. Len(e) + Len(Packet(c)) :
                  x[i] = IF i <= Len(e) THEN e[i] ELSE Packet(c)[i - Len(e)]
        BY <1>1, ConcatProperties, LenProperties
      <3> HIDE DEF x
      <3>3. /\ Len(x) \in 1 .. Len(e) + Len(Packet(c)) /\ ~(Len(x) <= Len(e))
            /\ Len(x) - Len(e) = Len(Encoded(c)) + 2 /\ Len(x) >= 2
        BY <3>1, <3>2
      <3>4. x[Len(x)] = Packet(c)[Len(x) - Len(e)]
        BY <3>2, <3>3
      <3> QED
        BY <3>1, <3>3, <3>4
    <2>3. p[Len(x)] = x[Len(x)]
      <3>1. Begins(p, t, x, w)
        BY <1>2, <1>3, <1>5 DEF Begins
      <3> HIDE DEF p, x
      <3>2. Taken(p, t, x, w)
        BY ONLY <1>1, <3>1, w \in Seq(Byte), t \in Seq(Byte), FirstTaken
      <3>3. Len(x) \in 1 .. Len(x)
        BY <1>3, <2>2
      <3> QED
        BY <3>2, <3>3 DEF Taken
    <2> HIDE DEF p, x
    <2>4. Len(x) - 1 \in 1 .. Len(Encoded(a)) /\ 1 + (Len(x) - 1) = Len(x)
      <3>1. Len(Encoded(a)) \in Nat
        BY <2>1, LenProperties
      <3> QED
        BY <1>3, <1>5, <2>1, <2>2, <3>1
    <2> DEFINE m == Len(x) - 1
    <2>5. p[1 + m] = Encoded(a)[m] /\ Encoded(a)[m] # 192 /\ 1 + m = Len(x)
      BY <2>1, <2>4
    <2> QED
      BY <2>2, <2>3, <2>5
  <1> QED
    BY <1>3, <1>4, <1>5

\* What follows the answers to SYNC: nothing yet, or the answer c to a later
\* command and, after the last command, the blocks.
Follows(e) ==
    \/ ~stub /\ Ahead = e
    \/ /\ pc = "Reply" /\ step > 1
       /\ \E c \in Answers(step), w \in {<<>>, Blocks} :
             /\ Ahead = e \o (Packet(c) \o w)
             /\ stub => w = <<>>
             /\ stub \/ w # <<>> => step = Len(Session)

Coming == \E e \in Seq(Byte) : SyncsEnd(e) /\ Follows(e)

\* What the host has not read yet of what the program sends.
BlocksLeft ==
    /\ phase = "start" => rx \o line = Following(blk)
    /\ phase = "data" => rx \o line = EndFrom(Block(blk + 1), got) \o Following(blk + 1)
    /\ phase = "end" => rx \o line = << 192 >> \o Following(blk + 1)

Right ==
    /\ file = SubSeq(Content, 1, Len(file))
    /\ phase \in {"start", "data", "end"} =>
          \/ phase = "start" /\ blk = 0 /\ rx \o line = <<>>
          \/ ~stub /\ BlocksLeft

FInv ==
    /\ ReaderInv /\ FTyped
    /\ Clean /\ Calling => Coming
    /\ Clean /\ pc = "Done" => Right

LEMMA AfterSyncs ==
    ASSUME Coming, pc # "Reply" \/ step = 1
    PROVE  ~stub /\ SyncsEnd(Ahead)
  BY DEF Coming, Follows

LEMMA FirstNotLast == Len(Session) # 1
  <1>1. Len(Session) \in Nat /\ Len(Session) > 1
    BY SessionAssumption, ReadingAssumption, LenProperties
  <1>2. \A k \in Nat : k > 1 => k # 1
    OBVIOUS
  <1> QED
    BY <1>1, <1>2

LEMMA AnsweredAfterSyncs ==
    ASSUME NEW k \in 2 .. Len(Session), NEW c \in Answers(k)
    PROVE  c \in Seq(Byte) /\ c # <<>> /\ c[2] # SYNC /\ Packet(c) \in Seq(Byte)
  <1>1. k \in 1 .. Len(Session)
    BY SessionAssumption, LenProperties
  <1>2. Session[k].op # SYNC
    BY SessionAssumption
  <1> QED
    BY <1>1, <1>2, AnswerContents, PacketTyped

\* A command is sent: FlushComm leaves of the answers to SYNC what has not come
\* yet, and the device answers behind it.
LEMMA SendCommandComes ==
    ASSUME FInv, ReaderInv', FTyped', Command, SendCommand
    PROVE  FInv'
  <1>1. /\ pc = "Send" /\ rx' = <<>> /\ pc' = "Reply" /\ step' = step /\ taken' = taken
        /\ stub' = (stub \/ Started)
    BY DEF SendCommand, Command
  <1>2. /\ line \in Seq(Byte) /\ step \in 1 .. Len(Session) /\ faults \in Seq(FaultKinds)
        /\ rx \in Seq(Byte) /\ Len(Session) \in Nat /\ Len(Session) > 1 /\ line' \in Seq(Byte)
    BY SessionAssumption, ReadingAssumption, LenProperties DEF FInv, ReaderInv, TypeOK
  <1>3. Clean' => Clean
    <2>1. UNCHANGED faults \/ \E f : Fault(f)
      BY DEF SendCommand
    <2> QED
      BY <1>2, <2>1, FaultsCount DEF Clean
  <1>4. taken = <<>> /\ Ahead' = line'
    <2>1. taken = <<>>
      BY <1>1 DEF FInv, ReaderInv, Progress, Reading, TypeOK
    <2> QED
      BY <1>1, <1>2, <2>1, ConcatEmptySeq DEF Ahead
  <1>5. ASSUME Clean
        PROVE  ~stub /\ SyncsEnd(line)
    <2>1. ~stub /\ SyncsEnd(Ahead)
      BY <1>1, <1>5, AfterSyncs DEF FInv, Calling
    <2>2. Ahead = rx \o line
      BY <1>2, <1>4, ConcatTyped, ConcatEmptySeq DEF Ahead
    <2> QED
      BY <1>2, <2>1, <2>2, EndOfSyncs
  <1>6. ASSUME Clean, step = 1
        PROVE  Coming'
    <2>1. ~stub'
      <3>0. step # Len(Session)
        BY <1>6, FirstNotLast
      <3>1. ~Started
        BY <3>0 DEF Started
      <3> QED
        BY <1>1, <1>5, <1>6, <3>1
    <2>2. PICK r \in Seq(Seq(Byte)) :
              (\A i \in 1 .. Len(r) : r[i] \in Answers(1)) /\ line' = line \o Stream(r)
      <3>1. CASE line' = line \o Answer(Cmd)
        BY <1>2, <1>6, <3>1, AnswerStream DEF Cmd
      <3>2. CASE UNCHANGED line
        <4>1. line \o <<>> = line
          BY <1>2, ConcatEmptySeq
        <4>2. \A i \in 1 .. Len(<<>>) : <<>>[i] \in Answers(1)
          BY StreamEmpty
        <4> QED
          BY <3>2, <4>1, <4>2, StreamEmpty
      <3>3. CASE line' = line \o Packet(Reply(Cmd, BadStatus))
        <4> DEFINE c == Reply(Cmd, BadStatus)
        <4>1. c \in Answers(1)
          BY <1>6 DEF Answers, Cmd
        <4>2. c \in Seq(Byte)
          BY <1>2, <1>6, <4>1, AnswerContents
        <4> HIDE DEF c
        <4>3. /\ <<c>> \in Seq(Seq(Byte)) /\ Len(<<c>>) = 1 /\ <<c>>[1] = c
              /\ Stream(<<c>>) = Packet(c)
          BY <4>2, StreamOfOne
        <4>4. \A i \in 1 .. 1 : i = 1
          OBVIOUS
        <4>5. \A i \in 1 .. Len(<<c>>) : <<c>>[i] \in Answers(1)
          BY <4>1, <4>3, <4>4
        <4>6. line' = line \o Stream(<<c>>)
          BY <3>3, <4>3 DEF c
        <4> QED
          BY <4>3, <4>5, <4>6
      <3> QED
        BY <3>1, <3>2, <3>3 DEF SendCommand
    <2>3. SyncsEnd(line')
      BY <1>2, <1>5, <1>6, <2>2, MoreSyncs
    <2> QED
      BY <1>2, <1>4, <2>1, <2>3 DEF Coming, Follows
  <1>7. ASSUME Clean, step > 1
        PROVE  Coming'
    <2>1. step \in 2 .. Len(Session)
      BY <1>2, <1>7
    <2>2. ASSUME NEW c \in Answers(step), line' = line \o Packet(c), stub' => step = Len(Session)
          PROVE  Coming'
      <3>1. c \in Seq(Byte) /\ Packet(c) \in Seq(Byte)
        BY <2>1, AnsweredAfterSyncs
      <3>0. PICK e \in Seq(Byte) : e = line
        BY <1>2
      <3>2. Ahead' = e \o (Packet(c) \o <<>>)
        BY <1>4, <2>2, <3>0, <3>1, ConcatEmptySeq
      <3>3. c \in Answers(step)' /\ pc' = "Reply" /\ step' > 1 /\ Len(Session)' = Len(Session)
        BY <1>1, <1>7, <2>2 DEF Answers
      <3>4. Follows(e)'
        BY <1>1, <2>2, <3>2, <3>3 DEF Follows
      <3>5. SyncsEnd(e)
        BY <1>5, <1>7, <3>0
      <3> QED
        BY <3>4, <3>5 DEF Coming
    <2>3. CASE Started \/ line' = line \o Answer(Cmd)
      <3>1. PICK r \in Seq(Seq(Byte)) :
                /\ Answer(Cmd) = Stream(r) /\ \A i \in 1 .. Len(r) : r[i] \in Answers(step)
                /\ Len(r) = 1
        BY <1>2, <1>7, AnswerStream DEF Cmd
      <3> DEFINE c == r[1]
      <3>2. c \in Answers(step) /\ c \in Seq(Byte)
        BY <2>1, <3>1, AnsweredAfterSyncs
      <3>3. r = <<c>>
        <4>1. <<c>> \in Seq(Seq(Byte)) /\ Len(<<c>>) = 1 /\ <<c>>[1] = c
          BY <3>2, StreamOfOne
        <4>2. \A i \in 1 .. Len(r) : r[i] = <<c>>[i]
          BY <3>1, <4>1
        <4> QED
          BY <3>1, <4>1, <4>2, SeqEqual
      <3> HIDE DEF c
      <3>4. line' = line \o Packet(c)
        BY <2>3, <3>1, <3>2, <3>3, StreamOfOne DEF Started
      <3>5. stub' => step = Len(Session)
        BY <1>1, <1>5, <1>7 DEF Started
      <3> QED
        BY <2>2, <3>2, <3>4, <3>5
    <2>4. CASE ~Started /\ UNCHANGED line
      <3>1. ~stub' /\ Ahead' = line
        BY <1>1, <1>4, <1>5, <1>7, <2>4
      <3> QED
        BY <1>2, <1>5, <1>7, <3>1 DEF Coming, Follows
    <2>5. CASE ~Started /\ line' = line \o Packet(Reply(Cmd, BadStatus))
      <3>1. Reply(Cmd, BadStatus) \in Answers(step)
        BY DEF Answers, Cmd
      <3>2. ~stub'
        BY <1>1, <1>5, <1>7, <2>5
      <3> QED
        BY <2>2, <2>5, <3>1, <3>2
    <2> QED
      BY <2>3, <2>4, <2>5 DEF SendCommand
  <1>8. Clean => Coming'
    BY <1>2, <1>6, <1>7
  <1> QED
    BY <1>1, <1>3, <1>8 DEF FInv

LEMMA SendFailsComes ==
    ASSUME FInv, ReaderInv', FTyped', Command, SendFails
    PROVE  FInv'
  <1>1. /\ pc = "Send" /\ rx' = <<>> /\ line' = line /\ taken' = taken
        /\ stub' = (stub \/ Started) /\ CommandFailed /\ Fault("send_error")
    BY DEF SendFails, Command
  <1>2. /\ line \in Seq(Byte) /\ step \in 1 .. Len(Session) /\ faults \in Seq(FaultKinds)
        /\ rx \in Seq(Byte) /\ Len(Session) \in Nat /\ Len(Session) > 1
    BY SessionAssumption, ReadingAssumption, LenProperties DEF FInv, ReaderInv, TypeOK
  <1>3. Clean' => Clean
    BY <1>1, <1>2, FaultsCount
  <1>4. taken = <<>> /\ Ahead' = line
    <2>1. taken = <<>>
      BY <1>1 DEF FInv, ReaderInv, Progress, Reading, TypeOK
    <2> QED
      BY <1>1, <1>2, <2>1, ConcatEmptySeq DEF Ahead
  <1>5. pc' # "Done" /\ (step > 1 => pc' = "Failed")
    <2>1. step > 1 => Cmd.op # SYNC
      <3>1. step > 1 => step \in 2 .. Len(Session)
        BY <1>2
      <3> QED
        BY <3>1, SessionAssumption DEF Cmd
    <2> QED
      BY <1>1, <2>1 DEF CommandFailed
  <1>6. ASSUME Clean, step = 1
        PROVE  Coming'
    <2>1. ~stub /\ SyncsEnd(Ahead)
      BY <1>1, <1>6, AfterSyncs DEF FInv, Calling
    <2>2. Ahead = rx \o line
      BY <1>2, <1>4, ConcatTyped, ConcatEmptySeq DEF Ahead
    <2>3. SyncsEnd(line)
      BY <1>2, <2>1, <2>2, EndOfSyncs
    <2>4. step # Len(Session)
      BY <1>6, FirstNotLast
    <2>5. ~stub'
      BY <1>1, <2>1, <2>4 DEF Started
    <2> QED
      BY <1>2, <1>4, <2>3, <2>5 DEF Coming, Follows
  <1>7. Clean' /\ Calling' => Coming'
    <2>1. step = 1 \/ step > 1
      BY <1>2
    <2> QED
      BY <1>3, <1>5, <1>6, <2>1 DEF Calling
  <1> QED
    BY <1>5, <1>7 DEF FInv

\* readPacket goes on.
LEMMA GoOnComes ==
    ASSUME FInv, ReaderInv', FTyped', line' = line, Clean' => Clean,
           UNCHANGED <<stub, length>>, Reading,
           NEW n \in 0 .. Len(rx), NEW s, GoOn(s, n)
    PROVE  FInv'
  <1>1. TypeOK
    BY DEF FInv, ReaderInv
  <1>2. /\ UNCHANGED <<pc, step>> /\ taken' = taken \o SubSeq(rx, 1, n)
        /\ rx' = SubSeq(rx, n + 1, Len(rx))
    BY DEF GoOn
  <1>3. Ahead' = Ahead
    BY <1>1, <1>2, ReadsOn DEF Ahead
  <1>4. pc' \in {"Reply", "Drain"} /\ pc = pc'
    BY <1>2 DEF Reading
  <1>5. Coming => Coming'
    <2>1. Blocks' = Blocks
      BY SameSizes
    <2>2. Answers(step)' = Answers(step)
      BY <1>2 DEF Answers
    <2>3. \A e : Follows(e) => Follows(e)'
      BY <1>2, <1>3, <2>1, <2>2 DEF Follows
    <2> QED
      BY <2>3 DEF Coming
  <1> QED
    BY <1>4, <1>5 DEF FInv, Calling

\* What is left when readPacket returns is the end of what was there.
LEMMA LeftIsEnd ==
    ASSUME TypeOK, SyncsEnd(Ahead), line' = line, taken' = <<>>, NEW n \in 0 .. Len(rx),
           rx' = <<>> \/ rx' = SubSeq(rx, n + 1, Len(rx))
    PROVE  Ahead' \in Seq(Byte) /\ SyncsEnd(Ahead')
  <1> DEFINE x == SubSeq(rx, 1, n)
             y == SubSeq(rx, n + 1, Len(rx))
  <1>1. /\ x \in Seq(Byte) /\ y \in Seq(Byte)
        /\ Ahead = (taken \o x) \o (y \o line)
    BY ReadsOn
  <1>2. line \in Seq(Byte) /\ taken \in Seq(Byte)
    BY DEF TypeOK
  <1> DEFINE a == taken \o x
             b == y \o line
  <1>3. a \in Seq(Byte) /\ b \in Seq(Byte) /\ Ahead = a \o b
    BY <1>1, <1>2, ConcatTyped
  <1> HIDE DEF a, x
  <1>4. SyncsEnd(b)
    BY <1>3, EndOfSyncs
  <1>5. SyncsEnd(line)
    BY <1>1, <1>2, <1>4, EndOfSyncs
  <1>6. Ahead' = b \/ Ahead' = line
    <2>1. Ahead' = <<>> \o (rx' \o line)
      BY DEF Ahead
    <2>2. <<>> \o b = b /\ <<>> \o line = line /\ <<>> \o (<<>> \o line) = line
      BY <1>2, <1>3, ConcatEmptySeq
    <2> QED
      BY <2>1, <2>2
  <1> QED
    BY <1>2, <1>3, <1>4, <1>5, <1>6

\* A reply to a later command is accepted: it is the one that was sent, and what
\* is left are the blocks, if anything.
LEMMA AcceptedLeaves ==
    ASSUME FInv, Clean, pc = "Reply", step > 1, NEW n \in 0 .. Len(rx), state = "end",
           Accepted(step, taken \o SubSeq(rx, 1, n), hdr \o body)
    PROVE  LET t == SubSeq(rx, n + 1, Len(rx)) \o line
           IN  /\ t \in {<<>>, Blocks}
               /\ stub => t = <<>>
               /\ stub \/ t # <<>> => step = Len(Session)
  <1> DEFINE x == SubSeq(rx, 1, n)
             y == SubSeq(rx, n + 1, Len(rx))
             t == y \o line
             a == hdr \o body
  <1>1. TypeOK /\ line \in Seq(Byte) /\ step \in 2 .. Len(Session)
    <2>1. TypeOK /\ line \in Seq(Byte) /\ step \in 1 .. Len(Session) /\ Len(Session) \in Nat
      BY SessionAssumption, LenProperties DEF FInv, ReaderInv, TypeOK
    <2> QED
      BY <2>1
  <1>2. /\ x \in Seq(Byte) /\ y \in Seq(Byte)
        /\ Ahead = (taken \o x) \o (y \o line)
    BY <1>1, ReadsOn
  <1>3. t \in Seq(Byte)
    BY <1>1, <1>2, ConcatTyped
  <1>4. a \in Seq(Byte) /\ Len(a) >= 4
    <2>1. hdr \in Seq(Byte) /\ body \in Seq(Byte) /\ Len(hdr) = 8 /\ Len(body) \in Nat
      BY LenProperties DEF FInv, ReaderInv, TypeOK, Progress, HDR_LEN
    <2>2. a \in Seq(Byte) /\ Len(a) = Len(hdr) + Len(body)
      BY <2>1, ConcatProperties
    <2> QED
      BY <2>1, <2>2
  <1>5. /\ taken \o x = Packet(a)
        /\ SubSeq(a, 1, 4) = <<1, Session[step].op, 2, 0>>
    BY DEF Accepted
  <1> HIDE DEF a, x, y, t
  <1>6. a # <<>> /\ a[2] # SYNC
    <2>1. SubSeq(a, 1, 4) = <<a[1], a[2], a[3], a[4]>>
      BY <1>4, FirstFour
    <2>2. a[2] = Session[step].op
      BY <1>5, <2>1
    <2>3. Session[step].op # SYNC
      BY <1>1, SessionAssumption
    <2>4. a # <<>>
      BY <1>4, EmptySeq
    <2> QED
      BY <2>2, <2>3, <2>4
  <1>7. Ahead = Packet(a) \o t
    BY <1>2, <1>5 DEF t
  <1>8. PICK e \in Seq(Byte) : SyncsEnd(e) /\ Follows(e)
    BY DEF FInv, Calling, Coming
  <1>9. Ahead # e
    BY <1>3, <1>4, <1>6, <1>7, <1>8, NotAmongSyncs
  <1>10. PICK c \in Answers(step), w \in {<<>>, Blocks} :
            /\ Ahead = e \o (Packet(c) \o w)
            /\ stub => w = <<>>
            /\ stub \/ w # <<>> => step = Len(Session)
    BY <1>8, <1>9 DEF Follows
  <1>11. c \in Seq(Byte) /\ w \in Seq(Byte)
    <2>1. c \in Seq(Byte)
      BY <1>1, AnsweredAfterSyncs
    <2>2. Blocks \in Seq(Byte)
      <3>1. length \in Lengths
        BY DEF FInv, FTyped
      <3>2. 0 \in 0 .. BlkCnt
        BY <3>1, Sizes
      <3> QED
        BY <3>1, <3>2, FollowingBlocks
    <2>3. <<>> \in Seq(Byte)
      BY EmptySeq
    <2> QED
      BY <2>1, <2>2, <2>3
  <1>12. t = w
    <2>1. Alike(a, t, e, c, w)
      BY <1>7, <1>10 DEF Alike
    <2>2. /\ a \in Seq(Byte) /\ t \in Seq(Byte) /\ a # <<>> /\ a[2] # SYNC /\ e \in Seq(Byte)
          /\ SyncsEnd(e) /\ c \in Seq(Byte) /\ w \in Seq(Byte)
      BY <1>3, <1>4, <1>6, <1>8, <1>11
    <2> QED
      BY ONLY <2>1, <2>2, AcceptedIsFirst
  <1> QED
    BY <1>10, <1>12 DEF t, y

LEMMA ReturnComes ==
    ASSUME FInv, ReaderInv', FTyped', line' = line, Clean' => Clean, Reading,
           UNCHANGED <<stub, length, phase, blk, got, file>>,
           NEW n \in 0 .. Len(rx), NEW r, Return(r, n),
           r = "ok" => /\ state = "end"
                       /\ Accepted(step, taken \o SubSeq(rx, 1, n), hdr \o body)
    PROVE  FInv'
  <1>1. /\ TypeOK /\ Calling /\ pc # "Done" /\ (pc = "Drain" => step = 1) /\ line \in Seq(Byte)
    BY DEF FInv, ReaderInv, TypeOK, FTyped, Reading, Calling
  <1>2. \/ step = 1 /\ pc' \in {"Send", "Drain", "Failed"} /\ (pc' = "Drain" => step' = 1)
        \/ step > 1 /\ pc = "Reply" /\ r # "ok" /\ pc' = "Failed"
        \/ /\ step > 1 /\ pc = "Reply" /\ r = "ok" /\ NextCommand
           /\ rx' = SubSeq(rx, n + 1, Len(rx))
    BY <1>1, ReturnGoes
  <1>3. /\ taken' = <<>>
        /\ rx' = <<>> \/ rx' = SubSeq(rx, n + 1, Len(rx))
    BY DEF Return, Fresh
  <1>4. CASE step = 1 /\ pc' \in {"Send", "Drain", "Failed"}
    <2>1. ASSUME Clean
          PROVE  Coming'
      <3>1. ~stub /\ SyncsEnd(Ahead)
        BY <1>1, <1>4, <2>1, AfterSyncs DEF FInv
      <3>2. Ahead' \in Seq(Byte) /\ SyncsEnd(Ahead')
        BY <1>1, <1>3, <3>1, LeftIsEnd
      <3>3. PICK e \in Seq(Byte) : e = Ahead'
        BY <3>2
      <3>4. Follows(e)'
        BY <3>1, <3>3 DEF Follows
      <3> QED
        BY <3>2, <3>3, <3>4 DEF Coming
    <2> QED
      BY <1>4, <2>1 DEF FInv
  <1>5. CASE pc' = "Failed"
    BY <1>5 DEF FInv, Calling
  <1>6. CASE /\ step > 1 /\ pc = "Reply" /\ r = "ok" /\ NextCommand
             /\ rx' = SubSeq(rx, n + 1, Len(rx))
    <2> DEFINE t == SubSeq(rx, n + 1, Len(rx)) \o line
    <2>1. ASSUME Clean
          PROVE  /\ t \in {<<>>, Blocks} /\ (stub => t = <<>>)
                 /\ stub \/ t # <<>> => step = Len(Session)
      BY <1>6, <2>1, AcceptedLeaves
    <2>2. rx' \o line' = t
      BY <1>6
    <2> HIDE DEF t
    <2>3. CASE step < Len(Session)
      <3>1. pc' = "Send"
        BY <1>6, <2>3 DEF NextCommand
      <3>2. step # Len(Session)
        <4>1. step \in Nat /\ Len(Session) \in Nat
          BY <1>1, SessionAssumption, LenProperties DEF TypeOK
        <4> QED
          BY <2>3, <4>1
      <3>3. ASSUME Clean
            PROVE  Coming'
        <4>1. ~stub /\ t = <<>>
          BY <2>1, <3>2, <3>3
        <4>2. Ahead' = <<>>
          <5>1. <<>> \o <<>> = <<>>
            BY EmptySeq, ConcatEmptySeq
          <5> QED
            BY <1>3, <2>2, <4>1, <5>1 DEF Ahead
        <4>3. ~stub'
          BY <4>1
        <4>4. <<>> \in Seq(Byte) /\ SyncsEnd(<<>>)
          BY NoSyncs, EmptySeq
        <4>5. Follows(<<>>)'
          BY <4>2, <4>3 DEF Follows
        <4> QED
          BY <4>4, <4>5 DEF Coming
      <3> QED
        BY <3>1, <3>3 DEF FInv
    <2>4. CASE ~(step < Len(Session))
      <3>1. pc' = "Done"
        BY <1>6, <2>4 DEF NextCommand
      <3>2. phase = "start" /\ blk = 0 /\ got = 0 /\ length \in Lengths
        BY <1>1 DEF FInv, FTyped
      <3>3. file = <<>>
        <4>1. /\ file \in Seq(Byte)
              /\ Len(file) = (IF Place < length THEN Place ELSE length)
          BY DEF FInv, FTyped
        <4>2. BlkSize \in Nat /\ length \in Nat
          BY <3>2, Sizes
        <4>3. Place = 0
          <5>1. 0 * BlkSize + 0 = 0
            BY <4>2
          <5> QED
            BY <3>2, <5>1 DEF Place
        <4>4. Len(file) = 0
          BY <4>1, <4>2, <4>3
        <4> QED
          BY <4>1, <4>4, EmptySeq
      <3>4. file' = SubSeq(Content, 1, Len(file'))
        <4>1. SubSeq(Content, 1, 0) = <<>>
          <5>1. Content \in Seq(Byte) /\ Len(Content) \in Nat
            BY ReadingAssumption, LenProperties
          <5>2. 0 \in 0 .. Len(Content)
            BY <5>1
          <5>3. SubSeq(Content, 1, 0) \in Seq(Byte) /\ Len(SubSeq(Content, 1, 0)) = 0
            BY <5>1, <5>2, Halves
          <5> QED
            BY <5>3, EmptySeq
        <4>2. Len(<<>>) = 0
          BY EmptySeq
        <4> QED
          BY <3>3, <4>1, <4>2
      <3>5. ASSUME Clean
            PROVE  Right'
        <4>1. CASE t = <<>>
          BY <2>2, <3>2, <3>4, <4>1 DEF Right
        <4>2. CASE t # <<>>
          <5>1. ~stub' /\ t = Blocks
            BY <2>1, <3>5, <4>2
          <5>2. Following(0)' = Blocks
            BY <3>2, FollowingBlocks, SameSizes
          <5>3. rx' \o line' = Following(0)'
            BY <2>2, <5>1, <5>2
          <5>4. Following(0)' = Following(blk)'
            BY <3>2 DEF Following, Stream, Block
          <5> QED
            BY <3>2, <3>4, <5>1, <5>3, <5>4 DEF Right, BlocksLeft
        <4> QED
          BY <4>1, <4>2
      <3> QED
        BY <3>1, <3>5 DEF FInv, Calling
    <2> QED
      BY <2>3, <2>4
  <1> QED
    BY <1>2, <1>4, <1>5, <1>6

LEMMA CommandComes ==
    ASSUME FInv, ReaderInv', FTyped', Command
    PROVE  FInv'
  <1>1. Host /\ stub' = (stub \/ Started) /\ UNCHANGED <<length, phase, blk, got, file>>
    BY DEF Command
  <1>2. ReaderInv /\ stub \in BOOLEAN
    BY DEF FInv, FTyped
  <1>3. CASE pc = "Send" /\ (SendCommand \/ SendFails)
    BY <1>3, SendCommandComes, SendFailsComes
  <1>4. ASSUME Reading, line' = line, Clean' => Clean, NEW n \in 0 .. Len(rx), ReadStep(n)
        PROVE  FInv'
    <2>1. stub' = stub
      BY <1>1, <1>2, <1>4 DEF Started, Reading
    <2>2. CASE \E s : GoOn(s, n)
      BY <1>1, <1>4, <2>1, <2>2, GoOnComes
    <2>3. ASSUME NEW r, Return(r, n),
                 r = "ok" => /\ state = "end"
                             /\ Accepted(step, taken \o SubSeq(rx, 1, n), hdr \o body)
          PROVE  FInv'
      BY <1>1, <1>4, <2>1, <2>3, ReturnComes
    <2> QED
      BY <1>4, <2>2, <2>3 DEF ReadStep
  <1> QED
    BY <1>1, <1>2, <1>3, <1>4, HostSteps

LEMMA StubSendsComes ==
    ASSUME FInv, StubSends
    PROVE  FInv'
  <1>1. /\ stub /\ ~stub' /\ stub' \in BOOLEAN /\ line' = line \o Blocks
        /\ UNCHANGED <<pc, step, syncs, state, hdr, body, taken, last, rx, faults>>
        /\ UNCHANGED <<length, phase, blk, got, file>>
    BY DEF StubSends, caller, reader
  <1>2. /\ ReaderInv /\ FTyped /\ rx \in Seq(Byte) /\ line \in Seq(Byte) /\ taken \in Seq(Byte)
        /\ faults \in Seq(FaultKinds) /\ Len(faults) <= MaxFaults /\ length \in Lengths
    BY DEF FInv, FTyped, ReaderInv, TypeOK
  <1>3. Following(0) = Blocks /\ Blocks \in Seq(Byte)
    <2>1. 0 \in 0 .. BlkCnt
      BY <1>2, Sizes
    <2> QED
      BY <1>2, <2>1, FollowingBlocks
  <1>4. BlkSize' = BlkSize /\ BlkCnt' = BlkCnt /\ Blocks' = Blocks /\ Following(0)' = Following(0)
    BY <1>1, SameSizes
  <1>5. ReaderInv'
    <2>1. line' \in Seq(Byte)
      BY <1>1, <1>2, <1>3, ConcatTyped
    <2> QED
      BY <1>1, <1>2, <2>1, LineKeeps
  <1>6. FTyped'
    <2>1. Place' = Place
      BY <1>1, <1>4 DEF Place
    <2> QED
      BY <1>1, <1>2, <1>4, <2>1 DEF FTyped
  <1>7. Clean' <=> Clean
    BY <1>1 DEF Clean
  <1>8. ASSUME Clean, Calling
        PROVE  Coming'
    <2>1. PICK e \in Seq(Byte) : SyncsEnd(e) /\ Follows(e)
      BY <1>8 DEF FInv, Coming
    <2>2. PICK c \in Answers(step) :
              /\ pc = "Reply" /\ step > 1 /\ Ahead = e \o (Packet(c) \o <<>>)
              /\ step = Len(Session)
      BY <1>1, <2>1 DEF Follows
    <2>3. c \in Seq(Byte) /\ Packet(c) \in Seq(Byte)
      <3>1. step \in 1 .. Len(Session)
        BY <1>2 DEF ReaderInv, TypeOK
      <3> QED
        BY <3>1, AnswerContents, PacketTyped
    <2>4. Ahead' = e \o (Packet(c) \o Blocks)
      <3> DEFINE p == Packet(c)
      <3>1. Ahead = e \o p /\ p \in Seq(Byte)
        BY <2>2, <2>3, ConcatEmptySeq
      <3> HIDE DEF p
      <3>2. /\ rx \o line \in Seq(Byte)
            /\ rx \o (line \o Blocks) = (rx \o line) \o Blocks
        BY <1>2, <1>3, ConcatTyped, Reassociated
      <3>3. taken \o ((rx \o line) \o Blocks) = (taken \o (rx \o line)) \o Blocks
        BY <1>2, <1>3, <3>2, Reassociated
      <3>4. e \o (p \o Blocks) = (e \o p) \o Blocks
        BY <1>3, <3>1, Reassociated
      <3>5. Ahead' = taken \o (rx \o (line \o Blocks))
        BY <1>1 DEF Ahead
      <3> QED
        BY <3>1, <3>2, <3>3, <3>4, <3>5 DEF Ahead, p
    <2>5. Follows(e)'
      <3>1. c \in Answers(step)' /\ Blocks' = Blocks /\ step' = Len(Session)' /\ pc' = "Reply"
            /\ step' > 1
        BY <1>1, <1>4, <2>2 DEF Answers
      <3> QED
        BY <1>1, <2>4, <3>1 DEF Follows
    <2> QED
      BY <2>1, <2>5 DEF Coming
  <1>9. ASSUME Clean, pc = "Done"
        PROVE  Right'
    <2>1. Right
      BY <1>9 DEF FInv
    <2>2. CASE phase \in {"start", "data", "end"}
      <3>1. phase = "start" /\ blk = 0 /\ rx \o line = <<>>
        BY <1>1, <2>1, <2>2 DEF Right
      <3>2. rx' \o line' = Blocks
        <4>1. rx' \o line' = (rx \o line) \o Blocks
          BY <1>1, <1>2, <1>3, Reassociated
        <4> QED
          BY <1>3, <3>1, <4>1, ConcatEmptySeq
      <3>3. Following(0)' = Following(blk)'
        BY <1>1, <3>1 DEF Following, Stream, Block
      <3>4. rx' \o line' = Following(blk)'
        BY <1>3, <1>4, <3>2, <3>3
      <3> QED
        BY <1>1, <2>1, <3>1, <3>4 DEF Right, BlocksLeft
    <2>3. CASE phase \notin {"start", "data", "end"}
      BY <1>1, <2>1, <2>3 DEF Right
    <2> QED
      BY <2>2, <2>3
  <1> QED
    BY <1>1, <1>5, <1>6, <1>7, <1>8, <1>9 DEF FInv, Calling

LEMMA DeliverComes ==
    ASSUME FInv, Deliver
    PROVE  FInv'
  <1>1. /\ Arrive /\ UNCHANGED <<length, stub, phase, blk, got, file>>
        /\ UNCHANGED <<pc, step, syncs, state, hdr, body, taken, last, faults>>
    BY DEF Deliver, stream, Arrive
  <1>2. ReaderInv /\ FTyped /\ rx \in Seq(Byte) /\ line \in Seq(Byte)
    BY DEF FInv, ReaderInv, TypeOK
  <1>3. ReaderInv'
    BY <1>1, <1>2, ReaderStep DEF Next
  <1>4. rx' \o line' = rx \o line
    BY <1>1, <1>2, ArrivedByte DEF Arrive
  <1>5. /\ BlkSize' = BlkSize /\ BlkCnt' = BlkCnt /\ Blocks' = Blocks
        /\ \A i : Block(i)' = Block(i) /\ Following(i)' = Following(i)
    BY <1>1, SameSizes
  <1>6. FTyped'
    <2>1. Place' = Place
      BY <1>1, <1>5 DEF Place
    <2> QED
      BY <1>1, <1>2, <1>5, <2>1 DEF FTyped
  <1>7. Coming => Coming'
    <2>1. Ahead' = Ahead
      BY <1>1, <1>4 DEF Ahead
    <2>2. Answers(step)' = Answers(step)
      BY <1>1 DEF Answers
    <2>3. \A e : Follows(e) => Follows(e)'
      BY <1>1, <1>5, <2>1, <2>2 DEF Follows
    <2> QED
      BY <2>3 DEF Coming
  <1>8. Right => Right'
    <2>1. BlocksLeft => BlocksLeft'
      <3>1. Following(blk)' = Following(blk) /\ Following(blk + 1)' = Following(blk + 1)
        BY <1>1, <1>5 DEF Following, Stream, Block
      <3>2. EndFrom(Block(blk + 1), got)' = EndFrom(Block(blk + 1), got)
        BY <1>1, <1>5 DEF EndFrom, Block
      <3> QED
        BY <1>1, <1>4, <3>1, <3>2 DEF BlocksLeft
    <2> QED
      BY <1>1, <1>4, <2>1 DEF Right
  <1>9. Clean' = Clean /\ Calling' = Calling /\ pc' = pc
    BY <1>1 DEF Clean, Calling
  <1> QED
    BY <1>3, <1>6, <1>7, <1>8, <1>9 DEF FInv

-----------------------------------------------------------------------------
(* Reading the blocks *)

\* What is known of a step of readByte that takes n bytes.
LEMMA TakeSame ==
    ASSUME FInv, NEW n, Take(n), UNCHANGED <<length, stub>>
    PROVE  /\ pc = "Done" /\ pc' = "Done" /\ ~Calling' /\ Clean' = Clean
           /\ rx' = SubSeq(rx, n + 1, Len(rx)) /\ line' = line
           /\ rx \in Seq(Byte) /\ line \in Seq(Byte) /\ Len(rx) \in Nat
           /\ length \in Lengths
           /\ \A i : Block(i)' = Block(i) /\ Following(i)' = Following(i)
  <1>1. pc = "Done" /\ UNCHANGED <<pc, line, faults>> /\ rx' = SubSeq(rx, n + 1, Len(rx))
    BY DEF Take, Reader, caller
  <1>2. rx \in Seq(Byte) /\ line \in Seq(Byte) /\ Len(rx) \in Nat /\ length \in Lengths
    BY LenProperties DEF FInv, ReaderInv, TypeOK, FTyped
  <1>3. Clean' = Clean /\ ~Calling'
    BY <1>1 DEF Clean, Calling
  <1> QED
    BY <1>1, <1>2, <1>3, SameSizes

LEMMA FrameTaken ==
    ASSUME NEW q \in Seq(Byte), NEW w \in Seq(Byte), NEW t \in Seq(Byte), Len(q) >= 1,
           q \o w = << 192 >> \o t
    PROVE  SubSeq(q, 2, Len(q)) \o w = t
  <1> DEFINE x == << 192 >>
  <1>1. x \in Seq(Byte) /\ Len(x) = 1
    BY DEF Byte
  <1>2. q \o w = x \o t
    OBVIOUS
  <1> HIDE DEF x
  <1>3. Begins(q, w, x, t)
    BY <1>1, <1>2 DEF Begins
  <1>4. Taken(q, w, x, t)
    BY <1>1, <1>3, FirstTaken, Zenon
  <1>5. Len(x) + 1 = 2
    BY <1>1
  <1> QED
    BY <1>4, <1>5 DEF Taken

\* A block, and what follows it.
LEMMA BlockNext ==
    ASSUME length \in Lengths, NEW i \in Nat, i < BlkCnt
    PROVE  /\ Block(i + 1) \in Seq(Byte) /\ Len(Block(i + 1)) = BlkSize
           /\ EndFrom(Block(i + 1), 0) \in Seq(Byte) /\ Following(i + 1) \in Seq(Byte)
           /\ EndFrom(Block(i + 1), 0) \o Following(i + 1) \in Seq(Byte)
           /\ Following(i) = << 192 >> \o (EndFrom(Block(i + 1), 0) \o Following(i + 1))
           /\ EndFrom(Block(i + 1), BlkSize) = << 192 >>
  <1> DEFINE b == Block(i + 1)
  <1>1. b \in Seq(Byte) /\ Len(b) = BlkSize
    BY BlockBytes
  <1>2. i + 1 \in 0 .. BlkCnt
    BY Sizes
  <1>3. Following(i + 1) \in Seq(Byte)
    BY <1>2, FollowingBlocks
  <1>4. Following(i) = (<< 192 >> \o EndFrom(b, 0)) \o Following(i + 1)
    BY FollowingBlocks
  <1> HIDE DEF b
  <1>5. << 192 >> \in Seq(Byte) /\ EndFrom(b, 0) \in Seq(Byte) /\ EndFrom(b, BlkSize) = << 192 >>
    BY <1>1, PacketParts, NextOf
  <1> DEFINE x == << 192 >>
             e == EndFrom(b, 0)
             f == Following(i + 1)
  <1>6. x \in Seq(Byte) /\ e \in Seq(Byte) /\ f \in Seq(Byte)
    BY <1>3, <1>5
  <1>7. (x \o e) \o f = x \o (e \o f) /\ e \o f \in Seq(Byte)
    BY ONLY <1>6, Reassociated, ConcatTyped
  <1> QED
    BY <1>1, <1>3, <1>4, <1>5, <1>7 DEF b

LEMMA StartMarkerComes ==
    ASSUME FInv, StartMarker
    PROVE  FInv'
  <1>1. /\ phase = "start" /\ Take(1) /\ Len(rx) >= 1
        /\ phase' = (IF rx[1] = 192 THEN "data" ELSE "failed")
        /\ UNCHANGED <<length, stub, blk, got, file>>
    BY DEF StartMarker, Take, Wants
  <1>2. FTyped' /\ ReaderInv'
    BY MarkerTyped DEF FInv
  <1>3. /\ pc = "Done" /\ pc' = "Done" /\ ~Calling' /\ Clean' = Clean
        /\ rx' = SubSeq(rx, 1 + 1, Len(rx)) /\ line' = line
        /\ rx \in Seq(Byte) /\ line \in Seq(Byte) /\ Len(rx) \in Nat
        /\ length \in Lengths
        /\ \A i : Block(i)' = Block(i) /\ Following(i)' = Following(i)
    BY <1>1, TakeSame
  <1>4. ASSUME Clean
        PROVE  Right'
    <2>1. Right
      BY <1>3, <1>4 DEF FInv
    <2>2. CASE phase' = "failed"
      BY <1>1, <2>1, <2>2 DEF Right
    <2>3. CASE phase' = "data"
      <3>1. rx \o line # <<>>
        <4>1. Len(rx \o line) = Len(rx) + Len(line) /\ Len(line) \in Nat
          BY <1>3, ConcatProperties, LenProperties
        <4>2. Len(rx \o line) # 0
          BY <1>1, <1>3, <4>1
        <4> QED
          BY <4>2, EmptySeq
      <3>2. ~stub /\ rx \o line = Following(blk)
        BY <1>1, <2>1, <3>1 DEF Right, BlocksLeft
      <3>3. blk \in Nat /\ blk < BlkCnt /\ got = 0
        BY <1>1 DEF FInv, FTyped
      <3> DEFINE t == EndFrom(Block(blk + 1), 0) \o Following(blk + 1)
      <3>4. t \in Seq(Byte) /\ rx \o line = << 192 >> \o t
        BY <1>3, <3>2, <3>3, BlockNext
      <3> HIDE DEF t
      <3>5. rx' \o line' = t
        <4>1. SubSeq(rx, 2, Len(rx)) \o line = t
          BY <1>1, <1>3, <3>4, FrameTaken
        <4> QED
          BY <1>3, <4>1
      <3>6. t = EndFrom(Block(blk + 1), got)' \o Following(blk + 1)'
        <4>1. Following(blk + 1)' = Following(blk + 1)
          BY <1>1, <1>3 DEF Following, Stream, Block
        <4>2. EndFrom(Block(blk + 1), got)' = EndFrom(Block(blk + 1), 0)
          BY <1>1, <1>3, <3>3 DEF EndFrom, Block
        <4> QED
          BY <4>1, <4>2 DEF t
      <3> QED
        BY <1>1, <2>1, <2>3, <3>2, <3>5, <3>6 DEF Right, BlocksLeft
    <2> QED
      BY <1>1, <2>2, <2>3
  <1> QED
    BY <1>2, <1>3, <1>4 DEF FInv

LEMMA EndMarkerComes ==
    ASSUME FInv, EndMarker
    PROVE  FInv'
  <1>1. /\ phase = "end" /\ Take(1) /\ Len(rx) >= 1 /\ UNCHANGED <<length, stub, file>>
    BY DEF EndMarker, Take, Wants
  <1>2. FTyped' /\ ReaderInv'
    BY MarkerTyped DEF FInv
  <1>3. /\ pc = "Done" /\ pc' = "Done" /\ ~Calling' /\ Clean' = Clean
        /\ rx' = SubSeq(rx, 1 + 1, Len(rx)) /\ line' = line
        /\ rx \in Seq(Byte) /\ line \in Seq(Byte) /\ Len(rx) \in Nat
        /\ length \in Lengths
        /\ \A i : Block(i)' = Block(i) /\ Following(i)' = Following(i)
    BY <1>1, TakeSame
  <1>4. ASSUME Clean
        PROVE  Right'
    <2>1. Right
      BY <1>3, <1>4 DEF FInv
    <2>2. file' = SubSeq(Content, 1, Len(file'))
      BY <1>1, <2>1 DEF Right
    <2>3. CASE phase' \notin {"start", "data", "end"}
      BY <2>2, <2>3 DEF Right
    <2>4. CASE phase' \in {"start", "data", "end"}
      <3>1. phase' = "start" /\ blk' = blk + 1
        BY <2>4 DEF EndMarker
      <3>2. ~stub /\ rx \o line = << 192 >> \o Following(blk + 1)
        BY <1>1, <2>1 DEF Right, BlocksLeft
      <3>3. blk \in Nat /\ blk < BlkCnt
        BY <1>1 DEF FInv, FTyped
      <3> DEFINE t == Following(blk + 1)
      <3>4. t \in Seq(Byte)
        BY <1>3, <3>3, BlockNext
      <3> HIDE DEF t
      <3>5. rx' \o line' = t
        <4>1. SubSeq(rx, 2, Len(rx)) \o line = t
          BY <1>1, <1>3, <3>2, <3>4, FrameTaken DEF t
        <4> QED
          BY <1>3, <4>1
      <3>6. Following(blk)' = t
        BY <1>1, <1>3, <3>1 DEF t, Following, Stream, Block
      <3> QED
        BY <1>1, <2>2, <3>1, <3>2, <3>5, <3>6 DEF Right, BlocksLeft
    <2> QED
      BY <2>3, <2>4
  <1> QED
    BY <1>2, <1>3, <1>4 DEF FInv

LEMMA OneMoreTaken ==
    ASSUME NEW S, NEW c \in Seq(S), NEW n \in Nat, n < Len(c)
    PROVE  Append(SubSeq(c, 1, n), c[n + 1]) = SubSeq(c, 1, n + 1)
  <1>1. Len(c) \in Nat /\ n \in 0 .. Len(c) /\ n + 1 \in 0 .. Len(c) /\ n + 1 \in 1 .. Len(c)
    BY LenProperties
  <1> DEFINE s == SubSeq(c, 1, n)
             t == SubSeq(c, 1, n + 1)
  <1>2. s \in Seq(S) /\ Len(s) = n /\ t \in Seq(S) /\ Len(t) = n + 1
    BY <1>1, Halves
  <1>3. /\ \A i \in 1 .. n - 0 : SubSeq(c, 0 + 1, n)[i] = c[0 + i]
        /\ \A i \in 1 .. (n + 1) - 0 : SubSeq(c, 0 + 1, n + 1)[i] = c[0 + i]
    <2>1. 0 \in 0 .. Len(c) /\ n \in 0 .. Len(c) /\ n + 1 \in 0 .. Len(c)
      BY <1>1
    <2> QED
      BY <2>1, Slice
  <1>4. /\ \A i \in 1 .. n : s[i] = c[i]
        /\ \A i \in 1 .. n + 1 : t[i] = c[i]
    BY <1>3
  <1> HIDE DEF s, t
  <1>5. c[n + 1] \in S /\ t[Len(s) + 1] = c[n + 1] /\ Len(t) = Len(s) + 1
        /\ \A i \in 1 .. Len(s) : t[i] = s[i]
    BY <1>1, <1>2, <1>4
  <1>6. t = Append(s, c[n + 1])
    BY <1>2, <1>5, LastAppended
  <1> QED
    BY <1>6 DEF s, t

LEMMA DataByteComes ==
    ASSUME FInv, DataByte
    PROVE  FInv'
  <1> DEFINE b == SlipByte(rx)
             g == Block(blk + 1)
             f == Following(blk + 1)
  <1>1. phase = "data" /\ Len(rx) >= 2 /\ Take(b.used) /\ UNCHANGED <<length, stub, blk>>
    BY DEF DataByte, Wants
  <1>2. FTyped' /\ ReaderInv'
    BY DataTyped DEF FInv
  <1>3. /\ pc = "Done" /\ pc' = "Done" /\ ~Calling' /\ Clean' = Clean
        /\ rx' = SubSeq(rx, b.used + 1, Len(rx)) /\ line' = line
        /\ rx \in Seq(Byte) /\ line \in Seq(Byte) /\ Len(rx) \in Nat
        /\ length \in Lengths
        /\ \A i : Block(i)' = Block(i) /\ Following(i)' = Following(i)
    BY <1>1, TakeSame
  <1>4. /\ blk \in Nat /\ blk < BlkCnt /\ got \in Nat /\ got < BlkSize /\ BlkSize \in Nat
        /\ length \in Nat /\ Len(Content) \in Nat /\ Content \in Seq(Byte)
        /\ length <= Len(Content)
    <2>1. /\ BlkSize \in Nat \ {0} /\ length \in Nat /\ Len(Content) \in Nat
          /\ BLK \in Nat /\ length + BLK <= Len(Content) /\ Content \in Seq(Byte)
      BY <1>3, Sizes, ReadingAssumption
    <2>2. blk \in Nat /\ blk < BlkCnt /\ got \in Nat /\ got < BlkSize
      BY <1>1, <2>1 DEF FInv, FTyped
    <2> QED
      BY <2>1, <2>2
  <1>5. /\ g \in Seq(Byte) /\ Len(g) = BlkSize /\ f \in Seq(Byte)
        /\ EndFrom(g, BlkSize) = << 192 >>
    BY <1>3, <1>4, BlockNext
  <1>6. ASSUME Clean
        PROVE  Right'
    <2>1. Right
      BY <1>3, <1>6 DEF FInv
    <2>2. ~stub /\ rx \o line = EndFrom(g, got) \o f
      BY <1>1, <2>1 DEF Right, BlocksLeft
    <2> HIDE DEF g, f
    <2>3. g[got + 1] \in Byte /\ Decoded(rx, line, g[got + 1], EndFrom(g, got + 1) \o f)
      <3>1. Left(rx, line, g, got, f)
        BY <2>2 DEF Left
      <3> QED
        BY <1>1, <1>3, <1>4, <1>5, <3>1, DecodesOf
    <2>4. /\ b.stat \in {1, 2} /\ b.byte = g[got + 1]
          /\ rx' \o line' = EndFrom(g, got + 1) \o f
      BY <1>3, <2>3 DEF Decoded
    <2>5. /\ got' = got + 1
          /\ phase' = (IF got + 1 = BlkSize THEN "end" ELSE "data")
          /\ file' = (IF Place < length THEN Append(file, b.byte) ELSE file)
      BY <2>4 DEF DataByte, Stored, Place
    <2> HIDE DEF b
    <2>6. file' = SubSeq(Content, 1, Len(file'))
      <3>1. file = SubSeq(Content, 1, Len(file)) /\ file \in Seq(Byte)
            /\ Len(file) = (IF Place < length THEN Place ELSE length)
        BY <2>1 DEF Right, FInv, FTyped
      <3>2. CASE Place < length
        <4>1. Place \in Nat
          BY <1>4, Products DEF Place
        <4>2. g[got + 1] = Content[Place + 1]
          <5>1. got + 1 \in 1 .. BlkSize
            BY <1>4
          <5>2. g[got + 1] = Content[blk * BlkSize + (got + 1)] /\ blk * BlkSize \in Nat
            BY <1>3, <1>4, <5>1, BlockBytes DEF g
          <5>3. blk * BlkSize + (got + 1) = Place + 1
            <6> DEFINE p == blk * BlkSize
            <6>1. p \in Nat
              BY <5>2
            <6> HIDE DEF p
            <6>2. p + (got + 1) = (p + got) + 1
              BY <1>4, <6>1
            <6> QED
              BY <6>2 DEF p, Place
          <5> QED
            BY <5>2, <5>3
        <4>3. Append(SubSeq(Content, 1, Place), Content[Place + 1]) = SubSeq(Content, 1, Place + 1)
          <5>1. Place < Len(Content)
            BY <1>4, <3>2, <4>1
          <5> QED
            BY <1>4, <4>1, <5>1, OneMoreTaken
        <4>4. file' = SubSeq(Content, 1, Place + 1)
          BY <2>4, <2>5, <3>1, <3>2, <4>2, <4>3
        <4>5. Len(file') = Place + 1
          <5>1. Len(Append(file, b.byte)) = Len(file) + 1
            BY <2>3, <2>4, <3>1, AppendProperties
          <5> QED
            BY <2>5, <3>1, <3>2, <5>1
        <4> QED
          BY <4>4, <4>5
      <3>3. CASE ~(Place < length)
        BY <2>5, <3>1, <3>3
      <3> QED
        BY <3>2, <3>3
    <2>7. BlocksLeft'
      <3>1. Following(blk + 1)' = f
        BY <1>1, <1>3 DEF f, Following, Stream, Block
      <3>2. CASE got + 1 = BlkSize
        <4>1. EndFrom(g, got + 1) = << 192 >>
          BY <1>5, <3>2
        <4> QED
          BY <2>4, <2>5, <3>1, <3>2, <4>1 DEF BlocksLeft
      <3>3. CASE got + 1 # BlkSize
        <4>1. EndFrom(Block(blk + 1), got)' = EndFrom(g, got + 1)
          BY <1>1, <1>3, <2>5 DEF EndFrom, Block, g
        <4> QED
          BY <2>4, <2>5, <3>1, <3>3, <4>1 DEF BlocksLeft
      <3> QED
        BY <3>2, <3>3
    <2> QED
      BY <1>1, <2>2, <2>6, <2>7 DEF Right
  <1> QED
    BY <1>2, <1>3, <1>6 DEF FInv

LEMMA ByteTimeoutComes ==
    ASSUME FInv, ByteTimeout
    PROVE  FInv'
  <1>1. /\ phase' = "failed" /\ pc = "Done" /\ UNCHANGED <<length, stub, blk, got, file>>
        /\ UNCHANGED <<pc, step, syncs, state, hdr, body, taken, last, rx, line>>
        /\ UNCHANGED faults \/ Fault("late")
    BY DEF ByteTimeout, Reader, caller, reader
  <1>2. /\ ReaderInv /\ FTyped /\ rx \in Seq(Byte) /\ line \in Seq(Byte)
        /\ faults \in Seq(FaultKinds) /\ Len(faults) <= MaxFaults
    BY DEF FInv, ReaderInv, TypeOK
  <1>3. faults' \in Seq(FaultKinds) /\ Len(faults') <= MaxFaults
    BY <1>1, <1>2, FaultTyped
  <1>4. ReaderInv'
    BY <1>1, <1>2, <1>3, LineKeeps
  <1>5. FTyped'
    <2>1. BlkSize' = BlkSize /\ BlkCnt' = BlkCnt
      BY <1>1, SameSizes
    <2>2. Place' = Place
      BY <1>1, <2>1 DEF Place
    <2> QED
      BY <1>1, <1>2, <2>1, <2>2 DEF FTyped
  <1>6. Clean' => Clean
    BY <1>1, <1>2, FaultsCount DEF Clean
  <1>7. ASSUME Clean
        PROVE  Right'
    <2>1. Right
      BY <1>1, <1>7 DEF FInv
    <2> QED
      BY <1>1, <2>1 DEF Right
  <1>8. ~Calling'
    BY <1>1 DEF Calling
  <1> QED
    BY <1>4, <1>5, <1>6, <1>7, <1>8 DEF FInv

LEMMA DisturbComes ==
    ASSUME FInv, Disturb
    PROVE  FInv'
  <1>1. /\ Environment /\ UNCHANGED <<length, stub, phase, blk, got, file>>
        /\ UNCHANGED <<pc, step>>
    BY DEF Disturb, stream, Environment, LoseByte, SpoilByte, StrayByte
  <1>2. ReaderInv /\ FTyped /\ faults \in Seq(FaultKinds)
    BY DEF FInv, ReaderInv, TypeOK
  <1>3. ReaderInv'
    BY <1>1, <1>2, ReaderStep DEF Next
  <1>4. FTyped'
    <2>1. BlkSize' = BlkSize /\ BlkCnt' = BlkCnt
      BY <1>1, SameSizes
    <2>2. Place' = Place
      BY <1>1, <2>1 DEF Place
    <2> QED
      BY <1>1, <1>2, <2>1, <2>2 DEF FTyped
  <1>5. ~Clean'
    <2>1. \E f \in ByteFaults : Fault(f)
      BY <1>1 DEF Environment, LoseByte, SpoilByte, StrayByte, ByteFaults
    <2> QED
      BY <1>2, <2>1, FaultsCount
  <1> QED
    BY <1>3, <1>4, <1>5 DEF FInv

LEMMA StillComes ==
    ASSUME FInv, UNCHANGED fvars
    PROVE  FInv'
  <1>1. /\ UNCHANGED <<pc, step, syncs, state, hdr, body, taken, last, rx, line, faults>>
        /\ UNCHANGED <<length, stub, phase, blk, got, file>>
    BY DEF fvars, vars, stream
  <1>2. ReaderInv'
    <2>1. ReaderInv /\ UNCHANGED vars
      BY <1>1 DEF FInv, vars
    <2> QED
      BY <2>1, ReaderStep
  <1>3. /\ BlkSize' = BlkSize /\ BlkCnt' = BlkCnt /\ Blocks' = Blocks
        /\ \A i : Block(i)' = Block(i) /\ Following(i)' = Following(i)
    BY <1>1, SameSizes
  <1>4. FTyped => FTyped'
    <2>1. Place' = Place
      BY <1>1, <1>3 DEF Place
    <2> QED
      BY <1>1, <1>3, <2>1 DEF FTyped
  <1>5. Coming => Coming'
    <2>1. Ahead' = Ahead /\ Answers(step)' = Answers(step)
      BY <1>1 DEF Ahead, Answers
    <2>2. \A e : Follows(e) => Follows(e)'
      BY <1>1, <1>3, <2>1 DEF Follows
    <2> QED
      BY <2>2 DEF Coming
  <1>6. Right => Right'
    <2>1. BlocksLeft => BlocksLeft'
      <3>1. Following(blk)' = Following(blk) /\ Following(blk + 1)' = Following(blk + 1)
        BY <1>1, <1>3 DEF Following, Stream, Block
      <3>2. EndFrom(Block(blk + 1), got)' = EndFrom(Block(blk + 1), got)
        BY <1>1, <1>3 DEF EndFrom, Block
      <3> QED
        BY <1>1, <3>1, <3>2 DEF BlocksLeft
    <2> QED
      BY <1>1, <2>1 DEF Right
  <1>7. Clean' = Clean /\ Calling' = Calling /\ pc' = pc
    BY <1>1 DEF Clean, Calling
  <1> QED
    BY <1>2, <1>4, <1>5, <1>6, <1>7 DEF FInv

LEMMA ReadingInit == FInit => FInv
  <1> SUFFICES ASSUME FInit PROVE FInv
    OBVIOUS
  <1>1. Init /\ length \in Lengths /\ stub = FALSE /\ phase = "start" /\ blk = 0 /\ got = 0
        /\ file = <<>>
    BY DEF FInit
  <1>2. pc = "Send" /\ step = 1 /\ taken = <<>> /\ rx = <<>> /\ line = <<>>
    BY <1>1 DEF Init
  <1>3. BlkSize \in Nat \ {0} /\ BlkCnt \in Nat \ {0} /\ length \in Nat \ {0}
    BY <1>1, Sizes, ReadingAssumption
  <1>4. FTyped
    <2>1. file \in Seq(Byte) /\ Len(file) = 0
      BY <1>1, EmptySeq
    <2>2. Place = 0
      <3>1. 0 * BlkSize + 0 = 0
        BY <1>3
      <3> QED
        BY <1>1, <3>1 DEF Place
    <2>3. /\ blk \in 0 .. BlkCnt /\ got \in 0 .. BlkSize /\ blk < BlkCnt
          /\ Len(file) = (IF Place < length THEN Place ELSE length)
      BY <1>1, <1>3, <2>1, <2>2
    <2>4. ~stub /\ stub \in BOOLEAN
      BY <1>1
    <2> QED
      BY <1>1, <1>2, <2>1, <2>3, <2>4 DEF FTyped
  <1>5. Coming
    <2>1. <<>> \in Seq(Byte) /\ Ahead = <<>>
      <3>1. <<>> \o <<>> = <<>>
        BY EmptySeq, ConcatEmptySeq
      <3> QED
        BY <1>2, <3>1, EmptySeq DEF Ahead
    <2>2. Follows(<<>>)
      BY <1>1, <2>1 DEF Follows
    <2> QED
      BY <2>1, <2>2, NoSyncs DEF Coming
  <1> QED
    BY <1>1, <1>2, <1>4, <1>5, ReaderInit DEF FInv

LEMMA ReadingStep == FInv /\ [FNext]_fvars => FInv'
  <1> SUFFICES ASSUME FInv, [FNext]_fvars PROVE FInv'
    OBVIOUS
  <1>1. CASE Command
    <2>1. ReaderInv /\ FTyped /\ Host
      BY <1>1 DEF FInv, Command
    <2>2. ReaderInv'
      BY <2>1, ReaderStep DEF Next
    <2>3. FTyped'
      BY <1>1, <2>1, CommandTyped
    <2> QED
      BY <1>1, <2>2, <2>3, CommandComes
  <1>2. CASE StubSends
    BY <1>2, StubSendsComes
  <1>3. CASE Deliver
    BY <1>3, DeliverComes
  <1>4. CASE Disturb
    BY <1>4, DisturbComes
  <1>5. CASE StartMarker
    BY <1>5, StartMarkerComes
  <1>6. CASE DataByte
    BY <1>6, DataByteComes
  <1>7. CASE EndMarker
    BY <1>7, EndMarkerComes
  <1>8. CASE ByteTimeout
    BY <1>8, ByteTimeoutComes
  <1>9. CASE UNCHANGED fvars
    BY <1>9, StillComes
  <1> QED
    BY <1>1, <1>2, <1>3, <1>4, <1>5, <1>6, <1>7, <1>8, <1>9 DEF FNext, HostReads

LEMMA ReadingInvariant == FSpec => []FInv
  <1> QED
    BY ReadingInit, ReadingStep, PTL DEF FSpec

\* While the line spoils no byte, whatever else goes wrong and however the bytes
\* are spread over time, what FlashRead has written to the file is at every
\* moment a first part of what was asked for, and all of it when it reports
\* success (esp.cpp:379), for every content of the Flash, every length and every
\* size of the blocks.
THEOREM FileReadIsFlash == FSpec => []FileIsFlash
  <1>1. FInv => FileIsFlash
    <2> SUFFICES ASSUME FInv, Clean
                 PROVE  IsPrefix(file, Asked) /\ (phase = "done" => file = Asked)
      BY DEF FileIsFlash
    <2>1. /\ length \in Nat /\ Len(Content) \in Nat /\ length <= Len(Content)
          /\ Content \in Seq(Byte) /\ BlkSize \in Nat /\ BlkCnt \in Nat
          /\ length <= BlkCnt * BlkSize
      <3>1. length \in Lengths
        BY DEF FInv, FTyped
      <3>2. /\ length \in Nat /\ Len(Content) \in Nat
            /\ BLK \in Nat /\ length + BLK <= Len(Content) /\ Content \in Seq(Byte)
            /\ BlkSize \in Nat /\ BlkCnt \in Nat /\ length <= BlkCnt * BlkSize
        BY <3>1, Sizes, ReadingAssumption
      <3> QED
        BY <3>2
    <2>2. /\ file \in Seq(Byte) /\ Len(file) = (IF Place < length THEN Place ELSE length)
          /\ blk \in Nat /\ got \in Nat
          /\ phase = "done" => blk = BlkCnt /\ got = 0
          /\ pc # "Done" => phase = "start" /\ blk = 0 /\ got = 0
      BY <2>1 DEF FInv, FTyped
    <2>3. Place \in Nat
      BY <2>1, <2>2, Products DEF Place
    <2>4. Len(file) \in 0 .. length
      BY <2>1, <2>2, <2>3
    <2>5. file = SubSeq(Content, 1, Len(file))
      <3>1. CASE pc = "Done"
        BY <3>1 DEF FInv, Right
      <3>2. CASE pc # "Done"
        <4>1. Place = 0
          <5>1. 0 * BlkSize + 0 = 0
            BY <2>1
          <5> QED
            BY <2>2, <3>2, <5>1 DEF Place
        <4>2. Len(file) = 0
          BY <2>1, <2>2, <4>1
        <4>3. Len(SubSeq(Content, 1, 0)) = 0 /\ SubSeq(Content, 1, 0) \in Seq(Byte)
          <5>1. 0 \in 0 .. Len(Content)
            BY <2>1
          <5> QED
            BY <2>1, <5>1, Halves
        <4> QED
          BY <2>2, <4>2, <4>3, EmptySeq
      <3> QED
        BY <3>1, <3>2
    <2>6. Asked \in Seq(Byte) /\ Len(Asked) = length
      <3>1. length \in 0 .. Len(Content)
        BY <2>1
      <3> QED
        BY <2>1, <3>1, Halves DEF Asked
    <2>7. SubSeq(Asked, 1, Len(file)) = SubSeq(Content, 1, Len(file))
      <3> DEFINE k == Len(file)
                 s == SubSeq(Asked, 1, k)
                 t == SubSeq(Content, 1, k)
      <3>1. k \in 0 .. length /\ k \in 0 .. Len(Content) /\ length \in 0 .. Len(Content)
            /\ 0 \in 0 .. length /\ 0 \in 0 .. Len(Content)
        BY <2>1, <2>4
      <3> HIDE DEF k
      <3>2. s \in Seq(Byte) /\ Len(s) = k /\ t \in Seq(Byte) /\ Len(t) = k
        BY <2>1, <2>6, <3>1, Halves
      <3>3. ASSUME NEW i \in 1 .. k PROVE s[i] = t[i]
        <4>1. \A j \in 1 .. k - 0 : SubSeq(Asked, 0 + 1, k)[j] = Asked[0 + j]
          BY <2>6, <3>1, Slice
        <4>2. \A j \in 1 .. k - 0 : SubSeq(Content, 0 + 1, k)[j] = Content[0 + j]
          BY <2>1, <3>1, Slice
        <4>3. \A j \in 1 .. length - 0 : SubSeq(Content, 0 + 1, length)[j] = Content[0 + j]
          BY <2>1, <3>1, Slice
        <4>4. s[i] = Asked[i] /\ t[i] = Content[i]
          BY <3>1, <4>1, <4>2
        <4>5. Asked[i] = Content[i]
          BY <3>1, <4>3 DEF Asked
        <4> QED
          BY <4>4, <4>5
      <3> HIDE DEF s, t
      <3>4. s = t
        BY <3>2, <3>3, SeqEqual
      <3> QED
        BY <3>4 DEF s, t, k
    <2>8. SubSeq(file, 1, Len(file)) = file
      BY <2>2, SubSeqFull
    <2>9. IsPrefix(file, Asked)
      BY <2>1, <2>4, <2>5, <2>6, <2>7, <2>8 DEF IsPrefix
    <2>10. ASSUME phase = "done" PROVE file = Asked
      <3>1. Place = BlkCnt * BlkSize
        <4> DEFINE p == BlkCnt * BlkSize
        <4>1. p \in Nat
          BY <2>1, Products
        <4>2. Place = p + 0
          BY <2>2, <2>10 DEF Place
        <4> HIDE DEF p
        <4>3. Place = p
          BY <4>1, <4>2
        <4> QED
          BY <4>3 DEF p
      <3>2. Len(file) = length
        BY <2>1, <2>2, <2>3, <3>1
      <3> QED
        BY <2>5, <3>2 DEF Asked
    <2> QED
      BY <2>9, <2>10
  <1> QED
    BY <1>1, ReadingInvariant, PTL

-----------------------------------------------------------------------------
(* The deadlines of readPacket and readByte, on a counter of Wrap readings *)

CONSTANT Wrap

Timer == INSTANCE TickTimer

\* When neither the deadline nor the counter has passed the end of the counter,
\* readPacket and readByte (esp.cpp:1660, :1605) give up as soon as more than
\* the time they were given has passed and never before, and a delay of msDelay
\* is as long as was asked for.
THEOREM WaitsItsTime ==
    ASSUME Wrap \in Nat \ {0},
           NEW start \in Timer!Reading, NEW ms \in Timer!Reading \ {0},
           NEW passed \in Nat,
           start + ms < Wrap, start + passed < Wrap
    PROVE  /\ Timer!TimedOut(start, ms, passed) <=> passed > ms
           /\ Timer!Delayed(start, ms, passed) <=> passed >= ms
<1>1. Timer!getTickCount(start, passed) = start + passed
  BY DEF Timer!getTickCount, Timer!Reading
<1>2. Timer!Deadline(start, ms) = start + ms
  BY DEF Timer!Deadline, Timer!Reading
<1>. QED  BY <1>1, <1>2 DEF Timer!TimedOut, Timer!Delayed, Timer!Reading

\* A deadline past the end of the counter is taken for one in the past: the wait
\* ends before any time has passed, and so does a delay of msDelay.
THEOREM PastTheEndAtOnce ==
    ASSUME Wrap \in Nat \ {0},
           NEW start \in Timer!Reading, NEW ms \in Timer!Reading \ {0},
           NEW passed \in Nat,
           start + ms >= Wrap, start + passed < Wrap
    PROVE  Timer!TimedOut(start, ms, passed) /\ Timer!Delayed(start, ms, passed)
<1>1. Timer!getTickCount(start, passed) = start + passed
  BY DEF Timer!getTickCount, Timer!Reading
<1>2. Timer!Deadline(start, ms) = start + ms - Wrap
  BY DEF Timer!Deadline, Timer!Reading
<1>. QED  BY <1>1, <1>2 DEF Timer!TimedOut, Timer!Delayed, Timer!Reading

\* A deadline on the very last millisecond of the counter is never passed: a
\* device that does not answer keeps readPacket and readByte waiting for ever.
THEOREM LastTickNeverPassed ==
    ASSUME Wrap \in Nat \ {0},
           NEW start \in Timer!Reading, NEW ms \in Timer!Reading \ {0},
           NEW passed \in Nat,
           start + ms = Wrap - 1
    PROVE  ~Timer!TimedOut(start, ms, passed)
<1>1. Timer!Deadline(start, ms) = Wrap - 1
  BY DEF Timer!Deadline, Timer!Reading
<1>2. Timer!getTickCount(start, passed) \in Timer!Reading
  BY DEF Timer!getTickCount, Timer!Reading
<1>. QED  BY <1>1, <1>2 DEF Timer!TimedOut, Timer!Reading

\* A wait that no poll has ended before the counter begins anew lasts a whole
\* round of the counter longer than it was to.
THEOREM MissedForARound ==
    ASSUME Wrap \in Nat \ {0},
           NEW start \in Timer!Reading, NEW ms \in Timer!Reading \ {0},
           NEW passed \in Nat,
           start + ms < Wrap, start + passed >= Wrap, start + passed < 2 * Wrap
    PROVE  Timer!TimedOut(start, ms, passed) <=> passed > ms + Wrap
<1>1. Timer!getTickCount(start, passed) = start + passed - Wrap
  BY DEF Timer!getTickCount, Timer!Reading
<1>2. Timer!Deadline(start, ms) = start + ms
  BY DEF Timer!Deadline, Timer!Reading
<1>. QED  BY <1>1, <1>2 DEF Timer!TimedOut, Timer!Reading

=============================================================================
