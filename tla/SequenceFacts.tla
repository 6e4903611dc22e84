---------------------------- MODULE SequenceFacts ----------------------------
(***************************************************************************)
(* Facts about sequences and about functions defined by recursion on the   *)
(* numbers 1 .. n that the proofs of several modules use.                  *)
(***************************************************************************)
EXTENDS Integers, SequencesExt, SequenceTheorems, WellFoundedInduction, TLAPS

\* A function on 1 .. n is a sequence of n elements.
LEMMA FunctionIsSeq ==
    ASSUME NEW S, NEW n \in Nat, NEW t \in [1 .. n -> S]
    PROVE  t \in Seq(S) /\ Len(t) = n
  <1>1. t \in Seq(S)
    <2>1. t \in UNION {[1 .. k -> S] : k \in Nat}
      OBVIOUS
    <2> QED
      BY <2>1, SeqDef, Zenon
  <1> QED
    BY <1>1, LenProperties

\* A part of a sequence.
LEMMA Slice ==
    ASSUME NEW S, NEW q \in Seq(S), NEW m \in 0 .. Len(q), NEW n \in m .. Len(q)
    PROVE  /\ SubSeq(q, m + 1, n) \in Seq(S)
           /\ Len(SubSeq(q, m + 1, n)) = n - m
           /\ \A i \in 1 .. n - m : SubSeq(q, m + 1, n)[i] = q[m + i]
  <1>1. Len(q) \in Nat /\ m \in Nat /\ n \in Nat
    BY LenProperties
  <1>2. m + 1 \in Int /\ n \in Int /\ \A i \in m + 1 .. n : q[i] \in S
    BY <1>1, ElementOfSeq
  <1>3. /\ SubSeq(q, m + 1, n) \in Seq(S)
        /\ Len(SubSeq(q, m + 1, n)) = IF m + 1 <= n THEN n - (m + 1) + 1 ELSE 0
        /\ \A i \in 1 .. n - (m + 1) + 1 :
              SubSeq(q, m + 1, n)[i] = q[(m + 1) + i - 1]
    BY <1>2, SubSeqProperties
  <1> QED
    BY <1>1, <1>3

\* The first elements.
LEMMA FirstElements ==
    ASSUME NEW S, NEW q \in Seq(S)
    PROVE  /\ Len(q) >= 1 => SubSeq(q, 1, 1) = <<q[1]>>
           /\ Len(q) >= 2 => SubSeq(q, 1, 2) = <<q[1], q[2]>>
  <1>0. Len(q) \in Nat /\ \A i \in 1 .. Len(q) : q[i] \in S
    BY LenProperties, ElementOfSeq
  <1>1. ASSUME Len(q) >= 1 PROVE SubSeq(q, 1, 1) = <<q[1]>>
    <2>1. <<q[1]>> \in Seq(S) /\ Len(<<q[1]>>) = 1 /\ <<q[1]>>[1] = q[1]
      BY <1>0, <1>1
    <2>2. /\ SubSeq(q, 1, 1) \in Seq(S) /\ Len(SubSeq(q, 1, 1)) = 1
          /\ SubSeq(q, 1, 1)[1] = q[1]
      BY <1>0, <1>1
    <2>3. \A i \in 1 .. 1 : SubSeq(q, 1, 1)[i] = <<q[1]>>[i]
      BY <2>1, <2>2
    <2> QED
      BY <2>1, <2>2, <2>3, SeqEqual
  <1>2. ASSUME Len(q) >= 2 PROVE SubSeq(q, 1, 2) = <<q[1], q[2]>>
    <2>1. /\ <<q[1], q[2]>> \in Seq(S) /\ Len(<<q[1], q[2]>>) = 2
          /\ <<q[1], q[2]>>[1] = q[1] /\ <<q[1], q[2]>>[2] = q[2]
      BY <1>0, <1>2
    <2>2. /\ SubSeq(q, 1, 2) \in Seq(S) /\ Len(SubSeq(q, 1, 2)) = 2
          /\ SubSeq(q, 1, 2)[1] = q[1] /\ SubSeq(q, 1, 2)[2] = q[2]
      BY <1>0, <1>2
    <2>3. \A i \in 1 .. 2 : SubSeq(q, 1, 2)[i] = <<q[1], q[2]>>[i]
      BY <2>1, <2>2
    <2> QED
      BY <2>1, <2>2, <2>3, SeqEqual
  <1> QED
    BY <1>1, <1>2

LEMMA FirstFour ==
    ASSUME NEW S, NEW q \in Seq(S), Len(q) >= 4
    PROVE  SubSeq(q, 1, 4) = <<q[1], q[2], q[3], q[4]>>
  <1> DEFINE four == <<q[1], q[2], q[3], q[4]>>
             part == SubSeq(q, 1, 4)
  <1>0. Len(q) \in Nat /\ \A i \in 1 .. Len(q) : q[i] \in S
    BY LenProperties, ElementOfSeq
  <1>1. four \in Seq(S) /\ Len(four) = 4 /\ four[1] = q[1] /\ four[2] = q[2]
        /\ four[3] = q[3] /\ four[4] = q[4]
    <2>1. q[1] \in S /\ q[2] \in S /\ q[3] \in S /\ q[4] \in S
      BY <1>0
    <2> QED
      BY <2>1
  <1>2. part \in Seq(S) /\ Len(part) = 4 /\ part[1] = q[1] /\ part[2] = q[2]
        /\ part[3] = q[3] /\ part[4] = q[4]
    <2>1. 1 \in Int /\ 4 \in Int /\ \A i \in 1 .. 4 : q[i] \in S
      BY <1>0
    <2>2. /\ part \in Seq(S) /\ Len(part) = IF 1 <= 4 THEN 4 - 1 + 1 ELSE 0
          /\ \A i \in 1 .. 4 - 1 + 1 : part[i] = q[1 + i - 1]
      BY <2>1, SubSeqProperties
    <2> QED
      BY <2>2
  <1> HIDE DEF four, part
  <1>3. \A i \in 1 .. Len(part) : part[i] = four[i]
    <2>1. \A i \in 1 .. Len(part) : i \in {1, 2, 3, 4}
      BY <1>2
    <2> QED
      BY <1>1, <1>2, <2>1, Zenon
  <1> QED
    BY <1>1, <1>2, <1>3, SeqEqual DEF four, part

\* The first i elements of e.
FirstOf(e, i) == [j \in 1 .. i |-> e[j]]

\* They are a list that is built one by one.
LEMMA OneMoreOf ==
    ASSUME NEW S, NEW n \in Nat, NEW e \in [1 .. n -> S], NEW i \in 1 .. n
    PROVE  Append(FirstOf(e, i - 1), e[i]) = FirstOf(e, i)
  <1> DEFINE p == [j \in 1 .. i - 1 |-> e[j]]
             q == [j \in 1 .. i |-> e[j]]
             m == i - 1
  <1>1. m \in Nat /\ i \in Nat /\ m + 1 = i
    OBVIOUS
  <1>2. p \in [1 .. m -> S] /\ q \in [1 .. i -> S]
    OBVIOUS
  <1>3. /\ \A j \in 1 .. m : p[j] = e[j] /\ q[j] = e[j]
        /\ q[i] = e[i] /\ e[i] \in S
    OBVIOUS
  <1> HIDE DEF p, q, m
  <1>4. p \in Seq(S) /\ Len(p) = m /\ q \in Seq(S) /\ Len(q) = i
    BY <1>1, <1>2, FunctionIsSeq
  <1>5. /\ Append(p, e[i]) \in Seq(S) /\ Len(Append(p, e[i])) = m + 1
        /\ \A j \in 1 .. m : Append(p, e[i])[j] = p[j]
        /\ Append(p, e[i])[m + 1] = e[i]
    BY <1>3, <1>4, AppendProperties
  <1>6. \A j \in 1 .. i : j \in 1 .. m \/ j = m + 1
    BY <1>1
  <1>7. \A j \in 1 .. i : Append(p, e[i])[j] = q[j]
    BY <1>1, <1>3, <1>5, <1>6
  <1>8. Append(p, e[i]) = q
    BY <1>1, <1>4, <1>5, <1>7, SeqEqual
  <1> QED
    BY <1>8 DEF p, q, FirstOf

-----------------------------------------------------------------------------
(* Induction and recursion over the numbers up to n *)

\* A set of numbers that is not empty has a least one.
LEMMA LeastNumber ==
    ASSUME NEW T \in SUBSET Nat, T # {}
    PROVE  \E n \in T : \A m \in T : n <= m
  <1> DEFINE R == OpToRel(<, Nat)
  <1>1. IsWellFoundedOn(R, Nat)
    BY NatLessThanWellFounded
  <1> HIDE DEF R
  <1>2. \E n \in T : \A m \in T : <<m, n>> \notin R
    BY <1>1, WFMin
  <1>3. \A m, n \in Nat : m < n => <<m, n>> \in R
    BY DEF R, OpToRel
  <1>4. PICK n \in T : \A m \in T : <<m, n>> \notin R
    BY <1>2
  <1>5. ASSUME NEW m \in T PROVE n <= m
    <2>1. ~(m < n)
      BY <1>3, <1>4, Zenon
    <2> QED
      BY <2>1
  <1> QED
    BY <1>5, Zenon

\* A set of numbers up to n that is not empty has a largest one.
LEMMA LargestNumber ==
    ASSUME NEW n \in Nat, NEW K \in SUBSET (1 .. n), K # {}
    PROVE  Max(K) \in K /\ \A k \in K : k <= Max(K)
  <1> DEFINE T == {n - k : k \in K}
  <1>1. T \in SUBSET Nat /\ T # {}
    <2>1. PICK k \in K : TRUE
      OBVIOUS
    <2>2. n - k \in T
      BY <2>1
    <2>3. \A i \in K : n - i \in Nat
      OBVIOUS
    <2> QED
      BY <2>2, <2>3
  <1>2. PICK t \in T : \A m \in T : t <= m
    <2> HIDE DEF T
    <2> QED
      BY <1>1, LeastNumber
  <1>3. PICK x \in K : t = n - x
    BY <1>2
  <1>4. \A k \in K : x >= k
    <2>1. \A k \in K : n - x <= n - k
      BY <1>2, <1>3
    <2> QED
      BY <1>3, <2>1
  <1>5. Max(K) \in K /\ \A k \in K : Max(K) >= k
    BY <1>4 DEF Max
  <1> QED
    BY <1>5

\* What holds of zero, and of every number of which its predecessor has it,
\* holds up to n.
LEMMA BoundedInduction ==
    ASSUME NEW n \in Nat, NEW G,
           0 \in G, \A i \in 1 .. n : i - 1 \in G => i \in G
    PROVE  \A i \in 0 .. n : i \in G
  <1> DEFINE T == {i \in 0 .. n : i \notin G}
  <1> SUFFICES ASSUME T # {} PROVE FALSE
    OBVIOUS
  <1>1. PICK k \in T : \A m \in T : k <= m
    <2>1. T \in SUBSET Nat
      OBVIOUS
    <2> HIDE DEF T
    <2> QED
      BY <2>1, LeastNumber
  <1>2. k \in 1 .. n /\ k - 1 \notin T
    BY <1>1
  <1> QED
    BY <1>2

\* f is defined by recursion: f[0] is base, f[i] is step[i] applied to
\* f[i - 1].
Recursive(S, n, base, step, f) ==
    /\ f \in [0 .. n -> S]
    /\ f[0] = base
    /\ \A i \in 1 .. n : f[i] = step[i][f[i - 1]]

HasRecursive(S, n, base, step) == \E f : Recursive(S, n, base, step, f)

Agree(n, f, g) == \A i \in 0 .. n : f[i] = g[i]

\* There is such a function.
LEMMA RecursionExists ==
    ASSUME NEW S, NEW n \in Nat, NEW base \in S, NEW step \in [1 .. n -> [S -> S]]
    PROVE  HasRecursive(S, n, base, step)
  <1> DEFINE Good(k, f) == f[0] = base /\ \A i \in 1 .. k : f[i] = step[i][f[i - 1]]
             G == {k \in 0 .. n : \E f \in [0 .. k -> S] : Good(k, f)}
  <1>1. 0 \in G
    <2> DEFINE f == [i \in 0 .. 0 |-> base]
    <2>1. f \in [0 .. 0 -> S] /\ Good(0, f) /\ 0 \in 0 .. n
      OBVIOUS
    <2> HIDE DEF f, Good
    <2> QED
      BY <2>1
  <1>2. ASSUME NEW k \in 1 .. n, k - 1 \in G
        PROVE  k \in G
    <2>1. PICK f \in [0 .. k - 1 -> S] : Good(k - 1, f)
      BY <1>2
    <2> DEFINE g == [i \in 0 .. k |-> IF i = k THEN step[k][f[k - 1]] ELSE f[i]]
    <2>2. g \in [0 .. k -> S]
      OBVIOUS
    <2>3. Good(k, g)
      BY <2>1
    <2>4. k \in 0 .. n
      OBVIOUS
    <2> HIDE DEF g, Good
    <2> QED
      BY <2>2, <2>3, <2>4
  <1>3. n \in G
    <2> HIDE DEF G
    <2>1. \A i \in 1 .. n : i - 1 \in G => i \in G
      BY <1>2
    <2>2. \A i \in 0 .. n : i \in G
      BY <1>1, <2>1, BoundedInduction
    <2> QED
      BY <2>2
  <1> QED
    BY <1>3 DEF HasRecursive, Recursive

\* It is the only one.
LEMMA RecursionUnique ==
    ASSUME NEW n \in Nat, NEW f, NEW g, f[0] = g[0],
           \A i \in 1 .. n : f[i - 1] = g[i - 1] => f[i] = g[i]
    PROVE  Agree(n, f, g)
  <1> DEFINE G == {i \in 0 .. n : f[i] = g[i]}
  <1>1. 0 \in G /\ \A i \in 1 .. n : i - 1 \in G => i \in G
    OBVIOUS
  <1> HIDE DEF G
  <1>2. \A i \in 0 .. n : i \in G
    BY <1>1, BoundedInduction
  <1> QED
    BY <1>2 DEF G, Agree

-----------------------------------------------------------------------------
(* FlattenSeq *)

\* The concatenations of the first elements.
LEMMA FlattenPrefixes ==
    ASSUME NEW T, NEW seqs \in Seq(Seq(T))
    PROVE  \E g \in [0 .. Len(seqs) -> Seq(T)] :
              /\ g[0] = <<>>
              /\ \A i \in 1 .. Len(seqs) : g[i] = g[i - 1] \o seqs[i]
              /\ FlattenSeq(seqs) = g[Len(seqs)]
  <1> DEFINE n == Len(seqs)
             S == Seq(T)
             base == <<>>
             step == [i \in 1 .. n |-> [s \in S |-> s \o seqs[i]]]
  <1>n. n \in Nat
    OBVIOUS
  <1>1. \A i \in 1 .. n : seqs[i] \in S
    OBVIOUS
  <1>b. base \in S
    OBVIOUS
  <1>2. \A s, t \in S : s \o t \in S /\ base \o t = t
    OBVIOUS
  <1> HIDE DEF S, base, n
  <1>3. step \in [1 .. n -> [S -> S]]
    BY <1>1, <1>2
  <1>4. \A i \in 1 .. n, s \in S : step[i][s] = s \o seqs[i]
    OBVIOUS
  <1> HIDE DEF step
  <1>r. HasRecursive(S, n, base, step)
    BY <1>n, <1>b, <1>3, RecursionExists
  <1>5. PICK g \in [0 .. n -> S] :
           g[0] = base /\ \A i \in 1 .. n : g[i] = step[i][g[i - 1]]
    BY <1>r DEF HasRecursive, Recursive
  <1>6. \A i \in 1 .. n : i - 1 \in 0 .. n /\ g[i - 1] \in S /\ g[i] \in S
    BY <1>n
  <1>7. \A i \in 1 .. n : g[i] = g[i - 1] \o seqs[i]
    BY <1>4, <1>5, <1>6
  <1>8. n = 0 => FlattenSeq(seqs) = g[n]
    <2> SUFFICES ASSUME n = 0 PROVE FlattenSeq(seqs) = base
      BY <1>5
    <2>1. seqs = <<>>
      BY EmptySeq DEF n
    <2> QED
      BY <2>1 DEF FlattenSeq, n, base
  <1>9. n # 0 => FlattenSeq(seqs) = g[n]
    <2> SUFFICES ASSUME n # 0 PROVE FlattenSeq(seqs) = g[n]
      OBVIOUS
    <2> DEFINE Equation(f) ==
            f = [i \in 1 .. n |-> IF i = 1 THEN seqs[i] ELSE f[i - 1] \o seqs[i]]
    <2>1. Equation([i \in 1 .. n |-> g[i]])
      <3> DEFINE h == [i \in 1 .. n |-> g[i]]
      <3>1. ASSUME NEW i \in 1 .. n
            PROVE  h[i] = IF i = 1 THEN seqs[i] ELSE h[i - 1] \o seqs[i]
        <4>1. CASE i = 1
          <5>1. g[i] = g[0] \o seqs[i] /\ seqs[i] \in S
            <6>1. g[i] = g[i - 1] \o seqs[i] /\ seqs[i] \in S
              BY <1>1, <1>7, Zenon
            <6>2. i - 1 = 0
              BY <4>1
            <6> QED
              BY <6>1, <6>2, Zenon
          <5> QED
            BY <1>b, <1>2, <1>5, <4>1, <5>1
        <4>2. CASE i # 1
          <5>1. i - 1 \in 1 .. n
            BY <1>n, <4>2
          <5> QED
            BY <1>7, <4>2, <5>1
        <4> QED
          BY <4>1, <4>2
      <3> QED
        BY <3>1
    <2>2. ASSUME NEW f, Equation(f) PROVE f[n] = g[n]
      <3>1. \A i \in 1 .. n : f[i] = IF i = 1 THEN seqs[i] ELSE f[i - 1] \o seqs[i]
        BY <2>2
      <3> DEFINE h == [i \in 0 .. n |-> IF i = 0 THEN base ELSE f[i]]
      <3>2. h[0] = g[0] /\ \A i \in 1 .. n : h[i] = f[i]
        BY <1>n, <1>5
      <3>3. ASSUME NEW i \in 1 .. n, h[i - 1] = g[i - 1] PROVE h[i] = g[i]
        <4>1. CASE i = 1
          <5>1. g[i] = g[0] \o seqs[i] /\ seqs[i] \in S
            <6>1. g[i] = g[i - 1] \o seqs[i] /\ seqs[i] \in S
              BY <1>1, <1>7, Zenon
            <6>2. i - 1 = 0
              BY <4>1
            <6> QED
              BY <6>1, <6>2, Zenon
          <5>2. h[i] = seqs[i]
            BY <3>1, <3>2, <4>1
          <5> QED
            BY <1>b, <1>2, <1>5, <5>1, <5>2
        <4>2. CASE i # 1
          <5>1. i - 1 \in 1 .. n
            BY <1>n, <4>2
          <5> HIDE DEF h
          <5>2. h[i] = f[i - 1] \o seqs[i] /\ f[i - 1] = g[i - 1]
            BY <3>1, <3>2, <3>3, <4>2, <5>1
          <5> QED
            BY <1>7, <5>2
        <4> QED
          BY <4>1, <4>2
      <3> HIDE DEF h
      <3>4. \A i \in 0 .. n : h[i] = g[i]
        <4>1. h[0] = g[0]
          BY <3>2
        <4>2. \A i \in 1 .. n : h[i - 1] = g[i - 1] => h[i] = g[i]
          BY <3>3
        <4> QED
          BY <1>n, <4>1, <4>2, RecursionUnique DEF Agree
      <3>5. n \in 0 .. n /\ n \in 1 .. n
        BY <1>n
      <3> QED
        BY <3>2, <3>4, <3>5
    <2>3. FlattenSeq(seqs) = (CHOOSE f : Equation(f))[n]
      BY <1>n DEF FlattenSeq, n
    <2> HIDE DEF Equation
    <2>4. Equation(CHOOSE f : Equation(f))
      BY <2>1
    <2> QED
      BY <2>2, <2>3, <2>4
  <1>10. FlattenSeq(seqs) = g[n]
    BY <1>8, <1>9
  <1> QED
    BY <1>5, <1>7, <1>10 DEF S, base, n

LEMMA FlattenTyped ==
    ASSUME NEW T, NEW seqs \in Seq(Seq(T))
    PROVE  FlattenSeq(seqs) \in Seq(T)
  <1>1. PICK g \in [0 .. Len(seqs) -> Seq(T)] :
           /\ g[0] = <<>>
           /\ \A i \in 1 .. Len(seqs) : g[i] = g[i - 1] \o seqs[i]
           /\ FlattenSeq(seqs) = g[Len(seqs)]
    BY FlattenPrefixes
  <1>2. Len(seqs) \in 0 .. Len(seqs)
    BY LenProperties
  <1> QED
    BY <1>1, <1>2

LEMMA FlattenEmpty == FlattenSeq(<<>>) = <<>>
  BY DEF FlattenSeq

\* One more element is concatenated at the end.
LEMMA FlattenAppend ==
    ASSUME NEW T, NEW seqs \in Seq(Seq(T)), NEW x \in Seq(T)
    PROVE  /\ FlattenSeq(seqs) \in Seq(T)
           /\ FlattenSeq(Append(seqs, x)) = FlattenSeq(seqs) \o x
  <1> DEFINE n == Len(seqs)
             more == Append(seqs, x)
  <1>n. n \in Nat /\ n + 1 \in 1 .. n + 1 /\ n \in 0 .. n
    OBVIOUS
  <1>1. /\ more \in Seq(Seq(T)) /\ Len(more) = n + 1
        /\ more[n + 1] = x /\ \A i \in 1 .. n : more[i] = seqs[i]
    OBVIOUS
  <1> HIDE DEF more
  <1>2. PICK g \in [0 .. n -> Seq(T)] :
           /\ g[0] = <<>>
           /\ \A i \in 1 .. n : g[i] = g[i - 1] \o seqs[i]
           /\ FlattenSeq(seqs) = g[n]
    BY FlattenPrefixes
  <1>3. PICK h \in [0 .. Len(more) -> Seq(T)] :
           /\ h[0] = <<>>
           /\ \A i \in 1 .. Len(more) : h[i] = h[i - 1] \o more[i]
           /\ FlattenSeq(more) = h[Len(more)]
    BY <1>1, FlattenPrefixes
  <1> HIDE DEF n
  <1>4. g[0] = h[0] /\ h[n + 1] = h[n] \o x
    <2>1. ASSUME NEW k \in 1 .. Len(more), k = n + 1
          PROVE  h[k] = h[n] \o x
      <3>1. h[k] = h[k - 1] \o more[k]
        BY <1>3, Zenon
      <3>2. k - 1 = n /\ more[k] = x
        BY <1>n, <1>1, <2>1
      <3> QED
        BY <3>1, <3>2, Zenon
    <2>2. n + 1 \in 1 .. Len(more)
      BY <1>n, <1>1
    <2> QED
      BY <1>2, <1>3, <2>1, <2>2, Zenon
  <1>5. \A i \in 1 .. n : g[i - 1] = h[i - 1] => g[i] = h[i]
    <2> SUFFICES ASSUME NEW i \in 1 .. n, g[i - 1] = h[i - 1] PROVE g[i] = h[i]
      OBVIOUS
    <2>1. g[i] = g[i - 1] \o seqs[i]
      BY <1>2
    <2>2. i \in 1 .. Len(more)
      BY <1>n, <1>1
    <2>3. h[i] = h[i - 1] \o more[i] /\ more[i] = seqs[i]
      BY <1>1, <1>3, <2>2
    <2> QED
      BY <2>1, <2>3
  <1>6. Agree(n, g, h)
    <2>1. n \in Nat /\ g[0] = h[0]
      BY <1>n, <1>4
    <2> QED
      BY <1>5, <2>1, RecursionUnique
  <1>7. FlattenSeq(seqs) \in Seq(T)
    BY <1>n, <1>2
  <1>8. FlattenSeq(more) = FlattenSeq(seqs) \o x
    BY <1>n, <1>1, <1>2, <1>3, <1>4, <1>6 DEF Agree
  <1> QED
    BY <1>7, <1>8 DEF more

\* A sequence that has one more element than another at its end.
LEMMA LastAppended ==
    ASSUME NEW S, NEW s \in Seq(S), NEW t \in Seq(S), NEW x \in S,
           Len(t) = Len(s) + 1, \A i \in 1 .. Len(s) : t[i] = s[i],
           t[Len(s) + 1] = x
    PROVE  t = Append(s, x)
  <1> DEFINE a == Append(s, x)
  <1>1. /\ a \in Seq(S) /\ Len(a) = Len(s) + 1 /\ a[Len(s) + 1] = x
        /\ \A i \in 1 .. Len(s) : a[i] = s[i]
    BY AppendProperties
  <1>2. Len(s) \in Nat
    BY LenProperties
  <1> HIDE DEF a
  <1>3. \A i \in 1 .. Len(t) : t[i] = a[i]
    <2>1. \A i \in 1 .. Len(t) : i \in 1 .. Len(s) \/ i = Len(s) + 1
      BY <1>2
    <2> QED
      BY <1>1, <2>1
  <1> QED
    BY <1>1, <1>3, SeqEqual DEF a

\* Sequences of sequences one behind the other.
LEMMA FlattenConcat ==
    ASSUME NEW T, NEW s \in Seq(Seq(T)), NEW t \in Seq(Seq(T))
    PROVE  FlattenSeq(s \o t) = FlattenSeq(s) \o FlattenSeq(t)
  <1> DEFINE U == Seq(T)
             n == Len(t)
             Part(k) == FirstOf(t, k)
             G == {k \in 0 .. n : FlattenSeq(s \o Part(k))
                                       = FlattenSeq(s) \o FlattenSeq(Part(k))}
  <1>1. /\ n \in Nat /\ t \in [1 .. n -> U] /\ \A i \in 1 .. n : t[i] \in U
        /\ s \in Seq(U)
    BY LenProperties, ElementOfSeq
  <1>2. \A k \in 0 .. n : Part(k) \in Seq(U) /\ Len(Part(k)) = k
    <2> SUFFICES ASSUME NEW k \in 0 .. n PROVE Part(k) \in Seq(U) /\ Len(Part(k)) = k
      OBVIOUS
    <2>1. k \in Nat /\ 1 .. k \subseteq 1 .. n
      BY <1>1
    <2>2. Part(k) \in [1 .. k -> U]
      BY <1>1, <2>1 DEF FirstOf
    <2> HIDE DEF Part, U
    <2> QED
      BY <2>1, <2>2, FunctionIsSeq
  <1> HIDE DEF U, n
  <1>3. 0 \in G
    <2>1. 0 \in 0 .. n
      BY <1>1
    <2>2. Part(0) = <<>>
      <3>1. Part(0) \in Seq(U) /\ Len(Part(0)) = 0
        BY <1>2, <2>1
      <3> HIDE DEF Part
      <3> QED
        BY <3>1, EmptySeq
    <2>3. FlattenSeq(s) \in Seq(T)
      BY FlattenTyped
    <2>4. s \o <<>> = s /\ FlattenSeq(s) \o <<>> = FlattenSeq(s)
      BY <1>1, <2>3, ConcatEmptySeq
    <2> QED
      BY <2>1, <2>2, <2>4, FlattenEmpty
  <1>4. ASSUME NEW k \in 1 .. n, k - 1 \in G PROVE k \in G
    <2> DEFINE p == Part(k - 1)
               x == t[k]
    <2>1. k - 1 \in 0 .. n /\ k \in 0 .. n
      BY <1>1
    <2>2. p \in Seq(U) /\ x \in U
      BY <1>1, <1>2, <2>1
    <2>3. Append(p, x) = Part(k)
      BY <1>1, OneMoreOf
    <2>4. FlattenSeq(s \o p) = FlattenSeq(s) \o FlattenSeq(p)
      BY <1>4
    <2> HIDE DEF p, x, Part, G
    <2>5. s \o Append(p, x) = Append(s \o p, x) /\ s \o p \in Seq(U)
      <3>1. <<x>> \in Seq(U) /\ s \o p \in Seq(U)
        BY <1>1, <2>2, ConcatProperties
      <3>2. Append(p, x) = p \o <<x>> /\ Append(s \o p, x) = (s \o p) \o <<x>>
        BY <2>2, <3>1, AppendIsConcat
      <3> QED
        BY <1>1, <2>2, <3>1, <3>2, ConcatAssociative
    <2>6. /\ FlattenSeq(Append(p, x)) = FlattenSeq(p) \o x
          /\ FlattenSeq(Append(s \o p, x)) = FlattenSeq(s \o p) \o x
          /\ FlattenSeq(p) \in Seq(T) /\ FlattenSeq(s) \in Seq(T) /\ x \in Seq(T)
      BY <2>2, <2>5, FlattenAppend, FlattenTyped DEF U
    <2>7. (FlattenSeq(s) \o FlattenSeq(p)) \o x = FlattenSeq(s) \o (FlattenSeq(p) \o x)
      BY <2>6, ConcatAssociative
    <2>8. FlattenSeq(s \o Part(k)) = FlattenSeq(s) \o FlattenSeq(Part(k))
      BY <2>3, <2>4, <2>5, <2>6, <2>7
    <2> QED
      BY <2>1, <2>8 DEF G
  <1>5. n \in G
    <2> HIDE DEF G
    <2>1. n \in 0 .. n /\ \A k \in 1 .. n : k - 1 \in G => k \in G
      BY <1>1, <1>4
    <2>2. \A k \in 0 .. n : k \in G
      BY <1>1, <1>3, <2>1, BoundedInduction
    <2> QED
      BY <2>1, <2>2
  <1>6. Part(n) = t
    <2>1. Part(n) \in Seq(U) /\ Len(Part(n)) = n
      BY <1>1, <1>2
    <2>2. \A i \in 1 .. n : Part(n)[i] = t[i]
      BY DEF FirstOf
    <2> HIDE DEF Part
    <2> QED
      BY <2>1, <2>2, SeqEqual DEF n, U
  <1> QED
    BY <1>5, <1>6

\* Two sequences with the same beginning.
LEMMA ConcatCancel ==
    ASSUME NEW S, NEW a \in Seq(S), NEW w \in Seq(S), NEW x \in Seq(S), NEW t \in Seq(S),
           a \o w = x \o t, Len(a) = Len(x)
    PROVE  a = x /\ w = t
  <1> DEFINE g == a \o w
  <1>1. /\ Len(g) = Len(a) + Len(w)
        /\ \A i \in 1 .. Len(a) + Len(w) :
              g[i] = IF i <= Len(a) THEN a[i] ELSE w[i - Len(a)]
    BY ConcatProperties
  <1>2. g = x \o t
    OBVIOUS
  <1>3. /\ Len(g) = Len(x) + Len(t)
        /\ \A i \in 1 .. Len(x) + Len(t) :
              g[i] = IF i <= Len(x) THEN x[i] ELSE t[i - Len(x)]
    BY <1>2, ConcatProperties
  <1> HIDE DEF g
  <1>4. Len(a) \in Nat /\ Len(w) \in Nat /\ Len(t) \in Nat
    BY LenProperties
  <1>5. \A i \in 1 .. Len(a) : a[i] = x[i]
    <2>1. \A i \in 1 .. Len(a) : i \in 1 .. Len(a) + Len(w) /\ i <= Len(a)
      BY <1>4
    <2> QED
      BY <1>1, <1>3, <2>1
  <1>6. a = x
    BY <1>5, SeqEqual
  <1>7. Len(w) = Len(t)
    BY <1>1, <1>3, <1>4
  <1>8. \A i \in 1 .. Len(w) : w[i] = t[i]
    <2>1. \A i \in 1 .. Len(w) : /\ Len(a) + i \in 1 .. Len(a) + Len(w)
                                 /\ ~(Len(a) + i <= Len(a)) /\ (Len(a) + i) - Len(a) = i
      BY <1>4
    <2> QED
      BY <1>1, <1>3, <1>7, <2>1
  <1>9. w = t
    BY <1>7, <1>8, SeqEqual
  <1> QED
    BY <1>6, <1>9

\* A sequence that is cut in two.
LEMMA Halves ==
    ASSUME NEW S, NEW q \in Seq(S), NEW n \in 0 .. Len(q)
    PROVE  /\ SubSeq(q, 1, n) \in Seq(S) /\ Len(SubSeq(q, 1, n)) = n
           /\ SubSeq(q, n + 1, Len(q)) \in Seq(S)
           /\ Len(SubSeq(q, n + 1, Len(q))) = Len(q) - n
           /\ q = SubSeq(q, 1, n) \o SubSeq(q, n + 1, Len(q))
  <1>1. Len(q) \in Nat /\ n \in Nat /\ n <= Len(q)
    BY LenProperties
  <1>2. SubSeq(q, 1, n) \in Seq(S) /\ Len(SubSeq(q, 1, n)) = n
    <2>1. 0 \in 0 .. Len(q) /\ 0 + 1 = 1 /\ n \in 0 .. Len(q) /\ n - 0 = n
      BY <1>1
    <2> QED
      BY <2>1, Slice
  <1>3. /\ SubSeq(q, n + 1, Len(q)) \in Seq(S)
        /\ Len(SubSeq(q, n + 1, Len(q))) = Len(q) - n
    <2>1. Len(q) \in n .. Len(q)
      BY <1>1
    <2> QED
      BY <2>1, Slice
  <1>4. q = SubSeq(q, 1, n) \o SubSeq(q, n + 1, Len(q))
    <2>1. 1 \in 1 .. Len(q) + 1 /\ n \in 1 - 1 .. Len(q) /\ Len(q) \in n .. Len(q)
      BY <1>1
    <2>2. SubSeq(q, 1, n) \o SubSeq(q, n + 1, Len(q)) = SubSeq(q, 1, Len(q))
      BY <2>1, ConcatAdjacentSubSeq
    <2> QED
      BY <2>2, SubSeqFull
  <1> QED
    BY <1>2, <1>3, <1>4

\* What is left of a sequence after its first k elements.
LEMMA TailOfRest ==
    ASSUME NEW S, NEW q \in Seq(S), NEW k \in 0 .. Len(q) - 1
    PROVE  LET rest == SubSeq(q, k + 1, Len(q))
           IN  /\ Len(rest) = Len(q) - k /\ rest # <<>> /\ rest[1] = q[k + 1]
               /\ Tail(rest) = SubSeq(q, k + 2, Len(q))
  <1> DEFINE n == Len(q)
             rest == SubSeq(q, k + 1, n)
  <1>1. /\ n \in Nat /\ k \in 0 .. n /\ n \in k .. n /\ n - k >= 1
        /\ k + 1 \in 1 .. n /\ n \in k + 1 .. n /\ (k + 1) + 1 = k + 2
    BY LenProperties
  <1>2. Tail(rest) = SubSeq(q, k + 2, n)
    BY <1>1, HeadTailOfSubSeq
  <1> HIDE DEF n
  <1>3. /\ rest \in Seq(S) /\ Len(rest) = n - k
        /\ \A i \in 1 .. n - k : rest[i] = q[k + i]
    BY <1>1, Slice DEF n
  <1> HIDE DEF rest
  <1>4. rest # <<>> /\ rest[1] = q[k + 1]
    BY <1>1, <1>3
  <1> QED
    BY <1>2, <1>3, <1>4 DEF rest, n

\* As much of q has come as its first part x has, and w is still to come.
Begins(q, w, x, t) == q \o w = x \o t /\ Len(x) <= Len(q)

\* x can be taken from q, and what is left, with what is still to come, is t.
Taken(q, w, x, t) ==
    /\ SubSeq(q, 1, Len(x)) = x
    /\ \A i \in 1 .. Len(x) : q[i] = x[i]
    /\ SubSeq(q, Len(x) + 1, Len(q)) \o w = t

LEMMA FirstTaken ==
    ASSUME NEW S, NEW q \in Seq(S), NEW w \in Seq(S), NEW x \in Seq(S), NEW t \in Seq(S),
           Begins(q, w, x, t)
    PROVE  Taken(q, w, x, t)
  <1>0. q \o w = x \o t /\ Len(x) <= Len(q)
    BY DEF Begins
  <1> DEFINE n == Len(x)
             a == SubSeq(q, 1, n)
             b == SubSeq(q, n + 1, Len(q))
  <1>1. n \in 0 .. Len(q) /\ n \in Nat
    BY <1>0, LenProperties
  <1> HIDE DEF n
  <1>2. a \in Seq(S) /\ Len(a) = n /\ b \in Seq(S) /\ q = a \o b
    BY <1>1, Halves
  <1>3. \A i \in 1 .. n : a[i] = q[i]
    <2>1. 0 \in 0 .. Len(q) /\ 0 + 1 = 1 /\ n \in 0 .. Len(q) /\ n - 0 = n
          /\ \A i \in 1 .. n : 0 + i = i
      BY <1>1
    <2> QED
      BY <2>1, Slice
  <1> HIDE DEF a, b
  <1>4. b \o w \in Seq(S) /\ a \o (b \o w) = x \o t
    <2>1. b \o w \in Seq(S)
      BY <1>2, ConcatProperties
    <2>2. (a \o b) \o w = a \o (b \o w)
      <3>1. a \in Seq(S) /\ b \in Seq(S)
        BY <1>2
      <3> QED
        BY ONLY <3>1, ConcatAssociative
    <2> QED
      BY <1>0, <1>2, <2>1, <2>2
  <1>5. a = x /\ b \o w = t
    <2> DEFINE v == b \o w
    <2>1. v \in Seq(S) /\ a \o v = x \o t /\ Len(a) = Len(x)
      BY <1>2, <1>4 DEF n
    <2> HIDE DEF v
    <2>2. a = x /\ v = t
      BY <1>2, <2>1, ConcatCancel
    <2> QED
      BY <2>2 DEF v
  <1> QED
    BY <1>2, <1>3, <1>5 DEF Taken, n, a, b

==============================================================================
