--------------------------- MODULE SerialPortProofs ---------------------------
(***************************************************************************)
(* Theorems about the two halves of the serial port: its queue             *)
(* (SerialQueue), for every number of bytes and every size of a request,   *)
(* and its control lines (ResetLines), for any number of resets of either  *)
(* kind and of calls that fail.                                            *)
(***************************************************************************)
EXTENDS SerialQueue, ResetLines, SequenceFacts

-----------------------------------------------------------------------------
(* The queue *)

\* The port does not fail while it reports data, and memcpy copies upwards.
Reliable == ~ReadErrors /\ CopyOrders = {"ascending"}

QueueInv == TypeOK /\ WithinArray

\* The content of the queue in the state q that Refresh leaves.
ContentOf(q) == [i \in 1 .. q.count |-> q.data[q.head + i - 1]]

\* What the queue has to be after Refresh.
Sound(q) ==
    /\ q.curSize \in Nat /\ q.head \in Nat /\ q.count \in Nat
    /\ q.data \in [Size(q.curSize) -> Byte]
    /\ q.driver \in Seq(Byte)
    /\ q.head + q.count <= q.curSize
    /\ ContentOf(q) \o q.driver = Content \o driver

\* What SubSeq leaves of a sequence whose first k elements are dropped.
LEMMA Dropped ==
    ASSUME NEW S, NEW d \in Seq(S), NEW n \in Nat, Len(d) = n, NEW k \in 0 .. n
    PROVE  /\ SubSeq(d, k + 1, n) \in Seq(S)
           /\ Len(SubSeq(d, k + 1, n)) = n - k
           /\ \A i \in 1 .. n - k : SubSeq(d, k + 1, n)[i] = d[k + i]
  <1>2. \A i \in k + 1 .. n : d[i] \in S
    <2> SUFFICES ASSUME NEW i \in k + 1 .. n PROVE d[i] \in S
      OBVIOUS
    <2>1. i \in 1 .. Len(d)
      OBVIOUS
    <2> QED
      BY <2>1, ElementOfSeq
  <1>3. /\ SubSeq(d, k + 1, n) \in Seq(S)
        /\ Len(SubSeq(d, k + 1, n)) =
              IF k + 1 <= n THEN n - (k + 1) + 1 ELSE 0
        /\ \A i \in 1 .. n - (k + 1) + 1 :
              SubSeq(d, k + 1, n)[i] = d[k + 1 + i - 1]
    BY <1>2, SubSeqProperties
  <1> QED
    BY <1>3

\* The array Refresh reads into: it has room for n bytes after the content,
\* and the content is at its front.
LEMMA ArraysSound ==
    ASSUME Reliable, QueueInv, NEW n \in Nat, NEW a \in Arrays(n)
    PROVE  /\ a \in [Size(RoomFor(n)) -> Byte]
           /\ RoomFor(n) \in Nat /\ count + n <= RoomFor(n)
           /\ \A i \in Size(count) : a[i] = data[head + i]
  <1> USE DEF QueueInv, TypeOK, WithinArray, Size
  <1>1. CASE n > curSize - count
    <2>1. a = Grown(n) /\ RoomFor(n) = count + n
      BY <1>1 DEF Arrays, RoomFor
    <2>2. NoByte \in Byte
      BY QueueAssumption DEF NoByte
    <2>3. \A i \in Size(count) : head + i \in Size(curSize)
      OBVIOUS
    <2>4. /\ a = [i \in Size(count + n) |->
                    IF i < count THEN data[head + i] ELSE NoByte]
          /\ RoomFor(n) = count + n
      BY <2>1 DEF Grown
    <2>5. a \in [Size(count + n) -> Byte]
      BY <2>2, <2>3, <2>4
    <2>6. \A i \in Size(count) : a[i] = data[head + i]
      BY <2>4
    <2> QED
      BY <2>4, <2>5, <2>6
  <1>2. CASE ~(n > curSize - count)
    <2>1. RoomFor(n) = curSize /\ count + n <= curSize
      BY <1>2 DEF RoomFor
    <2>2. CASE count > 0 /\ head > 0
      <3>1. a = Moved("ascending")
        BY <1>2, <2>2 DEF Arrays, Reliable
      <3>2. a = [i \in Size(curSize) |->
                   CASE i >= count -> data[i]
                     [] i < count /\ "ascending" = "ascending" -> data[head + i]
                     [] OTHER -> data[i + head * ((count - 1 - i) \div head + 1)]]
        BY <3>1 DEF Moved
      <3>3. \A i \in Size(curSize) :
               a[i] = IF i >= count THEN data[i] ELSE data[head + i]
        BY <3>2
      <3>4. a \in [Size(curSize) -> Byte]
        <4>1. \A i \in Size(curSize) : a[i] \in Byte
          BY <3>3
        <4> QED
          BY <3>2, <4>1
      <3> QED
        BY <2>1, <3>3, <3>4
    <2>3. CASE ~(count > 0 /\ head > 0)
      <3>1. a = data
        BY <1>2, <2>3 DEF Arrays
      <3> QED
        BY <2>1, <2>3, <3>1
    <2> QED
      BY <2>2, <2>3
  <1> QED
    BY <1>1, <1>2

LEMMA RefreshSound ==
    ASSUME Reliable, QueueInv, NEW q \in Refreshed
    PROVE  Sound(q)
  <1>0. /\ curSize \in Nat /\ head \in Nat /\ count \in Nat
        /\ data \in [Size(curSize) -> Byte]
        /\ driver \in Seq(Byte) /\ Len(driver) \in Nat
        /\ head + count <= curSize
    BY DEF QueueInv, TypeOK, WithinArray
  <1>1. CASE driver = <<>>
    <2>1. q = [data |-> data, curSize |-> curSize, head |-> head,
               count |-> count, driver |-> driver]
      BY <1>1 DEF Refreshed
    <2> QED
      BY <1>0, <2>1 DEF Sound, ContentOf, Content
  <1>2. CASE driver # <<>>
    <2> DEFINE n == Len(driver)
    <2>1. PICK a \in Arrays(n), k \in 0 .. n :
             q = [data |-> [i \in Size(RoomFor(n)) |->
                              IF i \in count .. count + k - 1
                              THEN driver[i - count + 1] ELSE a[i]],
                  curSize |-> RoomFor(n),
                  head |-> 0,
                  count |-> count + k,
                  driver |-> SubSeq(driver, k + 1, n)]
      BY <1>2 DEF Refreshed, Reliable
    <2>2. /\ a \in [Size(RoomFor(n)) -> Byte]
          /\ RoomFor(n) \in Nat /\ count + n <= RoomFor(n)
          /\ \A i \in Size(count) : a[i] = data[head + i]
      BY <1>0, ArraysSound
    <2>3. /\ q.curSize = RoomFor(n) /\ q.head = 0 /\ q.count = count + k
          /\ q.driver = SubSeq(driver, k + 1, n)
          /\ q.data = [i \in Size(RoomFor(n)) |->
                          IF i \in count .. count + k - 1
                          THEN driver[i - count + 1] ELSE a[i]]
      BY <2>1
    <2>4. k \in Nat /\ k <= n /\ count + k <= RoomFor(n)
      BY <1>0, <2>2
    <2>5. \A i \in Size(RoomFor(n)) :
             q.data[i] = IF i \in count .. count + k - 1
                         THEN driver[i - count + 1] ELSE a[i]
      BY <2>3
    <2>6. q.data \in [Size(RoomFor(n)) -> Byte]
      <3>1. ASSUME NEW i \in count .. count + k - 1
            PROVE  driver[i - count + 1] \in Byte
        <4>1. i - count + 1 \in 1 .. Len(driver)
          BY <1>0, <2>4
        <4> QED
          BY <1>0, <4>1, ElementOfSeq
      <3>2. \A i \in Size(RoomFor(n)) : q.data[i] \in Byte
        BY <2>2, <2>5, <3>1
      <3> QED
        BY <2>3, <3>2
    <2>7. /\ Content \in Seq(Byte) /\ Len(Content) = count
          /\ \A i \in 1 .. count : Content[i] = data[head + i - 1]
      <3>1. \A i \in 1 .. count : head + i - 1 \in Size(curSize)
        BY <1>0 DEF Size
      <3>2. Content \in [1 .. count -> Byte]
        BY <1>0, <3>1 DEF Content
      <3>3. \A i \in 1 .. count : Content[i] = data[head + i - 1]
        BY DEF Content
      <3> QED
        BY <1>0, <3>2, <3>3, FunctionIsSeq
    <2>8. /\ ContentOf(q) \in Seq(Byte) /\ Len(ContentOf(q)) = count + k
          /\ \A i \in 1 .. count + k : ContentOf(q)[i] = q.data[0 + i - 1]
      <3>1. ContentOf(q) = [i \in 1 .. count + k |-> q.data[0 + i - 1]]
        BY <2>3 DEF ContentOf
      <3>2. count + k \in Nat /\ count + k <= RoomFor(n)
        BY <1>0, <2>4
      <3>3. \A i \in 1 .. count + k : 0 + i - 1 \in Size(RoomFor(n))
        BY <2>2, <3>2 DEF Size
      <3>4. ContentOf(q) \in [1 .. count + k -> Byte]
        BY <2>6, <3>1, <3>3
      <3>5. ContentOf(q) \in Seq(Byte) /\ Len(ContentOf(q)) = count + k
        BY <3>2, <3>4, FunctionIsSeq
      <3> QED
        BY <3>1, <3>5
    <2>9. ASSUME NEW i \in 1 .. count
          PROVE  ContentOf(q)[i] = Content[i]
      <3>1. /\ i - 1 \in Size(count) /\ i - 1 \in Size(RoomFor(n))
            /\ i - 1 \notin count .. count + k - 1
            /\ i \in 1 .. count + k
            /\ 0 + i - 1 = i - 1 /\ head + (i - 1) = head + i - 1
        BY <1>0, <2>2, <2>4 DEF Size
      <3>2. q.data[i - 1] = data[head + i - 1]
        BY <2>2, <2>5, <3>1
      <3> QED
        BY <2>7, <2>8, <3>1, <3>2
    <2>10. ASSUME NEW i \in 1 .. k
           PROVE  ContentOf(q)[count + i] = driver[i]
      <3>1. /\ count + i - 1 \in Size(RoomFor(n))
            /\ count + i - 1 \in count .. count + k - 1
            /\ count + i \in 1 .. count + k
            /\ 0 + (count + i) - 1 = count + i - 1
            /\ (count + i - 1) - count + 1 = i
        BY <1>0, <2>2, <2>4 DEF Size
      <3>2. q.data[count + i - 1] = driver[i]
        BY <2>5, <3>1
      <3> QED
        BY <2>8, <3>1, <3>2
    <2>11. /\ q.driver \in Seq(Byte)
           /\ ContentOf(q) \o q.driver = Content \o driver
      <3> DEFINE u == Content
                 v == ContentOf(q)
                 e == q.driver
      <3>1. /\ u \in Seq(Byte) /\ v \in Seq(Byte)
            /\ Len(u) = count /\ Len(v) = count + k
            /\ \A i \in 1 .. count : v[i] = u[i]
            /\ \A i \in 1 .. k : v[count + i] = driver[i]
        BY <2>7, <2>8, <2>9, <2>10
      <3>2. /\ e \in Seq(Byte) /\ Len(e) = n - k
            /\ \A i \in 1 .. n - k : e[i] = driver[k + i]
        BY <1>0, <2>3, Dropped
      <3>3. n \in Nat /\ Len(driver) = n
        BY <1>0
      <3> HIDE DEF u, v, e, n
      <3>4. /\ v \o e \in Seq(Byte) /\ Len(v \o e) = count + n
            /\ \A i \in 1 .. count + n :
                  (v \o e)[i] = IF i <= count + k THEN v[i]
                                ELSE e[i - (count + k)]
        <4>1. /\ v \o e \in Seq(Byte) /\ Len(v \o e) = Len(v) + Len(e)
              /\ \A i \in 1 .. Len(v) + Len(e) :
                    (v \o e)[i] = IF i <= Len(v) THEN v[i] ELSE e[i - Len(v)]
          BY <3>1, <3>2, ConcatProperties
        <4>2. Len(v) + Len(e) = count + n
          BY <1>0, <2>4, <3>1, <3>2, <3>3
        <4>3. /\ v \o e \in Seq(Byte) /\ Len(v \o e) = count + n
              /\ \A i \in 1 .. count + n :
                    (v \o e)[i] = IF i <= Len(v) THEN v[i] ELSE e[i - Len(v)]
          BY <4>1, <4>2
        <4>4. Len(v) = count + k
          BY <3>1
        <4> QED
          BY <4>3, <4>4
      <3>5. /\ u \o driver \in Seq(Byte) /\ Len(u \o driver) = count + n
            /\ \A i \in 1 .. count + n :
                  (u \o driver)[i] = IF i <= count THEN u[i]
                                     ELSE driver[i - count]
        <4>1. /\ u \o driver \in Seq(Byte)
              /\ Len(u \o driver) = Len(u) + Len(driver)
              /\ \A i \in 1 .. Len(u) + Len(driver) :
                    (u \o driver)[i] = IF i <= Len(u) THEN u[i]
                                       ELSE driver[i - Len(u)]
          BY <1>0, <3>1, ConcatProperties
        <4> QED
          BY <3>1, <3>3, <4>1
      <3>6. ASSUME NEW i \in 1 .. count + n
            PROVE  (v \o e)[i] = (u \o driver)[i]
        <4>1. CASE i <= count
          BY <1>0, <2>4, <3>1, <3>3, <3>4, <3>5, <4>1
        <4>2. CASE i > count /\ i <= count + k
          <5>1. i - count \in 1 .. k /\ count + (i - count) = i
            BY <1>0, <2>4, <3>3, <4>2
          <5>2. v[i] = driver[i - count]
            BY <3>1, <5>1
          <5>3. ~(i <= count)
            BY <1>0, <2>4, <3>3, <4>2
          <5>4. (v \o e)[i] = v[i]
            BY <3>4, <4>2
          <5>5. (u \o driver)[i] = driver[i - count]
            BY <3>5, <5>3
          <5> QED
            BY <5>2, <5>4, <5>5
        <4>3. CASE i > count + k
          <5>1. /\ i - (count + k) \in 1 .. n - k
                /\ k + (i - (count + k)) = i - count
            BY <1>0, <2>4, <3>3, <4>3
          <5>2. e[i - (count + k)] = driver[i - count]
            BY <3>2, <5>1
          <5>3. ~(i <= count) /\ ~(i <= count + k)
            BY <1>0, <2>4, <3>3, <4>3
          <5>4. (v \o e)[i] = e[i - (count + k)]
            BY <3>4, <5>3
          <5>5. (u \o driver)[i] = driver[i - count]
            BY <3>5, <5>3
          <5> QED
            BY <5>2, <5>4, <5>5
        <4>4. i <= count \/ (i > count /\ i <= count + k) \/ i > count + k
          <5>1. count \in Nat /\ k \in Nat /\ n \in Nat
            BY <1>0, <2>4, <3>3
          <5> QED
            BY <5>1
        <4> QED
          BY <4>1, <4>2, <4>3, <4>4
      <3>7. v \o e = u \o driver
        BY <3>4, <3>5, <3>6, SeqEqual
      <3> QED
        BY <3>2, <3>7 DEF u, v, e
    <2>12. q.head + q.count <= q.curSize /\ q.head \in Nat /\ q.count \in Nat
      BY <1>0, <2>3, <2>4
    <2> QED
      BY <2>2, <2>3, <2>6, <2>11, <2>12 DEF Sound
  <1> QED
    BY <1>1, <1>2

\* The bytes that were received and are not handed out.
Unread == Content \o driver

\* Unread as a sequence of count bytes of the array and then the driver's.
LEMMA UnreadIsSeq ==
    ASSUME TypeOK, WithinArray
    PROVE  /\ Content \in Seq(Byte) /\ Len(Content) = count
           /\ Unread \in Seq(Byte) /\ Len(Unread) = count + Len(driver)
           /\ Len(driver) \in Nat
  <1>1. /\ count \in Nat /\ head \in Nat /\ curSize \in Nat
        /\ head + count <= curSize /\ driver \in Seq(Byte)
        /\ data \in [Size(curSize) -> Byte]
    BY DEF TypeOK, WithinArray
  <1>2. \A i \in 1 .. count : head + i - 1 \in Size(curSize)
    BY <1>1 DEF Size
  <1>3. Content \in [1 .. count -> Byte]
    BY <1>1, <1>2 DEF Content
  <1>4. Content \in Seq(Byte) /\ Len(Content) = count
    BY <1>1, <1>3, FunctionIsSeq
  <1> QED
    BY <1>1, <1>4, ConcatProperties, LenProperties DEF Unread

\* Handing out n bytes of a sound queue leaves a sound queue, and takes the
\* first n of the unread bytes.
LEMMA BecomeSound ==
    ASSUME QueueInv, NEW q, Sound(q), NEW n \in Nat, n <= q.count, Become(q, n)
    PROVE  /\ curSize' \in Nat /\ head' \in Nat /\ count' \in Nat
           /\ data' \in [Size(curSize') -> Byte]
           /\ driver' \in Seq(Byte) /\ out' \in Seq(Byte)
           /\ head' + count' <= curSize'
           /\ n <= Len(Unread)
           /\ out' = out \o SubSeq(Unread, 1, n)
           /\ Unread' = SubSeq(Unread, n + 1, Len(Unread))
  <1> DEFINE c == q.count
             h == q.head
             w == ContentOf(q)
             d == q.driver
             new == [i \in 1 .. n |-> q.data[q.head + i - 1]]
  <1>1. /\ c \in Nat /\ h \in Nat /\ q.curSize \in Nat
        /\ h + c <= q.curSize /\ d \in Seq(Byte)
        /\ q.data \in [Size(q.curSize) -> Byte]
        /\ w \o d = Unread
        /\ out \in Seq(Byte)
    BY DEF Sound, QueueInv, TypeOK, Unread
  <1>2. /\ head' = h + n /\ count' = c - n /\ curSize' = q.curSize
        /\ data' = q.data /\ driver' = d /\ out' = out \o new
    BY DEF Become
  <1>3. \A i \in 1 .. c : h + i - 1 \in Size(q.curSize)
    BY <1>1 DEF Size
  <1>4. /\ w \in Seq(Byte) /\ Len(w) = c
        /\ \A i \in 1 .. c : w[i] = q.data[h + i - 1]
    <2>1. w = [i \in 1 .. c |-> q.data[h + i - 1]]
      BY DEF ContentOf
    <2>2. w \in [1 .. c -> Byte]
      BY <1>1, <1>3, <2>1
    <2> QED
      BY <1>1, <2>1, <2>2, FunctionIsSeq
  <1>5. /\ new \in Seq(Byte) /\ Len(new) = n
        /\ \A i \in 1 .. n : new[i] = q.data[h + i - 1]
    <2>1. \A i \in 1 .. n : i \in 1 .. c
      BY <1>1
    <2>2. \A i \in 1 .. n : q.data[h + i - 1] \in Byte
      BY <1>1, <1>3, <2>1
    <2>3. new \in [1 .. n -> Byte]
      BY <2>2
    <2> QED
      BY <2>3, FunctionIsSeq
  <1>6. /\ head' \in Nat /\ count' \in Nat /\ head' + count' <= curSize'
        /\ curSize' \in Nat /\ data' \in [Size(curSize') -> Byte]
        /\ driver' \in Seq(Byte)
    <2>1. c - n \in Nat /\ h + n \in Nat /\ (h + n) + (c - n) <= q.curSize
      <3>1. n <= c
        OBVIOUS
      <3> HIDE DEF c, h
      <3> QED
        BY <1>1, <3>1
    <2> QED
      BY <1>1, <1>2, <2>1
  <1>7. out' \in Seq(Byte)
    BY <1>1, <1>2, <1>5, ConcatProperties
  <1>8. /\ Len(d) \in Nat
        /\ Unread \in Seq(Byte) /\ Len(Unread) = c + Len(d)
        /\ \A i \in 1 .. c + Len(d) :
              Unread[i] = IF i <= c THEN w[i] ELSE d[i - c]
    <2>1. /\ w \o d \in Seq(Byte) /\ Len(w \o d) = Len(w) + Len(d)
          /\ \A i \in 1 .. Len(w) + Len(d) :
                (w \o d)[i] = IF i <= Len(w) THEN w[i] ELSE d[i - Len(w)]
      BY <1>1, <1>4, ConcatProperties
    <2> QED
      BY <1>1, <1>4, <2>1, LenProperties
  <1> HIDE DEF c, h, w, d, new
  <1>9. n <= Len(Unread)
    BY <1>1, <1>8 DEF c
  <1>10. SubSeq(Unread, 1, n) = new
    <2>1. \A i \in 1 .. n : Unread[i] \in Byte
      <3> SUFFICES ASSUME NEW i \in 1 .. n PROVE Unread[i] \in Byte
        OBVIOUS
      <3>1. i \in 1 .. Len(Unread)
        BY <1>8, <1>9
      <3> QED
        BY <1>8, <3>1, ElementOfSeq
    <2>2. /\ SubSeq(Unread, 1, n) \in Seq(Byte)
          /\ Len(SubSeq(Unread, 1, n)) = IF 1 <= n THEN n - 1 + 1 ELSE 0
          /\ \A i \in 1 .. n - 1 + 1 :
                SubSeq(Unread, 1, n)[i] = Unread[1 + i - 1]
      BY <2>1, SubSeqProperties
    <2>3. ASSUME NEW i \in 1 .. n
          PROVE  SubSeq(Unread, 1, n)[i] = new[i]
      <3>0. i <= c
        BY <1>1 DEF c
      <3>1. i \in 1 .. c /\ i \in 1 .. c + Len(d) /\ 1 + i - 1 = i
        BY <1>1, <1>8 DEF c
      <3>2. SubSeq(Unread, 1, n)[i] = Unread[i]
        BY <2>2, <3>1
      <3>3. Unread[i] = w[i]
        BY <1>8, <3>0, <3>1
      <3>4. w[i] = q.data[h + i - 1]
        BY <1>4, <3>1
      <3>5. new[i] = q.data[h + i - 1]
        BY <1>5
      <3> QED
        BY <3>2, <3>3, <3>4, <3>5
    <2>4. Len(SubSeq(Unread, 1, n)) = n
      BY <2>2
    <2> QED
      BY <1>5, <2>2, <2>3, <2>4, SeqEqual
  <1>11. Unread' = SubSeq(Unread, n + 1, Len(Unread))
    <2>1. /\ SubSeq(Unread, n + 1, Len(Unread)) \in Seq(Byte)
          /\ Len(SubSeq(Unread, n + 1, Len(Unread))) = Len(Unread) - n
          /\ \A i \in 1 .. Len(Unread) - n :
                SubSeq(Unread, n + 1, Len(Unread))[i] = Unread[n + i]
      BY <1>8, <1>9, Dropped
    <2>2. /\ Content' \in Seq(Byte) /\ Len(Content') = c - n
          /\ \A i \in 1 .. c - n : Content'[i] = w[n + i]
      <3>1. Content' = [i \in 1 .. c - n |-> data'[head' + i - 1]]
        BY <1>2 DEF Content
      <3>2. \A i \in 1 .. c - n : data'[head' + i - 1] = w[n + i]
        <4> SUFFICES ASSUME NEW i \in 1 .. c - n
                     PROVE  data'[head' + i - 1] = w[n + i]
          OBVIOUS
        <4>1. n + i \in 1 .. c /\ head' + i - 1 = h + (n + i) - 1
          BY <1>1, <1>2
        <4> QED
          BY <1>2, <1>4, <4>1
      <3>3. \A i \in 1 .. c - n : w[n + i] \in Byte
        <4> SUFFICES ASSUME NEW i \in 1 .. c - n PROVE w[n + i] \in Byte
          OBVIOUS
        <4>1. n + i \in 1 .. Len(w)
          BY <1>1, <1>4
        <4> QED
          BY <1>4, <4>1, ElementOfSeq
      <3>4. Content' \in [1 .. c - n -> Byte]
        BY <3>1, <3>2, <3>3
      <3>5. c - n \in Nat
        BY <1>1, <1>6, <1>2
      <3>6. Content' \in Seq(Byte) /\ Len(Content') = c - n
        BY <3>4, <3>5, FunctionIsSeq
      <3> QED
        BY <3>1, <3>2, <3>6
    <2>3. /\ Unread' \in Seq(Byte) /\ Len(Unread') = (c - n) + Len(d)
          /\ \A i \in 1 .. (c - n) + Len(d) :
                Unread'[i] = IF i <= c - n THEN Content'[i] ELSE d[i - (c - n)]
      <3>1. Unread' = Content' \o d
        BY <1>2 DEF Unread
      <3>2. /\ Content' \o d \in Seq(Byte)
            /\ Len(Content' \o d) = Len(Content') + Len(d)
            /\ \A i \in 1 .. Len(Content') + Len(d) :
                  (Content' \o d)[i] = IF i <= Len(Content') THEN Content'[i]
                                       ELSE d[i - Len(Content')]
        BY <1>1, <2>2, ConcatProperties
      <3>3. Len(Content') = c - n
        BY <2>2
      <3> QED
        BY <3>1, <3>2, <3>3
    <2>4. /\ Len(Unread) - n = (c - n) + Len(d)
          /\ c \in Nat /\ c - n \in Nat /\ Len(d) \in Nat
      BY <1>1, <1>2, <1>6, <1>8
    <2>5. ASSUME NEW i \in 1 .. (c - n) + Len(d)
          PROVE  Unread'[i] = Unread[n + i]
      <3>1. n + i \in 1 .. c + Len(d)
        BY <2>4
      <3>2. CASE i <= c - n
        <4>1. i \in 1 .. c - n /\ n + i <= c
          BY <2>4, <3>2
        <4> QED
          BY <1>8, <2>2, <2>3, <3>1, <3>2, <4>1
      <3>3. CASE i > c - n
        <4>1. PICK j : j = n + i
          OBVIOUS
        <4>2. /\ ~(i <= c - n) /\ ~(j <= c) /\ i - (c - n) = j - c
              /\ j \in 1 .. c + Len(d)
          BY <2>4, <3>1, <3>3, <4>1
        <4>3. Unread'[i] = d[i - (c - n)]
          BY <2>3, <4>2
        <4>4. Unread[j] = d[j - c]
          BY <1>8, <4>2
        <4>5. Unread'[i] = Unread[j]
          BY <4>2, <4>3, <4>4
        <4> QED
          BY <4>1, <4>5
      <3>4. i <= c - n \/ i > c - n
        BY <2>4
      <3> QED
        BY <3>2, <3>3, <3>4
    <2>6. /\ Len(Unread') = Len(SubSeq(Unread, n + 1, Len(Unread)))
          /\ \A i \in 1 .. Len(Unread') :
                Unread'[i] = SubSeq(Unread, n + 1, Len(Unread))[i]
      BY <2>1, <2>3, <2>4, <2>5
    <2> QED
      BY <2>1, <2>3, <2>6, SeqEqual
  <1> QED
    BY <1>2, <1>6, <1>7, <1>9, <1>10, <1>11

-----------------------------------------------------------------------------
LEMMA QueueInit == Init => QueueInv
  <1> SUFFICES ASSUME Init PROVE QueueInv
    OBVIOUS
  <1>1. 0 \in Nat /\ MaxReceived \in Nat /\ NoByte \in Byte
    BY QueueAssumption DEF NoByte
  <1>2. <<>> \in Seq(Byte)
    BY EmptySeq
  <1>3. data \in [Size(curSize) -> Byte]
    BY <1>1 DEF Init
  <1> QED
    BY <1>1, <1>2, <1>3 DEF Init, QueueInv, TypeOK, WithinArray

\* A step that ends in Become: what it does to the unread bytes, and that the
\* queue stays sound.
LEMMA ProgramBecomes ==
    ASSUME Reliable, QueueInv, NEW q \in Refreshed, NEW n \in Nat,
           n <= q.count, Become(q, n), want' \in Nat, received' = received
    PROVE  /\ QueueInv'
           /\ n <= Len(Unread)
           /\ out' = out \o SubSeq(Unread, 1, n)
           /\ Unread' = SubSeq(Unread, n + 1, Len(Unread))
  <1>1. Sound(q)
    BY RefreshSound
  <1>2. /\ curSize' \in Nat /\ head' \in Nat /\ count' \in Nat
        /\ data' \in [Size(curSize') -> Byte]
        /\ driver' \in Seq(Byte) /\ out' \in Seq(Byte)
        /\ head' + count' <= curSize'
        /\ n <= Len(Unread)
        /\ out' = out \o SubSeq(Unread, 1, n)
        /\ Unread' = SubSeq(Unread, n + 1, Len(Unread))
    BY <1>1, BecomeSound
  <1>3. received' \in 0 .. MaxReceived
    BY DEF QueueInv, TypeOK
  <1>4. QueueInv'
    BY <1>2, <1>3 DEF QueueInv, TypeOK, WithinArray
  <1> QED
    BY <1>2, <1>4

\* Handing out n bytes is a step of the FIFO, or none when n is zero.
LEMMA TakeStep ==
    ASSUME QueueInv, NEW n \in Nat, n <= Len(Unread),
           out' = out \o SubSeq(Unread, 1, n),
           Unread' = SubSeq(Unread, n + 1, Len(Unread))
    PROVE  [Fifo!Next]_(Fifo!vars)
  <1>1. /\ Unread \in Seq(Byte) /\ Len(Unread) \in Nat /\ out \in Seq(Byte)
    BY UnreadIsSeq, LenProperties DEF QueueInv, TypeOK
  <1>2. CASE n = 0
    <2>1. SubSeq(Unread, 1, 0) = <<>>
      BY SubSeqEmpty
    <2>2. out' = out
      BY <1>1, <1>2, <2>1, ConcatEmptySeq
    <2>3. Unread' = Unread
      BY <1>1, <1>2, SubSeqFull
    <2> QED
      BY <2>2, <2>3 DEF Fifo!vars, Unread
  <1>3. CASE n # 0
    <2>1. n \in 1 .. Len(Unread)
      BY <1>1, <1>3
    <2>2. Fifo!Take(n)
      BY <2>1 DEF Fifo!Take, Unread
    <2> QED
      BY <2>1, <2>2 DEF Fifo!Next, Unread
  <1> QED
    BY <1>2, <1>3

\* After Flush, and after Init of the queue, the array holds no byte.
LEMMA EmptiedArray ==
    ASSUME QueueInv, count' = 0, driver' \in Seq(Byte)
    PROVE  Unread' = driver'
  <1>1. Content' = [i \in 1 .. 0 |-> data'[head' + i - 1]]
    BY DEF Content
  <1>2. Content' = <<>>
    <2>1. Content' \in [1 .. 0 -> Byte]
      BY <1>1
    <2>2. Content' \in Seq(Byte) /\ Len(Content') = 0
      BY <2>1, FunctionIsSeq
    <2> QED
      BY <2>2, EmptySeq
  <1> QED
    BY <1>2, ConcatEmptySeq DEF Unread

\* The bytes of the driver are what is left of the unread ones when the array
\* is dropped.
LEMMA DriverIsRest ==
    ASSUME QueueInv
    PROVE  driver = SubSeq(Unread, count + 1, Len(Unread))
  <1>1. /\ Content \in Seq(Byte) /\ Len(Content) = count
        /\ Unread \in Seq(Byte) /\ Len(Unread) = count + Len(driver)
        /\ Len(driver) \in Nat /\ driver \in Seq(Byte) /\ count \in Nat
    BY UnreadIsSeq DEF QueueInv, TypeOK
  <1>2. /\ \A i \in 1 .. Len(Content) + Len(driver) :
              Unread[i] = IF i <= Len(Content) THEN Content[i]
                          ELSE driver[i - Len(Content)]
    BY <1>1, ConcatProperties DEF Unread
  <1>3. /\ SubSeq(Unread, count + 1, Len(Unread)) \in Seq(Byte)
        /\ Len(SubSeq(Unread, count + 1, Len(Unread))) = Len(Unread) - count
        /\ \A i \in 1 .. Len(Unread) - count :
              SubSeq(Unread, count + 1, Len(Unread))[i] = Unread[count + i]
    BY <1>1, Dropped
  <1>4. Len(Unread) - count = Len(driver)
    BY <1>1
  <1>5. ASSUME NEW i \in 1 .. Len(driver)
        PROVE  driver[i] = SubSeq(Unread, count + 1, Len(Unread))[i]
    <2>1. /\ count + i \in 1 .. count + Len(driver)
          /\ ~(count + i <= count) /\ count + i - count = i
      BY <1>1
    <2>2. Unread[count + i] = driver[i]
      BY <1>1, <1>2, <2>1
    <2> QED
      BY <1>3, <1>4, <2>2
  <1> QED
    BY <1>1, <1>3, <1>4, <1>5, SeqEqual

\* Every step keeps the queue sound, and is a step of the FIFO or leaves it as
\* it is.
LEMMA QueueStep ==
    ASSUME Reliable, QueueInv, [Next]_vars
    PROVE  QueueInv' /\ [Fifo!Next]_(Fifo!vars)
  <1>0. /\ curSize \in Nat /\ head \in Nat /\ count \in Nat /\ want \in Nat
        /\ data \in [Size(curSize) -> Byte]
        /\ driver \in Seq(Byte) /\ out \in Seq(Byte)
        /\ received \in 0 .. MaxReceived
        /\ head + count <= curSize
    BY DEF QueueInv, TypeOK, WithinArray
  <1>1. CASE Receive
    <2>1. PICK b \in Byte : driver' = Append(driver, b)
      BY <1>1 DEF Receive
    <2>2. /\ UNCHANGED <<data, curSize, head, count, want, out>>
          /\ received' = received + 1 /\ received < MaxReceived
      BY <1>1 DEF Receive
    <2>3. driver' \in Seq(Byte) /\ driver' = driver \o <<b>>
      BY <1>0, <2>1, AppendProperties, AppendIsConcat
    <2>4. received' \in 0 .. MaxReceived
      BY <1>0, <2>2, QueueAssumption
    <2>5. QueueInv'
      BY <1>0, <2>2, <2>3, <2>4 DEF QueueInv, TypeOK, WithinArray
    <2>6. Content' = Content
      BY <2>2 DEF Content
    <2>7. /\ Content \in Seq(Byte) /\ Unread \in Seq(Byte)
          /\ <<b>> \in Seq(Byte)
      BY UnreadIsSeq DEF QueueInv
    <2>8. Content \o (driver \o <<b>>) = (Content \o driver) \o <<b>>
      BY <1>0, <2>7, ConcatAssociative
    <2>9. Unread' = Append(Unread, b)
      BY <2>3, <2>6, <2>7, <2>8, AppendIsConcat DEF Unread
    <2>10. Fifo!Receive
      BY <2>2, <2>9 DEF Fifo!Receive, Unread
    <2> QED
      BY <2>5, <2>10 DEF Fifo!Next
  <1>2. CASE Refresh
    <2>1. PICK q \in Refreshed : Become(q, 0)
      BY <1>2 DEF Refresh
    <2>2. want' = want /\ received' = received
      BY <1>2 DEF Refresh
    <2>3. 0 \in Nat /\ 0 <= q.count
      BY RefreshSound DEF Sound
    <2> QED
      BY <1>0, <2>1, <2>2, <2>3, ProgramBecomes, TakeStep
  <1>3. CASE \E n \in 1 .. MaxGet : Read(n)
    <2>1. PICK n \in 1 .. MaxGet : Read(n)
      BY <1>3
    <2>2. PICK q \in Refreshed : n <= q.count /\ Become(q, n)
      BY <2>1 DEF Read
    <2>3. want' = want /\ received' = received /\ n \in Nat
      BY <2>1 DEF Read
    <2> QED
      BY <1>0, <2>2, <2>3, ProgramBecomes, TakeStep
  <1>4. CASE GetPart
    <2>1. PICK q \in Refreshed :
             /\ Become(q, Lesser(want, q.count))
             /\ want' = want - Lesser(want, q.count)
      BY <1>4 DEF GetPart
    <2>2. received' = received
      BY <1>4 DEF GetPart
    <2>3. q.count \in Nat
      BY RefreshSound DEF Sound
    <2> DEFINE n == Lesser(want, q.count)
    <2>4. n \in Nat /\ n <= q.count /\ want - n \in Nat
      BY <1>0, <2>3 DEF Lesser
    <2>5. Become(q, n) /\ want' \in Nat
      BY <2>1, <2>4
    <2> HIDE DEF n
    <2> QED
      BY <2>2, <2>4, <2>5, ProgramBecomes, TakeStep
  <1>5. CASE Flush \/ Reopen
    <2>1. /\ head' = 0 /\ count' = 0 /\ driver' \in {driver, <<>>}
          /\ UNCHANGED <<data, curSize, want, out, received>>
      BY <1>5 DEF Flush, Reopen
    <2>2. driver' \in Seq(Byte)
      BY <1>0, <2>1, EmptySeq
    <2>3. QueueInv'
      BY <1>0, <2>1, <2>2 DEF QueueInv, TypeOK, WithinArray
    <2>4. Unread' = driver'
      BY <2>1, <2>2, EmptiedArray
    <2>5. CASE driver' = <<>>
      <3>1. Fifo!Discard
        BY <2>1, <2>4, <2>5 DEF Fifo!Discard, Unread
      <3> QED
        BY <2>3, <3>1 DEF Fifo!Next
    <2>6. CASE driver' = driver
      <3>1. Unread' = SubSeq(Unread, count + 1, Len(Unread))
        BY <2>4, <2>6, DriverIsRest
      <3>2. /\ Unread \in Seq(Byte) /\ Len(Unread) = count + Len(driver)
            /\ Len(driver) \in Nat
        BY UnreadIsSeq DEF QueueInv
      <3>3. CASE count = 0
        <4>1. Unread' = Unread
          BY <3>1, <3>2, <3>3, SubSeqFull
        <4> QED
          BY <2>1, <2>3, <4>1 DEF Fifo!vars, Unread
      <3>4. CASE count # 0
        <4>1. count \in 1 .. Len(Unread)
          BY <1>0, <3>2, <3>4
        <4>2. Fifo!DiscardSome(count)
          BY <2>1, <3>1, <4>1 DEF Fifo!DiscardSome, Unread
        <4> QED
          BY <2>3, <4>1, <4>2 DEF Fifo!Next, Unread
      <3> QED
        BY <3>3, <3>4
    <2> QED
      BY <2>1, <2>5, <2>6
  <1>6. CASE (\E n \in 1 .. MaxGet : GetData(n)) \/ UNCHANGED vars
    <2>1. /\ UNCHANGED <<data, curSize, head, count, driver, out, received>>
          /\ want' \in Nat
      BY <1>0, <1>6 DEF GetData, vars
    <2>2. QueueInv'
      BY <1>0, <2>1 DEF QueueInv, TypeOK, WithinArray
    <2>3. Content' = Content
      BY <2>1 DEF Content
    <2> QED
      BY <2>1, <2>2, <2>3 DEF Fifo!vars
  <1> QED
    BY <1>1, <1>2, <1>3, <1>4, <1>5, <1>6 DEF Next, Program

-----------------------------------------------------------------------------
\* The variables of the queue keep their types: no count or index is ever
\* negative.
THEOREM QueueTypeCorrect ==
    ASSUME Reliable
    PROVE  Spec => []TypeOK
  <1>1. QueueInv /\ [Next]_vars => QueueInv'
    BY QueueStep
  <1>2. QueueInv => TypeOK
    BY DEF QueueInv
  <1> QED
    BY <1>1, <1>2, QueueInit, PTL DEF Spec

\* The used part of the queue never leaves its array, however many bytes the
\* driver has and however many of them are read.
THEOREM QueueWithinArray ==
    ASSUME Reliable
    PROVE  Spec => []WithinArray
  <1>1. QueueInv /\ [Next]_vars => QueueInv'
    BY QueueStep
  <1>2. QueueInv => WithinArray
    BY DEF QueueInv
  <1> QED
    BY <1>1, <1>2, QueueInit, PTL DEF Spec

\* SerialQueue is a FIFO: the bytes the port delivers are handed out once each
\* and in order, across every enlargement and every move of the array.
THEOREM QueueIsFifo ==
    ASSUME Reliable
    PROVE  Spec => FifoKept
  <1>1. QueueInv /\ [Next]_vars => QueueInv' /\ [Fifo!Next]_(Fifo!vars)
    BY QueueStep
  <1>2. Init => Fifo!Init
    <2> SUFFICES ASSUME Init PROVE Fifo!Init
      OBVIOUS
    <2>1. Content = [i \in 1 .. 0 |-> data[head + i - 1]]
      BY DEF Init, Content
    <2>2. Content = <<>>
      BY <2>1
    <2> QED
      BY <2>2 DEF Init, Fifo!Init
  <1> QED
    BY <1>1, <1>2, QueueInit, PTL DEF Spec, FifoKept, Fifo!Spec

-----------------------------------------------------------------------------
(* The scripts *)

Levels3 == {"low", "high", "keep"}
Waits == {"none", "brief", "long", "break"}
Steps == [dtr : Levels3, rts : Levels3, wait : Waits]

\* What is left of the script for forApp after k of its steps.
Left(forApp, k) == SubSeq(Script(forApp), k + 1, Len(Script(forApp)))

\* Steps of the latest reset that are done, their delays included.
StepsDone == Len(Script(reset.forApp)) - Len(todo)

\* Steps of it whose calls are done.
Called == StepsDone + (IF wait = "none" THEN 0 ELSE 1)

\* The device is in p, or will be when the pulse ends.
Soon(p) == pulse \/ device = p

\* The levels that each call of ResetDevice finds.
AutoSound ==
    IF reset.forApp
    THEN /\ Called = 0 => ~dtr /\ ~rts
         /\ Called = 1 => dtr /\ ~rts /\ pulse
         /\ Called = 2 => ~dtr /\ ~rts /\ Soon("application")
    ELSE /\ Called = 1 => ~dtr /\ rts
         /\ Called = 2 => dtr /\ rts /\ pulse
         /\ Called = 3 => /\ ~dtr /\ rts
                          /\ IF wait = "none" THEN ~pulse /\ device = "loader"
                             ELSE Soon("loader")
         /\ Called = 4 => ~dtr /\ ~rts /\ ~pulse /\ device = "loader"

CkSound ==
    IF reset.forApp
    THEN /\ Called = 1 => ~dtr /\ rts
         /\ Called = 2 => ~dtr /\ ~rts /\ device = "application"
    ELSE /\ Called = 1 => dtr /\ rts
         /\ Called = 2 => dtr /\ ~rts /\ device = "loader"
         /\ Called = 3 => ~dtr /\ ~rts /\ device = "loader"

NodeMcuSound ==
    IF reset.forApp
    THEN /\ Called = 1 => ~dtr /\ rts
         /\ Called = 2 => ~dtr /\ ~rts /\ device = "application"
    ELSE /\ Called = 1 => rts /\ (dtr <=> second)
         /\ Called = 2 => dtr /\ ~rts /\ (atOnce => device = "loader")
         /\ Called = 3 => dtr /\ rts /\ (atOnce => device = "loader")

WifioSound ==
    /\ Called = 1 => ~dtr
    /\ Called = 2 => dtr /\ pulse
    /\ Called = 3 => ~dtr /\ IF reset.forApp THEN Soon("application") ELSE pulse
    /\ Called = 4 => ~dtr /\ IF wait = "none" THEN ~pulse /\ device = "loader"
                             ELSE txd /\ Soon("loader")
    /\ Called = 5 => ~dtr /\ ~pulse /\ device = "loader"

DtrOnlySound ==
    /\ Called = 0 => ~dtr
    /\ Called = 1 => /\ dtr
                     /\ IF reset.forApp THEN pulse
                        ELSE IF wait = "none" THEN ~pulse /\ device = "loader"
                        ELSE Soon("loader")
    /\ Called = 2 => ~dtr /\ IF reset.forApp THEN Soon("application")
                             ELSE ~pulse /\ device = "loader"

LinesSound ==
    /\ mode = "auto" => AutoSound
    /\ mode = "ck" => CkSound
    /\ mode = "nodemcu" => NodeMcuSound
    /\ mode = "wifio" => WifioSound
    /\ mode = "dtronly" => DtrOnlySound

\* Where ResetDevice is in its script.
InScript ==
    /\ reset \in [forApp : BOOLEAN, atRest : BOOLEAN, failed : BOOLEAN]
    /\ second \in BOOLEAN
    /\ IF resets = 0
       THEN /\ reset.failed /\ wait = "none"
            /\ todo \in {<<>>, <<OpenStep>>} /\ (~open => todo = <<>>)
       ELSE /\ open
            /\ \E k \in 0 .. Len(Script(reset.forApp)) : todo = Left(reset.forApp, k)
            /\ wait # "none" => todo # <<>> /\ todo[1].wait = wait /\ ~second
    /\ todo = <<>> => wait = "none" /\ ~second
    /\ second => Both(todo[1]) /\ ~atOnce
    /\ txd => wait = "break"

ResetInv ==
    /\ LTypeOK /\ InScript
    /\ ~reset.failed /\ (reset.atRest \/ FromAnyLevels) => LinesSound

LEMMA StepTyped == \A d, r \in Levels3, w \in Waits : Step(d, r, w) \in Steps
  BY DEF Step, Steps

LEMMA WifioSteps ==
    WifioForLoader = <<Step("low", "keep", "none"), Step("high", "keep", "brief"),
                       Step("low", "keep", "none"), Step("keep", "keep", "break"),
                       Step("keep", "keep", "long")>>
  <1> DEFINE a == Step("low", "keep", "none")
             b == Step("high", "keep", "brief")
             c == Step("keep", "keep", "break")
             d == Step("keep", "keep", "long")
             p == <<a, b, a>>
             q == <<c, d>>
             all == <<a, b, a, c, d>>
  <1>1. a \in Steps /\ b \in Steps /\ c \in Steps /\ d \in Steps
    BY StepTyped DEF Levels3, Waits
  <1> HIDE DEF a, b, c, d
  <1>2. /\ p \in Seq(Steps) /\ Len(p) = 3 /\ p[1] = a /\ p[2] = b /\ p[3] = a
        /\ q \in Seq(Steps) /\ Len(q) = 2 /\ q[1] = c /\ q[2] = d
    BY <1>1
  <1>3. /\ all \in Seq(Steps) /\ Len(all) = 5 /\ all[1] = a /\ all[2] = b
        /\ all[3] = a /\ all[4] = c /\ all[5] = d
    BY <1>1
  <1> HIDE DEF p, q, all
  <1>4. /\ p \o q \in Seq(Steps) /\ Len(p \o q) = 5
        /\ \A i \in 1 .. 5 : (p \o q)[i] = IF i <= 3 THEN p[i] ELSE q[i - 3]
    <2>1. /\ p \o q \in Seq(Steps) /\ Len(p \o q) = Len(p) + Len(q)
          /\ \A i \in 1 .. Len(p) + Len(q) :
                (p \o q)[i] = IF i <= Len(p) THEN p[i] ELSE q[i - Len(p)]
      BY <1>2, ConcatProperties
    <2>2. Len(p) = 3 /\ Len(q) = 2 /\ Len(p) + Len(q) = 5
      BY <1>2
    <2> QED
      BY <2>1, <2>2
  <1>5. \A i \in 1 .. 5 : (p \o q)[i] = all[i]
    BY <1>2, <1>3, <1>4
  <1>6. p \o q = all
    BY <1>3, <1>4, <1>5, SeqEqual
  <1> QED
    BY <1>6 DEF WifioForLoader, WifioForApp, p, q, all, a, b, c, d

\* The script of each mode.
LEMMA Scripts ==
    ASSUME NEW m, NEW a
    PROVE  LET script == CASE m = "auto"    -> IF a THEN AutoForApp ELSE AutoForLoader
                           [] m = "ck"      -> IF a THEN CkForApp ELSE CkForLoader
                           [] m = "wifio"   -> IF a THEN WifioForApp ELSE WifioForLoader
                           [] m = "nodemcu" -> IF a THEN NodeMcuForApp
                                               ELSE NodeMcuForLoader
                           [] m = "dtronly" -> DtrOnly(a)
           IN  /\ m = "auto" => script = IF a THEN AutoForApp ELSE AutoForLoader
               /\ m = "ck" => script = IF a THEN CkForApp ELSE CkForLoader
               /\ m = "wifio" => script = IF a THEN WifioForApp ELSE WifioForLoader
               /\ m = "nodemcu" => script = IF a THEN NodeMcuForApp ELSE NodeMcuForLoader
               /\ m = "dtronly" => script = DtrOnly(a)
  OBVIOUS

\* The scripts of the modes consist of steps.
LEMMA ScriptTyped ==
    ASSUME mode \in AllModes, NEW a \in BOOLEAN
    PROVE  Script(a) \in Seq(Steps)
  <1>1. \A d, r \in Levels3, w \in Waits : Step(d, r, w) \in Steps
    BY DEF Step, Steps
  <1>2. CASE mode = "auto"
    BY <1>1, <1>2 DEF Script, AutoForApp, AutoForLoader, Levels3, Waits
  <1>3. CASE mode = "ck"
    BY <1>1, <1>3 DEF Script, CkForApp, CkForLoader, Levels3, Waits
  <1>4. CASE mode = "nodemcu"
    BY <1>1, <1>4 DEF Script, NodeMcuForApp, NodeMcuForLoader, Levels3, Waits
  <1>5. CASE mode = "wifio"
    BY <1>1, <1>5, WifioSteps DEF Script, WifioForApp, Levels3, Waits
  <1>6. CASE mode = "dtronly"
    BY <1>1, <1>6 DEF Script, DtrOnly, Levels3, Waits
  <1> QED
    BY <1>2, <1>3, <1>4, <1>5, <1>6 DEF AllModes

\* What is left of a script when a step is done.
LEMMA LeftSteps ==
    ASSUME mode \in AllModes, NEW a \in BOOLEAN
    PROVE  /\ Len(Script(a)) \in Nat /\ Left(a, 0) = Script(a)
           /\ \A k \in 0 .. Len(Script(a)) : Len(Left(a, k)) = Len(Script(a)) - k
           /\ \A k \in 0 .. Len(Script(a)) - 1 :
                 /\ Left(a, k) # <<>> /\ Left(a, k)[1] = Script(a)[k + 1]
                 /\ Tail(Left(a, k)) = Left(a, k + 1)
                 /\ Script(a)[k + 1] \in Steps
  <1> DEFINE q == Script(a)
  <1>1. q \in Seq(Steps)
    BY ScriptTyped
  <1> HIDE DEF q
  <1>2. Len(q) \in Nat /\ SubSeq(q, 1, Len(q)) = q
    BY <1>1, LenProperties, SubSeqFull
  <1>3. \A k \in 0 .. Len(q) : Len(SubSeq(q, k + 1, Len(q))) = Len(q) - k
    <2> SUFFICES ASSUME NEW k \in 0 .. Len(q)
                 PROVE  Len(SubSeq(q, k + 1, Len(q))) = Len(q) - k
      OBVIOUS
    <2>1. Len(q) \in k .. Len(q)
      BY <1>2
    <2> QED
      BY <1>1, <2>1, Slice
  <1>4. \A k \in 0 .. Len(q) - 1 :
           /\ SubSeq(q, k + 1, Len(q)) # <<>> /\ SubSeq(q, k + 1, Len(q))[1] = q[k + 1]
           /\ Tail(SubSeq(q, k + 1, Len(q))) = SubSeq(q, k + 2, Len(q))
           /\ q[k + 1] \in Steps
    <2> SUFFICES ASSUME NEW k \in 0 .. Len(q) - 1
                 PROVE  /\ SubSeq(q, k + 1, Len(q)) # <<>>
                        /\ SubSeq(q, k + 1, Len(q))[1] = q[k + 1]
                        /\ Tail(SubSeq(q, k + 1, Len(q))) = SubSeq(q, k + 2, Len(q))
                        /\ q[k + 1] \in Steps
      OBVIOUS
    <2>1. k + 1 \in 1 .. Len(q)
      BY <1>2
    <2>2. q[k + 1] \in Steps
      BY <1>1, <2>1, ElementOfSeq
    <2> QED
      BY <1>1, <2>2, TailOfRest
  <1>5. \A k \in 0 .. Len(q) - 1 : (k + 1) + 1 = k + 2
    BY <1>2
  <1>6. 0 + 1 = 1
    OBVIOUS
  <1>7. \A k : Left(a, k) = SubSeq(q, k + 1, Len(q))
    BY DEF Left, q
  <1>8. Len(q) \in Nat /\ Left(a, 0) = q
    BY <1>2, <1>6, <1>7
  <1>9. \A k \in 0 .. Len(q) - 1 :
           /\ Left(a, k) # <<>> /\ Left(a, k)[1] = q[k + 1]
           /\ Tail(Left(a, k)) = Left(a, k + 1)
           /\ q[k + 1] \in Steps
    BY <1>4, <1>5, <1>7
  <1> QED
    BY <1>3, <1>7, <1>8, <1>9 DEF q

\* The mode does not change, nor do the scripts.
LEMMA SameScript ==
    ASSUME mode' = mode, NEW a, NEW k
    PROVE  Script(a)' = Script(a) /\ Left(a, k)' = Left(a, k) /\ OpenStep' = OpenStep
  BY DEF Script, Left, OpenStep

-----------------------------------------------------------------------------
(* Where ResetDevice is *)

\* The steps that are done, and the next one.
LEMMA Position ==
    ASSUME LTypeOK, InScript, resets # 0
    PROVE  \E k \in 0 .. Len(Script(reset.forApp)) :
              /\ todo = Left(reset.forApp, k) /\ StepsDone = k
              /\ Called = k + (IF wait = "none" THEN 0 ELSE 1)
              /\ IF k = Len(Script(reset.forApp)) THEN todo = <<>>
                 ELSE /\ todo # <<>> /\ todo[1] = Script(reset.forApp)[k + 1]
                      /\ Tail(todo) = Left(reset.forApp, k + 1)
                      /\ todo[1] \in Steps
  <1> DEFINE a == reset.forApp
             n == Len(Script(a))
  <1>1. a \in BOOLEAN /\ mode \in AllModes
    BY ResetAssumption DEF InScript, LTypeOK
  <1>2. PICK k \in 0 .. n : todo = Left(a, k)
    BY DEF InScript
  <1> HIDE DEF a
  <1>3. /\ n \in Nat /\ Len(Left(a, k)) = n - k
        /\ k \in 0 .. n - 1 =>
              /\ Left(a, k) # <<>> /\ Left(a, k)[1] = Script(a)[k + 1]
              /\ Tail(Left(a, k)) = Left(a, k + 1)
              /\ Script(a)[k + 1] \in Steps
    BY <1>1, LeftSteps
  <1>4. StepsDone = k
    <2>1. StepsDone = n - Len(Left(a, k))
      BY <1>2 DEF StepsDone, a
    <2> HIDE DEF n
    <2> QED
      BY <1>3, <2>1
  <1>5. k = n => todo = <<>>
    <2> SUFFICES ASSUME k = n PROVE Left(a, k) = <<>>
      BY <1>2
    <2>1. Len(Left(a, k)) = 0
      <3> HIDE DEF n
      <3> QED
        BY <1>3
    <2>2. Left(a, k) \in Seq(Steps)
      <3>1. Script(a) \in Seq(Steps)
        BY <1>1, ScriptTyped
      <3>2. n \in k .. n /\ k \in 0 .. n
        BY <1>3
      <3> QED
        BY <3>1, <3>2, Slice DEF Left
    <2> QED
      BY <2>1, <2>2, EmptySeq
  <1>6. k # n => k \in 0 .. n - 1
    <2> HIDE DEF n
    <2> QED
      BY <1>3
  <1>7. Called = k + (IF wait = "none" THEN 0 ELSE 1)
    BY <1>4 DEF Called
  <1> QED
    BY <1>2, <1>3, <1>4, <1>5, <1>6, <1>7 DEF a

\* The steps that are done after a step of this reset.
LEMMA NextPosition ==
    ASSUME LTypeOK, InScript, mode' = mode, reset'.forApp = reset.forApp,
           NEW k \in 0 .. Len(Script(reset.forApp)), todo' = Left(reset.forApp, k)
    PROVE  /\ Called' = k + (IF wait' = "none" THEN 0 ELSE 1)
           /\ (\E j \in 0 .. Len(Script(reset.forApp)) : todo = Left(reset.forApp, j))'
           /\ IF k = Len(Script(reset.forApp)) THEN todo' = <<>>
              ELSE todo' # <<>> /\ todo'[1] = Script(reset.forApp)[k + 1]
  <1>1. PICK a \in BOOLEAN : a = reset.forApp /\ a = reset'.forApp
    BY DEF InScript
  <1>2. mode \in AllModes
    BY ResetAssumption DEF LTypeOK
  <1>3. Script(a)' = Script(a) /\ Left(a, k)' = Left(a, k)
    BY SameScript
  <1> DEFINE n == Len(Script(a))
  <1>4. /\ n \in Nat /\ Len(Left(a, k)) = n - k
        /\ k \in 0 .. n - 1 => Left(a, k) # <<>> /\ Left(a, k)[1] = Script(a)[k + 1]
    BY <1>1, <1>2, LeftSteps
  <1>5. StepsDone' = k
    <2>1. StepsDone' = Len(Script(a)') - Len(todo')
      BY <1>1 DEF StepsDone
    <2>2. StepsDone' = n - Len(Left(a, k))
      BY <1>1, <1>3, <2>1
    <2> HIDE DEF n
    <2> QED
      BY <1>1, <1>4, <2>2
  <1>6. (\E j \in 0 .. Len(Script(reset.forApp)) : todo = Left(reset.forApp, j))'
    <2>1. (k \in 0 .. Len(Script(reset.forApp)) /\ todo = Left(reset.forApp, k))'
      BY <1>1, <1>3
    <2> QED
      BY <2>1
  <1>7. IF k = n THEN todo' = <<>>
        ELSE todo' # <<>> /\ todo'[1] = Script(a)[k + 1]
    <2>1. CASE k = n
      <3>1. Len(Left(a, k)) = 0
        <4> HIDE DEF n
        <4> QED
          BY <1>4, <2>1
      <3>2. Left(a, k) \in Seq(Steps)
        <4>1. Script(a) \in Seq(Steps)
          BY <1>2, ScriptTyped
        <4>2. n \in k .. n /\ k \in 0 .. n
          BY <1>1, <1>4
        <4> QED
          BY <4>1, <4>2, Slice DEF Left
      <3>3. Left(a, k) = <<>>
        BY <3>1, <3>2, EmptySeq
      <3> QED
        BY <1>1, <2>1, <3>3
    <2>2. CASE k # n
      <3>1. k \in 0 .. n /\ todo' = Left(a, k)
        BY <1>1
      <3> HIDE DEF n
      <3>2. k \in 0 .. n - 1
        BY <1>4, <2>2, <3>1
      <3> QED
        BY <1>4, <2>2, <3>1, <3>2
    <2> QED
      BY <2>1, <2>2
  <1> QED
    BY <1>1, <1>5, <1>6, <1>7 DEF Called

-----------------------------------------------------------------------------
(* The steps *)

\* The lines change: RST is held when the device is in reset, and only then.
LEMMA LevelsTyped ==
    ASSUME NEW d \in BOOLEAN, NEW r \in BOOLEAN, NEW t \in BOOLEAN,
           NEW p \in BOOLEAN, LTypeOK, p => HasCapacitor, mode' = mode,
           Levels(d, r, t, p)
    PROVE  /\ dtr' \in BOOLEAN /\ rts' \in BOOLEAN /\ txd' \in BOOLEAN
           /\ pulse' \in BOOLEAN /\ (pulse' => HasCapacitor')
           /\ device' \in {"reset", "loader", "application"}
           /\ device' = "reset" <=> pulse' \/ HeldDown(dtr, rts)'
  BY DEF Levels, HeldDown, HasCapacitor, LTypeOK

LEMMA LevelTyped ==
    ASSUME LTypeOK, NEW x, NEW d \in BOOLEAN
    PROVE  /\ Becomes(x, dtr) \in BOOLEAN /\ Becomes(x, rts) \in BOOLEAN
           /\ Raised(d) \in BOOLEAN /\ Raised(d) => HasCapacitor
  BY DEF Becomes, Raised, HasCapacitor, LTypeOK

LEMMA OpenStepTyped ==
    OpenStep \in {Step("low", "low", "none"), Step("low", "keep", "none")}
  BY DEF OpenStep

LEMMA ResetInit == LInit => ResetInv
  <1> SUFFICES ASSUME LInit PROVE ResetInv
    OBVIOUS
  <1>1. LTypeOK
    <2>1. resets \in 0 .. MaxResets /\ faults \in 0 .. MaxFaults
      BY ResetAssumption DEF LInit
    <2>2. device = "reset" <=> pulse \/ HeldDown(dtr, rts)
      BY DEF LInit, HeldDown
    <2> QED
      BY <2>1, <2>2 DEF LInit, LTypeOK
  <1>2. InScript
    BY DEF LInit, InScript
  <1>3. reset.failed
    BY DEF LInit
  <1> QED
    BY <1>1, <1>2, <1>3 DEF ResetInv

LEMMA OpenCommKeeps == ResetInv /\ OpenComm => ResetInv'
  <1> SUFFICES ASSUME ResetInv, OpenComm PROVE ResetInv'
    OBVIOUS
  <1>1. LTypeOK'
    BY DEF ResetInv, OpenComm, LTypeOK, lines, HeldDown, HasCapacitor
  <1>2. resets = 0 /\ reset.failed /\ wait = "none" /\ todo = <<>> /\ ~second
    BY DEF ResetInv, InScript, OpenComm
  <1>3. OpenStep' = OpenStep /\ todo' \in {<<OpenStep>>, <<>>}
    BY DEF OpenComm, OpenStep
  <1>4. InScript'
    BY <1>2, <1>3 DEF ResetInv, InScript, OpenComm, lines
  <1> QED
    BY <1>1, <1>2, <1>4 DEF ResetInv, OpenComm

LEMMA OpenFailsKeeps == ResetInv /\ OpenFails => ResetInv'
  <1> SUFFICES ASSUME ResetInv, OpenFails PROVE ResetInv'
    OBVIOUS
  <1>1. LTypeOK'
    <2>1. faults' \in 0 .. MaxFaults
      BY ResetAssumption DEF ResetInv, OpenFails, LTypeOK
    <2> QED
      BY <2>1 DEF ResetInv, OpenFails, LTypeOK, lines, HeldDown, HasCapacitor
  <1>2. resets = 0 /\ reset.failed /\ wait = "none"
    BY DEF ResetInv, InScript, OpenFails
  <1>3. InScript'
    BY <1>2 DEF ResetInv, InScript, OpenFails, lines
  <1> QED
    BY <1>1, <1>2, <1>3 DEF ResetInv, OpenFails

\* The scripts, by mode.
LEMMA ScriptOf ==
    LET script == Script(reset.forApp)
    IN  /\ mode = "auto" =>
             script = IF reset.forApp THEN AutoForApp ELSE AutoForLoader
        /\ mode = "ck" =>
             script = IF reset.forApp THEN CkForApp ELSE CkForLoader
        /\ mode = "wifio" =>
             script = IF reset.forApp THEN WifioForApp ELSE WifioForLoader
        /\ mode = "nodemcu" =>
             script = IF reset.forApp THEN NodeMcuForApp ELSE NodeMcuForLoader
        /\ mode = "dtronly" => script = DtrOnly(reset.forApp)
  BY Scripts DEF Script

\* The pulse ends.
LEMMA PulseEndsSound ==
    ASSUME LTypeOK, InScript, resets # 0, PulseEnds, LinesSound
    PROVE  LinesSound'
  <1>0. /\ mode' = mode /\ atOnce' = atOnce /\ todo' = todo /\ second' = second
        /\ wait' = wait /\ reset' = reset
        /\ pulse /\ wait # "brief" /\ (todo = <<>> \/ wait # "none")
        /\ Levels(dtr, rts, txd, FALSE) /\ device = "reset"
        /\ reset.forApp \in BOOLEAN /\ dtr \in BOOLEAN /\ rts \in BOOLEAN
        /\ (txd => wait = "break")
    BY DEF PulseEnds, LTypeOK, InScript
  <1> DEFINE q == Script(reset.forApp)
  <1>1. PICK k \in 0 .. Len(q) :
           /\ todo = Left(reset.forApp, k)
           /\ Called = k + (IF wait = "none" THEN 0 ELSE 1)
           /\ IF k = Len(q) THEN todo = <<>> ELSE todo # <<>> /\ todo[1] = q[k + 1]
    BY Position
  <1>2. wait # "none" => k # Len(q) /\ q[k + 1].wait = wait
    BY <1>1 DEF InScript
  <1>3. Called' = Called
    BY <1>0, <1>1, NextPosition
  <1>4. wait = "none" => k = Len(q)
    BY <1>0, <1>1
  <1> HIDE DEF q
  <1>5. CASE mode = "auto"
    <2>1. q = IF reset.forApp THEN AutoForApp ELSE AutoForLoader
      BY <1>5, ScriptOf DEF q
    <2>2. AutoSound /\ HasCapacitor
      BY <1>5 DEF LinesSound, HasCapacitor
    <2>3. AutoSound'
      BY <1>0, <1>1, <1>2, <1>3, <1>4, <1>5, <2>1, <2>2
         DEF AutoSound, AutoForApp, AutoForLoader, Step, Levels, HeldDown,
             Gpio0Down, Soon
    <2> QED
      BY <1>0, <1>5, <2>3 DEF LinesSound
  <1>6. CASE mode = "ck" \/ mode = "nodemcu"
    BY <1>0, <1>6 DEF LTypeOK, HasCapacitor
  <1>7. CASE mode = "wifio"
    <2>1. q = IF reset.forApp THEN WifioForApp ELSE WifioForLoader
      BY <1>7, ScriptOf DEF q
    <2>2. WifioSound'
      <3>1. WifioSound
        BY <1>7 DEF LinesSound
      <3>2. CASE reset.forApp
        BY <1>0, <1>1, <1>2, <1>3, <1>4, <1>7, <2>1, <3>1, <3>2
           DEF WifioSound, WifioForApp, Step, Levels, HeldDown, Gpio0Down, Soon
      <3>3. CASE ~reset.forApp
        BY <1>0, <1>1, <1>2, <1>3, <1>4, <1>7, <2>1, <3>1, <3>3, WifioSteps
           DEF WifioSound, Step, Levels, HeldDown, Gpio0Down, Soon
      <3> QED
        BY <3>2, <3>3
    <2> QED
      BY <1>0, <1>7, <2>2 DEF LinesSound
  <1>8. CASE mode = "dtronly"
    <2>1. q = DtrOnly(reset.forApp)
      BY <1>8, ScriptOf DEF q
    <2>2. DtrOnlySound'
      <3>1. DtrOnlySound
        BY <1>8 DEF LinesSound
      <3> QED
        BY <1>0, <1>1, <1>2, <1>3, <1>4, <1>8, <2>1, <3>1
           DEF DtrOnlySound, DtrOnly, Step, Levels, HeldDown, Gpio0Down, Soon
    <2> QED
      BY <1>0, <1>8, <2>2 DEF LinesSound
  <1>9. mode \in {"auto", "ck", "nodemcu", "wifio", "dtronly"}
    BY ResetAssumption DEF LTypeOK, AllModes
  <1> QED
    BY <1>5, <1>6, <1>7, <1>8, <1>9

LEMMA PulseEndsKeeps == ResetInv /\ PulseEnds => ResetInv'
  <1> SUFFICES ASSUME ResetInv, PulseEnds PROVE ResetInv'
    OBVIOUS
  <1>1. LTypeOK'
    <2>1. /\ dtr' \in BOOLEAN /\ rts' \in BOOLEAN /\ txd' \in BOOLEAN
          /\ pulse' \in BOOLEAN /\ (pulse' => HasCapacitor')
          /\ device' \in {"reset", "loader", "application"}
          /\ device' = "reset" <=> pulse' \/ HeldDown(dtr, rts)'
      BY LevelsTyped DEF ResetInv, LTypeOK, PulseEnds
    <2> QED
      BY <2>1 DEF ResetInv, LTypeOK, PulseEnds
  <1>2. InScript'
    <2>1. txd' = txd
      BY DEF PulseEnds, Levels
    <2>2. resets = 0 => OpenStep' = OpenStep
      BY SameScript DEF PulseEnds
    <2>3. resets # 0 =>
             (\E k \in 0 .. Len(Script(reset.forApp)) : todo = Left(reset.forApp, k))'
      BY Position, NextPosition DEF ResetInv, PulseEnds
    <2> QED
      BY <2>1, <2>2, <2>3 DEF ResetInv, InScript, PulseEnds
  <1>3. ~reset'.failed /\ (reset'.atRest \/ FromAnyLevels') => LinesSound'
    <2> SUFFICES ASSUME ~reset'.failed, reset'.atRest \/ FromAnyLevels'
                 PROVE  LinesSound'
      OBVIOUS
    <2>1. ~reset.failed /\ (reset.atRest \/ FromAnyLevels)
      BY DEF PulseEnds, FromAnyLevels
    <2>2. resets # 0
      BY <2>1 DEF ResetInv, InScript
    <2> QED
      BY <2>1, <2>2, PulseEndsSound DEF ResetInv
  <1> QED
    BY <1>1, <1>2, <1>3 DEF ResetInv

\* A delay has passed; after a long one the pulse has, too.
LEMMA DelayedSound ==
    ASSUME LTypeOK, InScript, resets # 0, Delayed, LinesSound
    PROVE  LinesSound'
  <1>0. /\ mode' = mode /\ atOnce' = atOnce /\ todo' = Tail(todo) /\ second' = second
        /\ wait # "none" /\ wait' = "none" /\ reset' = reset
        /\ wait # "brief" => ~pulse
        /\ Levels(dtr, rts, FALSE, pulse)
        /\ device = "reset" <=> pulse \/ HeldDown(dtr, rts)
        /\ reset.forApp \in BOOLEAN /\ dtr \in BOOLEAN /\ rts \in BOOLEAN
        /\ pulse \in BOOLEAN /\ (pulse => HasCapacitor) /\ ~second
    BY DEF Delayed, LTypeOK, InScript
  <1> DEFINE q == Script(reset.forApp)
  <1>1. PICK k \in 0 .. Len(q) :
           /\ Called = k + 1 /\ k # Len(q) /\ q[k + 1].wait = wait
           /\ Tail(todo) = Left(reset.forApp, k + 1)
    <2>1. PICK k \in 0 .. Len(q) :
             /\ Called = k + (IF wait = "none" THEN 0 ELSE 1)
             /\ IF k = Len(q) THEN todo = <<>>
                ELSE /\ todo # <<>> /\ todo[1] = q[k + 1]
                     /\ Tail(todo) = Left(reset.forApp, k + 1)
      BY Position
    <2>2. todo # <<>> /\ todo[1].wait = wait
      BY <1>0 DEF InScript
    <2> QED
      BY <1>0, <2>1, <2>2
  <1>2. Called' = k + 1
    <2>1. k + 1 \in 0 .. Len(q)
      <3>1. Len(q) \in Nat
        BY <1>0, LeftSteps, ResetAssumption DEF LTypeOK
      <3> HIDE DEF q
      <3> QED
        BY <1>1, <3>1
    <2>2. Called' = (k + 1) + (IF wait' = "none" THEN 0 ELSE 1)
      BY <1>0, <1>1, <2>1, NextPosition
    <2> QED
      BY <1>0, <2>2
  <1> HIDE DEF q
  <1>3. CASE mode = "auto"
    <2>1. q = IF reset.forApp THEN AutoForApp ELSE AutoForLoader
      BY <1>3, ScriptOf DEF q
    <2>2. AutoSound
      BY <1>3 DEF LinesSound
    <2>3. AutoSound'
      BY <1>0, <1>1, <1>2, <1>3, <2>1, <2>2
         DEF AutoSound, AutoForApp, AutoForLoader, Step, Levels, HeldDown,
             HasCapacitor, Gpio0Down, Soon
    <2> QED
      BY <1>0, <1>3, <2>3 DEF LinesSound
  <1>4. CASE mode = "ck"
    <2>1. q = IF reset.forApp THEN CkForApp ELSE CkForLoader
      BY <1>4, ScriptOf DEF q
    <2>2. CkSound
      BY <1>4 DEF LinesSound
    <2>3. CkSound'
      BY <1>0, <1>1, <1>2, <1>4, <2>1, <2>2
         DEF CkSound, CkForApp, CkForLoader, Step, Levels, HeldDown, HasCapacitor,
             Gpio0Down, Soon
    <2> QED
      BY <1>0, <1>4, <2>3 DEF LinesSound
  <1>5. CASE mode = "nodemcu"
    <2>1. q = IF reset.forApp THEN NodeMcuForApp ELSE NodeMcuForLoader
      BY <1>5, ScriptOf DEF q
    <2>2. NodeMcuSound
      BY <1>5 DEF LinesSound
    <2>3. NodeMcuSound'
      BY <1>0, <1>1, <1>2, <1>5, <2>1, <2>2
         DEF NodeMcuSound, NodeMcuForApp, NodeMcuForLoader, Step, Levels, HeldDown,
             HasCapacitor, Gpio0Down, Soon
    <2> QED
      BY <1>0, <1>5, <2>3 DEF LinesSound
  <1>6. CASE mode = "wifio"
    <2>1. q = IF reset.forApp THEN WifioForApp ELSE WifioForLoader
      BY <1>6, ScriptOf DEF q
    <2>2. WifioSound
      BY <1>6 DEF LinesSound
    <2>3. WifioSound'
      BY <1>0, <1>1, <1>2, <1>6, <2>1, <2>2, WifioSteps
         DEF WifioSound, WifioForApp, Step, Levels, HeldDown, HasCapacitor,
             Gpio0Down, Soon
    <2> QED
      BY <1>0, <1>6, <2>3 DEF LinesSound
  <1>7. CASE mode = "dtronly"
    <2>1. q = DtrOnly(reset.forApp)
      BY <1>7, ScriptOf DEF q
    <2>2. DtrOnlySound
      BY <1>7 DEF LinesSound
    <2>3. DtrOnlySound'
      BY <1>0, <1>1, <1>2, <1>7, <2>1, <2>2
         DEF DtrOnlySound, DtrOnly, Step, Levels, HeldDown, HasCapacitor,
             Gpio0Down, Soon
    <2> QED
      BY <1>0, <1>7, <2>3 DEF LinesSound
  <1>8. mode \in {"auto", "ck", "nodemcu", "wifio", "dtronly"}
    BY ResetAssumption DEF LTypeOK, AllModes
  <1> QED
    BY <1>3, <1>4, <1>5, <1>6, <1>7, <1>8

LEMMA DelayedKeeps == ResetInv /\ Delayed => ResetInv'
  <1> SUFFICES ASSUME ResetInv, Delayed PROVE ResetInv'
    OBVIOUS
  <1>1. LTypeOK'
    <2>1. /\ dtr' \in BOOLEAN /\ rts' \in BOOLEAN /\ txd' \in BOOLEAN
          /\ pulse' \in BOOLEAN /\ (pulse' => HasCapacitor')
          /\ device' \in {"reset", "loader", "application"}
          /\ device' = "reset" <=> pulse' \/ HeldDown(dtr, rts)'
      BY LevelsTyped DEF ResetInv, LTypeOK, Delayed
    <2> QED
      BY <2>1 DEF ResetInv, LTypeOK, Delayed
  <1>2. resets # 0
    BY DEF ResetInv, InScript, Delayed
  <1>3. InScript'
    <2>1. ~txd'
      BY DEF Delayed, Levels
    <2>2. /\ ~second /\ second' = second /\ wait' = "none" /\ open' = open
          /\ resets' = resets /\ reset' = reset
      BY DEF Delayed, ResetInv, InScript
    <2>3. (\E k \in 0 .. Len(Script(reset.forApp)) : todo = Left(reset.forApp, k))'
      <3> DEFINE q == Script(reset.forApp)
      <3>1. PICK k \in 0 .. Len(q) :
               IF k = Len(q) THEN todo = <<>>
               ELSE Tail(todo) = Left(reset.forApp, k + 1)
        BY <1>2, Position DEF ResetInv
      <3>2. todo # <<>>
        BY <1>2 DEF ResetInv, InScript, Delayed
      <3>3. Len(q) \in Nat
        BY LeftSteps, ResetAssumption DEF ResetInv, InScript, LTypeOK
      <3>4. k + 1 \in 0 .. Len(q) /\ todo' = Left(reset.forApp, k + 1)
        <4>1. k # Len(q) /\ todo' = Left(reset.forApp, k + 1)
          BY <3>1, <3>2 DEF Delayed
        <4> HIDE DEF q
        <4> QED
          BY <3>3, <4>1
      <3> QED
        BY <3>4, NextPosition DEF ResetInv, Delayed
    <2> QED
      BY <1>2, <2>1, <2>2, <2>3 DEF ResetInv, InScript
  <1>4. ~reset'.failed /\ (reset'.atRest \/ FromAnyLevels') => LinesSound'
    <2> SUFFICES ASSUME ~reset'.failed, reset'.atRest \/ FromAnyLevels'
                 PROVE  LinesSound'
      OBVIOUS
    <2>1. ~reset.failed /\ (reset.atRest \/ FromAnyLevels)
      BY DEF Delayed, FromAnyLevels
    <2> QED
      BY <1>2, <2>1, DelayedSound DEF ResetInv
  <1> QED
    BY <1>1, <1>3, <1>4 DEF ResetInv

\* A call fails: nothing is said of where that leaves the lines.
LEMMA ControlFailsKeeps == ResetInv /\ ControlFails => ResetInv'
  <1> SUFFICES ASSUME ResetInv, ControlFails PROVE ResetInv'
    OBVIOUS
  <1>0. /\ resets # 0 /\ todo # <<>> /\ wait = "none" /\ mode' = mode
        /\ reset' = [reset EXCEPT !.failed = TRUE]
        /\ reset \in [forApp : BOOLEAN, atRest : BOOLEAN, failed : BOOLEAN]
        /\ wait' = todo[1].wait
        /\ todo' = IF wait' = "none" THEN Tail(todo) ELSE todo
        /\ second' = FALSE /\ txd' = txd /\ open' = open /\ resets' = resets
    BY ResetAssumption DEF ResetInv, InScript, LTypeOK, ControlFails, lines
  <1>1. reset'.forApp = reset.forApp /\ reset'.failed
        /\ reset' \in [forApp : BOOLEAN, atRest : BOOLEAN, failed : BOOLEAN]
    BY <1>0
  <1> DEFINE q == Script(reset.forApp)
  <1>2. PICK k \in 0 .. Len(q) :
           /\ todo = Left(reset.forApp, k) /\ k # Len(q) /\ todo[1] \in Steps
           /\ Tail(todo) = Left(reset.forApp, k + 1) /\ todo[1] = q[k + 1]
    BY <1>0, Position DEF ResetInv
  <1>3. k + 1 \in 0 .. Len(q)
    <2>1. Len(q) \in Nat
      BY LeftSteps, ResetAssumption DEF ResetInv, InScript, LTypeOK
    <2> HIDE DEF q
    <2> QED
      BY <1>2, <2>1
  <1>4. (\E j \in 0 .. Len(Script(reset.forApp)) : todo = Left(reset.forApp, j))'
    <2>1. todo' = Left(reset.forApp, k) \/ todo' = Left(reset.forApp, k + 1)
      BY <1>0, <1>2
    <2> QED
      BY <1>0, <1>1, <1>2, <1>3, <2>1, NextPosition DEF ResetInv
  <1>5. wait' # "none" => todo' = todo
    BY <1>0
  <1>6. InScript'
    <2>1. ~txd'
      BY <1>0 DEF ResetInv, InScript
    <2>2. open'
      BY <1>0 DEF ResetInv, InScript
    <2> QED
      BY <1>0, <1>1, <1>4, <1>5, <2>1, <2>2 DEF InScript
  <1>7. LTypeOK'
    <2>1. faults' \in 0 .. MaxFaults
      BY ResetAssumption DEF ResetInv, ControlFails, LTypeOK
    <2>2. wait' \in {"none", "brief", "long", "break"}
      BY <1>0, <1>2 DEF Steps, Waits
    <2> QED
      BY <2>1, <2>2 DEF ResetInv, ControlFails, LTypeOK, lines, HeldDown, HasCapacitor
  <1> QED
    BY <1>1, <1>6, <1>7 DEF ResetInv

\* A reset begins.
LEMMA ResetDeviceKeeps == ResetInv /\ ResetDevice => ResetInv'
  <1> SUFFICES ASSUME ResetInv, ResetDevice PROVE ResetInv'
    OBVIOUS
  <1>1. PICK a \in BOOLEAN :
           /\ todo' = Script(a)
           /\ reset' = [forApp |-> a, atRest |-> AtRest, failed |-> FALSE]
    BY DEF ResetDevice
  <1>2. AtRest \in BOOLEAN
    BY DEF AtRest
  <1>3. /\ reset'.forApp = a /\ reset'.atRest = AtRest
        /\ reset' \in [forApp : BOOLEAN, atRest : BOOLEAN, failed : BOOLEAN]
    BY <1>1, <1>2
  <1>4. /\ open' /\ resets' # 0 /\ wait' = "none" /\ second' = FALSE /\ ~txd'
        /\ mode' = mode /\ dtr' = dtr /\ rts' = rts /\ mode \in AllModes
    <2>1. resets' # 0
      BY ResetAssumption DEF ResetInv, LTypeOK, ResetDevice
    <2>2. mode \in AllModes
      BY ResetAssumption DEF ResetInv, LTypeOK
    <2> QED
      BY <2>1, <2>2 DEF ResetInv, InScript, ResetDevice, lines
  <1>5. LTypeOK'
    <2>1. resets' \in 0 .. MaxResets
      BY ResetAssumption DEF ResetInv, LTypeOK, ResetDevice
    <2> QED
      BY <2>1 DEF ResetInv, LTypeOK, ResetDevice, lines, HeldDown, HasCapacitor
  <1>6. Script(a)' = Script(a) /\ Left(a, 0)' = Left(a, 0)
    BY <1>4, SameScript
  <1> DEFINE n == Len(Script(a))
  <1>7. n \in Nat /\ Left(a, 0) = Script(a) /\ Script(a) \in Seq(Steps)
    BY <1>4, LeftSteps, ScriptTyped
  <1>8. Called' = 0
    <2>1. StepsDone' = n - n
      BY <1>1, <1>3, <1>6 DEF StepsDone
    <2>2. StepsDone' = 0
      <3> HIDE DEF n
      <3> QED
        BY <1>7, <2>1
    <2> QED
      BY <1>4, <2>2 DEF Called
  <1>9. InScript'
    <2>1. (0 \in 0 .. Len(Script(reset.forApp)) /\ todo = Left(reset.forApp, 0))'
      <3>1. 0 \in 0 .. n
        <4> HIDE DEF n
        <4> QED
          BY <1>7
      <3> QED
        BY <1>1, <1>3, <1>6, <1>7, <3>1
    <2> QED
      BY <1>3, <1>4, <2>1 DEF InScript
  <1>10. ASSUME reset'.atRest \/ FromAnyLevels' PROVE LinesSound'
    <2>1. CASE mode = "auto"
      <3>1. a => ~dtr /\ ~rts
        BY <1>3, <1>4, <1>10, <2>1 DEF AtRest, FromAnyLevels
      <3> QED
        BY <1>3, <1>4, <1>8, <2>1, <3>1 DEF LinesSound, AutoSound
    <2>2. CASE mode = "dtronly"
      <3>1. ~dtr
        BY <1>3, <1>4, <1>10, <2>2 DEF AtRest, FromAnyLevels
      <3> QED
        BY <1>3, <1>4, <1>8, <2>2, <3>1 DEF LinesSound, DtrOnlySound
    <2>3. CASE mode \in {"ck", "nodemcu", "wifio"}
      BY <1>4, <1>8, <2>3 DEF LinesSound, CkSound, NodeMcuSound, WifioSound
    <2> QED
      BY <1>4, <2>1, <2>2, <2>3 DEF AllModes
  <1> QED
    BY <1>5, <1>9, <1>10 DEF ResetInv

\* One line or both change, and the call returns or has its second half before
\* it.
LEMMA ControlCall ==
    ASSUME ResetInv, resets # 0, Control
    PROVE  LET q == Script(reset.forApp)
               s == todo[1]
               d == Becomes(s.dtr, dtr)
               r == Becomes(s.rts, rts)
           IN  \E k \in 0 .. Len(q) :
                  /\ k # Len(q) /\ Called = k /\ s = q[k + 1] /\ s \in Steps
                  /\ (\E j \in 0 .. Len(Script(reset.forApp)) :
                           todo = Left(reset.forApp, j))'
                  /\ \/ /\ Both(s) /\ ~atOnce /\ ~second /\ second' = TRUE
                        /\ Levels(d, rts, txd, Raised(d))
                        /\ Called' = k /\ todo' = todo /\ wait' = "none"
                     \/ /\ second' = FALSE /\ (Both(s) => atOnce \/ second)
                        /\ Levels(d, r, s.wait = "break", Raised(d))
                        /\ Called' = k + 1 /\ wait' = s.wait
                        /\ (wait' # "none" => todo' = todo)
                        /\ (wait' = "none" /\ k + 1 = Len(q) => todo' = <<>>)
                        /\ (wait' = "none" /\ k + 1 # Len(q) => todo' # <<>>)
  <1> DEFINE q == Script(reset.forApp)
             s == todo[1]
             d == Becomes(s.dtr, dtr)
             r == Becomes(s.rts, rts)
  <1>1. /\ wait = "none" /\ todo # <<>> /\ mode' = mode /\ reset' = reset
        /\ \/ /\ Both(s) /\ ~atOnce /\ ~second /\ second' = TRUE
              /\ Levels(d, rts, txd, Raised(d)) /\ todo' = todo /\ wait' = wait
           \/ /\ second' = FALSE /\ ~(Both(s) /\ ~atOnce /\ ~second)
              /\ Levels(d, r, s.wait = "break", Raised(d)) /\ wait' = s.wait
              /\ todo' = IF s.wait = "none" THEN Tail(todo) ELSE todo
    BY DEF Control
  <1>2. PICK k \in 0 .. Len(q) :
           /\ todo = Left(reset.forApp, k) /\ Called = k /\ k # Len(q)
           /\ s = q[k + 1] /\ s \in Steps /\ Tail(todo) = Left(reset.forApp, k + 1)
    <2>1. PICK k \in 0 .. Len(q) :
             /\ todo = Left(reset.forApp, k)
             /\ Called = k + (IF wait = "none" THEN 0 ELSE 1)
             /\ IF k = Len(q) THEN todo = <<>>
                ELSE /\ todo # <<>> /\ todo[1] = q[k + 1]
                     /\ Tail(todo) = Left(reset.forApp, k + 1)
                     /\ todo[1] \in Steps
      BY Position DEF ResetInv
    <2> QED
      BY <1>1, <2>1
  <1>3. k + 1 \in 0 .. Len(q) /\ k \in Nat
    <2>1. Len(q) \in Nat
      BY LeftSteps, ResetAssumption DEF ResetInv, InScript, LTypeOK
    <2> HIDE DEF q
    <2> QED
      BY <1>2, <2>1
  <1>4. LTypeOK /\ InScript
    BY DEF ResetInv
  <1> HIDE DEF s, d, r
  <1>5. CASE second'
    <2>1. todo' = todo /\ wait' = "none"
      BY <1>1, <1>5
    <2>2. /\ Called' = k + (IF wait' = "none" THEN 0 ELSE 1)
          /\ (\E j \in 0 .. Len(Script(reset.forApp)) : todo = Left(reset.forApp, j))'
      BY <1>1, <1>2, <1>4, <2>1, NextPosition
    <2>3. Called' = k
      BY <1>3, <2>1, <2>2
    <2> QED
      BY <1>1, <1>2, <1>5, <2>1, <2>2, <2>3 DEF s, d, r
  <1>6. CASE ~second'
    <2>1. CASE s.wait = "none"
      <3>1. todo' = Left(reset.forApp, k + 1) /\ wait' = "none"
        BY <1>1, <1>2, <1>6, <2>1
      <3>2. /\ Called' = k + 1 + (IF wait' = "none" THEN 0 ELSE 1)
            /\ (\E j \in 0 .. Len(Script(reset.forApp)) : todo = Left(reset.forApp, j))'
            /\ IF k + 1 = Len(q) THEN todo' = <<>> ELSE todo' # <<>>
        BY <1>1, <1>3, <1>4, <3>1, NextPosition
      <3>3. Called' = k + 1
        BY <1>3, <3>1, <3>2
      <3> QED
        BY <1>1, <1>2, <1>6, <3>1, <3>2, <3>3 DEF s, d, r
    <2>2. CASE s.wait # "none"
      <3>1. todo' = Left(reset.forApp, k) /\ todo' = todo /\ wait' # "none"
        BY <1>1, <1>2, <1>6, <2>2
      <3>2. /\ Called' = k + (IF wait' = "none" THEN 0 ELSE 1)
            /\ (\E j \in 0 .. Len(Script(reset.forApp)) : todo = Left(reset.forApp, j))'
        BY <1>1, <1>2, <1>4, <3>1, NextPosition
      <3>3. Called' = k + 1
        BY <1>3, <3>1, <3>2
      <3> QED
        BY <1>1, <1>2, <1>6, <3>1, <3>2, <3>3 DEF s, d, r
    <2> QED
      BY <2>1, <2>2
  <1> QED
    BY <1>5, <1>6

LEMMA ControlSound ==
    ASSUME ResetInv, resets # 0, Control, LinesSound
    PROVE  LinesSound'
  <1> DEFINE q == Script(reset.forApp)
             s == todo[1]
             d == Becomes(s.dtr, dtr)
             r == Becomes(s.rts, rts)
  <1>0. /\ mode' = mode /\ atOnce' = atOnce /\ reset' = reset /\ wait = "none"
        /\ device = "reset" <=> pulse \/ HeldDown(dtr, rts)
        /\ reset.forApp \in BOOLEAN /\ dtr \in BOOLEAN /\ rts \in BOOLEAN
        /\ pulse \in BOOLEAN /\ (pulse => HasCapacitor)
        /\ second \in BOOLEAN /\ atOnce \in BOOLEAN /\ ~txd
        /\ second => ~atOnce
        /\ LTypeOK
    BY DEF Control, ResetInv, LTypeOK, InScript
  <1>1. PICK k \in 0 .. Len(q) :
           /\ k # Len(q) /\ Called = k /\ s = q[k + 1]
           /\ \/ /\ Both(s) /\ ~atOnce /\ ~second /\ second' = TRUE
                 /\ Levels(d, rts, txd, Raised(d))
                 /\ Called' = k /\ todo' = todo /\ wait' = "none"
              \/ /\ second' = FALSE /\ (Both(s) => atOnce \/ second)
                 /\ Levels(d, r, s.wait = "break", Raised(d))
                 /\ Called' = k + 1 /\ wait' = s.wait
    BY ControlCall
  <1> HIDE DEF q
  <1>3. CASE mode = "auto"
    <2>1. q = IF reset.forApp THEN AutoForApp ELSE AutoForLoader
      BY <1>3, ScriptOf DEF q
    <2>2. AutoSound
      BY <1>3 DEF LinesSound
    <2>3. AutoSound'
      BY <1>0, <1>1, <1>3, <2>1, <2>2
         DEF AutoSound, AutoForApp, AutoForLoader, Step, Both, Becomes, Levels,
             Raised, HeldDown, HasCapacitor, Gpio0Down, Soon
    <2> QED
      BY <1>0, <1>3, <2>3 DEF LinesSound
  <1>4. CASE mode = "ck"
    <2>1. q = IF reset.forApp THEN CkForApp ELSE CkForLoader
      BY <1>4, ScriptOf DEF q
    <2>2. CkSound
      BY <1>4 DEF LinesSound
    <2>3. CkSound'
      BY <1>0, <1>1, <1>4, <2>1, <2>2
         DEF CkSound, CkForApp, CkForLoader, Step, Both, Becomes, Levels, Raised,
             HeldDown, HasCapacitor, Gpio0Down, Soon
    <2> QED
      BY <1>0, <1>4, <2>3 DEF LinesSound
  <1>5. CASE mode = "nodemcu"
    <2>1. q = IF reset.forApp THEN NodeMcuForApp ELSE NodeMcuForLoader
      BY <1>5, ScriptOf DEF q
    <2>2. NodeMcuSound
      BY <1>5 DEF LinesSound
    <2>3. NodeMcuSound'
      BY <1>0, <1>1, <1>5, <2>1, <2>2
         DEF NodeMcuSound, NodeMcuForApp, NodeMcuForLoader, Step, Both, Becomes,
             Levels, Raised, HeldDown, HasCapacitor, Gpio0Down, Soon
    <2> QED
      BY <1>0, <1>5, <2>3 DEF LinesSound
  <1>6. CASE mode = "wifio"
    <2>1. q = IF reset.forApp THEN WifioForApp ELSE WifioForLoader
      BY <1>6, ScriptOf DEF q
    <2>2. WifioSound
      BY <1>6 DEF LinesSound
    <2>3. /\ s = CASE k = 0 -> Step("low", "keep", "none")
                  [] k = 1 -> Step("high", "keep", "brief")
                  [] k = 2 -> Step("low", "keep", "none")
                  [] k = 3 -> Step("keep", "keep", "break")
                  [] k = 4 -> Step("keep", "keep", "long")
          /\ k \in 0 .. 4 /\ (reset.forApp => k \in 0 .. 2)
      <3>1. CASE reset.forApp
        <4>1. q = <<Step("low", "keep", "none"), Step("high", "keep", "brief"),
                    Step("low", "keep", "none")>>
          BY <2>1, <3>1 DEF WifioForApp
        <4>2. Len(q) = 3
          BY <4>1
        <4>3. k \in 0 .. 2
          BY <1>1, <4>2
        <4>4. s = IF k = 1 THEN Step("high", "keep", "brief")
                  ELSE Step("low", "keep", "none")
          <5> HIDE DEF s
          <5> QED
          BY <1>1, <4>1, <4>3
        <4> QED
          BY <3>1, <4>3, <4>4
      <3>2. CASE ~reset.forApp
        <4>1. q = <<Step("low", "keep", "none"), Step("high", "keep", "brief"),
                       Step("low", "keep", "none"), Step("keep", "keep", "break"),
                       Step("keep", "keep", "long")>>
          BY <2>1, <3>2, WifioSteps
        <4>2. Len(q) = 5
          BY <4>1
        <4>3. k \in 0 .. 4
          BY <1>1, <4>2
        <4>4. s = CASE k = 0 -> Step("low", "keep", "none")
                  [] k = 1 -> Step("high", "keep", "brief")
                  [] k = 2 -> Step("low", "keep", "none")
                  [] k = 3 -> Step("keep", "keep", "break")
                  [] k = 4 -> Step("keep", "keep", "long")
          <5> HIDE DEF s
          <5> QED
          BY <1>1, <4>1, <4>3
        <4> QED
          BY <3>2, <4>3, <4>4
      <3> QED
        BY <3>1, <3>2
    <2>4. WifioSound'
      <3> HIDE DEF s
      <3>1. CASE k = 0
        <4>1. s.dtr = "low" /\ s.rts = "keep" /\ s.wait = "none"
          BY <2>3, <3>1 DEF Step
        <4> QED
          BY <1>0, <1>1, <1>6, <2>2, <2>3, <3>1, <4>1
             DEF WifioSound, Both, Becomes, Levels, Raised, HeldDown, HasCapacitor,
                 Gpio0Down, Soon
      <3>2. CASE k = 1
        <4>1. s.dtr = "high" /\ s.rts = "keep" /\ s.wait = "brief"
          BY <2>3, <3>2 DEF Step
        <4>2. ~Both(s) /\ d = TRUE /\ r = rts
          BY <4>1 DEF Both, Becomes
        <4>3. Called = 1 /\ Called' = 2 /\ Levels(d, r, s.wait = "break", Raised(d))
          BY <1>1, <3>2, <4>2
        <4>4. Raised(d)
          BY <1>6, <2>2, <4>2, <4>3 DEF Raised, HasCapacitor, WifioSound
        <4>5. dtr' /\ pulse'
          BY <4>2, <4>3, <4>4 DEF Levels
        <4> QED
          BY <4>3, <4>5 DEF WifioSound
      <3>3. CASE k = 2
        <4>1. s.dtr = "low" /\ s.rts = "keep" /\ s.wait = "none"
          BY <2>3, <3>3 DEF Step
        <4>2. ~Both(s) /\ d = FALSE /\ r = rts
          BY <4>1 DEF Both, Becomes
        <4>3. /\ Called = 2 /\ Called' = 3 /\ Levels(d, r, s.wait = "break", Raised(d))
              /\ wait' = s.wait
          BY <1>1, <3>3, <4>2
        <4>4. Raised(d)
          BY <2>2, <4>3 DEF Raised, WifioSound
        <4>5. ~dtr' /\ pulse'
          BY <4>2, <4>3, <4>4 DEF Levels
        <4> QED
          BY <4>3, <4>5 DEF WifioSound, Soon
      <3>4. CASE k = 3
        <4>1. s.dtr = "keep" /\ s.rts = "keep" /\ s.wait = "break"
          BY <2>3, <3>4 DEF Step
        <4> QED
          BY <1>0, <1>1, <1>6, <2>2, <2>3, <3>4, <4>1
             DEF WifioSound, Both, Becomes, Levels, Raised, HeldDown, HasCapacitor,
                 Gpio0Down, Soon
      <3>5. CASE k = 4
        <4>1. s.dtr = "keep" /\ s.rts = "keep" /\ s.wait = "long"
          BY <2>3, <3>5 DEF Step
        <4> QED
          BY <1>0, <1>1, <1>6, <2>2, <2>3, <3>5, <4>1
             DEF WifioSound, Both, Becomes, Levels, Raised, HeldDown, HasCapacitor,
                 Gpio0Down, Soon
      <3> QED
        BY <2>3, <3>1, <3>2, <3>3, <3>4, <3>5
    <2> QED
      BY <1>0, <1>6, <2>4 DEF LinesSound
  <1>7. CASE mode = "dtronly"
    <2>1. q = DtrOnly(reset.forApp)
      BY <1>7, ScriptOf DEF q
    <2>2. DtrOnlySound
      BY <1>7 DEF LinesSound
    <2>3. /\ s = IF k = 0
                THEN Step("high", "keep", IF reset.forApp THEN "brief" ELSE "long")
                ELSE Step("low", "keep", "none")
          /\ k \in 0 .. 1
      <3>1. q = <<Step("high", "keep", IF reset.forApp THEN "brief" ELSE "long"),
                  Step("low", "keep", "none")>>
        BY <2>1 DEF DtrOnly
      <3>2. Len(q) = 2
        BY <3>1
      <3>3. k \in 0 .. 1
        BY <1>1, <3>2
      <3> HIDE DEF s
      <3> QED
        BY <1>1, <3>1, <3>3
    <2>4. DtrOnlySound'
      <3> HIDE DEF s
      <3>1. CASE k = 0
        <4>1. /\ s.dtr = "high" /\ s.rts = "keep"
              /\ s.wait = IF reset.forApp THEN "brief" ELSE "long"
          BY <2>3, <3>1 DEF Step
        <4>2. ~Both(s) /\ d = TRUE /\ r = rts
          BY <4>1 DEF Both, Becomes
        <4>3. /\ Called = 0 /\ Called' = 1 /\ Levels(d, r, s.wait = "break", Raised(d))
              /\ wait' = s.wait
          BY <1>1, <3>1, <4>2
        <4>4. Raised(d)
          BY <1>7, <2>2, <4>2, <4>3 DEF Raised, HasCapacitor, DtrOnlySound
        <4>5. dtr' /\ pulse'
          BY <4>2, <4>3, <4>4 DEF Levels
        <4>6. reset.forApp \/ wait' # "none"
          BY <4>1, <4>3
        <4> QED
          BY <1>0, <4>3, <4>5, <4>6 DEF DtrOnlySound, Soon
      <3>2. CASE k = 1
        <4>1. s.dtr = "low" /\ s.rts = "keep" /\ s.wait = "none"
          BY <2>3, <3>2 DEF Step
        <4>2. ~Both(s) /\ d = FALSE /\ r = rts
          BY <4>1 DEF Both, Becomes
        <4>3. /\ Called = 1 /\ Called' = 2 /\ Levels(d, r, s.wait = "break", Raised(d))
              /\ wait' = s.wait
          BY <1>1, <3>2, <4>2
        <4>4. Raised(d) <=> pulse
          BY <4>2 DEF Raised
        <4>5. ~dtr' /\ (pulse' <=> pulse)
          BY <4>2, <4>3, <4>4 DEF Levels
        <4>6. CASE reset.forApp
          <5>1. pulse'
            BY <2>2, <4>3, <4>5, <4>6 DEF DtrOnlySound
          <5> QED
            BY <1>0, <4>3, <4>5, <4>6, <5>1 DEF DtrOnlySound, Soon
        <4>7. CASE ~reset.forApp
          <5>1. ~pulse /\ device = "loader"
            BY <1>0, <2>2, <4>3, <4>7 DEF DtrOnlySound
          <5>2. device' = "loader"
            BY <1>7, <4>3, <4>4, <5>1 DEF Levels, HeldDown
          <5> QED
            BY <1>0, <4>3, <4>5, <4>7, <5>1, <5>2 DEF DtrOnlySound
        <4> QED
          BY <4>6, <4>7
      <3> QED
        BY <2>3, <3>1, <3>2
    <2> QED
      BY <1>0, <1>7, <2>4 DEF LinesSound
  <1>8. mode \in {"auto", "ck", "nodemcu", "wifio", "dtronly"}
    BY <1>0, ResetAssumption DEF LTypeOK, AllModes
  <1> QED
    BY <1>3, <1>4, <1>5, <1>6, <1>7, <1>8

\* A call that succeeds, of openComm or of ResetDevice.
LEMMA ControlKeeps == ResetInv /\ Control => ResetInv'
  <1> SUFFICES ASSUME ResetInv, Control PROVE ResetInv'
    OBVIOUS
  <1> DEFINE s == todo[1]
             d == Becomes(s.dtr, dtr)
             r == Becomes(s.rts, rts)
  <1>1. /\ wait = "none" /\ todo # <<>> /\ mode' = mode /\ reset' = reset
        /\ open' = open /\ resets' = resets /\ faults' = faults /\ atOnce' = atOnce
        /\ \/ /\ Both(s) /\ ~atOnce /\ ~second /\ second' = TRUE
              /\ Levels(d, rts, txd, Raised(d)) /\ todo' = todo /\ wait' = wait
           \/ /\ second' = FALSE
              /\ Levels(d, r, s.wait = "break", Raised(d)) /\ wait' = s.wait
              /\ todo' = IF s.wait = "none" THEN Tail(todo) ELSE todo
    BY DEF Control
  <1>2. LTypeOK /\ InScript /\ ~txd /\ open
    BY <1>1 DEF ResetInv, InScript
  <1>3. s \in Steps
    <2>1. CASE resets = 0
      <3>1. s = OpenStep
        BY <1>1, <1>2, <2>1 DEF InScript
      <3> QED
        BY <3>1, OpenStepTyped, StepTyped DEF Levels3, Waits
    <2>2. CASE resets # 0
      BY <1>1, <1>2, <2>2, Position
    <2> QED
      BY <2>1, <2>2
  <1>4. wait' \in Waits
    <2>1. s.wait \in Waits
      BY <1>3 DEF Steps
    <2> QED
      BY <1>1, <2>1 DEF Waits
  <1>5. /\ d \in BOOLEAN /\ r \in BOOLEAN /\ Raised(d) \in BOOLEAN
        /\ Raised(d) => HasCapacitor
    <2>1. d \in BOOLEAN /\ r \in BOOLEAN
      BY <1>2, LevelTyped
    <2> HIDE DEF d
    <2>2. Raised(d) \in BOOLEAN /\ (Raised(d) => HasCapacitor)
      BY <1>2, <2>1 DEF Raised, HasCapacitor, LTypeOK
    <2> QED
      BY <2>1, <2>2
  <1>6. LTypeOK'
    <2>1. PICK e \in BOOLEAN, f \in BOOLEAN : Levels(d, e, f, Raised(d))
      BY <1>1, <1>2, <1>5 DEF LTypeOK
    <2> HIDE DEF d
    <2>2. /\ dtr' \in BOOLEAN /\ rts' \in BOOLEAN /\ txd' \in BOOLEAN
          /\ pulse' \in BOOLEAN /\ (pulse' => HasCapacitor')
          /\ device' \in {"reset", "loader", "application"}
          /\ device' = "reset" <=> pulse' \/ HeldDown(dtr, rts)'
      BY <1>1, <1>2, <1>5, <2>1, LevelsTyped
    <2> QED
      BY <1>1, <1>2, <1>4, <2>2 DEF LTypeOK, Waits
  <1>7. second' \in BOOLEAN /\ (txd' => wait' = "break")
    <2>1. second' \in BOOLEAN
      BY <1>1
    <2>2. txd' = txd \/ (wait' = s.wait /\ txd' = (s.wait = "break"))
      BY <1>1 DEF Levels
    <2>3. CASE txd' = txd
      BY <1>2, <2>1, <2>3
    <2>4. CASE wait' = s.wait /\ txd' = (s.wait = "break")
      <3>1. CASE s.wait = "break"
        BY <2>1, <2>4, <3>1
      <3>2. CASE s.wait # "break"
        BY <2>1, <2>4, <3>2
      <3> QED
        BY <3>1, <3>2
    <2> QED
      BY <2>2, <2>3, <2>4
  <1>8. CASE resets = 0
    <2>1. reset.failed /\ todo = <<OpenStep>> /\ s = OpenStep /\ OpenStep' = OpenStep
      BY <1>1, <1>2, <1>8 DEF InScript, OpenStep
    <2>2. s.wait = "none"
      BY <2>1, OpenStepTyped DEF Step
    <2>3. wait' = "none" /\ todo' \in {<<OpenStep>>, <<>>}
      <3>1. Tail(<<OpenStep>>) = <<>>
        OBVIOUS
      <3> QED
        BY <1>1, <2>1, <2>2, <3>1
    <2>4. second' => Both(todo[1])' /\ ~atOnce'
      BY <1>1 DEF Both
    <2>5. todo' = <<>> => ~second'
      BY <1>1
    <2>6. InScript'
      BY <1>1, <1>2, <1>7, <1>8, <2>1, <2>3, <2>4, <2>5 DEF InScript
    <2> QED
      BY <1>1, <1>6, <2>1, <2>6 DEF ResetInv
  <1>9. CASE resets # 0
    <2>1. /\ (\E j \in 0 .. Len(Script(reset.forApp)) : todo = Left(reset.forApp, j))'
          /\ \/ second' = TRUE /\ Both(s) /\ ~atOnce /\ todo' = todo /\ wait' = "none"
             \/ /\ second' = FALSE /\ wait' = s.wait
                /\ (wait' # "none" => todo' = todo)
      BY <1>9, ControlCall
    <2>2. InScript'
      <3>1. second' => Both(todo[1])' /\ ~atOnce'
        BY <1>1, <2>1 DEF Both
      <3>2. wait' # "none" => todo' # <<>> /\ todo'[1].wait = wait' /\ ~second'
        BY <1>1, <2>1
      <3>3. todo' = <<>> => wait' = "none" /\ ~second'
        BY <1>1, <2>1
      <3> QED
        BY <1>1, <1>2, <1>7, <1>9, <2>1, <3>1, <3>2, <3>3 DEF InScript
    <2>3. ~reset'.failed /\ (reset'.atRest \/ FromAnyLevels') => LinesSound'
      <3> SUFFICES ASSUME ~reset'.failed, reset'.atRest \/ FromAnyLevels'
                   PROVE  LinesSound'
        OBVIOUS
      <3>1. LinesSound
        BY <1>1 DEF ResetInv, FromAnyLevels
      <3> QED
        BY <1>9, <3>1, ControlSound
    <2> QED
      BY <1>6, <2>2, <2>3 DEF ResetInv
  <1> QED
    BY <1>8, <1>9

\* Every step keeps the invariant.
LEMMA ResetStep == ResetInv /\ [LNext]_lvars => ResetInv'
  <1> SUFFICES ASSUME ResetInv, [LNext]_lvars PROVE ResetInv'
    OBVIOUS
  <1>1. CASE UNCHANGED lvars
    <2>1. LTypeOK'
      BY <1>1 DEF ResetInv, LTypeOK, lvars, lines, HeldDown, HasCapacitor
    <2>2. mode' = mode
      BY <1>1 DEF lvars
    <2>3. \A a : Script(a)' = Script(a)
      BY <2>2, SameScript
    <2>4. InScript'
      <3>1. \A k : Left(reset.forApp, k)' = Left(reset.forApp, k)
        BY <1>1, <2>2, <2>3, SameScript DEF lvars, Left
      <3>2. OpenStep' = OpenStep
        BY <2>2 DEF OpenStep
      <3> QED
        BY <1>1, <2>3, <3>1, <3>2 DEF ResetInv, InScript, lvars, lines, Both
    <2>5. ~reset'.failed /\ (reset'.atRest \/ FromAnyLevels') => LinesSound'
      <3> SUFFICES ASSUME ~reset'.failed, reset'.atRest \/ FromAnyLevels'
                   PROVE  LinesSound'
        OBVIOUS
      <3>1. LinesSound
        BY <1>1 DEF ResetInv, FromAnyLevels, lvars
      <3>2. Called' = Called
        BY <1>1, <2>3 DEF Called, StepsDone, lvars
      <3> QED
        BY <1>1, <3>1, <3>2 DEF LinesSound, AutoSound, CkSound, NodeMcuSound, WifioSound,
                                DtrOnlySound, Soon, lvars, lines
    <2> QED
      BY <2>1, <2>4, <2>5 DEF ResetInv
  <1>2. CASE LNext
    BY <1>2, OpenCommKeeps, ResetDeviceKeeps, ControlKeeps, OpenFailsKeeps,
       ControlFailsKeeps, DelayedKeeps, PulseEndsKeeps DEF LNext
  <1> QED
    BY <1>1, <1>2

LEMMA ResetInvariant == LSpec => []ResetInv
  BY ResetInit, ResetStep, PTL DEF LSpec

-----------------------------------------------------------------------------
(* The theorems *)

\* The lines, the capacitor and the device have their types, and the device is
\* in reset exactly while the capacitor or the levels of the lines pull RST
\* down.
THEOREM ResetTyped == LSpec => []LTypeOK
  <1>1. ResetInv => LTypeOK
    BY DEF ResetInv
  <1> QED
    BY <1>1, ResetInvariant, PTL

\* When nothing is left of a script the levels are those after its last call.
LEMMA AtTheEnd ==
    ASSUME ResetInv, todo = <<>>, ~reset.failed
    PROVE  /\ reset.forApp \in BOOLEAN /\ wait = "none" /\ ~txd
           /\ Called = Len(Script(reset.forApp))
  <1>1. resets # 0 /\ wait = "none" /\ ~txd /\ reset.forApp \in BOOLEAN
    BY DEF ResetInv, InScript
  <1>2. PICK k \in 0 .. Len(Script(reset.forApp)) :
           /\ Called = k + (IF wait = "none" THEN 0 ELSE 1)
           /\ IF k = Len(Script(reset.forApp)) THEN todo = <<>> ELSE todo # <<>>
    BY <1>1, Position DEF ResetInv
  <1>3. k = Len(Script(reset.forApp)) /\ Called = k + 0
    BY <1>1, <1>2
  <1>4. Len(Script(reset.forApp)) \in Nat
    BY <1>1, LeftSteps, ResetAssumption DEF ResetInv, LTypeOK
  <1> QED
    BY <1>1, <1>3, <1>4

\* The steps of each script.
LEMMA Lengths ==
    ASSUME mode \in AllModes, reset.forApp \in BOOLEAN
    PROVE  Len(Script(reset.forApp)) =
              CASE mode = "auto"    -> IF reset.forApp THEN 2 ELSE 4
                [] mode = "ck"      -> IF reset.forApp THEN 2 ELSE 3
                [] mode = "wifio"   -> IF reset.forApp THEN 3 ELSE 5
                [] mode = "nodemcu" -> IF reset.forApp THEN 2 ELSE 3
                [] mode = "dtronly" -> 2
  <1> DEFINE q == Script(reset.forApp)
  <1>1. CASE mode = "auto"
    <2>1. q = IF reset.forApp THEN AutoForApp ELSE AutoForLoader
      BY <1>1, ScriptOf
    <2> QED
      BY <1>1, <2>1 DEF AutoForApp, AutoForLoader
  <1>2. CASE mode = "ck"
    <2>1. q = IF reset.forApp THEN CkForApp ELSE CkForLoader
      BY <1>2, ScriptOf
    <2> QED
      BY <1>2, <2>1 DEF CkForApp, CkForLoader
  <1>3. CASE mode = "wifio"
    <2>1. q = IF reset.forApp THEN WifioForApp ELSE WifioForLoader
      BY <1>3, ScriptOf
    <2> QED
      BY <1>3, <2>1, WifioSteps DEF WifioForApp
  <1>4. CASE mode = "nodemcu"
    <2>1. q = IF reset.forApp THEN NodeMcuForApp ELSE NodeMcuForLoader
      BY <1>4, ScriptOf
    <2> QED
      BY <1>4, <2>1 DEF NodeMcuForApp, NodeMcuForLoader
  <1>5. CASE mode = "dtronly"
    <2>1. q = DtrOnly(reset.forApp)
      BY <1>5, ScriptOf
    <2> QED
      BY <1>5, <2>1 DEF DtrOnly
  <1> QED
    BY <1>1, <1>2, <1>3, <1>4, <1>5 DEF AllModes

\* After any number of resets, some of which may have had calls of SerialControl
\* that failed, a reset (ResetDevice, esp.cpp:1302) of which no call fails ends
\* with the device in its loader or its application, as asked for, if the lines
\* were at rest or the script gives them all the levels it needs.  Not covered is
\* the loader with NodeMCU's circuit when DTR changes before RTS (Exposed).
THEOREM ResetEndsAsAsked == LSpec => []EndsAsAsked
  <1>1. ResetInv => EndsAsAsked
    <2> SUFFICES ASSUME ResetInv, Finished, reset.atRest \/ FromAnyLevels, ~Exposed
                 PROVE  device = IF reset.forApp THEN "application" ELSE "loader"
      BY DEF EndsAsAsked
    <2>1. /\ reset.forApp \in BOOLEAN /\ wait = "none" /\ ~pulse
          /\ Called = Len(Script(reset.forApp)) /\ mode \in AllModes
      BY AtTheEnd, ResetAssumption DEF Finished, ResetInv, LTypeOK
    <2>2. LinesSound
      BY DEF ResetInv, Finished
    <2>3. CASE mode = "auto"
      BY <2>1, <2>2, <2>3, Lengths DEF LinesSound, AutoSound, Soon
    <2>4. CASE mode = "ck"
      BY <2>1, <2>2, <2>4, Lengths DEF LinesSound, CkSound
    <2>5. CASE mode = "wifio"
      BY <2>1, <2>2, <2>5, Lengths DEF LinesSound, WifioSound, Soon
    <2>6. CASE mode = "nodemcu"
      BY <2>1, <2>2, <2>6, Lengths DEF LinesSound, NodeMcuSound, Exposed
    <2>7. CASE mode = "dtronly"
      BY <2>1, <2>2, <2>7, Lengths DEF LinesSound, DtrOnlySound, Soon
    <2> QED
      BY <2>1, <2>3, <2>4, <2>5, <2>6, <2>7 DEF AllModes
  <1> QED
    BY <1>1, ResetInvariant, PTL

\* A reset (ResetDevice, esp.cpp:1302) of which no call fails, and which found the
\* lines at rest or gives them all the levels it needs, ends with both pins of the
\* device released: it is not held in reset, would start its application when
\* reset by hand, and the lines are at rest for the next reset.
THEOREM ResetLeavesReleased == LSpec => []LeavesReleased
  <1>1. ResetInv => LeavesReleased
    <2> SUFFICES ASSUME ResetInv, Finished, reset.atRest \/ FromAnyLevels
                 PROVE  ~HeldDown(dtr, rts) /\ ~Gpio0Down(dtr, rts, txd) /\ AtRest
      BY DEF LeavesReleased
    <2>1. /\ reset.forApp \in BOOLEAN /\ wait = "none" /\ ~pulse /\ ~txd
          /\ Called = Len(Script(reset.forApp)) /\ mode \in AllModes
      BY AtTheEnd, ResetAssumption DEF Finished, ResetInv, LTypeOK
    <2>2. LinesSound
      BY DEF ResetInv, Finished
    <2>3. CASE mode = "auto"
      BY <2>1, <2>2, <2>3, Lengths
         DEF LinesSound, AutoSound, HeldDown, Gpio0Down, AtRest
    <2>4. CASE mode = "ck"
      BY <2>1, <2>2, <2>4, Lengths DEF LinesSound, CkSound, HeldDown, Gpio0Down, AtRest
    <2>5. CASE mode = "wifio"
      BY <2>1, <2>2, <2>5, Lengths
         DEF LinesSound, WifioSound, HeldDown, Gpio0Down, AtRest
    <2>6. CASE mode = "nodemcu"
      <3>1. dtr = rts
        <4>1. dtr \in BOOLEAN /\ rts \in BOOLEAN /\ (dtr <=> rts)
          BY <2>1, <2>2, <2>6, Lengths DEF LinesSound, NodeMcuSound, ResetInv, LTypeOK
        <4> QED
          BY <4>1
      <3> QED
        BY <2>6, <3>1 DEF HeldDown, Gpio0Down, AtRest
    <2>7. CASE mode = "dtronly"
      BY <2>1, <2>2, <2>7, Lengths
         DEF LinesSound, DtrOnlySound, HeldDown, Gpio0Down, AtRest
    <2> QED
      BY <2>1, <2>3, <2>4, <2>5, <2>6, <2>7 DEF AllModes
  <1> QED
    BY <1>1, ResetInvariant, PTL

==============================================================================
