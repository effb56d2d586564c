-------------------------- MODULE DatagramsProofs --------------------------
(***************************************************************************)
(* The operators of Datagrams.tla: the segments of a buffer make up the    *)
(* buffer; nothing but a fault of the network puts a new datagram into a   *)
(* queue, and what a fault puts there fails the checksum.                  *)
(***************************************************************************)
EXTENDS Datagrams, SequenceTheorems, TLAPS

-----------------------------------------------------------------------------
(* Segments.                                                                *)

\* The number of segments is positive and they cover the buffer.
LEMMA SegmentsCoverBytes ==
    ASSUME NEW Bytes, NEW bytes \in Seq(Bytes), NEW mss \in Nat \ {0}
    PROVE  /\ SegmentCount(bytes, mss) \in Nat \ {0}
           /\ SegmentCount(bytes, mss) * mss >= Len(bytes)
<1>1. Len(bytes) \in Nat
  BY LenProperties
<1>2. CASE bytes = <<>>
  <2>1. SegmentCount(bytes, mss) = 1 /\ Len(bytes) = 0
    BY <1>2, EmptySeq DEF SegmentCount
  <2> QED
    BY <2>1
<1>3. CASE bytes # <<>>
  <2>1. Len(bytes) \in Nat \ {0}
    BY <1>1, <1>3, EmptySeq
  <2>2. SegmentCount(bytes, mss) = (Len(bytes) + mss - 1) \div mss
    BY <1>3 DEF SegmentCount
  <2> DEFINE total == Len(bytes) + mss - 1
  <2>3. total \in Nat /\ total >= mss
    BY <2>1
  <2> HIDE DEF total
  <2>4. total \div mss \in Nat \ {0}
    BY <2>3
  <2>5. (total \div mss) * mss > total - mss
    BY <2>3
  <2> QED
    BY <1>1, <2>2, <2>4, <2>5 DEF total
<1> QED
  BY <1>2, <1>3

\* Offsets grow from the start of the buffer to its end.
LEMMA OffsetsGrow ==
    ASSUME NEW Bytes, NEW bytes \in Seq(Bytes), NEW mss \in Nat \ {0}
    PROVE  /\ SegmentOffset(bytes, mss, 0) = 0
           /\ SegmentOffset(bytes, mss, SegmentCount(bytes, mss)) = Len(bytes)
           /\ \A i \in Nat :
                  /\ SegmentOffset(bytes, mss, i) \in 0 .. Len(bytes)
                  /\ SegmentOffset(bytes, mss, i)
                         =< SegmentOffset(bytes, mss, i + 1)
<1> DEFINE offset(i) == SegmentOffset(bytes, mss, i)
<1>1. Len(bytes) \in Nat
  BY LenProperties
<1>2. offset(0) = 0
  BY <1>1 DEF SegmentOffset
<1>3. offset(SegmentCount(bytes, mss)) = Len(bytes)
  BY <1>1, SegmentsCoverBytes DEF SegmentOffset
<1>4. ASSUME NEW i \in Nat
      PROVE  offset(i) \in 0 .. Len(bytes) /\ offset(i) =< offset(i + 1)
  <2>1. i * mss \in Nat /\ (i + 1) * mss = i * mss + mss
    OBVIOUS
  <2> QED
    BY <1>1, <2>1 DEF SegmentOffset
<1> QED
  BY <1>2, <1>3, <1>4

\* Appending segment i to the first i segments gives the first i + 1.
LEMMA OneSegmentMore ==
    ASSUME NEW Bytes, NEW bytes \in Seq(Bytes), NEW mss \in Nat \ {0},
           NEW i \in Nat
    PROVE  /\ SegmentAt(bytes, mss, i) \in Seq(Bytes)
           /\ SubSeq(bytes, 1, SegmentOffset(bytes, mss, i))
                      \o SegmentAt(bytes, mss, i)
                  = SubSeq(bytes, 1, SegmentOffset(bytes, mss, i + 1))
           /\ SubSeq(bytes, 1, SegmentOffset(bytes, mss, i)) \in Seq(Bytes)
<1> DEFINE from == SegmentOffset(bytes, mss, i)
           to == SegmentOffset(bytes, mss, i + 1)
<1>1. /\ Len(bytes) \in Nat
      /\ \A j \in 1 .. Len(bytes) : bytes[j] \in Bytes
  <2>1. Len(bytes) \in Nat
    BY LenProperties
  <2>2. ASSUME NEW j \in 1 .. Len(bytes) PROVE bytes[j] \in Bytes
    BY ElementOfSeq
  <2> QED
    BY <2>1, <2>2
<1>2. from \in 0 .. Len(bytes) /\ to \in from .. Len(bytes)
  <2>1. i + 1 \in Nat
    OBVIOUS
  <2>2. /\ SegmentOffset(bytes, mss, i) \in 0 .. Len(bytes)
        /\ SegmentOffset(bytes, mss, i + 1) \in 0 .. Len(bytes)
        /\ SegmentOffset(bytes, mss, i) =< SegmentOffset(bytes, mss, i + 1)
    BY <2>1, OffsetsGrow
  <2> QED
    BY <1>1, <2>2
<1> HIDE DEF from, to
<1>3. SubSeq(bytes, from + 1, to) \in Seq(Bytes)
  <2>1. from + 1 \in Int /\ to \in Int
        /\ \A j \in from + 1 .. to : bytes[j] \in Bytes
    BY <1>1, <1>2
  <2> QED
    BY <2>1, SubSeqProperties
<1>4. SubSeq(bytes, 1, from) \in Seq(Bytes)
  <2>1. 1 \in Int /\ from \in Int /\ \A j \in 1 .. from : bytes[j] \in Bytes
    BY <1>1, <1>2
  <2> QED
    BY <2>1, SubSeqProperties
<1>5. SubSeq(bytes, 1, from) \o SubSeq(bytes, from + 1, to)
          = SubSeq(bytes, 1, to)
  <2>1. /\ 1 \in 1 .. Len(bytes) + 1
        /\ from \in 1 - 1 .. Len(bytes)
        /\ to \in from .. Len(bytes)
    BY <1>1, <1>2
  <2> QED
    BY <2>1, ConcatAdjacentSubSeq
<1> QED
  BY <1>3, <1>4, <1>5 DEF SegmentAt, from, to

\* All segments together are the buffer.
LEMMA SegmentsMakeBytes ==
    ASSUME NEW Bytes, NEW bytes \in Seq(Bytes), NEW mss \in Nat \ {0}
    PROVE  SubSeq(bytes, 1, SegmentOffset(bytes, mss, SegmentCount(bytes, mss)))
               = bytes
<1>1. SegmentOffset(bytes, mss, SegmentCount(bytes, mss)) = Len(bytes)
  BY OffsetsGrow
<1> QED
  BY <1>1, SubSeqFull

-----------------------------------------------------------------------------
(* The contents of a queue.                                                 *)

\* Appending adds one element to the range of a sequence.
LEMMA RangeOfAppend ==
    ASSUME NEW S, NEW queue \in Seq(S), NEW datagram \in S
    PROVE  /\ Append(queue, datagram) \in Seq(S)
           /\ Range(Append(queue, datagram)) = Range(queue) \union {datagram}
<1>1. /\ Append(queue, datagram) \in Seq(S)
      /\ Len(Append(queue, datagram)) = Len(queue) + 1
      /\ \A i \in 1 .. Len(queue) : Append(queue, datagram)[i] = queue[i]
      /\ Append(queue, datagram)[Len(queue) + 1] = datagram
  BY AppendProperties
<1>2. Len(queue) \in Nat
  BY LenProperties
<1>3. Range(queue) = {queue[i] : i \in 1 .. Len(queue)}
  BY RangeEquality
<1>4. Range(Append(queue, datagram))
          = {Append(queue, datagram)[i] : i \in 1 .. Len(queue) + 1}
  BY <1>1, RangeEquality
<1> QED
  BY <1>1, <1>2, <1>3, <1>4

\* A send adds at most the datagram sent.
LEMMA RangeOfPush ==
    ASSUME NEW S, NEW queue \in Seq(S), NEW datagram \in S, NEW capacity
    PROVE  /\ Push(queue, datagram, capacity) \in Seq(S)
           /\ Range(Push(queue, datagram, capacity))
                  \subseteq Range(queue) \union {datagram}
BY RangeOfAppend DEF Push

\* A receive takes an element of the queue and adds none.
LEMMA RangeOfTail ==
    ASSUME NEW S, NEW queue \in Seq(S), queue # <<>>
    PROVE  /\ Head(queue) \in S
           /\ Head(queue) \in Range(queue)
           /\ Tail(queue) \in Seq(S)
           /\ Range(Tail(queue)) \subseteq Range(queue)
<1>1. /\ Head(queue) \in S /\ Tail(queue) \in Seq(S)
      /\ Len(Tail(queue)) = Len(queue) - 1
      /\ \A i \in 1 .. Len(Tail(queue)) : Tail(queue)[i] = queue[i + 1]
  BY HeadTailProperties
<1>2. /\ Len(queue) \in Nat \ {0}
      /\ Len(Tail(queue)) \in Nat
  BY <1>1, LenProperties, EmptySeq
<1>3. /\ Range(queue) = {queue[i] : i \in 1 .. Len(queue)}
      /\ Range(Tail(queue)) = {Tail(queue)[i] : i \in 1 .. Len(Tail(queue))}
  BY <1>1, RangeEquality
<1>4. Head(queue) = queue[1]
  BY SMTT(30)
<1> QED
  BY <1>1, <1>2, <1>3, <1>4

\* Losing a datagram adds none.
LEMMA RangeOfRemoveAt ==
    ASSUME NEW S, NEW queue \in Seq(S), NEW i \in DOMAIN queue
    PROVE  /\ queue[i] \in S
           /\ queue[i] \in Range(queue)
           /\ RemoveAt(queue, i) \in Seq(S)
           /\ Range(RemoveAt(queue, i)) \subseteq Range(queue)
<1> DEFINE before == SubSeq(queue, 1, i - 1)
           after == SubSeq(queue, i + 1, Len(queue))
<1>1. /\ Len(queue) \in Nat
      /\ DOMAIN queue = 1 .. Len(queue)
      /\ \A j \in 1 .. Len(queue) : queue[j] \in S
      /\ Range(queue) = {queue[j] : j \in 1 .. Len(queue)}
  BY LenProperties, ElementOfSeq, RangeEquality
<1>2. /\ before \in Seq(S)
      /\ Len(before) = IF 1 <= i - 1 THEN (i - 1) - 1 + 1 ELSE 0
      /\ \A j \in 1 .. (i - 1) - 1 + 1 : before[j] = queue[1 + j - 1]
  <2>1. 1 \in Int /\ i - 1 \in Int /\ \A j \in 1 .. i - 1 : queue[j] \in S
    BY <1>1
  <2> HIDE DEF before
  <2> QED
    BY <2>1, SubSeqProperties DEF before
<1>3. /\ after \in Seq(S)
      /\ Len(after) = IF i + 1 <= Len(queue) THEN Len(queue) - (i + 1) + 1
                                             ELSE 0
      /\ \A j \in 1 .. Len(queue) - (i + 1) + 1 :
             after[j] = queue[(i + 1) + j - 1]
  <2>1. /\ i + 1 \in Int /\ Len(queue) \in Int
        /\ \A j \in i + 1 .. Len(queue) : queue[j] \in S
    BY <1>1
  <2> HIDE DEF after
  <2> QED
    BY <2>1, SubSeqProperties DEF after
<1>4. RemoveAt(queue, i) = before \o after
  BY DEF RemoveAt
<1>5. /\ Range(before) = {before[j] : j \in 1 .. Len(before)}
      /\ Range(after) = {after[j] : j \in 1 .. Len(after)}
  <2>1. before \in Seq(S) /\ after \in Seq(S)
    BY <1>2, <1>3
  <2> HIDE DEF before, after
  <2> QED
    BY <2>1, RangeEquality, ZenonT(40)
<1>6. Range(before) \subseteq Range(queue)
  <2> HIDE DEF before
  <2> QED
    BY <1>1, <1>2, <1>5
<1>7. Range(after) \subseteq Range(queue)
  <2> HIDE DEF after
  <2> SUFFICES ASSUME NEW j \in 1 .. Len(after)
               PROVE  after[j] \in Range(queue)
    BY <1>5
  <2>1. Len(after) = Len(queue) - i /\ j \in 1 .. Len(queue) - i
    BY <1>1, <1>3
  <2>2. (i + 1) + j - 1 = i + j /\ i + j \in 1 .. Len(queue)
        /\ j \in 1 .. Len(queue) - (i + 1) + 1
    BY <1>1, <2>1
  <2>3. after[j] = queue[i + j]
    BY <1>3, <2>2
  <2> QED
    BY <1>1, <2>2, <2>3
<1>8. /\ before \o after \in Seq(S)
      /\ Range(before \o after) = Range(before) \union Range(after)
  <2>1. before \in Seq(S) /\ after \in Seq(S)
    BY <1>2, <1>3
  <2> HIDE DEF before, after
  <2> QED
    BY <2>1, ConcatProperties, RangeConcatenation, ZenonT(40)
<1> HIDE DEF before, after
<1> QED
  BY <1>1, <1>4, <1>6, <1>7, <1>8

\* A damaged datagram is the only new one a fault puts into a queue.
LEMMA RangeOfDamaged ==
    ASSUME NEW S, NEW queue \in Seq(S), NEW i \in DOMAIN queue, NEW damaged \in S
    PROVE  /\ [queue EXCEPT ![i] = damaged] \in Seq(S)
           /\ Range([queue EXCEPT ![i] = damaged])
                  \subseteq Range(queue) \union {damaged}
<1> DEFINE new == [queue EXCEPT ![i] = damaged]
<1>1. /\ Len(queue) \in Nat
      /\ DOMAIN queue = 1 .. Len(queue)
      /\ Range(queue) = {queue[j] : j \in 1 .. Len(queue)}
  BY LenProperties, RangeEquality
<1>2. /\ new \in Seq(S)
      /\ Len(new) = Len(queue)
      /\ \A j \in 1 .. Len(queue) : new[j] = IF j = i THEN damaged ELSE queue[j]
  BY <1>1, ExceptSeq
<1>3. Range(new) = {new[j] : j \in 1 .. Len(new)}
  BY <1>2, RangeEquality
<1> HIDE DEF new
<1> QED
  BY <1>1, <1>2, <1>3 DEF new

\* The datagrams of a queue after a fault were there before, or fail the
\* checksum.
LEMMA RangeAfterFault ==
    ASSUME NEW bytes, NEW queue \in Seq(Datagram(bytes)), NEW kinds,
           NEW capacity, NEW new \in AfterFault(queue, kinds, capacity)
    PROVE  /\ new \in Seq(Datagram(bytes))
           /\ \A datagram \in Range(new) :
                  datagram \in Range(queue)
                  \/ ("corrupt" \in kinds /\ ~datagram.ok)
<1> DEFINE S == Datagram(bytes)
<1>1. ASSUME NEW i \in DOMAIN queue, new = RemoveAt(queue, i)
      PROVE  new \in Seq(S) /\ Range(new) \subseteq Range(queue)
  BY <1>1, RangeOfRemoveAt
<1>2. ASSUME NEW i \in DOMAIN queue, new = Push(queue, queue[i], capacity)
      PROVE  new \in Seq(S) /\ Range(new) \subseteq Range(queue)
  <2>1. queue[i] \in S /\ queue[i] \in Range(queue)
    BY RangeOfRemoveAt
  <2> QED
    BY <1>2, <2>1, RangeOfPush
<1>3. ASSUME NEW i \in DOMAIN queue,
             new = Append(RemoveAt(queue, i), queue[i])
      PROVE  new \in Seq(S) /\ Range(new) \subseteq Range(queue)
  <2>1. /\ queue[i] \in S /\ queue[i] \in Range(queue)
        /\ RemoveAt(queue, i) \in Seq(S)
        /\ Range(RemoveAt(queue, i)) \subseteq Range(queue)
    BY RangeOfRemoveAt
  <2> QED
    BY <1>3, <2>1, RangeOfAppend
<1>4. ASSUME NEW i \in DOMAIN queue, NEW kind \in Kinds, "corrupt" \in kinds,
             new = [queue EXCEPT ![i] = [kind    |-> kind,
                                         num     |-> queue[i].num,
                                         payload |-> queue[i].payload,
                                         ok      |-> FALSE]]
      PROVE  /\ new \in Seq(S)
             /\ \A datagram \in Range(new) :
                    datagram \in Range(queue) \/ ~datagram.ok
  <2> DEFINE damaged == [kind    |-> kind,
                         num     |-> queue[i].num,
                         payload |-> queue[i].payload,
                         ok      |-> FALSE]
  <2>1. queue[i] \in S
    BY RangeOfRemoveAt
  <2>2. damaged \in S /\ ~damaged.ok
    BY <2>1 DEF Datagram
  <2> HIDE DEF damaged
  <2>3. new = [queue EXCEPT ![i] = damaged]
    BY <1>4 DEF damaged
  <2>4. /\ new \in Seq(S)
        /\ Range(new) \subseteq Range(queue) \union {damaged}
    <3> HIDE DEF S
    <3>1. queue \in Seq(S)
      BY DEF S
    <3> QED
      BY <2>2, <2>3, <3>1, RangeOfDamaged
  <2> QED
    BY <2>2, <2>4
<1>5. \/ \E i \in DOMAIN queue : new = RemoveAt(queue, i)
      \/ \E i \in DOMAIN queue : new = Push(queue, queue[i], capacity)
      \/ \E i \in DOMAIN queue : new = Append(RemoveAt(queue, i), queue[i])
      \/ /\ "corrupt" \in kinds
         /\ \E i \in DOMAIN queue, kind \in Kinds :
                new = [queue EXCEPT ![i] = [kind    |-> kind,
                                            num     |-> queue[i].num,
                                            payload |-> queue[i].payload,
                                            ok      |-> FALSE]]
  BY DEF AfterFault
<1> QED
  BY <1>1, <1>2, <1>3, <1>4, <1>5

-----------------------------------------------------------------------------
(* The places of the datagrams.                                             *)

\* A queue without the datagram at k; the others keep their order.
WithoutPlace(new, queue, k) ==
    /\ Len(new) = Len(queue) - 1
    /\ \A i \in 1 .. Len(new) : new[i] = IF i < k THEN queue[i] ELSE queue[i + 1]

\* A queue with one more datagram at its end.
WithLast(new, queue, datagram) ==
    /\ Len(new) = Len(queue) + 1
    /\ \A i \in 1 .. Len(queue) : new[i] = queue[i]
    /\ new[Len(queue) + 1] = datagram

\* A receive takes the first datagram.
LEMMA PlacesOfTail ==
    ASSUME NEW S, NEW queue \in Seq(S), queue # <<>>
    PROVE  /\ Head(queue) = queue[1] /\ Len(queue) \in Nat \ {0}
           /\ Tail(queue) \in Seq(S)
           /\ WithoutPlace(Tail(queue), queue, 1)
<1>1. /\ Tail(queue) \in Seq(S)
      /\ Len(Tail(queue)) = Len(queue) - 1
      /\ \A i \in 1 .. Len(Tail(queue)) : Tail(queue)[i] = queue[i + 1]
  BY HeadTailProperties
<1>2. Len(queue) \in Nat \ {0}
  BY LenProperties, EmptySeq
<1>3. Head(queue) = queue[1]
  BY SMTT(30)
<1>4. \A i \in 1 .. Len(Tail(queue)) : ~(i < 1)
  BY <1>1, <1>2
<1> QED
  BY <1>1, <1>2, <1>3, <1>4 DEF WithoutPlace

\* A loss takes any one.
LEMMA PlacesOfRemoveAt ==
    ASSUME NEW S, NEW queue \in Seq(S), NEW k \in DOMAIN queue
    PROVE  /\ k \in 1 .. Len(queue)
           /\ RemoveAt(queue, k) \in Seq(S)
           /\ WithoutPlace(RemoveAt(queue, k), queue, k)
<1> DEFINE before == SubSeq(queue, 1, k - 1)
           after == SubSeq(queue, k + 1, Len(queue))
<1>1. /\ Len(queue) \in Nat /\ k \in 1 .. Len(queue)
      /\ \A j \in 1 .. Len(queue) : queue[j] \in S
  BY LenProperties, ElementOfSeq
<1>2. /\ before \in Seq(S)
      /\ Len(before) = k - 1
      /\ \A j \in 1 .. k - 1 : before[j] = queue[j]
  <2>1. 1 \in Int /\ k - 1 \in Int /\ \A j \in 1 .. k - 1 : queue[j] \in S
    BY <1>1
  <2>2. /\ before \in Seq(S)
        /\ Len(before) = IF 1 <= k - 1 THEN (k - 1) - 1 + 1 ELSE 0
        /\ \A j \in 1 .. (k - 1) - 1 + 1 : before[j] = queue[1 + j - 1]
    <3> HIDE DEF before
    <3> QED
      BY <2>1, SubSeqProperties DEF before
  <2> HIDE DEF before
  <2> QED
    BY <1>1, <2>2
<1>3. /\ after \in Seq(S)
      /\ Len(after) = Len(queue) - k
      /\ \A j \in 1 .. Len(queue) - k : after[j] = queue[k + j]
  <2>1. /\ k + 1 \in Int /\ Len(queue) \in Int
        /\ \A j \in k + 1 .. Len(queue) : queue[j] \in S
    BY <1>1
  <2>2. /\ after \in Seq(S)
        /\ Len(after) = IF k + 1 <= Len(queue) THEN Len(queue) - (k + 1) + 1
                                               ELSE 0
        /\ \A j \in 1 .. Len(queue) - (k + 1) + 1 :
               after[j] = queue[(k + 1) + j - 1]
    <3> HIDE DEF after
    <3> QED
      BY <2>1, SubSeqProperties DEF after
  <2> HIDE DEF after
  <2> QED
    BY <1>1, <2>2
<1>4. RemoveAt(queue, k) = before \o after
  BY DEF RemoveAt
<1> HIDE DEF before, after
<1>5. /\ before \o after \in Seq(S)
      /\ Len(before \o after) = Len(before) + Len(after)
      /\ \A i \in 1 .. Len(before) + Len(after) :
             (before \o after)[i] = IF i <= Len(before) THEN before[i]
                                    ELSE after[i - Len(before)]
  BY <1>2, <1>3, ConcatProperties
<1>6. ASSUME NEW i \in 1 .. Len(queue) - 1
      PROVE  (before \o after)[i] = IF i < k THEN queue[i] ELSE queue[i + 1]
  <2>1. CASE i < k
    <3>1. /\ i \in 1 .. Len(before) + Len(after)
          /\ i <= Len(before) /\ i \in 1 .. k - 1
      BY <1>1, <1>2, <1>3, <2>1
    <3>2. (before \o after)[i] = before[i]
      BY <1>5, <3>1
    <3> QED
      BY <1>2, <2>1, <3>1, <3>2
  <2>2. CASE ~(i < k)
    <3>1. /\ i \in 1 .. Len(before) + Len(after)
          /\ ~(i <= Len(before)) /\ Len(before) = k - 1
      BY <1>1, <1>2, <1>3, <2>2
    <3>2. (before \o after)[i] = after[i - (k - 1)]
      BY <1>5, <3>1
    <3>3. i - (k - 1) \in 1 .. Len(queue) - k /\ k + (i - (k - 1)) = i + 1
      BY <1>1, <2>2
    <3> QED
      BY <1>3, <2>2, <3>2, <3>3
  <2> QED
    BY <2>1, <2>2
<1>7. Len(before \o after) = Len(queue) - 1
  BY <1>1, <1>2, <1>3, <1>5
<1> QED
  BY <1>1, <1>4, <1>5, <1>6, <1>7 DEF WithoutPlace

\* A send adds one at the end, or none.
LEMMA PlacesOfPush ==
    ASSUME NEW S, NEW queue \in Seq(S), NEW datagram \in S, NEW capacity
    PROVE  /\ Push(queue, datagram, capacity) \in Seq(S)
           /\ \/ Push(queue, datagram, capacity) = queue
              \/ WithLast(Push(queue, datagram, capacity), queue, datagram)
<1>1. /\ Append(queue, datagram) \in Seq(S)
      /\ WithLast(Append(queue, datagram), queue, datagram)
  BY AppendProperties DEF WithLast
<1> QED
  BY <1>1 DEF Push
=============================================================================
