------------------------ MODULE DataSocketReuseProofs ------------------------
(***************************************************************************)
(* What several transfers over one socket keep of each other, for any      *)
(* data, windows, losses and number of transfers.                          *)
(***************************************************************************)
EXTENDS DataSocketReuse, DatagramsProofs

USE PayloadsAssumption, SizeAssumption, SequenceSpaceAssumption,
    DirectionsAssumption

-----------------------------------------------------------------------------
(* The inductive invariant.                                                 *)

Carried == Seq(Datagram(Byte))

\* The data of the current transfer and its segments.
Data == Payloads[transfer]
Segments == SegmentCount(Data, MSS)
Start(i) == SubSeq(Data, 1, SegmentOffset(Data, MSS, i))

\* A segment of the data, and the FIN of a sender all of whose segments have
\* been acknowledged.
IsSegment(datagram) ==
    /\ datagram.kind = "data"
    /\ datagram.num \in 0 .. Segments - 1
    /\ datagram.payload = SegmentAt(Data, MSS, datagram.num)
IsLateFin(datagram) == datagram.kind = "fin" /\ base = Segments

\* ACKs and FINACKs that say nothing the receiver has not done.
IsHonestAck(datagram) ==
    \/ /\ datagram.kind = "ack"
       /\ datagram.num = NoDataAck \/ datagram.num < expectedSeq
    \/ datagram.kind = "finack" /\ receiver = "true"

TransferTypes ==
    /\ sender \in {"knock", "top", "burst", "fin", "finwait", "true", "false"}
    /\ base \in 0 .. Segments /\ nextSeq \in 0 .. Segments
    /\ receiver \in {"recv", "true"}
    /\ expectedSeq \in 0 .. Segments
    /\ toReceiver \in Carried /\ toSender \in Carried

\* The receiver has the first segments, among them all that the sender takes
\* for acknowledged.
Delivered == base =< expectedSeq /\ outData = Start(expectedSeq)

\* What is under way to the receiver belongs to this transfer, and no DATA
\* follows a FIN: a receiver that has returned leaves FINs only.
HonestData ==
    /\ \A i \in 1 .. Len(toReceiver) :
           IsSegment(toReceiver[i]) \/ IsLateFin(toReceiver[i])
    /\ \A i, j \in 1 .. Len(toReceiver) :
           i < j /\ toReceiver[i].kind = "fin" => toReceiver[j].kind = "fin"
    /\ receiver = "true" =>
           \A i \in 1 .. Len(toReceiver) : toReceiver[i].kind = "fin"

\* So does what is under way to the sender, and nothing follows a FINACK.
HonestAcks ==
    /\ \A i \in 1 .. Len(toSender) : IsHonestAck(toSender[i])
    /\ \A i \in 1 .. Len(toSender) - 1 : toSender[i].kind # "finack"

\* Neither phase of the sender overlaps the other, and success comes from the
\* receiver.
Phases ==
    /\ sender \in {"fin", "finwait", "true"} => base = Segments
    /\ sender = "burst" => base < Segments
    /\ receiver = "true" => base = Segments
    /\ sender = "true" => receiver = "true" /\ toSender = <<>>

\* A transfer that has met no datagram of another one.
Separate ==
    /\ stale = 0
    /\ TransferTypes /\ Delivered /\ HonestData /\ HonestAcks /\ Phases

\* What such a transfer leaves: no DATA, and after a success only FINs.
IsLeftover(datagram) ==
    /\ datagram.kind # "data"
    /\ allSucceeded => datagram.kind = "fin"

\* A download into a socket with leftovers.  Until they are taken the receiver
\* answers nothing, and one of them may end it; the sender has heard nothing.
Unanswered ==
    /\ direction = "download"
    /\ receiver = "true" \/ (receiver = "recv" /\ stale > 0)
    /\ sender \in {"top", "burst", "false"}
    /\ base = 0 /\ nextSeq \in 0 .. Segments
    /\ expectedSeq = 0 /\ outData = <<>>
    /\ toReceiver \in Carried /\ toSender = <<>>
    /\ stale \in 0 .. Len(toReceiver)
    /\ \A i \in 1 .. Len(toReceiver) :
           IF i =< stale THEN IsLeftover(toReceiver[i])
                         ELSE IsSegment(toReceiver[i])

\* An upload from a socket with leftovers.
Astray ==
    /\ direction = "upload"
    /\ \/ sender = "knock" /\ stale > 0
       \/ sender = "false" /\ stale = 0
    /\ receiver = "recv" /\ ~peerKnown /\ outData = <<>>
    /\ toReceiver = <<>> /\ toSender \in Carried
    /\ stale = Len(toSender)
    /\ \A i \in 1 .. Len(toSender) : IsLeftover(toSender[i])

\* Nothing is known of the third transfer once one has failed: its receiver
\* may have been ended by leftovers while its sender went on.  Up to there the
\* current transfer has met none, or has met them and cannot succeed.
ReuseInv ==
    /\ transfer \in 1 .. Len(Payloads)
    /\ allSucceeded \in BOOLEAN
    /\ transfer = 1 => Separate
    /\ allSucceeded \/ transfer =< 2 => Separate \/ Unanswered \/ Astray

-----------------------------------------------------------------------------
(* Segments.                                                                *)

\* The data of every transfer, cut into segments; before the first segment
\* there is nothing.
LEMMA EachPayload ==
    ASSUME NEW number \in 1 .. Len(Payloads)
    PROVE  /\ Payloads[number] \in Seq(Byte)
           /\ SegmentCount(Payloads[number], MSS) \in Nat \ {0}
           /\ SegmentCount(Payloads[number], MSS) =< NoDataAck
           /\ SubSeq(Payloads[number], 1,
                     SegmentOffset(Payloads[number], MSS, 0)) = <<>>
<1>1. Payloads[number] \in Seq(Byte)
  BY ElementOfSeq
<1>2. Range(Payloads) = {Payloads[i] : i \in 1 .. Len(Payloads)}
  BY RangeEquality
<1>3. SegmentCount(Payloads[number], MSS) =< NoDataAck
  BY <1>2
<1>4. SegmentOffset(Payloads[number], MSS, 0) = 0
  BY <1>1, OffsetsGrow
<1>5. SubSeq(Payloads[number], 1, 0) = <<>>
  BY <1>1, SubSeqEmpty
<1> QED
  BY <1>1, <1>3, <1>4, <1>5, SegmentsCoverBytes

LEMMA CurrentData ==
    ASSUME transfer \in 1 .. Len(Payloads)
    PROVE  /\ Data \in Seq(Byte)
           /\ Segments \in Nat \ {0} /\ Segments =< NoDataAck
BY EachPayload DEF Data, Segments

\* Start(i) grows by segment i from nothing to all of the data.
LEMMA Starts ==
    ASSUME transfer \in 1 .. Len(Payloads)
    PROVE  /\ Start(0) = <<>>
           /\ Start(Segments) = Data
           /\ \A i \in Nat : /\ SegmentAt(Data, MSS, i) \in Seq(Byte)
                             /\ Start(i) \o SegmentAt(Data, MSS, i)
                                    = Start(i + 1)
<1>1. Data \in Seq(Byte)
  BY CurrentData
<1>2. Start(0) = <<>>
  BY EachPayload DEF Start, Data
<1>3. Start(Segments) = Data
  BY <1>1, SegmentsMakeBytes DEF Start, Segments
<1>4. ASSUME NEW i \in Nat
      PROVE  /\ SegmentAt(Data, MSS, i) \in Seq(Byte)
             /\ Start(i) \o SegmentAt(Data, MSS, i) = Start(i + 1)
  BY <1>1, OneSegmentMore DEF Start
<1> QED
  BY <1>2, <1>3, <1>4

-----------------------------------------------------------------------------
(* What a step of the window protocol does to a transfer.                   *)

\* A queue as it was, or without its first datagram.
KeepsOrTakes(new, queue) ==
    new = queue \/ (queue # <<>> /\ new = Tail(queue))

\* The sender goes on, back to base or gives up.
GoesOn ==
    /\ sender \in {"top", "burst", "fin", "finwait"}
    /\ sender' \in {"top", "burst", "fin", "false"}
    /\ sender' = "burst" => ~(base >= Segments)
    /\ sender' = "fin" => base >= Segments \/ sender = "finwait"
    /\ nextSeq' \in {nextSeq, base}
    /\ KeepsOrTakes(toSender', toSender)
    /\ UNCHANGED <<base, toReceiver>>

SendsSegment ==
    /\ sender = "burst" /\ nextSeq < Segments
    /\ toReceiver' = Push(toReceiver,
                          [kind |-> "data", num |-> nextSeq,
                           payload |-> SegmentAt(Data, MSS, nextSeq),
                           ok |-> TRUE], BufferCapacity)
    /\ nextSeq' = nextSeq + 1
    /\ UNCHANGED <<sender, base, toSender>>

Slides ==
    /\ sender = "burst" /\ sender' = "top"
    /\ toSender # <<>> /\ toSender' = Tail(toSender)
    /\ Head(toSender).num >= base /\ Head(toSender).num < Segments
    /\ base' = Head(toSender).num + 1
    /\ UNCHANGED <<nextSeq, toReceiver>>

SendsFin ==
    /\ sender = "fin" /\ sender' = "finwait"
    /\ toReceiver' = Push(toReceiver,
                          [kind |-> "fin", num |-> Segments,
                           payload |-> <<>>, ok |-> TRUE], BufferCapacity)
    /\ UNCHANGED <<base, nextSeq, toSender>>

Succeeds ==
    /\ sender = "finwait" /\ sender' = "true"
    /\ toSender # <<>> /\ toSender' = Tail(toSender)
    /\ Head(toSender).kind = "finack"
    /\ UNCHANGED <<base, nextSeq, toReceiver>>

Answer(kind, num) ==
    [kind |-> kind, num |-> num, payload |-> <<>>, ok |-> TRUE]
Acknowledges(expected) ==
    toSender' = Push(toSender,
                     Answer("ack",
                            IF expected = 0 THEN NoDataAck ELSE expected - 1),
                     BufferCapacity)

\* The receiver takes a datagram it has no use for, or times out.
Repeats ==
    /\ Acknowledges(expectedSeq)
    /\ peerKnown \/ toReceiver # <<>>
    /\ KeepsOrTakes(toReceiver', toReceiver)
    /\ UNCHANGED <<receiver, expectedSeq, outData>>

TakesFin ==
    /\ toReceiver # <<>> /\ toReceiver' = Tail(toReceiver)
    /\ Head(toReceiver).kind = "fin"
    /\ receiver' = "true"
    /\ toSender' = Push(toSender, Answer("finack", Head(toReceiver).num),
                        BufferCapacity)
    /\ UNCHANGED <<expectedSeq, outData>>

TakesSegment ==
    /\ toReceiver # <<>> /\ toReceiver' = Tail(toReceiver)
    /\ Head(toReceiver).kind = "data" /\ Head(toReceiver).num = expectedSeq
    /\ outData' = outData \o Head(toReceiver).payload
    /\ expectedSeq' = expectedSeq + 1
    /\ Acknowledges(expectedSeq + 1)
    /\ UNCHANGED receiver

\* The operators that SlidingWindow takes from Datagrams are those used here.
LEMMA SameOperators ==
    /\ Window!N = Segments
    /\ \A i : Window!Segment(i) = SegmentAt(Data, MSS, i)
    /\ \A queue, datagram, capacity :
           Window!Push(queue, datagram, capacity)
               = Push(queue, datagram, capacity)
BY DEF Window!N, Window!Segment, Window!Push, Window!SegmentCount,
       Window!SegmentAt, Window!SegmentOffset, Push, SegmentCount,
       SegmentAt, SegmentOffset, Segments, Data

\* Every step of sendData is one of these.
LEMMA SenderEffects ==
    ASSUME Window!SenderStep \/ Window!SenderTimer
    PROVE  /\ GoesOn \/ SendsSegment \/ Slides \/ SendsFin \/ Succeeds
           /\ UNCHANGED <<receiver, expectedSeq, outData, peerKnown>>
<1> USE SameOperators DEF Window!receiverVars
<1>1. CASE \/ Window!StartBurst \/ Window!AllAcknowledged
           \/ Window!SenderTimeout \/ Window!TooManyTimeouts
           \/ Window!GiveUpOnFinAck \/ Window!FinTimeout
  BY <1>1 DEF Window!StartBurst, Window!AllAcknowledged,
              Window!SenderTimeout, Window!TooManyTimeouts,
              Window!GiveUpOnFinAck, Window!FinTimeout, Window!SenderWaits,
              Window!GoBack, Window!Restart, Window!Returns,
              Window!AllAcked, Window!windowVars, GoesOn, KeepsOrTakes
<1>2. CASE \/ Window!IgnoreDatagram \/ Window!CountDuplicateAck
           \/ Window!FastRetransmit \/ Window!TooManyFastRetransmits
           \/ Window!IgnoreUnsentAck \/ Window!ReceiveOtherThanFinAck
  BY <1>2 DEF Window!IgnoreDatagram, Window!CountDuplicateAck,
              Window!FastRetransmit, Window!TooManyFastRetransmits,
              Window!IgnoreUnsentAck, Window!ReceiveOtherThanFinAck,
              Window!ReceiveAck, Window!SenderReceives, Window!SenderWaits,
              Window!FinReceives, Window!GoBack, Window!Restart,
              Window!windowVars, GoesOn, KeepsOrTakes
<1>3. CASE Window!CancelAtTop \/ Window!CancelAfterRecv
  BY <1>3 DEF Window!CancelAtTop, Window!CancelAfterRecv,
              Window!SenderAborted
<1>4. CASE Window!SendSegment
  BY <1>4 DEF Window!SendSegment, Window!HasRoom, Window!DataSegment,
              SendsSegment
<1>5. CASE Window!SlideWindow
  BY <1>5 DEF Window!SlideWindow, Window!ReceiveAck, Window!SenderReceives,
              Window!SenderWaits, Window!IsNewAck, Window!AckNum, Slides
<1>6. CASE Window!SendFin
  BY <1>6 DEF Window!SendFin, Window!Fin, Window!windowVars, SendsFin
<1>7. CASE Window!ReceiveFinAck
  BY <1>7 DEF Window!ReceiveFinAck, Window!FinReceives, Window!IsFinAck,
              Window!windowVars, Succeeds
<1> QED
  BY <1>1, <1>2, <1>3, <1>4, <1>5, <1>6, <1>7
     DEF Window!SenderStep, Window!SenderTimer

\* Every step of receiveData is one of these, and only while it runs.
LEMMA ReceiverEffects ==
    ASSUME Window!ReceiverStep \/ Window!ReceiverTimeout
    PROVE  /\ receiver = "recv"
           /\ Repeats \/ TakesFin \/ TakesSegment
           /\ UNCHANGED <<sender, base, nextSeq>>
<1> USE SameOperators DEF Window!senderVars, Window!windowVars
<1>1. ASSUME NEW expected, Window!Acknowledge(expected)
      PROVE  Acknowledges(expected)
  BY <1>1 DEF Window!Acknowledge, Window!CumulativeAck, Window!Ack,
              Acknowledges, Answer
<1>2. CASE Window!ReceiverCancelled
  BY <1>2 DEF Window!ReceiverCancelled, Window!ReceiverAborted
<1>3. CASE Window!ReceiverTimeout
  BY <1>1, <1>3 DEF Window!ReceiverTimeout, Window!receiverVars, Repeats,
                    KeepsOrTakes
<1>4. CASE Window!RejectDatagram \/ Window!ReceiveOutOfOrder
  BY <1>1, <1>4 DEF Window!RejectDatagram, Window!ReceiveOutOfOrder,
                    Window!ReceiverReceives, Repeats, KeepsOrTakes
<1>5. CASE Window!ReceiveFin
  BY <1>5 DEF Window!ReceiveFin, Window!ReceiverReceives, Window!IsFin,
              Window!FinAck, TakesFin, Answer
<1>6. CASE Window!ReceiveInOrder
  BY <1>1, <1>6 DEF Window!ReceiveInOrder, Window!ReceiverReceives,
                    Window!IsData, Window!IsInOrder, TakesSegment
<1> QED
  BY <1>2, <1>3, <1>4, <1>5, <1>6 DEF Window!ReceiverStep

-----------------------------------------------------------------------------
(* The two queues of a separate transfer.                                   *)

\* A queue from which at most one datagram has been taken or lost.
Thinned(new, queue) ==
    new = queue \/ \E k \in 1 .. Len(queue) : WithoutPlace(new, queue, k)

\* What is left keeps its order.
LEMMA PlacesOfThinned ==
    ASSUME NEW queue \in Carried, NEW new \in Carried, Thinned(new, queue)
    PROVE  /\ Len(queue) \in Nat /\ Len(new) \in Nat
           /\ \A i \in 1 .. Len(new) :
                  \E k \in 1 .. Len(queue) : new[i] = queue[k]
           /\ \A i, j \in 1 .. Len(new) : i < j =>
                  \E k, l \in 1 .. Len(queue) :
                      k < l /\ new[i] = queue[k] /\ new[j] = queue[l]
           /\ \A i \in 1 .. Len(new) - 1 :
                  \E k \in 1 .. Len(queue) - 1 : new[i] = queue[k]
<1>1. Len(queue) \in Nat /\ Len(new) \in Nat
  BY LenProperties DEF Carried
<1>2. CASE new = queue
  BY <1>1, <1>2
<1>3. ASSUME NEW k \in 1 .. Len(queue), WithoutPlace(new, queue, k)
      PROVE  /\ \A i \in 1 .. Len(new) :
                    \E l \in 1 .. Len(queue) : new[i] = queue[l]
             /\ \A i, j \in 1 .. Len(new) : i < j =>
                    \E l, m \in 1 .. Len(queue) :
                        l < m /\ new[i] = queue[l] /\ new[j] = queue[m]
             /\ \A i \in 1 .. Len(new) - 1 :
                    \E l \in 1 .. Len(queue) - 1 : new[i] = queue[l]
  <2> DEFINE place(i) == IF i < k THEN i ELSE i + 1
  <2>1. /\ Len(new) = Len(queue) - 1
        /\ \A i \in 1 .. Len(new) : new[i] = queue[place(i)]
    BY <1>3 DEF WithoutPlace
  <2>2. \A i \in 1 .. Len(new) : place(i) \in 1 .. Len(queue)
    BY <1>1, <2>1
  <2>3. \A i, j \in 1 .. Len(new) : i < j => place(i) < place(j)
    BY <1>1, <2>1
  <2>4. \A i \in 1 .. Len(new) - 1 :
            i \in 1 .. Len(new) /\ place(i) \in 1 .. Len(queue) - 1
    BY <1>1, <2>1
  <2> HIDE DEF place
  <2> QED
    BY <2>1, <2>2, <2>3, <2>4
<1> QED
  BY <1>1, <1>2, <1>3 DEF Thinned

\* A receive, or none, thins a queue; so does a loss.
LEMMA TakingThins ==
    ASSUME NEW queue \in Carried, NEW new
    PROVE  /\ KeepsOrTakes(new, queue) => new \in Carried /\ Thinned(new, queue)
           /\ \A k \in DOMAIN queue :
                  /\ k \in 1 .. Len(queue)
                  /\ RemoveAt(queue, k) \in Carried
                  /\ WithoutPlace(RemoveAt(queue, k), queue, k)
<1>1. CASE queue # <<>>
  <2>1. /\ Tail(queue) \in Carried /\ WithoutPlace(Tail(queue), queue, 1)
        /\ Len(queue) \in Nat \ {0}
    BY <1>1, PlacesOfTail DEF Carried
  <2>2. 1 \in 1 .. Len(queue)
    BY <2>1
  <2> QED
    BY <2>1, <2>2, PlacesOfRemoveAt DEF Carried, KeepsOrTakes, Thinned
<1>2. CASE queue = <<>>
  BY <1>2, PlacesOfRemoveAt DEF Carried, KeepsOrTakes, Thinned
<1> QED
  BY <1>1, <1>2

LEMMA ThinnedData ==
    ASSUME toReceiver \in Carried, toReceiver' \in Carried,
           Thinned(toReceiver', toReceiver), HonestData,
           UNCHANGED <<transfer, base, receiver>>
    PROVE  HonestData'
<1>1. UNCHANGED <<Data, Segments>>
  BY DEF Data, Segments
<1> DEFINE old == toReceiver
           new == toReceiver'
<1>2. /\ \A i \in 1 .. Len(new) :
             \E k \in 1 .. Len(old) : new[i] = old[k]
      /\ \A i, j \in 1 .. Len(new) : i < j =>
             \E k, l \in 1 .. Len(old) :
                 k < l /\ new[i] = old[k] /\ new[j] = old[l]
  BY PlacesOfThinned
<1>3. \A i \in 1 .. Len(new) : IsSegment(new[i]) \/ IsLateFin(new[i])
  BY <1>2 DEF HonestData
<1>4. ASSUME NEW i \in 1 .. Len(new), NEW j \in 1 .. Len(new),
             i < j, new[i].kind = "fin"
      PROVE  new[j].kind = "fin"
  <2>1. PICK k \in 1 .. Len(old), l \in 1 .. Len(old) :
            k < l /\ new[i] = old[k] /\ new[j] = old[l]
    BY <1>2, <1>4
  <2> QED
    BY <1>4, <2>1 DEF HonestData
<1>5. receiver = "true" => \A i \in 1 .. Len(new) : new[i].kind = "fin"
  BY <1>2 DEF HonestData
<1> QED
  BY <1>1, <1>3, <1>4, <1>5 DEF HonestData, IsSegment, IsLateFin

LEMMA ThinnedAcks ==
    ASSUME toSender \in Carried, toSender' \in Carried,
           Thinned(toSender', toSender), HonestAcks,
           UNCHANGED <<expectedSeq, receiver>>
    PROVE  HonestAcks'
<1> DEFINE old == toSender
           new == toSender'
<1>1. /\ \A i \in 1 .. Len(new) :
             \E k \in 1 .. Len(old) : new[i] = old[k]
      /\ \A i \in 1 .. Len(new) - 1 :
             \E k \in 1 .. Len(old) - 1 : new[i] = old[k]
  BY PlacesOfThinned
<1>2. \A i \in 1 .. Len(new) : IsHonestAck(new[i])
  BY <1>1 DEF HonestAcks
<1>3. \A i \in 1 .. Len(new) - 1 : new[i].kind # "finack"
  BY <1>1 DEF HonestAcks
<1> QED
  BY <1>2, <1>3 DEF HonestAcks, IsHonestAck

\* A segment, before there is any FIN, and a FIN can be sent.
LEMMA PushedData ==
    ASSUME toReceiver \in Carried, HonestData,
           NEW datagram \in Datagram(Byte),
           \/ IsSegment(datagram) /\ base < Segments /\ receiver # "true"
           \/ IsLateFin(datagram),
           base \in Nat, Segments \in Nat,
           toReceiver' = Push(toReceiver, datagram, BufferCapacity),
           UNCHANGED <<transfer, base, receiver>>
    PROVE  toReceiver' \in Carried /\ HonestData'
<1>1. UNCHANGED <<Data, Segments>>
  BY DEF Data, Segments
<1> DEFINE old == toReceiver
           new == toReceiver'
<1>2. /\ new \in Carried
      /\ new = old \/ WithLast(new, old, datagram)
  BY PlacesOfPush DEF Carried
<1>3. CASE new = old
  BY <1>1, <1>2, <1>3 DEF HonestData, IsSegment, IsLateFin
<1>4. CASE WithLast(new, old, datagram)
  <2>1. Len(old) \in Nat
    BY LenProperties DEF Carried
  <2>2. /\ Len(new) = Len(old) + 1
        /\ \A i \in 1 .. Len(old) : new[i] = old[i]
        /\ new[Len(old) + 1] = datagram
    BY <1>4 DEF WithLast
  <2>3. \A i \in 1 .. Len(new) : i \in 1 .. Len(old) \/ i = Len(old) + 1
    BY <2>1, <2>2
  <2>4. \A i \in 1 .. Len(new) : IsSegment(new[i]) \/ IsLateFin(new[i])
    BY <2>2, <2>3 DEF HonestData
  <2>5. CASE IsLateFin(datagram)
    <3>1. datagram.kind = "fin"
      BY <2>5 DEF IsLateFin
    <3>2. ASSUME NEW i \in 1 .. Len(new), NEW j \in 1 .. Len(new),
                 i < j, new[i].kind = "fin"
          PROVE  new[j].kind = "fin"
      <4>1. CASE j = Len(old) + 1
        BY <2>2, <3>1, <4>1
      <4>2. CASE j \in 1 .. Len(old)
        <5>1. i \in 1 .. Len(old)
          BY <2>1, <2>2, <3>2, <4>2
        <5> QED
          BY <2>2, <3>2, <4>2, <5>1 DEF HonestData
      <4> QED
        BY <2>3, <4>1, <4>2
    <3>3. receiver = "true" => \A i \in 1 .. Len(new) : new[i].kind = "fin"
      BY <2>2, <2>3, <3>1 DEF HonestData
    <3> QED
      BY <1>1, <1>2, <2>4, <3>2, <3>3 DEF HonestData, IsSegment, IsLateFin
  <2>6. CASE base < Segments /\ receiver # "true"
    <3>1. \A i \in 1 .. Len(new) : new[i].kind = "data"
      BY <2>4, <2>6 DEF IsSegment, IsLateFin
    <3> QED
      BY <1>1, <1>2, <2>4, <2>6, <3>1 DEF HonestData, IsSegment, IsLateFin
  <2> QED
    BY <2>5, <2>6
<1> QED
  BY <1>2, <1>3, <1>4

\* A receiver that has not returned has sent no FINACK, and may send one.
LEMMA PushedAck ==
    ASSUME toSender \in Carried, HonestAcks, receiver = "recv",
           NEW kind \in {"ack", "finack"}, NEW num \in Nat,
           toSender' = Push(toSender, Answer(kind, num), BufferCapacity),
           expectedSeq \in Nat, expectedSeq' \in {expectedSeq, expectedSeq + 1},
           IsHonestAck(Answer(kind, num))'
    PROVE  toSender' \in Carried /\ HonestAcks'
<1> DEFINE old == toSender
           new == toSender'
<1>1. Answer(kind, num) \in Datagram(Byte)
  BY EmptySeq DEF Answer, Datagram, Kinds
<1>2. /\ new \in Carried
      /\ new = old \/ WithLast(new, old, Answer(kind, num))
  BY <1>1, PlacesOfPush DEF Carried
<1>3. Len(old) \in Nat /\ \A i \in 1 .. Len(old) : old[i].num \in Nat
  <2>1. \A i \in 1 .. Len(old) : old[i] \in Datagram(Byte)
    BY ElementOfSeq DEF Carried
  <2> QED
    BY <2>1, LenProperties DEF Carried, Datagram
<1>4. \A i \in 1 .. Len(old) :
          /\ old[i].kind = "ack"
          /\ old[i].num = NoDataAck \/ old[i].num < expectedSeq'
  BY <1>3 DEF HonestAcks, IsHonestAck
<1>5. CASE new = old
  BY <1>2, <1>3, <1>4, <1>5 DEF HonestAcks, IsHonestAck
<1>6. CASE WithLast(new, old, Answer(kind, num))
  <2>1. /\ Len(new) = Len(old) + 1
        /\ \A i \in 1 .. Len(old) : new[i] = old[i]
        /\ new[Len(old) + 1] = Answer(kind, num)
    BY <1>6 DEF WithLast
  <2>2. /\ \A i \in 1 .. Len(new) : i \in 1 .. Len(old) \/ i = Len(old) + 1
        /\ Len(new) - 1 = Len(old)
    BY <1>3, <2>1
  <2> QED
    BY <1>2, <1>4, <2>1, <2>2 DEF HonestAcks, IsHonestAck
<1> QED
  BY <1>2, <1>5, <1>6

-----------------------------------------------------------------------------
(* A separate transfer stays separate.                                      *)

\* Head and Tail, by their places.
LEMMA TakenFrom ==
    ASSUME NEW queue \in Carried, queue # <<>>
    PROVE  /\ Len(queue) \in Nat \ {0} /\ 1 \in 1 .. Len(queue)
           /\ Head(queue) = queue[1] /\ Head(queue) \in Datagram(Byte)
           /\ Tail(queue) \in Carried /\ Thinned(Tail(queue), queue)
           /\ Len(Tail(queue)) = Len(queue) - 1
           /\ \A i \in 1 .. Len(Tail(queue)) :
                  i + 1 \in 1 .. Len(queue) /\ Tail(queue)[i] = queue[i + 1]
<1>1. /\ Head(queue) = queue[1] /\ Len(queue) \in Nat \ {0}
      /\ Tail(queue) \in Seq(Datagram(Byte))
      /\ WithoutPlace(Tail(queue), queue, 1)
  BY PlacesOfTail DEF Carried
<1>2. 1 \in 1 .. Len(queue)
  BY <1>1
<1>3. /\ Len(Tail(queue)) = Len(queue) - 1
      /\ \A i \in 1 .. Len(Tail(queue)) :
             i + 1 \in 1 .. Len(queue) /\ Tail(queue)[i] = queue[i + 1]
  BY <1>1 DEF WithoutPlace
<1>4. queue[1] \in Datagram(Byte)
  BY <1>2, ElementOfSeq DEF Carried
<1> QED
  BY <1>1, <1>2, <1>3, <1>4 DEF Carried, Thinned

LEMMA SendingKeepsSeparate ==
    ASSUME transfer \in 1 .. Len(Payloads), Separate, SendingEnd
    PROVE  Separate'
<1>1. /\ Segments \in Nat \ {0} /\ Segments =< NoDataAck
      /\ \A i \in Nat : SegmentAt(Data, MSS, i) \in Seq(Byte)
  BY CurrentData, Starts
<1>2. /\ GoesOn \/ SendsSegment \/ Slides \/ SendsFin \/ Succeeds
      /\ UNCHANGED <<receiver, expectedSeq, outData, peerKnown>>
  BY SenderEffects DEF SendingEnd
<1>3. /\ stale' = 0 /\ UNCHANGED <<transfer, Data, Segments>>
  BY DEF SendingEnd, Separate, reuseVars, Data, Segments
<1>4. TransferTypes /\ Delivered /\ HonestData /\ HonestAcks /\ Phases
  BY DEF Separate
<1>5. outData' = Start(expectedSeq)'
  BY <1>2, <1>3, <1>4 DEF Delivered, Start
<1>6. /\ base \in 0 .. Segments /\ nextSeq \in 0 .. Segments
      /\ expectedSeq \in 0 .. Segments
      /\ toReceiver \in Carried /\ toSender \in Carried
      /\ receiver \in {"recv", "true"}
  BY <1>4 DEF TransferTypes
<1>7. CASE GoesOn
  <2>1. /\ sender \in {"top", "burst", "fin", "finwait"}
        /\ sender' \in {"top", "burst", "fin", "false"}
        /\ sender' = "burst" => ~(base >= Segments)
        /\ sender' = "fin" => base >= Segments \/ sender = "finwait"
        /\ nextSeq' \in 0 .. Segments
        /\ UNCHANGED <<base, toReceiver>>
        /\ toSender' \in Carried /\ Thinned(toSender', toSender)
    BY <1>6, <1>7, TakingThins DEF GoesOn
  <2>2. HonestAcks'
    BY <1>2, <1>4, <1>6, <2>1, ThinnedAcks
  <2>3. HonestData'
    BY <1>2, <1>3, <1>4, <2>1 DEF HonestData, IsSegment, IsLateFin
  <2>4. Phases'
    <3>1. sender' = "burst" => base < Segments
      BY <1>1, <1>6, <2>1
    <3>2. sender' = "fin" => base = Segments
      <4>1. base >= Segments => base = Segments
        BY <1>1, <1>6
      <4>2. sender = "finwait" => base = Segments
        BY <1>4 DEF Phases
      <4> QED
        BY <2>1, <4>1, <4>2
    <3>3. receiver = "true" => base = Segments
      BY <1>4 DEF Phases
    <3> QED
      BY <1>2, <1>3, <2>1, <3>1, <3>2, <3>3 DEF Phases
  <2> QED
    BY <1>2, <1>3, <1>4, <1>5, <2>1, <2>2, <2>3, <2>4
       DEF Separate, TransferTypes, Delivered
<1>8. CASE SendsSegment
  <2> DEFINE segment == [kind |-> "data", num |-> nextSeq,
                         payload |-> SegmentAt(Data, MSS, nextSeq),
                         ok |-> TRUE]
  <2>1. /\ sender = "burst" /\ nextSeq < Segments
        /\ toReceiver' = Push(toReceiver, segment, BufferCapacity)
        /\ nextSeq' = nextSeq + 1
        /\ UNCHANGED <<sender, base, toSender>>
    BY <1>8 DEF SendsSegment
  <2>2. base < Segments /\ receiver # "true"
    BY <1>1, <1>4, <1>6, <2>1 DEF Phases
  <2>3. segment \in Datagram(Byte) /\ IsSegment(segment)
    <3>1. nextSeq \in Nat /\ nextSeq \in 0 .. Segments - 1
      BY <1>1, <1>6, <2>1
    <3>2. SegmentAt(Data, MSS, nextSeq) \in Seq(Byte)
      BY <1>1, <3>1
    <3> QED
      BY <3>1, <3>2 DEF Datagram, Kinds, IsSegment
  <2>4. toReceiver' \in Carried /\ HonestData'
    <3> HIDE DEF segment
    <3> QED
      BY <1>1, <1>2, <1>3, <1>4, <1>6, <2>1, <2>2, <2>3, PushedData
  <2>5. HonestAcks'
    BY <1>2, <1>4, <2>1 DEF HonestAcks, IsHonestAck
  <2>6. nextSeq' \in 0 .. Segments
    BY <1>1, <1>6, <2>1
  <2> QED
    BY <1>2, <1>3, <1>4, <1>5, <2>1, <2>4, <2>5, <2>6
       DEF Separate, TransferTypes, Delivered, Phases
<1>9. CASE Slides
  <2>1. /\ sender = "burst" /\ sender' = "top"
        /\ toSender # <<>> /\ toSender' = Tail(toSender)
        /\ Head(toSender).num >= base /\ Head(toSender).num < Segments
        /\ base' = Head(toSender).num + 1
        /\ UNCHANGED <<nextSeq, toReceiver>>
    BY <1>9 DEF Slides
  <2>2. /\ toSender' \in Carried /\ Thinned(toSender', toSender)
        /\ Head(toSender).num \in Nat /\ IsHonestAck(Head(toSender))
    BY <1>4, <1>6, <2>1, TakenFrom DEF Datagram, HonestAcks
  <2>3. base < Segments /\ receiver # "true"
    BY <1>1, <1>4, <1>6, <2>1 DEF Phases
  <2>4. Head(toSender).num < expectedSeq
    <3>1. Head(toSender).num # NoDataAck
      <4> DEFINE num == Head(toSender).num
      <4>1. num \in Nat /\ num < Segments
        BY <2>1, <2>2
      <4> HIDE DEF num
      <4>2. num # NoDataAck
        BY <1>1, <4>1
      <4> QED
        BY <4>2 DEF num
    <3> QED
      BY <2>2, <2>3, <3>1 DEF IsHonestAck
  <2>5. base' \in 0 .. Segments /\ base' =< expectedSeq
    <3> DEFINE num == Head(toSender).num
    <3>1. /\ num \in Nat /\ num < Segments /\ num < expectedSeq
          /\ base' = num + 1
      BY <2>1, <2>2, <2>4
    <3> HIDE DEF num
    <3> QED
      BY <1>1, <1>6, <3>1
  <2>6. \A i \in 1 .. Len(toReceiver) : IsSegment(toReceiver[i])
    <3>1. base # Segments
      BY <1>1, <1>6, <2>3
    <3> QED
      BY <1>4, <3>1 DEF HonestData, IsLateFin
  <2>7. HonestData'
    <3>1. \A i \in 1 .. Len(toReceiver) : toReceiver[i].kind # "fin"
      BY <2>6 DEF IsSegment
    <3>2. \A i \in 1 .. Len(toReceiver) : IsSegment(toReceiver[i])'
      BY <1>3, <2>1, <2>6 DEF IsSegment
    <3> QED
      BY <1>2, <2>1, <2>3, <3>1, <3>2 DEF HonestData
  <2>8. HonestAcks'
    BY <1>2, <1>4, <1>6, <2>2, ThinnedAcks
  <2> QED
    BY <1>2, <1>3, <1>4, <1>5, <2>1, <2>2, <2>3, <2>5, <2>7, <2>8
       DEF Separate, TransferTypes, Delivered, Phases
<1>10. CASE SendsFin
  <2> DEFINE fin == [kind |-> "fin", num |-> Segments, payload |-> <<>>,
                     ok |-> TRUE]
  <2>1. /\ sender = "fin" /\ sender' = "finwait"
        /\ toReceiver' = Push(toReceiver, fin, BufferCapacity)
        /\ UNCHANGED <<base, nextSeq, toSender>>
    BY <1>10 DEF SendsFin
  <2>2. base = Segments
    BY <1>4, <2>1 DEF Phases
  <2>3. fin \in Datagram(Byte) /\ IsLateFin(fin)
    BY <1>1, <2>2, EmptySeq DEF Datagram, Kinds, IsLateFin
  <2>4. toReceiver' \in Carried /\ HonestData'
    <3> HIDE DEF fin
    <3> QED
      BY <1>1, <1>2, <1>3, <1>4, <1>6, <2>1, <2>2, <2>3, PushedData
  <2>5. HonestAcks'
    BY <1>2, <1>4, <2>1 DEF HonestAcks, IsHonestAck
  <2> QED
    BY <1>2, <1>3, <1>4, <1>5, <2>1, <2>2, <2>4, <2>5
       DEF Separate, TransferTypes, Delivered, Phases
<1>11. CASE Succeeds
  <2>1. /\ sender = "finwait" /\ sender' = "true"
        /\ toSender # <<>> /\ toSender' = Tail(toSender)
        /\ Head(toSender).kind = "finack"
        /\ UNCHANGED <<base, nextSeq, toReceiver>>
    BY <1>11 DEF Succeeds
  <2>2. /\ Len(toSender) \in Nat \ {0}
        /\ Head(toSender) = toSender[1] /\ 1 \in 1 .. Len(toSender)
        /\ toSender' \in Carried /\ Len(toSender') = Len(toSender) - 1
    BY <1>6, <2>1, TakenFrom
  <2>3. receiver = "true" /\ base = Segments
    BY <1>4, <2>1, <2>2 DEF HonestAcks, IsHonestAck, Phases
  <2>4. ~(1 \in 1 .. Len(toSender) - 1)
    BY <1>4, <2>1, <2>2 DEF HonestAcks
  <2>5. Len(toSender') = 0
    BY <2>2, <2>4
  <2>6. toSender' = <<>>
    BY <2>2, <2>5, EmptySeq DEF Carried
  <2>7. HonestAcks'
    BY <2>5 DEF HonestAcks
  <2>8. HonestData'
    BY <1>2, <1>3, <1>4, <2>1 DEF HonestData, IsSegment, IsLateFin
  <2> QED
    BY <1>2, <1>3, <1>4, <1>5, <2>1, <2>2, <2>3, <2>6, <2>7, <2>8
       DEF Separate, TransferTypes, Delivered, Phases
<1> QED
  BY <1>2, <1>7, <1>8, <1>9, <1>10, <1>11

LEMMA ReceivingKeepsSeparate ==
    ASSUME transfer \in 1 .. Len(Payloads), Separate, ReceivingEnd
    PROVE  Separate'
<1>1. /\ Segments \in Nat \ {0} /\ Segments =< NoDataAck
      /\ \A i \in Nat : /\ SegmentAt(Data, MSS, i) \in Seq(Byte)
                        /\ Start(i) \o SegmentAt(Data, MSS, i) = Start(i + 1)
  BY CurrentData, Starts
<1>2. /\ receiver = "recv"
      /\ Repeats \/ TakesFin \/ TakesSegment
      /\ UNCHANGED <<sender, base, nextSeq>>
  BY ReceiverEffects DEF ReceivingEnd
<1>3. /\ stale' = 0 /\ UNCHANGED <<transfer, Data, Segments>>
  BY DEF ReceivingEnd, Separate, reuseVars, Data, Segments
<1>4. TransferTypes /\ Delivered /\ HonestData /\ HonestAcks /\ Phases
  BY DEF Separate
<1>5. /\ base \in 0 .. Segments /\ nextSeq \in 0 .. Segments
      /\ expectedSeq \in 0 .. Segments /\ expectedSeq \in Nat
      /\ toReceiver \in Carried /\ toSender \in Carried
      /\ sender \in {"knock", "top", "burst", "fin", "finwait", "false"}
  BY <1>1, <1>2, <1>4 DEF TransferTypes, Phases
<1>6. ASSUME NEW expected \in Nat, Acknowledges(expected),
             expectedSeq' = expected, expected \in {expectedSeq, expectedSeq + 1},
             UNCHANGED receiver
      PROVE  toSender' \in Carried /\ HonestAcks'
  <2> DEFINE num == IF expected = 0 THEN NoDataAck ELSE expected - 1
  <2>1. num \in Nat /\ (num = NoDataAck \/ num < expected)
    OBVIOUS
  <2>2. toSender' = Push(toSender, Answer("ack", num), BufferCapacity)
    BY <1>6 DEF Acknowledges
  <2> HIDE DEF num
  <2>3. IsHonestAck(Answer("ack", num))'
    <3>1. num' = num
      BY DEF num
    <3> QED
      BY <1>6, <2>1, <3>1 DEF IsHonestAck, Answer
  <2> QED
    BY <1>2, <1>4, <1>5, <1>6, <2>1, <2>2, <2>3, PushedAck
<1>7. CASE Repeats
  <2>1. /\ Acknowledges(expectedSeq)
        /\ toReceiver' \in Carried /\ Thinned(toReceiver', toReceiver)
        /\ UNCHANGED <<receiver, expectedSeq, outData>>
    BY <1>5, <1>7, TakingThins DEF Repeats
  <2>2. toSender' \in Carried /\ HonestAcks'
    BY <1>5, <1>6, <2>1
  <2>3. HonestData'
    BY <1>2, <1>3, <1>4, <1>5, <2>1, ThinnedData
  <2>4. Delivered'
    BY <1>2, <1>3, <1>4, <2>1 DEF Delivered, Start
  <2> QED
    BY <1>2, <1>3, <1>4, <1>5, <2>1, <2>2, <2>3, <2>4
       DEF Separate, TransferTypes, Phases
<1>8. CASE TakesFin
  <2> DEFINE num == Head(toReceiver).num
  <2>1. /\ toReceiver # <<>> /\ toReceiver' = Tail(toReceiver)
        /\ Head(toReceiver).kind = "fin"
        /\ receiver' = "true"
        /\ toSender' = Push(toSender, Answer("finack", num), BufferCapacity)
        /\ UNCHANGED <<expectedSeq, outData>>
    BY <1>8 DEF TakesFin
  <2>2. /\ Len(toReceiver) \in Nat \ {0} /\ 1 \in 1 .. Len(toReceiver)
        /\ Head(toReceiver) = toReceiver[1] /\ num \in Nat
        /\ toReceiver' \in Carried
        /\ \A i \in 1 .. Len(toReceiver') :
               /\ i + 1 \in 1 .. Len(toReceiver) /\ 1 < i + 1
               /\ toReceiver'[i] = toReceiver[i + 1]
    BY <1>5, <2>1, TakenFrom DEF Datagram
  <2> HIDE DEF num
  <2>3. base = Segments
    BY <1>4, <2>1, <2>2 DEF HonestData, IsSegment, IsLateFin
  <2>4. \A i \in 1 .. Len(toReceiver') : toReceiver'[i].kind = "fin"
    BY <1>4, <2>1, <2>2 DEF HonestData
  <2>5. HonestData'
    BY <1>2, <1>3, <2>3, <2>4 DEF HonestData, IsLateFin
  <2>6. \A n \in Nat : IsHonestAck(Answer("finack", n))'
    BY <2>1 DEF IsHonestAck, Answer
  <2>7. toSender' \in Carried /\ HonestAcks'
    <3>1. /\ expectedSeq' \in {expectedSeq, expectedSeq + 1}
          /\ "finack" \in {"ack", "finack"}
      BY <2>1
    <3> QED
      BY <1>2, <1>4, <1>5, <2>1, <2>2, <2>6, <3>1, PushedAck
  <2>8. Delivered'
    BY <1>2, <1>3, <1>4, <2>1 DEF Delivered, Start
  <2> QED
    BY <1>2, <1>3, <1>4, <1>5, <2>1, <2>2, <2>3, <2>5, <2>7, <2>8
       DEF Separate, TransferTypes, Phases
<1>9. CASE TakesSegment
  <2>1. /\ toReceiver # <<>> /\ toReceiver' = Tail(toReceiver)
        /\ Head(toReceiver).kind = "data"
        /\ Head(toReceiver).num = expectedSeq
        /\ outData' = outData \o Head(toReceiver).payload
        /\ expectedSeq' = expectedSeq + 1
        /\ Acknowledges(expectedSeq + 1)
        /\ UNCHANGED receiver
    BY <1>9 DEF TakesSegment
  <2>2. /\ 1 \in 1 .. Len(toReceiver) /\ Head(toReceiver) = toReceiver[1]
        /\ toReceiver' \in Carried /\ Thinned(toReceiver', toReceiver)
    BY <1>5, <2>1, TakenFrom
  <2>3. IsSegment(Head(toReceiver))
    BY <1>4, <2>1, <2>2 DEF HonestData, IsLateFin
  <2>4. /\ expectedSeq \in 0 .. Segments - 1
        /\ Head(toReceiver).payload = SegmentAt(Data, MSS, expectedSeq)
    BY <2>1, <2>3 DEF IsSegment
  <2>5. /\ expectedSeq + 1 \in 0 .. Segments /\ expectedSeq + 1 \in Nat
        /\ base =< expectedSeq + 1
    <3>1. base =< expectedSeq
      BY <1>4 DEF Delivered
    <3> QED
      BY <1>1, <1>5, <2>4, <3>1
  <2>6. Delivered'
    <3>1. outData' = Start(expectedSeq + 1)
      BY <1>1, <1>4, <1>5, <2>1, <2>4 DEF Delivered
    <3> QED
      BY <1>2, <1>3, <2>1, <2>5, <3>1 DEF Delivered, Start
  <2>7. HonestData'
    BY <1>2, <1>3, <1>4, <1>5, <2>1, <2>2, ThinnedData
  <2>8. toSender' \in Carried /\ HonestAcks'
    BY <1>6, <2>1, <2>5
  <2> QED
    BY <1>2, <1>3, <1>4, <1>5, <2>1, <2>2, <2>5, <2>6, <2>7, <2>8
       DEF Separate, TransferTypes, Phases
<1> QED
  BY <1>2, <1>7, <1>8, <1>9

\* A loss takes one datagram out of either queue.
LEMMA LosingKeepsSeparate ==
    ASSUME transfer \in 1 .. Len(Payloads), Separate, Lose
    PROVE  Separate'
<1>1. TransferTypes /\ Delivered /\ HonestData /\ HonestAcks /\ Phases
  BY DEF Separate
<1>2. toReceiver \in Carried /\ toSender \in Carried
  BY <1>1 DEF TransferTypes
<1>3. /\ UNCHANGED <<reuseVars, sender, windowVars, receiver, expectedSeq,
                     outData, peerKnown>>
      /\ \/ /\ UNCHANGED toSender
            /\ \E i \in DOMAIN toReceiver :
                   toReceiver' = RemoveAt(toReceiver, i)
         \/ /\ UNCHANGED toReceiver
            /\ \E i \in DOMAIN toSender : toSender' = RemoveAt(toSender, i)
  BY DEF Lose
<1>4. /\ toReceiver' \in Carried /\ Thinned(toReceiver', toReceiver)
      /\ toSender' \in Carried /\ Thinned(toSender', toSender)
  BY <1>2, <1>3, TakingThins DEF Thinned
<1>5. /\ stale' = 0
      /\ UNCHANGED <<transfer, base, nextSeq, Data, Segments>>
  BY <1>3 DEF Separate, reuseVars, windowVars, Data, Segments
<1>6. HonestData' /\ HonestAcks'
  BY <1>1, <1>2, <1>3, <1>4, <1>5, ThinnedData, ThinnedAcks
<1>7. toSender = <<>> => toSender' = <<>>
  BY <1>3, EmptySeq
<1> QED
  BY <1>1, <1>3, <1>4, <1>5, <1>6, <1>7
     DEF Separate, TransferTypes, Delivered, Phases, Start

-----------------------------------------------------------------------------
(* The other steps.                                                         *)

LEMMA KnockKeepsSeparate ==
    ASSUME transfer \in 1 .. Len(Payloads), Separate, KnockArrives \/ KnockLost
    PROVE  Separate'
<1>1. /\ sender = "knock" /\ sender' \in {"top", "false"}
      /\ UNCHANGED <<transfer, stale, base, nextSeq, receiver, expectedSeq,
                     outData, toReceiver, toSender, Data, Segments>>
  BY DEF KnockArrives, KnockLost, reuseVars, windowVars, Data, Segments
<1> QED
  BY <1>1
     DEF Separate, TransferTypes, Delivered, HonestData, HonestAcks, Phases,
         IsSegment, IsLateFin, IsHonestAck, Start

\* What a separate transfer leaves in the client's socket.
LEMMA Leftovers ==
    ASSUME Separate, BothReturned
    PROVE  /\ ClientQueue \in Carried
           /\ \A i \in 1 .. Len(ClientQueue) :
                  /\ ClientQueue[i].kind # "data"
                  /\ sender = "true" => ClientQueue[i].kind = "fin"
<1>1. TransferTypes /\ HonestData /\ HonestAcks /\ Phases
  BY DEF Separate
<1>2. receiver = "true"
  BY <1>1 DEF BothReturned, TransferTypes
<1>3. CASE direction = "download"
  BY <1>1, <1>2, <1>3 DEF ClientQueue, TransferTypes, HonestData
<1>4. CASE direction # "download"
  <2>1. ClientQueue = toSender
    BY <1>4 DEF ClientQueue
  <2>2. sender = "true" => Len(toSender) = 0
    BY <1>1, EmptySeq DEF Phases
  <2>3. \A i \in 1 .. Len(toSender) : toSender[i].kind # "data"
    BY <1>1 DEF HonestAcks, IsHonestAck
  <2> QED
    BY <1>1, <2>1, <2>2, <2>3 DEF TransferTypes
<1> QED
  BY <1>3, <1>4

\* The transfer after a separate one is separate if nothing is left for it.
LEMMA AfterSeparate ==
    ASSUME transfer \in 1 .. Len(Payloads), allSucceeded \in BOOLEAN,
           Separate, NextTransfer
    PROVE  IF stale' = 0 THEN Separate' ELSE Unanswered' \/ Astray'
<1> DEFINE kept == ClientQueue
<1>1. /\ transfer' \in 1 .. Len(Payloads)
      /\ allSucceeded' = (allSucceeded /\ sender = "true")
      /\ base' = 0 /\ nextSeq' = 0
      /\ receiver' = "recv" /\ expectedSeq' = 0 /\ outData' = <<>>
      /\ peerKnown' = FALSE
  <2>1. Len(Payloads) \in Nat
    BY LenProperties
  <2> QED
    BY <2>1 DEF NextTransfer, FreshWindow
<1>2. PICK way \in Directions :
          /\ direction' = way /\ stale' = Len(kept)
          /\ sender' = FirstState(way)
          /\ toReceiver' = IF way = "download" THEN kept ELSE <<>>
          /\ toSender' = IF way = "upload" THEN kept ELSE <<>>
  BY DEF NextTransfer, StartsWith
<1>3. /\ way \in {"download", "upload"}
      /\ sender' = IF way = "upload" THEN "knock" ELSE "top"
  BY <1>2 DEF FirstState
<1>4. /\ kept \in Carried /\ Len(kept) \in Nat
      /\ \A i \in 1 .. Len(kept) : /\ kept[i].kind # "data"
                                   /\ allSucceeded' => kept[i].kind = "fin"
  BY <1>1, Leftovers, LenProperties DEF NextTransfer, Carried
<1> HIDE DEF kept
<1>5. CASE stale' = 0
  <2>1. kept = <<>>
    BY <1>2, <1>4, <1>5, EmptySeq DEF Carried
  <2>2. toReceiver' = <<>> /\ toSender' = <<>> /\ sender' \in {"knock", "top"}
    BY <1>2, <1>3, <2>1
  <2>3. <<>> \in Carried /\ Len(<<>>) = 0
    BY EmptySeq DEF Carried
  <2>4. Segments' \in Nat \ {0} /\ Start(0)' = <<>>
    BY <1>1, EachPayload DEF Segments, Data, Start
  <2>5. TransferTypes'
    <3>1. 0 \in 0 .. Segments'
      BY <2>4
    <3> QED
      BY <1>1, <2>2, <2>3, <3>1 DEF TransferTypes
  <2>6. Delivered'
    <3>1. base' =< expectedSeq'
      BY <1>1
    <3>2. Start(expectedSeq)' = Start(0)'
      BY <1>1 DEF Start
    <3> QED
      BY <1>1, <2>4, <3>1, <3>2 DEF Delivered
  <2>7. HonestData' /\ HonestAcks' /\ Phases'
    BY <1>1, <2>2, <2>3 DEF HonestData, HonestAcks, Phases
  <2> QED
    BY <1>5, <2>5, <2>6, <2>7 DEF Separate
<1>6. CASE stale' # 0
  <2>1. stale' > 0 /\ stale' = Len(kept)
    BY <1>2, <1>4, <1>6
  <2>2. CASE way = "download"
    <3>1. Segments' \in Nat \ {0}
      BY <1>1, EachPayload DEF Segments, Data
    <3>2. toReceiver' = kept /\ toSender' = <<>> /\ sender' = "top"
      BY <1>2, <1>3, <2>2
    <3>3. \A i \in 1 .. Len(toReceiver') :
              i =< stale' /\ IsLeftover(toReceiver[i])'
      BY <1>4, <2>1, <3>2 DEF IsLeftover
    <3> QED
      BY <1>1, <1>2, <1>4, <2>1, <2>2, <3>1, <3>2, <3>3 DEF Unanswered
  <2>3. CASE way = "upload"
    <3>1. toReceiver' = <<>> /\ toSender' = kept /\ sender' = "knock"
      BY <1>2, <1>3, <2>3
    <3>2. \A i \in 1 .. Len(toSender') : IsLeftover(toSender[i])'
      BY <1>4, <3>1 DEF IsLeftover
    <3> QED
      BY <1>1, <1>2, <1>4, <2>1, <2>3, <3>1, <3>2 DEF Astray
  <2> QED
    BY <1>3, <1>6, <2>2, <2>3
<1> QED
  BY <1>5, <1>6

\* The sender of an unanswered download hears nothing, and its segments come
\* after the leftovers.
LEMMA SendingKeepsUnanswered ==
    ASSUME transfer \in 1 .. Len(Payloads), Unanswered, SendingEnd
    PROVE  Unanswered'
<1>1. /\ Segments \in Nat \ {0}
      /\ \A i \in Nat : SegmentAt(Data, MSS, i) \in Seq(Byte)
  BY CurrentData, Starts
<1>2. /\ GoesOn \/ SendsSegment \/ Slides \/ SendsFin \/ Succeeds
      /\ UNCHANGED <<receiver, expectedSeq, outData, peerKnown>>
  BY SenderEffects DEF SendingEnd
<1>3. UNCHANGED <<transfer, direction, stale, allSucceeded, Data, Segments>>
  BY DEF SendingEnd, reuseVars, Data, Segments
<1>4. /\ sender \in {"top", "burst", "false"} /\ toSender = <<>> /\ base = 0
      /\ nextSeq \in 0 .. Segments
      /\ toReceiver \in Carried /\ stale \in 0 .. Len(toReceiver)
      /\ Len(toReceiver) \in Nat
  BY LenProperties DEF Unanswered, Carried
<1>5. CASE GoesOn
  <2>1. /\ toSender' = <<>> /\ sender' \in {"top", "burst", "false"}
        /\ nextSeq' \in 0 .. Segments /\ UNCHANGED <<base, toReceiver>>
    <3>1. ~(base >= Segments) /\ 0 \in 0 .. Segments
      BY <1>1, <1>4
    <3> QED
      BY <1>4, <1>5, <3>1 DEF GoesOn, KeepsOrTakes
  <2> QED
    BY <1>2, <1>3, <2>1 DEF Unanswered, IsLeftover, IsSegment
<1>6. CASE SendsSegment
  <2> DEFINE segment == [kind |-> "data", num |-> nextSeq,
                         payload |-> SegmentAt(Data, MSS, nextSeq),
                         ok |-> TRUE]
             old == toReceiver
             new == toReceiver'
  <2>1. /\ nextSeq < Segments
        /\ new = Push(old, segment, BufferCapacity)
        /\ nextSeq' = nextSeq + 1
        /\ UNCHANGED <<sender, base, toSender>>
    BY <1>6 DEF SendsSegment
  <2>2. segment \in Datagram(Byte) /\ IsSegment(segment)
    <3>1. nextSeq \in Nat /\ nextSeq \in 0 .. Segments - 1
      BY <1>1, <1>4, <2>1
    <3>2. SegmentAt(Data, MSS, nextSeq) \in Seq(Byte)
      BY <1>1, <3>1
    <3> QED
      BY <3>1, <3>2 DEF Datagram, Kinds, IsSegment
  <2> HIDE DEF segment
  <2>3. new \in Carried /\ (new = old \/ WithLast(new, old, segment))
    BY <1>4, <2>1, <2>2, PlacesOfPush DEF Carried
  <2>4. /\ stale \in 0 .. Len(new)
        /\ \A i \in 1 .. Len(new) :
               IF i =< stale THEN IsLeftover(new[i]) ELSE IsSegment(new[i])
    <3>1. CASE new = old
      BY <1>4, <3>1 DEF Unanswered
    <3>2. CASE WithLast(new, old, segment)
      <4>1. /\ Len(new) = Len(old) + 1
            /\ \A i \in 1 .. Len(old) : new[i] = old[i]
            /\ new[Len(old) + 1] = segment
        BY <3>2 DEF WithLast
      <4>2. /\ stale \in 0 .. Len(new) /\ ~(Len(old) + 1 =< stale)
            /\ \A i \in 1 .. Len(new) :
                   i \in 1 .. Len(old) \/ i = Len(old) + 1
        BY <1>4, <4>1
      <4> QED
        BY <2>2, <4>1, <4>2 DEF Unanswered
    <3> QED
      BY <2>3, <3>1, <3>2
  <2>5. nextSeq' \in 0 .. Segments
    BY <1>1, <1>4, <2>1
  <2> QED
    BY <1>2, <1>3, <2>1, <2>3, <2>4, <2>5
       DEF Unanswered, IsLeftover, IsSegment
<1>7. ~(Slides \/ SendsFin \/ Succeeds)
  BY <1>4 DEF Slides, SendsFin, Succeeds
<1> QED
  BY <1>2, <1>5, <1>6, <1>7

\* A leftover FIN ends the download; once the ACKs among them are gone it is
\* a separate one.
LEMMA TakingLeftovers ==
    ASSUME transfer \in 1 .. Len(Payloads), Unanswered, TakeStale
    PROVE  Unanswered' \/ Separate'
<1> DEFINE old == toReceiver
           new == toReceiver'
<1>1. /\ Segments \in Nat \ {0} /\ Start(0) = <<>>
  BY CurrentData, Starts
<1>2. /\ stale \in 1 .. Len(old) /\ old \in Carried /\ old # <<>>
      /\ Len(old) \in Nat
  <2>1. old \in Carried /\ stale \in 0 .. Len(old) /\ stale > 0
    BY DEF Unanswered, TakeStale
  <2>2. Len(old) \in Nat
    BY <2>1, LenProperties DEF Carried
  <2> QED
    BY <2>1, <2>2, EmptySeq
<1>3. /\ new = Tail(old) /\ stale' = stale - 1
      /\ receiver = "recv" /\ direction = "download"
      /\ UNCHANGED <<transfer, direction, allSucceeded, sender, base, nextSeq,
                     toSender, Data, Segments>>
  BY DEF TakeStale, windowVars, Data, Segments
<1>4. /\ Head(old) = old[1] /\ 1 \in 1 .. Len(old)
      /\ new \in Carried /\ Len(new) = Len(old) - 1
      /\ \A i \in 1 .. Len(new) :
             i + 1 \in 1 .. Len(old) /\ new[i] = old[i + 1]
  BY <1>2, <1>3, TakenFrom
<1>5. Head(old).kind # "data"
  BY <1>2, <1>4 DEF Unanswered, IsLeftover
<1>6. receiver' \in {"recv", "true"} /\ UNCHANGED <<expectedSeq, outData>>
  BY <1>3, <1>5 DEF TakeStale
<1>7. stale' \in 0 .. Len(new)
  BY <1>2, <1>3, <1>4
<1>8. \A i \in 1 .. Len(new) :
          IF i =< stale' THEN IsLeftover(new[i]) ELSE IsSegment(new[i])
  <2>1. \A i \in 1 .. Len(new) : (i =< stale') = (i + 1 =< stale)
    BY <1>2, <1>3, <1>4
  <2> QED
    BY <1>4, <2>1 DEF Unanswered
<1>9. /\ sender \in {"top", "burst", "false"} /\ base = 0 /\ toSender = <<>>
      /\ nextSeq \in 0 .. Segments /\ expectedSeq = 0 /\ outData = <<>>
  BY DEF Unanswered
<1>10. CASE receiver' = "true" \/ stale' > 0
  BY <1>3, <1>4, <1>6, <1>7, <1>8, <1>9, <1>10
     DEF Unanswered, IsLeftover, IsSegment
<1>11. CASE receiver' = "recv" /\ stale' = 0
  <2>1. \A i \in 1 .. Len(new) : IsSegment(new[i])
    BY <1>4, <1>8, <1>11
  <2>2. HonestData'
    BY <1>3, <1>11, <2>1 DEF HonestData, IsSegment
  <2>3. <<>> \in Carried /\ Len(<<>>) = 0
    BY EmptySeq DEF Carried
  <2>4. HonestAcks'
    BY <1>3, <1>9, <2>3 DEF HonestAcks
  <2>5. TransferTypes'
    <3>1. 0 \in 0 .. Segments
      BY <1>1
    <3> QED
      BY <1>3, <1>4, <1>9, <1>11, <1>6, <2>3, <3>1 DEF TransferTypes
  <2>6. Delivered'
    <3>1. base' =< expectedSeq'
      BY <1>3, <1>6, <1>9
    <3>2. Start(expectedSeq)' = Start(0)
      BY <1>3, <1>6, <1>9 DEF Start
    <3> QED
      BY <1>1, <1>6, <1>9, <3>1, <3>2 DEF Delivered
  <2>7. Phases'
    BY <1>1, <1>3, <1>9, <1>11 DEF Phases
  <2> QED
    BY <1>11, <2>2, <2>4, <2>5, <2>6, <2>7 DEF Separate
<1> QED
  BY <1>6, <1>7, <1>10, <1>11

LEMMA LosingKeepsUnanswered ==
    ASSUME Unanswered, Lose
    PROVE  Unanswered'
<1> DEFINE old == toReceiver
           new == toReceiver'
<1>1. /\ UNCHANGED <<reuseVars, sender, windowVars, receiver, expectedSeq,
                     outData>>
      /\ UNCHANGED toSender
      /\ \E i \in DOMAIN old : (i > stale \/ direction = "upload")
                              /\ new = RemoveAt(old, i)
  <2>1. toSender = <<>> /\ DOMAIN toSender = {}
    BY EmptySeq DEF Unanswered
  <2> QED
    BY <2>1 DEF Lose
<1>2. /\ old \in Carried /\ stale \in 0 .. Len(old) /\ Len(old) \in Nat
      /\ direction = "download"
  BY LenProperties DEF Unanswered, Carried
<1>3. PICK k \in 1 .. Len(old) :
          k > stale /\ new \in Carried /\ WithoutPlace(new, old, k)
  BY <1>1, <1>2, TakingThins
<1>4. /\ Len(new) = Len(old) - 1
      /\ \A i \in 1 .. Len(new) :
             new[i] = IF i < k THEN old[i] ELSE old[i + 1]
  BY <1>3 DEF WithoutPlace
<1>5. stale \in 0 .. Len(new)
  BY <1>2, <1>3, <1>4
<1>6. ASSUME NEW i \in 1 .. Len(new)
      PROVE  IF i =< stale THEN IsLeftover(new[i]) ELSE IsSegment(new[i])
  <2>1. CASE i < k
    <3>1. i \in 1 .. Len(old) /\ new[i] = old[i]
      BY <1>2, <1>4, <2>1
    <3> QED
      BY <3>1 DEF Unanswered
  <2>2. CASE ~(i < k)
    <3>1. /\ i + 1 \in 1 .. Len(old) /\ new[i] = old[i + 1]
          /\ ~(i =< stale) /\ ~(i + 1 =< stale)
      BY <1>2, <1>3, <1>4, <2>2
    <3> QED
      BY <3>1 DEF Unanswered
  <2> QED
    BY <2>1, <2>2
<1>7. UNCHANGED <<Data, Segments, transfer, direction, stale, allSucceeded,
                  base, nextSeq>>
  BY <1>1 DEF Data, Segments, reuseVars, windowVars
<1> QED
  BY <1>1, <1>3, <1>5, <1>6, <1>7 DEF Unanswered, IsLeftover, IsSegment

-----------------------------------------------------------------------------
(* The invariant.                                                           *)

LEMMA InitReuseInv == Init => ReuseInv
<1> SUFFICES ASSUME Init PROVE Separate /\ transfer \in 1 .. Len(Payloads)
                                       /\ allSucceeded \in BOOLEAN
  BY DEF ReuseInv
<1>1. transfer \in 1 .. Len(Payloads) /\ transfer = 1
  <2>1. Len(Payloads) \in Nat \ {0}
    BY LenProperties, EmptySeq
  <2> QED
    BY <2>1 DEF Init
<1>2. Segments \in Nat \ {0} /\ 0 \in 0 .. Segments /\ Start(0) = <<>>
  BY <1>1, CurrentData, Starts
<1>3. <<>> \in Carried /\ Len(<<>>) = 0
  BY EmptySeq DEF Carried
<1>4. sender \in {"knock", "top"}
  BY DEF Init, FirstState
<1> QED
  BY <1>1, <1>2, <1>3, <1>4
     DEF Init, Separate, TransferTypes, Delivered, HonestData, HonestAcks,
         Phases

\* Nothing but the next transfer ends a separate one.
LEMMA SeparateStays ==
    ASSUME transfer \in 1 .. Len(Payloads), allSucceeded \in BOOLEAN,
           Separate, Next
    PROVE  /\ NextTransfer \/ (Separate' /\ UNCHANGED <<transfer, allSucceeded>>)
           /\ stale' = 0 => Separate'
<1>1. ~TakeStale /\ ~UploadGoesAstray
  BY DEF Separate, TakeStale, UploadGoesAstray
<1>2. CASE \/ SendingEnd \/ ReceivingEnd \/ Lose \/ KnockArrives \/ KnockLost
  <2>1. UNCHANGED <<transfer, allSucceeded>>
    BY <1>2 DEF SendingEnd, ReceivingEnd, Lose, KnockArrives, KnockLost,
                reuseVars
  <2>2. Separate'
    BY <1>2, SendingKeepsSeparate, ReceivingKeepsSeparate,
       LosingKeepsSeparate, KnockKeepsSeparate
  <2> QED
    BY <2>1, <2>2
<1>3. CASE NextTransfer
  BY <1>3, AfterSeparate
<1> QED
  BY <1>1, <1>2, <1>3 DEF Next

\* An unanswered download stays one, or gets rid of its leftovers, and does
\* not succeed before the next transfer.
LEMMA UnansweredStays ==
    ASSUME transfer \in 1 .. Len(Payloads), Unanswered, Next
    PROVE  \/ NextTransfer /\ sender # "true"
           \/ /\ Unanswered' \/ Separate'
              /\ UNCHANGED <<transfer, allSucceeded>>
<1>1. ~ReceivingEnd /\ ~KnockArrives /\ ~KnockLost /\ ~UploadGoesAstray
  <2>1. ReceivingEnd => stale = 0 /\ receiver = "recv"
    BY ReceiverEffects DEF ReceivingEnd
  <2> QED
    BY <2>1 DEF Unanswered, KnockArrives, KnockLost, UploadGoesAstray
<1>2. CASE SendingEnd \/ TakeStale \/ Lose
  <2>1. UNCHANGED <<transfer, allSucceeded>>
    BY <1>2 DEF SendingEnd, TakeStale, Lose, reuseVars
  <2> QED
    BY <1>2, <2>1, SendingKeepsUnanswered, TakingLeftovers,
       LosingKeepsUnanswered
<1>3. CASE NextTransfer
  BY <1>3 DEF Unanswered
<1> QED
  BY <1>1, <1>2, <1>3 DEF Next

\* An upload that started with leftovers comes to nothing: its sender takes
\* one of them for the knock.
LEMMA AstrayStays ==
    ASSUME Astray, Next
    PROVE  Astray' /\ UNCHANGED <<transfer, allSucceeded>>
<1>1. toSender \in Carried /\ Len(toSender) \in Nat /\ stale = Len(toSender)
  BY LenProperties DEF Astray, Carried
<1>2. ~SendingEnd
  BY SenderEffects
     DEF SendingEnd, Astray, GoesOn, SendsSegment, Slides, SendsFin, Succeeds
<1>3. ~ReceivingEnd
  BY ReceiverEffects
     DEF ReceivingEnd, Astray, Repeats, TakesFin, TakesSegment
<1>4. ~TakeStale /\ ~KnockArrives /\ ~KnockLost /\ ~NextTransfer
  BY DEF Astray, TakeStale, KnockArrives, KnockLost, NextTransfer,
         BothReturned
<1>5. ~Lose
  <2>1. \A i \in DOMAIN toSender : ~(i > stale)
    BY <1>1, TakingThins
  <2>2. DOMAIN toReceiver = {} /\ direction = "upload"
    BY EmptySeq DEF Astray
  <2> QED
    BY <2>1, <2>2 DEF Lose
<1>6. UploadGoesAstray
  BY <1>2, <1>3, <1>4, <1>5 DEF Next
<1>7. <<>> \in Carried /\ Len(<<>>) = 0
  BY EmptySeq DEF Carried
<1> QED
  BY <1>6, <1>7 DEF UploadGoesAstray, Astray

\* ReuseInv is an invariant of the specification.
THEOREM ReuseInvariance == Spec => []ReuseInv
<1>1. ReuseInv /\ [Next]_vars => ReuseInv'
  <2> SUFFICES ASSUME ReuseInv, [Next]_vars PROVE ReuseInv'
    OBVIOUS
  <2>1. transfer \in 1 .. Len(Payloads) /\ allSucceeded \in BOOLEAN
    BY DEF ReuseInv
  <2>2. CASE NextTransfer
    <3>1. /\ transfer' = transfer + 1 /\ transfer' \in 1 .. Len(Payloads)
          /\ transfer' # 1 /\ transfer' =< 2 => transfer = 1
      <4>1. Len(Payloads) \in Nat
        BY LenProperties
      <4> QED
        BY <2>1, <2>2, <4>1 DEF NextTransfer
    <3>2. allSucceeded' = (allSucceeded /\ sender = "true")
      BY <2>2 DEF NextTransfer
    <3>3. Separate => Separate' \/ Unanswered' \/ Astray'
      BY <2>1, <2>2, AfterSeparate
    <3>4. allSucceeded' \/ transfer' =< 2 => Separate
      <4>1. transfer' =< 2 => Separate
        BY <3>1 DEF ReuseInv
      <4>2. ASSUME allSucceeded' PROVE Separate
        <5>1. allSucceeded /\ sender = "true"
          BY <3>2, <4>2
        <5> QED
          BY <5>1 DEF ReuseInv, Unanswered, Astray
      <4> QED
        BY <4>1, <4>2
    <3> QED
      BY <2>1, <3>1, <3>2, <3>3, <3>4 DEF ReuseInv
  <2>3. CASE Next /\ ~NextTransfer
    <3>1. Separate => Separate' /\ UNCHANGED <<transfer, allSucceeded>>
      BY <2>1, <2>3, SeparateStays
    <3>2. Unanswered => /\ Unanswered' \/ Separate'
                        /\ UNCHANGED <<transfer, allSucceeded>>
      BY <2>1, <2>3, UnansweredStays
    <3>3. Astray => Astray' /\ UNCHANGED <<transfer, allSucceeded>>
      BY <2>3, AstrayStays
    <3>4. UNCHANGED <<transfer, allSucceeded>>
      BY <2>3 DEF Next, SendingEnd, ReceivingEnd, TakeStale, KnockArrives,
                  KnockLost, UploadGoesAstray, Lose, reuseVars
    <3> QED
      BY <2>1, <3>1, <3>2, <3>3, <3>4 DEF ReuseInv
  <2>4. CASE UNCHANGED vars
    BY <2>4
       DEF vars, reuseVars, windowVars, ReuseInv, Separate, Unanswered,
           Astray, TransferTypes, Delivered, HonestData, HonestAcks, Phases,
           IsSegment, IsLateFin, IsHonestAck, IsLeftover, Start, Data,
           Segments
  <2> QED
    BY <2>2, <2>3, <2>4
<1> QED
  BY <1>1, InitReuseInv, PTL DEF Spec

-----------------------------------------------------------------------------
(* What follows from the invariant.                                         *)

\* The receiver of a separate transfer has a prefix of the data, and all of it
\* once either end has succeeded.
LEMMA SeparateIsDelivery ==
    ASSUME transfer \in 1 .. Len(Payloads), Separate
    PROVE  /\ IsPrefix(outData, Data)
           /\ sender = "true" \/ receiver = "true" => outData = Data
<1>1. Data \in Seq(Byte) /\ Segments \in Nat /\ Start(Segments) = Data
  BY CurrentData, Starts
<1>2. /\ expectedSeq \in 0 .. Segments /\ base \in 0 .. Segments
      /\ base =< expectedSeq /\ outData = Start(expectedSeq)
      /\ sender = "true" \/ receiver = "true" => base = Segments
  BY DEF Separate, TransferTypes, Delivered, Phases
<1>3. sender = "true" \/ receiver = "true" => outData = Data
  <2>1. sender = "true" \/ receiver = "true" => expectedSeq = Segments
    BY <1>1, <1>2
  <2> QED
    BY <1>1, <1>2, <2>1
<1>4. IsPrefix(outData, Data)
  <2> DEFINE to == SegmentOffset(Data, MSS, expectedSeq)
  <2>1. to \in 0 .. Len(Data) /\ Len(Data) \in Nat
    <3>1. expectedSeq \in Nat
      BY <1>1, <1>2
    <3> QED
      BY <1>1, <3>1, OffsetsGrow, LenProperties
  <2>2. outData = SubSeq(Data, 1, to)
    BY <1>2 DEF Start
  <2> HIDE DEF to
  <2>3. \A j \in 1 .. to : Data[j] \in Byte
    BY <1>1, <2>1, ElementOfSeq
  <2>4. /\ SubSeq(Data, 1, to) \in Seq(Byte)
        /\ Len(SubSeq(Data, 1, to)) = IF 1 <= to THEN to - 1 + 1 ELSE 0
    <3>1. 1 \in Int /\ to \in Int
      BY <2>1
    <3> QED
      BY <2>3, <3>1, SubSeqProperties
  <2>5. outData \in Seq(Byte) /\ Len(outData) = to
    BY <2>1, <2>2, <2>4
  <2>6. SubSeq(outData, 1, Len(outData)) = outData
    BY <2>5, SubSeqFull
  <2> QED
    BY <2>1, <2>2, <2>5, <2>6 DEF IsPrefix
<1> QED
  BY <1>3, <1>4

\* sendData never reports that an earlier transfer's bytes were its own, as
\* long as its predecessors have succeeded or there is only one.
THEOREM SuccessStaysOwn == Spec => []SuccessIsOwnDelivery
<1>1. ReuseInv => SuccessIsOwnDelivery
  <2> SUFFICES ASSUME ReuseInv, allSucceeded \/ transfer =< 2, sender = "true"
               PROVE  outData = Payloads[transfer]
    BY DEF SuccessIsOwnDelivery
  <2>1. Separate
    BY DEF ReuseInv, Unanswered, Astray
  <2> QED
    BY <2>1, SeparateIsDelivery DEF ReuseInv, Data
<1> QED
  BY <1>1, ReuseInvariance, PTL

\* Whatever the sockets still held, the bytes of two transfers never mix: with
\* predecessors as above the receiver has a prefix of its own data, and what
\* receiveData calls complete is all of it or nothing at all, the latter when
\* an earlier FIN has ended it.
THEOREM OwnBytesOnly ==
    Spec => [](allSucceeded \/ transfer =< 2 =>
                   /\ IsPrefix(outData, Payloads[transfer])
                   /\ receiver = "true"
                          => outData \in {<<>>, Payloads[transfer]})
<1>1. ReuseInv => (allSucceeded \/ transfer =< 2 =>
                       /\ IsPrefix(outData, Payloads[transfer])
                       /\ receiver = "true"
                              => outData \in {<<>>, Payloads[transfer]})
  <2> SUFFICES ASSUME ReuseInv, allSucceeded \/ transfer =< 2
               PROVE  /\ IsPrefix(outData, Data)
                      /\ receiver = "true" => outData \in {<<>>, Data}
    BY DEF Data
  <2>1. transfer \in 1 .. Len(Payloads)
    BY DEF ReuseInv
  <2>2. CASE Separate
    BY <2>1, <2>2, SeparateIsDelivery
  <2>3. CASE outData = <<>>
    <3>1. Data \in Seq(Byte)
      BY <2>1, CurrentData
    <3>2. Len(<<>>) = 0 /\ Len(Data) \in Nat
      BY <3>1, LenProperties
    <3>3. SubSeq(Data, 1, 0) = <<>>
      BY <3>1, SubSeqEmpty
    <3>4. <<>> \in Seq(Byte) /\ SubSeq(<<>>, 1, 0) = <<>>
      BY SubSeqEmpty
    <3> QED
      BY <2>3, <3>2, <3>3, <3>4 DEF IsPrefix
  <2>4. CASE Astray
    <3>1. receiver = "recv" /\ outData = <<>>
      BY <2>4 DEF Astray
    <3> QED
      BY <2>3, <3>1
  <2> QED
    BY <2>2, <2>3, <2>4 DEF ReuseInv, Unanswered
<1> QED
  BY <1>1, ReuseInvariance, PTL

\* The streams are kept apart by nothing else than that no success leaves a
\* datagram behind: where SuccessLeavesNothing holds, StreamsAreSeparate does.
THEOREM StreamsStaySeparate ==
    Spec /\ []SuccessLeavesNothing => []StreamsAreSeparate
<1> DEFINE Kept == allSucceeded => Separate
<1>1. Init => Kept
  BY InitReuseInv DEF Init, ReuseInv
<1>2. ReuseInv /\ Kept /\ SuccessLeavesNothing' /\ [Next]_vars => Kept'
  <2> SUFFICES ASSUME ReuseInv, Kept, SuccessLeavesNothing', [Next]_vars,
                      allSucceeded'
               PROVE  Separate'
    OBVIOUS
  <2>1. /\ transfer \in 1 .. Len(Payloads) /\ allSucceeded \in BOOLEAN
        /\ stale' = 0
    BY DEF ReuseInv, SuccessLeavesNothing
  <2>2. CASE Next
    <3>1. allSucceeded
      BY <2>2 DEF Next, SendingEnd, ReceivingEnd, TakeStale, KnockArrives,
                  KnockLost, UploadGoesAstray, Lose, NextTransfer, reuseVars
    <3> QED
      BY <2>1, <2>2, <3>1, SeparateStays
  <2>3. CASE UNCHANGED vars
    BY <2>3
       DEF vars, reuseVars, windowVars, Separate, TransferTypes, Delivered,
           HonestData, HonestAcks, Phases, IsSegment, IsLateFin, IsHonestAck,
           Start, Data, Segments
  <2> QED
    BY <2>2, <2>3
<1>3. ReuseInv /\ Kept => StreamsAreSeparate
  BY SeparateIsDelivery DEF ReuseInv, StreamsAreSeparate, Data
<1> QED
  BY <1>1, <1>2, <1>3, ReuseInvariance, PTL DEF Spec

\* What a success can leave in the client's socket is a repeated FIN, never
\* DATA nor an ACK, whatever the window and the losses.
THEOREM SuccessLeavesOnlyFins ==
    Spec => [](allSucceeded =>
                   \A i \in 1 .. stale : ClientQueue[i].kind = "fin")
<1>1. ReuseInv => (allSucceeded =>
                       \A i \in 1 .. stale : ClientQueue[i].kind = "fin")
  <2> SUFFICES ASSUME ReuseInv, allSucceeded, NEW i \in 1 .. stale
               PROVE  ClientQueue[i].kind = "fin"
    OBVIOUS
  <2>1. CASE Separate
    BY <2>1 DEF Separate
  <2>2. CASE Unanswered
    <3>1. Len(toReceiver) \in Nat /\ stale \in 0 .. Len(toReceiver)
      BY <2>2, LenProperties DEF Unanswered, Carried
    <3>2. i \in 1 .. Len(toReceiver) /\ i =< stale
      BY <3>1
    <3> QED
      BY <2>2, <3>2 DEF Unanswered, ClientQueue, IsLeftover
  <2>3. CASE Astray
    BY <2>3 DEF Astray, ClientQueue, IsLeftover
  <2> QED
    BY <2>1, <2>2, <2>3 DEF ReuseInv
<1> QED
  BY <1>1, ReuseInvariance, PTL

\* An upload that succeeds leaves nothing at all: the FINACK it waits for is
\* the last datagram the server sends.
THEOREM UploadLeavesNothing ==
    Spec => []((allSucceeded \/ transfer =< 2)
                   /\ direction = "upload" /\ sender = "true"
                   => ClientQueue = <<>>)
<1>1. ReuseInv => ((allSucceeded \/ transfer =< 2)
                       /\ direction = "upload" /\ sender = "true"
                       => ClientQueue = <<>>)
  BY DEF ReuseInv, Separate, Phases, Unanswered, Astray, ClientQueue
<1> QED
  BY <1>1, ReuseInvariance, PTL
=============================================================================
