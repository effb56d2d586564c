------------------------ MODULE SlidingWindowProofs ------------------------
(***************************************************************************)
(* The safety of SlidingWindow.tla for all data, window sizes and faults:  *)
(* IndInv is inductive, and with it the protocol implements ReliableStream.*)
(***************************************************************************)
EXTENDS SlidingWindowProperties, DatagramsProofs

USE BuffersAssumption, SizeAssumption, WindowAssumption, BoundAssumption,
    SequenceSpaceAssumption

-----------------------------------------------------------------------------
(* Segments.                                                                *)

\* The segments of the data have sequence numbers below NoDataAck.
LEMMA CountOfSegments ==
    ASSUME data \in Buffers
    PROVE  /\ data \in Seq(Byte)
           /\ N \in Nat \ {0}
           /\ N =< NoDataAck
BY SegmentsCoverBytes DEF N

\* Offsets grow from the start of the data to its end.
LEMMA Offsets ==
    ASSUME data \in Buffers
    PROVE  /\ Offset(0) = 0
           /\ \A i \in Nat : /\ Offset(i) \in 0 .. Len(data)
                             /\ Offset(i) =< Offset(i + 1)
BY CountOfSegments, OffsetsGrow DEF Offset

\* Appending segment i to the first i segments gives the first i + 1, and all
\* of them are the data.
LEMMA NextSegment ==
    ASSUME data \in Buffers
    PROVE  /\ \A i \in Nat :
                  /\ Segment(i) \in Seq(Byte)
                  /\ SubSeq(data, 1, Offset(i)) \o Segment(i)
                         = SubSeq(data, 1, Offset(i + 1))
                  /\ SubSeq(data, 1, Offset(i)) \in Seq(Byte)
           /\ SubSeq(data, 1, Offset(N)) = data
<1>1. data \in Seq(Byte)
  BY CountOfSegments
<1> QED
  BY <1>1, OneSegmentMore, SegmentsMakeBytes DEF Segment, Offset, N

\* A step leaves the segments alone because it leaves data alone.
USE DEF N, Offset, Segment

\* The program sends well-formed datagrams.
LEMMA DatagramTypes ==
    ASSUME data \in Buffers
    PROVE  /\ \A i \in Nat : DataSegment(i) \in Datagram(Byte)
           /\ Fin \in Datagram(Byte)
           /\ \A num \in Nat : /\ Ack(num) \in Datagram(Byte)
                               /\ FinAck(num) \in Datagram(Byte)
           /\ \A expected \in 0 .. N :
                  CumulativeAck(expected) \in Datagram(Byte)
<1>1. <<>> \in Seq(Byte)
  BY EmptySeq
<1>2. \A i \in Nat : Segment(i) \in Seq(Byte)
  BY NextSegment
<1>3. N \in Nat
  BY CountOfSegments
<1>4. \A num \in Nat : Ack(num) \in Datagram(Byte) /\ FinAck(num) \in Datagram(Byte)
  BY <1>1 DEF Ack, FinAck, Datagram, Kinds
<1>5. \A expected \in 0 .. N : CumulativeAck(expected) \in Datagram(Byte)
  BY <1>3, <1>4 DEF CumulativeAck
<1> QED
  BY <1>1, <1>2, <1>3, <1>4, <1>5 DEF DataSegment, Fin, Datagram, Kinds

-----------------------------------------------------------------------------
(* The inductive invariant.                                                 *)

LEMMA InitIndInv == Init => IndInv
<1> SUFFICES ASSUME Init PROVE IndInv
  OBVIOUS
<1> USE DEF Init
<1>1. N \in Nat \ {0} /\ N =< NoDataAck
  BY CountOfSegments
<1>2. <<>> \in Seq(Byte) /\ <<>> \in Seq(Datagram(Byte)) /\ Range(<<>>) = {}
  BY EmptySeq DEF Range
<1>3. TypeOK
  <2>1. /\ sender \in SenderStates /\ base \in 0 .. N /\ nextSeq \in 0 .. N
        /\ receiver \in {"recv", "true", "false"} /\ expectedSeq \in 0 .. N
    BY <1>1 DEF SenderStates
  <2>2. /\ retryRnd \in 0 .. MaxRetransmitRounds
        /\ attempt \in 0 .. MaxRetransmitRounds
        /\ lastDuplicateAck \in 0 .. NoDataAck
        /\ duplicateAckCount \in 0 .. 2
        /\ cwnd \in Nat /\ ssthresh \in Nat /\ recvWindow \in Nat
        /\ faults \in 0 .. MaxFaults
    OBVIOUS
  <2> QED
    BY <1>2, <2>1, <2>2 DEF TypeOK
<1>4. PrefixDelivered
  <2>1. SubSeq(data, 1, 0) = <<>>
    BY SubSeqEmpty
  <2> QED
    BY <2>1, Offsets DEF PrefixDelivered
<1> QED
  BY <1>2, <1>3, <1>4
     DEF IndInv, AckedIsReceived, OnlyHonestData, OnlyHonestAcks,
         HandshakeAfterData

\* The datagram a side takes from its queue is one of those the invariant
\* speaks of, and what stays in the queue is too.
LEMMA TakeFromQueues ==
    ASSUME IndInv
    PROVE  /\ toSender # <<>> =>
                  /\ Head(toSender) \in Datagram(Byte)
                  /\ Head(toSender) \in Range(toSender)
                  /\ Tail(toSender) \in Seq(Datagram(Byte))
                  /\ Range(Tail(toSender)) \subseteq Range(toSender)
           /\ toReceiver # <<>> =>
                  /\ Head(toReceiver) \in Datagram(Byte)
                  /\ Head(toReceiver) \in Range(toReceiver)
                  /\ Tail(toReceiver) \in Seq(Datagram(Byte))
                  /\ Range(Tail(toReceiver)) \subseteq Range(toReceiver)
<1>1. toSender \in Seq(Datagram(Byte)) /\ toReceiver \in Seq(Datagram(Byte))
  BY DEF IndInv, TypeOK
<1> QED
  BY <1>1, RangeOfTail

\* The data phase of the sender.
LEMMA DataPhaseKeepsIndInv ==
    ASSUME IndInv,
           StartBurst \/ CancelAtTop \/ AllAcknowledged \/ SendSegment
           \/ SendSegmentFails \/ CancelAfterRecv
           \/ SenderTimeout \/ TooManyTimeouts
    PROVE  IndInv'
<1> USE DEF IndInv, TypeOK, SenderStates, PrefixDelivered, AckedIsReceived,
            OnlyHonestData, OnlyHonestAcks, HandshakeAfterData,
            windowVars, receiverVars, environmentVars, Returns
<1>1. N \in Nat \ {0} /\ N =< NoDataAck
  BY CountOfSegments
<1>2. CASE StartBurst
  BY <1>1, <1>2 DEF StartBurst
<1>3. CASE CancelAtTop
  BY <1>1, <1>3 DEF CancelAtTop
<1>4. CASE AllAcknowledged
  BY <1>1, <1>4 DEF AllAcknowledged, AllAcked
<1>5. CASE SendSegment
  <2>1. nextSeq \in 0 .. N - 1 /\ nextSeq' = nextSeq + 1
    BY <1>1, <1>5 DEF SendSegment, HasRoom
  <2>2. DataSegment(nextSeq) \in Datagram(Byte)
    BY <2>1, DatagramTypes
  <2>3. /\ toReceiver' \in Seq(Datagram(Byte))
        /\ Range(toReceiver')
               \subseteq Range(toReceiver) \union {DataSegment(nextSeq)}
    BY <1>5, <2>2, RangeOfPush DEF SendSegment
  <2>4. OnlyHonestData'
    <3> SUFFICES ASSUME NEW datagram \in Range(toReceiver'), datagram.ok
                 PROVE  \/ /\ datagram.kind = "data"
                           /\ datagram.num \in 0 .. N - 1
                           /\ datagram.payload = Segment(datagram.num)
                        \/ /\ datagram.kind = "fin" /\ datagram.num = N
                           /\ base' = N
      BY <1>5 DEF SendSegment
    <3>1. CASE datagram \in Range(toReceiver)
      BY <1>5, <3>1 DEF SendSegment
    <3>2. CASE datagram = DataSegment(nextSeq)
      BY <2>1, <3>2 DEF DataSegment
    <3> QED
      BY <2>3, <3>1, <3>2
  <2> QED
    BY <1>1, <1>5, <2>1, <2>3, <2>4 DEF SendSegment
<1>6. CASE SendSegmentFails
  BY <1>1, <1>6 DEF SendSegmentFails
<1>7. CASE CancelAfterRecv
  <2>1. toSender' \in Seq(Datagram(Byte)) /\ Range(toSender') \subseteq Range(toSender)
    BY <1>7, TakeFromQueues DEF CancelAfterRecv
  <2> QED
    BY <1>1, <1>7, <2>1 DEF CancelAfterRecv
<1>8. CASE SenderTimeout
  BY <1>1, <1>8 
     DEF SenderTimeout, GoBack, RoundLeft, CountRound, Restart, HalvedCwnd,
         Greater
<1>9. CASE TooManyTimeouts
  BY <1>1, <1>9 DEF TooManyTimeouts
<1> QED
  BY <1>2, <1>3, <1>4, <1>5, <1>6, <1>7, <1>8, <1>9

\* The sender's handling of an ACK.
LEMMA AckKeepsIndInv ==
    ASSUME IndInv,
           IgnoreDatagram \/ SlideWindow \/ CountDuplicateAck
           \/ FastRetransmit \/ TooManyFastRetransmits \/ IgnoreUnsentAck
    PROVE  IndInv'
<1> USE DEF IndInv, TypeOK, SenderStates, PrefixDelivered, AckedIsReceived,
            OnlyHonestData, OnlyHonestAcks, HandshakeAfterData,
            windowVars, receiverVars, environmentVars
<1>1. N \in Nat \ {0} /\ N =< NoDataAck
  BY CountOfSegments
<1>2. SenderReceives
  BY DEF IgnoreDatagram, SlideWindow, CountDuplicateAck, FastRetransmit,
         TooManyFastRetransmits, IgnoreUnsentAck, ReceiveAck
<1>3. /\ sender = "burst"
      /\ toSender # <<>>
      /\ toSender' = Tail(toSender)
      /\ UNCHANGED <<attempt, receiverVars, toReceiver, environmentVars>>
  BY <1>2 DEF SenderReceives, SenderWaits
<1>4. /\ Head(toSender) \in Datagram(Byte)
      /\ Head(toSender) \in Range(toSender)
      /\ toSender' \in Seq(Datagram(Byte))
      /\ Range(toSender') \subseteq Range(toSender)
  BY <1>3, TakeFromQueues
<1>5. AckNum \in Nat
  BY <1>4 DEF AckNum, Datagram
<1>6. CASE IgnoreDatagram
  BY <1>1, <1>3, <1>4, <1>6 DEF IgnoreDatagram
<1>7. recvWindow' \in Nat \/ IgnoreDatagram
  BY DEF SlideWindow, CountDuplicateAck, FastRetransmit,
         TooManyFastRetransmits, IgnoreUnsentAck, ReceiveAck
<1>8. CASE SlideWindow
  <2>1. /\ Head(toSender).ok /\ IsNewAck(AckNum)
        /\ cwnd' \in GrownCwnd(AckNum + 1 - base)
        /\ base' = AckNum + 1
        /\ retryRnd' = 0 /\ duplicateAckCount' = 0
        /\ lastDuplicateAck' = NoDataAck
        /\ sender' = "top"
        /\ UNCHANGED <<nextSeq, ssthresh>>
    BY <1>8 DEF SlideWindow, ReceiveAck, IsAck
  <2>2. AckNum < N /\ AckNum >= base
    BY <2>1 DEF IsNewAck
  <2>3. AckNum < expectedSeq
    <3>1. AckNum = NoDataAck \/ AckNum < expectedSeq \/ AckNum = N
      BY <1>4, <2>1 DEF AckNum
    <3>2. AckNum # NoDataAck /\ AckNum # N
      BY <1>1, <1>5, <2>2
    <3> QED
      BY <3>1, <3>2
  <2>4. cwnd' \in Nat
    BY <1>5, <2>1, <2>2 DEF GrownCwnd, Lesser, Greater
  <2>5. base' \in 0 .. N /\ base' =< expectedSeq
    BY <1>1, <1>5, <2>1, <2>2, <2>3
  <2>6. base # N
    BY <1>1, <1>5, <2>2
  <2>7. OnlyHonestData'
    BY <1>3, <2>6
  <2>8. ~IgnoreDatagram
    BY <2>1, <1>8 DEF IgnoreDatagram, SlideWindow, ReceiveAck
  <2>9. TypeOK'
    <3>1. /\ data' \in Buffers /\ sender' \in SenderStates
          /\ base' \in 0 .. N' /\ nextSeq' \in 0 .. N'
          /\ expectedSeq' \in 0 .. N'
      BY <1>3, <2>1, <2>5
    <3>2. /\ recvWindow' \in Nat /\ retryRnd' \in 0 .. MaxRetransmitRounds
          /\ duplicateAckCount' \in 0 .. 2
          /\ lastDuplicateAck' \in 0 .. NoDataAck
      BY <1>7, <2>1, <2>8, SequenceSpaceAssumption, BoundAssumption
    <3>3. /\ toSender' \in Seq(Datagram(Byte))
          /\ UNCHANGED <<ssthresh, attempt, receiver, outData,
                         peerKnown, toReceiver, cancelled, faults>>
      BY <1>3, <1>4, <2>1
    <3> QED
      BY <1>1, <2>4, <3>1, <3>2, <3>3
  <2>10. PrefixDelivered' /\ AckedIsReceived'
    BY <1>3, <2>5
  <2>11. OnlyHonestAcks'
    BY <1>3, <1>4
  <2>12. HandshakeAfterData'
    <3>1. receiver = "true" => expectedSeq = N
      OBVIOUS
    <3> QED
      BY <1>3, <2>1, <3>1
  <2> QED
    BY <2>7, <2>9, <2>10, <2>11, <2>12
<1>9. CASE CountDuplicateAck
  <2>1. AckNum \in 0 .. NoDataAck
    BY <1>1, <1>5, <1>9 DEF CountDuplicateAck, IsDuplicateAck
  <2>2. DuplicatesSeen(AckNum) \in 0 .. 2
    BY <1>9 DEF CountDuplicateAck, DuplicatesSeen
  <2> QED
    BY <1>1, <1>3, <1>4, <1>7, <1>9, <2>1, <2>2 DEF CountDuplicateAck, ReceiveAck
<1>10. CASE FastRetransmit
  <2>1. /\ retryRnd' \in 0 .. MaxRetransmitRounds
        /\ ssthresh' \in Nat /\ cwnd' \in Nat
    BY <1>10 DEF FastRetransmit, GoBack, RoundLeft, CountRound, Restart,
                 HalvedCwnd, Greater
  <2>2. /\ recvWindow' \in Nat
        /\ sender' = "top" /\ nextSeq' = base /\ duplicateAckCount' = 0
        /\ UNCHANGED <<base, lastDuplicateAck>>
    BY <1>7, <1>10 DEF FastRetransmit, ReceiveAck, GoBack, Restart
  <2>3. TypeOK'
    <3>1. /\ data' \in Buffers /\ sender' \in SenderStates
          /\ base' \in 0 .. N' /\ nextSeq' \in 0 .. N'
          /\ expectedSeq' \in 0 .. N'
      BY <1>3, <2>2
    <3>2. /\ duplicateAckCount' \in 0 .. 2
          /\ toSender' \in Seq(Datagram(Byte))
          /\ UNCHANGED <<lastDuplicateAck, attempt, receiver, outData,
                         peerKnown, toReceiver, cancelled, faults>>
      BY <1>3, <1>4, <2>2
    <3> QED
      BY <2>1, <2>2, <3>1, <3>2
  <2>4. /\ PrefixDelivered' /\ AckedIsReceived' /\ OnlyHonestData'
        /\ HandshakeAfterData'
    BY <1>3, <2>2
  <2>5. OnlyHonestAcks'
    BY <1>3, <1>4
  <2> QED
    BY <2>3, <2>4, <2>5
<1>11. CASE TooManyFastRetransmits
  BY <1>1, <1>3, <1>4, <1>7, <1>11 DEF TooManyFastRetransmits, ReceiveAck
<1>12. CASE IgnoreUnsentAck
  BY <1>1, <1>3, <1>4, <1>7, <1>12 DEF IgnoreUnsentAck, ReceiveAck
<1> QED
  BY <1>6, <1>8, <1>9, <1>10, <1>11, <1>12

\* The FIN handshake of the sender.
LEMMA FinPhaseKeepsIndInv ==
    ASSUME IndInv,
           SendFin \/ GiveUpOnFinAck \/ ReceiveFinAck
           \/ ReceiveOtherThanFinAck \/ FinTimeout
    PROVE  IndInv'
<1> USE DEF IndInv, TypeOK, SenderStates, PrefixDelivered, AckedIsReceived,
            OnlyHonestData, OnlyHonestAcks, HandshakeAfterData,
            windowVars, receiverVars, environmentVars, Returns
<1>1. N \in Nat \ {0} /\ N =< NoDataAck
  BY CountOfSegments
<1>2. CASE SendFin
  <2>1. /\ toReceiver' \in Seq(Datagram(Byte))
        /\ Range(toReceiver') \subseteq Range(toReceiver) \union {Fin}
    BY <1>2, DatagramTypes, RangeOfPush DEF SendFin
  <2>2. base = N /\ base' = base /\ data' = data
    BY <1>2 DEF SendFin
  <2>3. OnlyHonestData'
    BY <2>1, <2>2 DEF Fin
  <2> QED
    BY <1>1, <1>2, <2>1, <2>3 DEF SendFin
<1>3. CASE GiveUpOnFinAck
  BY <1>1, <1>3 DEF GiveUpOnFinAck
<1>4. ASSUME FinReceives
      PROVE  /\ toSender' \in Seq(Datagram(Byte))
             /\ Range(toSender') \subseteq Range(toSender)
  BY <1>4, TakeFromQueues DEF FinReceives
<1>5. CASE ReceiveFinAck
  BY <1>1, <1>4, <1>5 DEF ReceiveFinAck, FinReceives
<1>6. CASE ReceiveOtherThanFinAck
  BY <1>1, <1>4, <1>6 DEF ReceiveOtherThanFinAck, FinReceives
<1>7. CASE FinTimeout
  BY <1>1, <1>7 DEF FinTimeout
<1> QED
  BY <1>2, <1>3, <1>5, <1>6, <1>7

\* The receiver.
LEMMA ReceiverKeepsIndInv ==
    ASSUME IndInv,
           ReceiverCancelled \/ RejectDatagram \/ ReceiveFin
           \/ ReceiveInOrder \/ ReceiveOutOfOrder \/ ReceiverTimeout
    PROVE  IndInv'
<1> USE DEF IndInv, TypeOK, SenderStates, PrefixDelivered, AckedIsReceived,
            OnlyHonestData, OnlyHonestAcks, HandshakeAfterData,
            windowVars, senderVars, receiverVars, environmentVars
<1>1. N \in Nat \ {0} /\ N =< NoDataAck
  BY CountOfSegments
<1>2. ASSUME NEW expected \in 0 .. N, expectedSeq' = expected,
             expected \in {expectedSeq, expectedSeq + 1},
             Acknowledge(expected), UNCHANGED data
      PROVE  toSender' \in Seq(Datagram(Byte)) /\ OnlyHonestAcks'
  <2>1. CumulativeAck(expected) \in Datagram(Byte)
    BY DatagramTypes
  <2>2. /\ toSender' \in Seq(Datagram(Byte))
        /\ Range(toSender')
               \subseteq Range(toSender) \union {CumulativeAck(expected)}
    BY <1>2, <2>1, RangeOfPush DEF Acknowledge
  <2>3. /\ CumulativeAck(expected).kind = "ack"
        /\ \/ CumulativeAck(expected).num = NoDataAck
           \/ CumulativeAck(expected).num < expected
    BY <1>1 DEF CumulativeAck, Ack
  <2>4. ASSUME NEW datagram \in Range(toSender), datagram.ok
        PROVE  \/ /\ datagram.kind = "ack"
                  /\ datagram.num = NoDataAck \/ datagram.num < expected
               \/ datagram.kind = "finack" /\ datagram.num = N
    <3>1. datagram \in Datagram(Byte)
      BY RangeOfSeq
    <3>2. datagram.num \in Nat
      BY <3>1 DEF Datagram
    <3> QED
      BY <1>1, <1>2, <2>4, <3>2
  <2> QED
    BY <1>2, <2>2, <2>3, <2>4
<1>3. ASSUME toReceiver # <<>>, toReceiver' = Tail(toReceiver)
      PROVE  /\ toReceiver' \in Seq(Datagram(Byte))
             /\ Range(toReceiver') \subseteq Range(toReceiver)
             /\ Head(toReceiver) \in Datagram(Byte)
             /\ Head(toReceiver) \in Range(toReceiver)
  BY <1>3, TakeFromQueues
<1>4. CASE ReceiverCancelled
  <2>1. /\ toReceiver' \in Seq(Datagram(Byte))
        /\ Range(toReceiver') \subseteq Range(toReceiver)
        /\ peerKnown' \in BOOLEAN
    BY <1>3, <1>4 DEF ReceiverCancelled
  <2> QED
    BY <1>1, <1>4, <2>1 DEF ReceiverCancelled
<1>5. CASE ReceiverTimeout
  <2>1. toSender' \in Seq(Datagram(Byte)) /\ OnlyHonestAcks'
    BY <1>2, <1>5 DEF ReceiverTimeout
  <2> QED
    BY <1>1, <1>5, <2>1 DEF ReceiverTimeout
<1>6. ASSUME ReceiverReceives
      PROVE  /\ toReceiver' \in Seq(Datagram(Byte))
             /\ Range(toReceiver') \subseteq Range(toReceiver)
             /\ Head(toReceiver) \in Datagram(Byte)
             /\ Head(toReceiver) \in Range(toReceiver)
             /\ receiver = "recv" /\ peerKnown' = TRUE
             /\ UNCHANGED <<senderVars, environmentVars>>
  BY <1>3, <1>6 DEF ReceiverReceives
<1>7. CASE RejectDatagram \/ ReceiveOutOfOrder
  <2>1. /\ ReceiverReceives
        /\ Acknowledge(expectedSeq)
        /\ UNCHANGED <<receiver, expectedSeq, outData>>
    BY <1>7 DEF RejectDatagram, ReceiveOutOfOrder
  <2>2. toSender' \in Seq(Datagram(Byte)) /\ OnlyHonestAcks'
    BY <1>2, <1>6, <2>1
  <2> QED
    BY <1>1, <1>6, <2>1, <2>2
<1>8. CASE ReceiveFin
  <2>1. /\ ReceiverReceives
        /\ Head(toReceiver).ok /\ Head(toReceiver).kind = "fin"
        /\ toSender' = Push(toSender, FinAck(Head(toReceiver).num),
                            BufferCapacity)
        /\ receiver' = "true"
        /\ UNCHANGED <<expectedSeq, outData>>
    BY <1>8 DEF ReceiveFin, IsFin
  <2>2. Head(toReceiver).num = N /\ base = N
    BY <1>6, <2>1
  <2>3. expectedSeq = N
    BY <1>1, <2>2
  <2>4. /\ toSender' \in Seq(Datagram(Byte))
        /\ Range(toSender') \subseteq Range(toSender) \union {FinAck(N)}
    BY <1>1, <2>1, <2>2, DatagramTypes, RangeOfPush
  <2>5. OnlyHonestAcks'
    <3> SUFFICES ASSUME NEW datagram \in Range(toSender'), datagram.ok
                 PROVE  \/ /\ datagram.kind = "ack"
                           /\ \/ datagram.num = NoDataAck
                              \/ datagram.num < expectedSeq
                        \/ datagram.kind = "finack" /\ datagram.num = N
      BY <1>6, <2>1
    <3>1. CASE datagram \in Range(toSender)
      BY <3>1
    <3>2. CASE datagram = FinAck(N)
      BY <3>2 DEF FinAck
    <3> QED
      BY <2>4, <3>1, <3>2
  <2> QED
    BY <1>1, <1>6, <2>1, <2>3, <2>4, <2>5
<1>9. CASE ReceiveInOrder
  <2>1. /\ ReceiverReceives
        /\ Head(toReceiver).ok /\ Head(toReceiver).kind = "data"
        /\ Head(toReceiver).num = expectedSeq
        /\ outData' = outData \o Head(toReceiver).payload
        /\ expectedSeq' = expectedSeq + 1
        /\ Acknowledge(expectedSeq + 1)
        /\ UNCHANGED receiver
    BY <1>9 DEF ReceiveInOrder, IsData, IsInOrder
  <2>2. /\ expectedSeq \in 0 .. N - 1
        /\ Head(toReceiver).payload = Segment(expectedSeq)
    BY <1>6, <2>1
  <2>3. /\ expectedSeq \in Nat
        /\ expectedSeq + 1 \in 0 .. N /\ expectedSeq + 1 \in Nat
    <3>1. expectedSeq \in 0 .. N - 1
      BY <2>2
    <3> QED
      BY <1>1, <3>1
  <2>4. outData' = SubSeq(data, 1, Offset(expectedSeq + 1))
    <3>1. outData = SubSeq(data, 1, Offset(expectedSeq))
      OBVIOUS
    <3> QED
      BY <2>1, <2>2, <2>3, <3>1, NextSegment
  <2>5. outData' \in Seq(Byte)
    BY <2>3, <2>4, NextSegment
  <2>6. toSender' \in Seq(Datagram(Byte)) /\ OnlyHonestAcks'
    BY <1>2, <1>6, <2>1, <2>3
  <2>7. PrefixDelivered'
    BY <1>6, <2>1, <2>4
  <2>8. AckedIsReceived' /\ HandshakeAfterData'
    BY <1>1, <1>6, <2>1, <2>3
  <2>9. TypeOK' /\ OnlyHonestData'
    BY <1>6, <2>1, <2>3, <2>5, <2>6
  <2> QED
    BY <2>6, <2>7, <2>8, <2>9
<1> QED
  BY <1>4, <1>5, <1>7, <1>8, <1>9

\* Faults of the network and the user's ABOR.
LEMMA EnvironmentKeepsIndInv ==
    ASSUME IndInv,
           NetworkFault \/ \E side \in MayCancel : Abort(side)
    PROVE  IndInv'
<1> USE DEF IndInv, TypeOK, SenderStates, PrefixDelivered, AckedIsReceived,
            OnlyHonestData, OnlyHonestAcks, HandshakeAfterData,
            windowVars, senderVars, receiverVars
<1>1. N \in Nat \ {0} /\ N =< NoDataAck
  BY CountOfSegments
<1>2. CASE NetworkFault
  <2>1. /\ toReceiver' \in Seq(Datagram(Byte))
        /\ \A datagram \in Range(toReceiver') :
               datagram \in Range(toReceiver) \/ ~datagram.ok
    BY <1>2, RangeAfterFault DEF NetworkFault
  <2>2. /\ toSender' \in Seq(Datagram(Byte))
        /\ \A datagram \in Range(toSender') :
               datagram \in Range(toSender) \/ ~datagram.ok
    BY <1>2, RangeAfterFault DEF NetworkFault
  <2>3. /\ UNCHANGED <<senderVars, receiverVars, data, cancelled>>
        /\ faults' \in 0 .. MaxFaults
    BY <1>2 DEF NetworkFault
  <2> QED
    BY <2>1, <2>2, <2>3
<1>3. CASE \E side \in MayCancel : Abort(side)
  BY <1>1, <1>3 DEF Abort
<1> QED
  BY <1>2, <1>3

\* IndInv is an invariant of the specification.
THEOREM Invariance == Spec => []IndInv
<1>1. Init => IndInv
  BY InitIndInv
<1>2. IndInv /\ [Next]_vars => IndInv'
  <2> SUFFICES ASSUME IndInv, [Next]_vars PROVE IndInv'
    OBVIOUS
  <2>1. CASE SenderStep \/ SenderTimer \/ SendSegmentFails
    BY <2>1, DataPhaseKeepsIndInv, AckKeepsIndInv, FinPhaseKeepsIndInv
       DEF SenderStep, SenderTimer
  <2>2. CASE ReceiverStep \/ ReceiverTimeout
    BY <2>2, ReceiverKeepsIndInv DEF ReceiverStep
  <2>3. CASE NetworkFault \/ \E side \in MayCancel : Abort(side)
    BY <2>3, EnvironmentKeepsIndInv
  <2>4. CASE UNCHANGED vars
    BY <2>4
       DEF IndInv, TypeOK, PrefixDelivered, AckedIsReceived, OnlyHonestData,
           OnlyHonestAcks, HandshakeAfterData, vars, windowVars, senderVars,
           receiverVars, environmentVars
  <2> QED
    BY <2>1, <2>2, <2>3, <2>4 DEF Next
<1> QED
  BY <1>1, <1>2, PTL DEF Spec

-----------------------------------------------------------------------------
(* What follows from the invariant.                                         *)

\* Every variable keeps its type: the window stays within the segments and
\* the retry counters within maxRetransmitRounds_.
THEOREM TypeCorrect == Spec => []TypeOK
BY Invariance, PTL DEF IndInv

\* The receiver's buffer is always a prefix of the data, the sender never
\* drops a segment that did not arrive, and no FIN can be early.
THEOREM StreamIntegrity ==
    Spec => [](PrefixDelivered /\ AckedIsReceived /\ HandshakeAfterData)
<1>1. IndInv => PrefixDelivered /\ AckedIsReceived /\ HandshakeAfterData
  BY DEF IndInv
<1> QED
  BY <1>1, Invariance, PTL

\* A side that has returned true, or is about to, has all of the data
\* delivered.
LEMMA CompleteInv ==
    ASSUME IndInv, expectedSeq = N \/ base = N
    PROVE  outData = data
<1>1. data \in Buffers
  BY DEF IndInv, TypeOK
<1>2. expectedSeq = N
  BY <1>1, CountOfSegments DEF IndInv, TypeOK, AckedIsReceived
<1> QED
  BY <1>1, <1>2, NextSegment DEF IndInv, PrefixDelivered

\* receiveData, and sendData, return true only when all bytes are delivered.
THEOREM SuccessIsComplete == Spec => [](CompleteOnFin /\ SuccessIsDelivery)
<1>1. IndInv => CompleteOnFin /\ SuccessIsDelivery
  <2> SUFFICES ASSUME IndInv PROVE CompleteOnFin /\ SuccessIsDelivery
    OBVIOUS
  <2>1. receiver = "true" => expectedSeq = N
    BY DEF IndInv, HandshakeAfterData
  <2>2. sender = "true" => base = N
    BY DEF IndInv, HandshakeAfterData
  <2> QED
    BY <2>1, <2>2, CompleteInv DEF CompleteOnFin, SuccessIsDelivery
<1> QED
  BY <1>1, Invariance, PTL

-----------------------------------------------------------------------------
(* Agreement of the two ends, which needs ACKs that are not damaged.        *)

\* Only a receiver that is done has sent a FINACK, and no ACK was damaged.
FinAcksAreTrue ==
    /\ \A datagram \in Range(toSender) :
           datagram.ok /\ (datagram.kind = "finack" => receiver = "true")
    /\ SuccessIsAgreed

\* When the network does not damage ACKs, sendData returns true only if
\* receiveData returned true.
THEOREM Agreement ==
    ASSUME "corrupt" \notin AckFaults
    PROVE  Spec => []SuccessIsAgreed
<1>1. Init => FinAcksAreTrue
  BY DEF Init, FinAcksAreTrue, SuccessIsAgreed, Range
<1>2. IndInv /\ FinAcksAreTrue /\ [Next]_vars => FinAcksAreTrue'
  <2> SUFFICES ASSUME IndInv, FinAcksAreTrue, [Next]_vars
               PROVE  FinAcksAreTrue'
    OBVIOUS
  <2> USE DEF FinAcksAreTrue, SuccessIsAgreed, senderVars, windowVars,
              receiverVars, environmentVars
  <2>1. /\ toSender \in Seq(Datagram(Byte)) /\ expectedSeq \in 0 .. N
        /\ data \in Buffers
    BY DEF IndInv, TypeOK
  <2>2. ASSUME toSender # <<>>, toSender' = Tail(toSender)
        PROVE  Range(toSender') \subseteq Range(toSender)
    BY <2>2, TakeFromQueues
  <2>3. CASE UNCHANGED <<sender, receiver, toSender>>
    BY <2>3
  <2>4. CASE /\ Range(toSender') \subseteq Range(toSender)
             /\ UNCHANGED receiver
             /\ sender' # "true"
    BY <2>4
  <2>5. ASSUME NEW expected \in 0 .. N, Acknowledge(expected),
               UNCHANGED <<sender, receiver>>
        PROVE  FinAcksAreTrue'
    <3>1. CumulativeAck(expected) \in Datagram(Byte)
      BY <2>1, DatagramTypes
    <3>2. Range(toSender')
              \subseteq Range(toSender) \union {CumulativeAck(expected)}
      BY <2>1, <2>5, <3>1, RangeOfPush DEF Acknowledge
    <3>3. CumulativeAck(expected).ok /\ CumulativeAck(expected).kind = "ack"
      BY DEF CumulativeAck, Ack
    <3> QED
      BY <2>5, <3>2, <3>3
  <2>6. CASE \/ StartBurst \/ CancelAtTop \/ AllAcknowledged \/ SendSegment
             \/ SendFin \/ GiveUpOnFinAck \/ SendSegmentFails \/ SenderTimer
    BY <2>4, <2>6
       DEF StartBurst, CancelAtTop, AllAcknowledged, SendSegment, SendFin,
           GiveUpOnFinAck, SendSegmentFails, SenderTimer, SenderTimeout,
           TooManyTimeouts, FinTimeout, GoBack, Returns
  <2>7. CASE CancelAfterRecv
    BY <2>2, <2>4, <2>7 DEF CancelAfterRecv, Returns
  <2>8. CASE \/ IgnoreDatagram \/ SlideWindow \/ CountDuplicateAck
             \/ FastRetransmit \/ TooManyFastRetransmits \/ IgnoreUnsentAck
    <3>1. SenderReceives /\ sender' \in {"top", "false"}
      BY <2>8
         DEF IgnoreDatagram, SlideWindow, CountDuplicateAck, FastRetransmit,
             TooManyFastRetransmits, IgnoreUnsentAck, ReceiveAck, GoBack
    <3> QED
      BY <2>2, <2>4, <3>1 DEF SenderReceives
  <2>9. CASE ReceiveFinAck
    <3>1. toSender # <<>> /\ toSender' = Tail(toSender) /\ UNCHANGED receiver
          /\ Head(toSender).kind = "finack"
      BY <2>9 DEF ReceiveFinAck, FinReceives, IsFinAck
    <3>2. Head(toSender) \in Range(toSender)
      BY <3>1, TakeFromQueues
    <3>3. receiver = "true"
      BY <3>1, <3>2
    <3> QED
      BY <2>2, <3>1, <3>3
  <2>10. CASE ReceiveOtherThanFinAck
    BY <2>2, <2>4, <2>10 DEF ReceiveOtherThanFinAck, FinReceives
  <2>11. CASE ReceiverCancelled
    <3>1. receiver = "recv" /\ UNCHANGED <<sender, toSender>>
      BY <2>11 DEF ReceiverCancelled
    <3> QED
      BY <3>1
  <2>12. CASE RejectDatagram \/ ReceiveOutOfOrder \/ ReceiverTimeout
    BY <2>1, <2>5, <2>12
       DEF RejectDatagram, ReceiveOutOfOrder, ReceiverTimeout,
           ReceiverReceives
  <2>13. CASE ReceiveInOrder
    <3>1. IndInv'
      BY <2>13, ReceiverKeepsIndInv
    <3>2. /\ expectedSeq' \in 0 .. N /\ Acknowledge(expectedSeq')
          /\ UNCHANGED <<sender, receiver>>
      BY <2>13, <3>1 DEF ReceiveInOrder, ReceiverReceives, IndInv, TypeOK
    <3> QED
      BY <2>5, <3>2
  <2>14. CASE ReceiveFin
    <3>1. /\ toReceiver # <<>> /\ receiver' = "true" /\ UNCHANGED sender
          /\ toSender' = Push(toSender, FinAck(Head(toReceiver).num),
                              BufferCapacity)
      BY <2>14 DEF ReceiveFin, ReceiverReceives
    <3>2. Head(toReceiver).num \in Nat
      BY <3>1, TakeFromQueues DEF Datagram
    <3>3. Range(toSender') \subseteq Range(toSender)
                                  \union {FinAck(Head(toReceiver).num)}
      BY <2>1, <3>1, <3>2, DatagramTypes, RangeOfPush
    <3>4. FinAck(Head(toReceiver).num).ok
      BY DEF FinAck
    <3> QED
      BY <3>1, <3>3, <3>4
  <2>15. CASE NetworkFault
    <3>1. /\ \/ UNCHANGED toSender
             \/ toSender' \in AfterFault(toSender, AckFaults, BufferCapacity)
          /\ UNCHANGED <<sender, receiver>>
      BY <2>15 DEF NetworkFault
    <3>2. \A datagram \in Range(toSender') : datagram \in Range(toSender)
      BY <2>1, <3>1, RangeAfterFault
    <3> QED
      BY <3>1, <3>2
  <2>16. CASE \E side \in MayCancel : Abort(side)
    BY <2>3, <2>16 DEF Abort
  <2>17. CASE UNCHANGED vars
    BY <2>3, <2>17 DEF vars
  <2> QED
    BY <2>6, <2>7, <2>8, <2>9, <2>10, <2>11, <2>12, <2>13, <2>14, <2>15,
       <2>16, <2>17 DEF Next, SenderStep, ReceiverStep
<1>3. FinAcksAreTrue => SuccessIsAgreed
  BY DEF FinAcksAreTrue
<1> QED
  BY <1>1, <1>2, <1>3, Invariance, PTL DEF Spec

-----------------------------------------------------------------------------
(* Windows and retransmissions.                                             *)

\* Between two advances of the window the sender goes back at most
\* maxRetransmitRounds_ times.
THEOREM BoundedRetransmission == Spec => RetransmissionsAreBounded
<1> DEFINE Bounded == /\ nextSeq' < nextSeq => retryRnd' = retryRnd + 1
                      /\ retryRnd' < retryRnd => base' > base
<1>1. IndInv /\ [Next]_vars => Bounded
  <2> SUFFICES ASSUME IndInv, [Next]_vars PROVE Bounded
    OBVIOUS
  <2> USE DEF senderVars, windowVars, receiverVars, environmentVars, Returns
  <2>1. /\ nextSeq \in Nat /\ retryRnd \in Nat /\ base \in Nat
    BY CountOfSegments DEF IndInv, TypeOK
  <2>2. CASE UNCHANGED <<nextSeq, retryRnd>>
    BY <2>1, <2>2
  <2>3. CASE retryRnd' = retryRnd + 1
    BY <2>1, <2>3
  <2>4. CASE SendSegment
    BY <2>1, <2>4 DEF SendSegment
  <2>5. CASE SlideWindow
    <3>1. AckNum \in Nat /\ AckNum >= base
      BY <2>5, TakeFromQueues
         DEF SlideWindow, ReceiveAck, SenderReceives, AckNum, Datagram,
             IsNewAck
    <3> QED
      BY <2>1, <2>5, <3>1 DEF SlideWindow
  <2>6. CASE SenderTimeout \/ FastRetransmit
    BY <2>3, <2>6 DEF SenderTimeout, FastRetransmit, GoBack, CountRound
  <2>7. CASE \/ StartBurst \/ CancelAtTop \/ AllAcknowledged
             \/ CancelAfterRecv \/ SendSegmentFails \/ TooManyTimeouts
             \/ IgnoreDatagram \/ CountDuplicateAck
             \/ TooManyFastRetransmits \/ IgnoreUnsentAck
    BY <2>2, <2>7
       DEF StartBurst, CancelAtTop, AllAcknowledged, CancelAfterRecv,
           SendSegmentFails, TooManyTimeouts, IgnoreDatagram,
           CountDuplicateAck, TooManyFastRetransmits, IgnoreUnsentAck
  <2>8. CASE \/ SendFin \/ GiveUpOnFinAck \/ ReceiveFinAck
             \/ ReceiveOtherThanFinAck \/ FinTimeout
    BY <2>2, <2>8
       DEF SendFin, GiveUpOnFinAck, ReceiveFinAck, ReceiveOtherThanFinAck,
           FinTimeout, FinReceives
  <2>9. CASE ReceiverStep \/ ReceiverTimeout
    BY <2>2, <2>9
       DEF ReceiverStep, ReceiverTimeout, ReceiverCancelled, RejectDatagram,
           ReceiveFin, ReceiveInOrder, ReceiveOutOfOrder, ReceiverReceives
  <2>10. CASE NetworkFault \/ \E side \in MayCancel : Abort(side)
    BY <2>2, <2>10 DEF NetworkFault, Abort
  <2>11. CASE UNCHANGED vars
    BY <2>2, <2>11 DEF vars
  <2> QED
    BY <2>4, <2>5, <2>6, <2>7, <2>8, <2>9, <2>10, <2>11
       DEF Next, SenderStep, SenderTimer
<1> QED
  BY <1>1, Invariance, PTL DEF Spec, RetransmissionsAreBounded

\* The segments in flight never exceed the congestion window.
THEOREM InFlightBounded == Spec => []InFlightWithinWindow
<1>1. Init => InFlightWithinWindow
  BY DEF Init, InFlightWithinWindow, Greater, Lesser
<1>2. IndInv /\ InFlightWithinWindow /\ [Next]_vars => InFlightWithinWindow'
  <2> SUFFICES ASSUME IndInv, InFlightWithinWindow, [Next]_vars
               PROVE  InFlightWithinWindow'
    OBVIOUS
  <2> USE DEF senderVars, windowVars, receiverVars, environmentVars, Returns
  <2>1. /\ nextSeq \in Nat /\ base \in Nat /\ cwnd \in Nat /\ ssthresh \in Nat
        /\ recvWindow \in Nat
    BY CountOfSegments DEF IndInv, TypeOK
  <2>2. CASE UNCHANGED <<nextSeq, base, cwnd>>
    BY <2>2 DEF InFlightWithinWindow
  <2>3. CASE SendSegment
    <3>1. /\ nextSeq' = nextSeq + 1 /\ UNCHANGED <<base, cwnd>>
          /\ nextSeq < base + EffectiveWindow
      BY <2>3 DEF SendSegment, HasRoom
    <3>2. EffectiveWindow \in Nat
          /\ EffectiveWindow =< Greater(1, Lesser(cwnd, MaxWindowSegments))
      BY <2>1 DEF EffectiveWindow, Greater, Lesser
    <3>3. Greater(1, Lesser(cwnd, MaxWindowSegments)) \in Nat
      BY <2>1 DEF Greater, Lesser
    <3> QED
      BY <2>1, <3>1, <3>2, <3>3 DEF InFlightWithinWindow
  <2>4. CASE SlideWindow
    <3>1. AckNum \in Nat /\ AckNum >= base
      BY <2>4, TakeFromQueues
         DEF SlideWindow, ReceiveAck, SenderReceives, AckNum, Datagram,
             IsNewAck
    <3>2. /\ base' = AckNum + 1 /\ nextSeq' = nextSeq
          /\ cwnd' \in GrownCwnd(AckNum + 1 - base)
      BY <2>4 DEF SlideWindow
    <3>3. cwnd' \in Nat /\ cwnd' >= Lesser(cwnd, MaxWindowSegments)
      BY <2>1, <3>1, <3>2 DEF GrownCwnd, Lesser, Greater
    <3>4. cwnd' =< MaxWindowSegments
      BY <2>1, <3>1, <3>2 DEF GrownCwnd, Lesser, Greater
    <3> QED
      BY <2>1, <3>1, <3>2, <3>3, <3>4 DEF InFlightWithinWindow, Lesser, Greater
  <2>5. CASE SenderTimeout \/ FastRetransmit
    <3>1. nextSeq' = base /\ base' = base /\ cwnd' = 1
      BY <2>5 DEF SenderTimeout, FastRetransmit, GoBack, Restart
    <3> QED
      BY <2>1, <3>1 DEF InFlightWithinWindow, Lesser, Greater
  <2>6. CASE \/ StartBurst \/ CancelAtTop \/ AllAcknowledged
             \/ CancelAfterRecv \/ SendSegmentFails \/ TooManyTimeouts
             \/ IgnoreDatagram \/ CountDuplicateAck
             \/ TooManyFastRetransmits \/ IgnoreUnsentAck
    BY <2>2, <2>6
       DEF StartBurst, CancelAtTop, AllAcknowledged, CancelAfterRecv,
           SendSegmentFails, TooManyTimeouts, IgnoreDatagram,
           CountDuplicateAck, TooManyFastRetransmits, IgnoreUnsentAck
  <2>7. CASE \/ SendFin \/ GiveUpOnFinAck \/ ReceiveFinAck
             \/ ReceiveOtherThanFinAck \/ FinTimeout
    BY <2>2, <2>7
       DEF SendFin, GiveUpOnFinAck, ReceiveFinAck, ReceiveOtherThanFinAck,
           FinTimeout, FinReceives
  <2>8. CASE ReceiverStep \/ ReceiverTimeout
    BY <2>2, <2>8
       DEF ReceiverStep, ReceiverTimeout, ReceiverCancelled, RejectDatagram,
           ReceiveFin, ReceiveInOrder, ReceiveOutOfOrder, ReceiverReceives
  <2>9. CASE NetworkFault \/ \E side \in MayCancel : Abort(side)
    BY <2>2, <2>9 DEF NetworkFault, Abort
  <2>10. CASE UNCHANGED vars
    BY <2>2, <2>10 DEF vars
  <2> QED
    BY <2>3, <2>4, <2>5, <2>6, <2>7, <2>8, <2>9, <2>10
       DEF Next, SenderStep, SenderTimer
<1> QED
  BY <1>1, <1>2, Invariance, PTL DEF Spec

-----------------------------------------------------------------------------
(* Refinement.                                                              *)

\* The protocol implements ReliableStream: every step of it is a step of the
\* stream or leaves the stream as it is.
THEOREM Refinement == Spec => ImplementsReliableStream
<1>1. Init => Stream!Init
  BY DEF Init, Stream!Init, Result
<1>2. IndInv /\ IndInv' /\ [Next]_vars => [Stream!Next]_Stream!vars
  <2> SUFFICES ASSUME IndInv, IndInv', [Next]_vars
               PROVE  [Stream!Next]_Stream!vars
    OBVIOUS
  <2> USE DEF senderVars, windowVars, receiverVars, environmentVars, Returns
  <2>1. CASE UNCHANGED <<data, outData, receiver>> /\ Result(sender') = Result(sender)
    BY <2>1 DEF Stream!vars
  <2>2. CASE /\ UNCHANGED <<data, outData, receiver>>
             /\ sender \notin {"true", "false"} /\ sender' = "false"
    BY <2>2 DEF Stream!Next, Stream!SendDataReturnsFalse, Result
  <2>3. CASE \/ StartBurst \/ AllAcknowledged \/ SendSegment \/ SenderTimeout
             \/ IgnoreDatagram \/ SlideWindow \/ CountDuplicateAck
             \/ FastRetransmit \/ IgnoreUnsentAck
             \/ SendFin \/ ReceiveOtherThanFinAck \/ FinTimeout
    BY <2>1, <2>3
       DEF StartBurst, AllAcknowledged, SendSegment, SenderTimeout,
           IgnoreDatagram, SlideWindow, CountDuplicateAck, FastRetransmit,
           IgnoreUnsentAck, SendFin, ReceiveOtherThanFinAck, FinTimeout,
           FinReceives, GoBack, ReceiveAck, SenderReceives, SenderWaits, Result
  <2>4. CASE \/ CancelAtTop \/ CancelAfterRecv \/ SendSegmentFails
             \/ TooManyTimeouts \/ TooManyFastRetransmits \/ GiveUpOnFinAck
    BY <2>2, <2>4
       DEF CancelAtTop, CancelAfterRecv, SendSegmentFails, TooManyTimeouts,
           TooManyFastRetransmits, GiveUpOnFinAck, ReceiveAck,
           SenderReceives, SenderWaits
  <2>5. CASE ReceiveFinAck
    <3>1. /\ sender = "finwait" /\ sender' = "true"
          /\ UNCHANGED <<data, outData, receiver>>
      BY <2>5 DEF ReceiveFinAck, FinReceives
    <3>2. outData = data
      BY <3>1, CompleteInv DEF IndInv, HandshakeAfterData
    <3> QED
      BY <3>1, <3>2 DEF Stream!Next, Stream!SendDataReturnsTrue, Result
  <2>6. CASE ReceiverCancelled
    BY <2>6 DEF ReceiverCancelled, Stream!Next,
                Stream!ReceiveDataReturnsFalse, Result
  <2>7. CASE ReceiveFin
    <3>1. /\ receiver = "recv" /\ receiver' = "true"
          /\ UNCHANGED <<data, outData, sender, expectedSeq>>
      BY <2>7 DEF ReceiveFin, ReceiverReceives
    <3>2. expectedSeq = N
      BY <3>1 DEF IndInv, HandshakeAfterData
    <3>3. outData = data
      BY <3>2, CompleteInv
    <3> QED
      BY <3>1, <3>3 DEF Stream!Next, Stream!ReceiveDataReturnsTrue, Result
  <2>8. CASE ReceiveInOrder
    <3>1. /\ receiver = "recv" /\ expectedSeq' = expectedSeq + 1
          /\ UNCHANGED <<data, receiver, sender>>
      BY <2>8 DEF ReceiveInOrder, ReceiverReceives
    <3>2. /\ expectedSeq \in Nat /\ data \in Buffers
          /\ outData = SubSeq(data, 1, Offset(expectedSeq))
          /\ outData' = SubSeq(data, 1, Offset(expectedSeq + 1))
      BY <3>1, CountOfSegments DEF IndInv, TypeOK, PrefixDelivered
    <3>3. Offset(expectedSeq + 1) \in Len(outData) .. Len(data)
      <4> DEFINE from == Offset(expectedSeq)
                 to == Offset(expectedSeq + 1)
      <4>1. /\ from \in 0 .. Len(data) /\ from =< to
            /\ to \in 0 .. Len(data)
        <5>1. expectedSeq + 1 \in Nat
          BY <3>2
        <5> QED
          BY <3>2, <5>1, Offsets
      <4>2. Len(data) \in Nat /\ \A j \in 1 .. Len(data) : data[j] \in Byte
        <5>0. data \in Seq(Byte)
          BY <3>2
        <5>1. Len(data) \in Nat
          BY <5>0, LenProperties
        <5>2. ASSUME NEW j \in 1 .. Len(data) PROVE data[j] \in Byte
          BY <5>0, ElementOfSeq
        <5> QED
          BY <5>1, <5>2
      <4> HIDE DEF from, to
      <4>3. /\ 1 \in Int /\ from \in Int
            /\ \A j \in 1 .. from : data[j] \in Byte
        BY <4>1, <4>2
      <4>4. Len(SubSeq(data, 1, from)) = IF 1 <= from THEN from - 1 + 1 ELSE 0
        BY <4>3, SubSeqProperties
      <4>5. Len(SubSeq(data, 1, from)) = from
        BY <4>1, <4>2, <4>4
      <4>6. to \in from .. Len(data)
        BY <4>1, <4>2
      <4> QED
        BY <3>2, <4>5, <4>6 DEF from, to
    <3> QED
      BY <3>1, <3>2, <3>3 DEF Stream!Next, Stream!Deliver, Result
  <2>9. CASE RejectDatagram \/ ReceiveOutOfOrder \/ ReceiverTimeout
    BY <2>1, <2>9 DEF RejectDatagram, ReceiveOutOfOrder, ReceiverTimeout,
                      ReceiverReceives
  <2>10. CASE NetworkFault \/ \E side \in MayCancel : Abort(side)
    BY <2>1, <2>10 DEF NetworkFault, Abort
  <2>11. CASE UNCHANGED vars
    BY <2>1, <2>11 DEF vars
  <2> QED
    BY <2>3, <2>4, <2>5, <2>6, <2>7, <2>8, <2>9, <2>10, <2>11
       DEF Next, SenderStep, SenderTimer, ReceiverStep
<1> QED
  BY <1>1, <1>2, Invariance, PTL
     DEF Spec, ImplementsReliableStream, Stream!Spec
=============================================================================
