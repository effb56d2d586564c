----------------------- MODULE SlidingWindowProperties -----------------------
(***************************************************************************)
(* What SlidingWindow.tla must satisfy, and what the comments and the      *)
(* README of the program say of it that it does not.                       *)
(***************************************************************************)
EXTENDS SlidingWindow

SenderStates == {"top", "burst", "fin", "finwait", "true", "false"}

\* Every variable stays within its type; nextSeq and base stay within the
\* segments of the transfer and the retry counters within maxRetransmitRounds_.
TypeOK ==
    /\ data \in Buffers
    /\ sender \in SenderStates
    /\ base \in 0 .. N /\ nextSeq \in 0 .. N
    /\ retryRnd \in 0 .. MaxRetransmitRounds
    /\ lastDuplicateAck \in 0 .. NoDataAck
    /\ duplicateAckCount \in 0 .. 2
    /\ cwnd \in Nat /\ ssthresh \in Nat /\ recvWindow \in Nat
    /\ attempt \in 0 .. MaxRetransmitRounds
    /\ receiver \in {"recv", "true", "false"}
    /\ expectedSeq \in 0 .. N
    /\ outData \in Seq(Byte)
    /\ peerKnown \in BOOLEAN
    /\ toReceiver \in Seq(Datagram(Byte))
    /\ toSender \in Seq(Datagram(Byte))
    /\ cancelled \subseteq MayCancel
    /\ faults \in 0 .. MaxFaults

-----------------------------------------------------------------------------
(* Safety.                                                                  *)

\* The bytes receiveData has collected are exactly the sender's first
\* segments, whatever the network lost, repeated, reordered or damaged.
PrefixDelivered == outData = SubSeq(data, 1, Offset(expectedSeq))

\* The sender never drops a segment from its window that the receiver has not
\* taken: a cumulative ACK is never believed for data that did not arrive.
AckedIsReceived == base =< expectedSeq

\* receiveData returns true only with the complete data, although it does not
\* compare the seqNum of the FIN with expectedSeq_.
CompleteOnFin == receiver = "true" => outData = data

\* sendData returns true only after every byte was delivered, even when a
\* damaged datagram is read as a FINACK.
SuccessIsDelivery == sender = "true" => outData = data

\* Without damaged datagrams sendData returns true only when receiveData has
\* returned true as well: the two ends agree that the transfer succeeded.
SuccessIsAgreed == sender = "true" => receiver = "true"

\* The segments sent and not acknowledged never exceed the congestion window
\* nor the maximal window, in particular not when ACKs arrive while the window
\* is being rebuilt after a retransmission.
InFlightWithinWindow ==
    nextSeq - base =< Greater(1, Lesser(cwnd, MaxWindowSegments))

\* Every undamaged datagram on its way to the receiver is a segment of the
\* data, or a FIN whose sender has had all segments acknowledged: no late or
\* repeated FIN can end a transfer early.
OnlyHonestData ==
    \A datagram \in Range(toReceiver) :
        datagram.ok =>
            \/ /\ datagram.kind = "data"
               /\ datagram.num \in 0 .. N - 1
               /\ datagram.payload = Segment(datagram.num)
            \/ datagram.kind = "fin" /\ datagram.num = N /\ base = N

\* Every undamaged datagram on its way to the sender acknowledges only what
\* the receiver has taken, and a FINACK is sent only by a receiver that is
\* done.
OnlyHonestAcks ==
    \A datagram \in Range(toSender) :
        datagram.ok =>
            \/ /\ datagram.kind = "ack"
               /\ datagram.num = NoDataAck \/ datagram.num < expectedSeq
            \/ datagram.kind = "finack" /\ datagram.num = N

\* The FIN handshake starts, and ends, only after the last segment has been
\* taken and acknowledged.
HandshakeAfterData ==
    /\ sender \in {"fin", "finwait", "true"} => base = N
    /\ receiver = "true" => expectedSeq = N

\* The inductive invariant behind the safety properties above.
IndInv == /\ TypeOK
          /\ PrefixDelivered
          /\ AckedIsReceived
          /\ OnlyHonestData
          /\ OnlyHonestAcks
          /\ HandshakeAfterData

\* Between two advances of the window the sender retransmits at most
\* maxRetransmitRounds_ times: no step moves nextSeq back without using up
\* one of the rounds left, and only an advance of base gives rounds back.
RetransmissionsAreBounded ==
    [][/\ nextSeq' < nextSeq => retryRnd' = retryRnd + 1
       /\ retryRnd' < retryRnd => base' > base]_vars

\* The protocol implements the promise of ReliableStream.
Result(pc) == IF pc \in {"true", "false"} THEN pc ELSE "running"
Stream == INSTANCE ReliableStream
              WITH delivered <- outData,
                   sender <- Result(sender),
                   receiver <- Result(receiver)
ImplementsReliableStream == Stream!Spec

-----------------------------------------------------------------------------
(* Liveness.                                                                *)

\* sendData returns, also when an ABOR has ended either side of the transfer.
SenderReturns == <>SenderReturned

\* A transfer that is not aborted and meets fewer faults than there are
\* retransmission rounds succeeds at both ends.
TransferCompletes ==
    <>(cancelled # {} \/ (sender = "true" /\ receiver = "true"))

\* After an ABOR the receiver returns, even if its peer has gone.
AbortStopsReceiver == "receiver" \in cancelled ~> receiver # "recv"

-----------------------------------------------------------------------------
(* What the program's own text says and the code does not do.              *)

\* sendData returns true if the receiver has acknowledged all of the data,
\* unless the transfer was aborted.
AcknowledgedIsTrue ==
    sender = "false" /\ cancelled = {} => base < N
=============================================================================
