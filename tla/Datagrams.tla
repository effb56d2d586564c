----------------------------- MODULE Datagrams -----------------------------
(***************************************************************************)
(* One direction of the UDP data channel, as UDPSocket.cpp uses it: a      *)
(* bounded queue of datagrams.  A queue stands for the datagrams on the    *)
(* wire together with the socket buffer they end up in, so that one queue  *)
(* per direction is enough.  The operators here are what the network may   *)
(* do to a queue; which of them happen, and how often, is decided by the   *)
(* module that owns the queue.                                             *)
(*                                                                         *)
(* A datagram is a CustomUDPHeader with its payload, abstracted to what    *)
(* the protocol tells apart:                                               *)
(*   kind     the flags it carries,                                        *)
(*   num      seqNum of data and fin, ackNum of ack and finack,            *)
(*   payload  the payload bytes,                                           *)
(*   ok       whether verifyChecksum accepts it.                           *)
(* The receiver's windowSize is a constant of a transfer and is not        *)
(* carried.  A corrupted datagram always fails the checksum: undetected    *)
(* corruption (16-bit Internet checksum) is outside the model.             *)
(***************************************************************************)
EXTENDS Naturals, Sequences, SequencesExt

\* The flag combinations the program sends: FLAG_DATA, FLAG_ACK, FLAG_FIN,
\* FLAG_FIN with FLAG_ACK.
Kinds == {"data", "ack", "fin", "finack"}

Datagram(bytes) ==
    [kind : Kinds, num : Nat, payload : Seq(bytes), ok : BOOLEAN]

\* sendData cuts its buffer into segments of mss bytes, the last one perhaps
\* shorter; empty data is sent as one empty segment.  The first i segments end
\* at byte SegmentOffset(bytes, mss, i).
SegmentCount(bytes, mss) ==
    IF bytes = <<>> THEN 1 ELSE (Len(bytes) + mss - 1) \div mss
SegmentOffset(bytes, mss, i) ==
    IF i * mss =< Len(bytes) THEN i * mss ELSE Len(bytes)
SegmentAt(bytes, mss, i) ==
    SubSeq(bytes, SegmentOffset(bytes, mss, i) + 1,
           SegmentOffset(bytes, mss, i + 1))

\* sendTo onto a queue: a datagram that finds the queue full is dropped.
Push(queue, datagram, capacity) ==
    IF Len(queue) < capacity THEN Append(queue, datagram) ELSE queue

\* What one fault of the network can make of a queue: a datagram is lost,
\* delivered twice (the copy arrives last), delayed past every later one, or
\* damaged so that its flags may read as anything and its checksum no longer
\* matches.  kinds says which faults the network is allowed.
AfterFault(queue, kinds, capacity) ==
    {RemoveAt(queue, i) : i \in {j \in DOMAIN queue : "lose" \in kinds}}
    \union
    {Push(queue, queue[i], capacity) :
        i \in {j \in DOMAIN queue : "duplicate" \in kinds}}
    \union
    {Append(RemoveAt(queue, i), queue[i]) :
        i \in {j \in DOMAIN queue : "delay" \in kinds}}
    \union
    {[queue EXCEPT ![i] = [kind |-> kind, num |-> queue[i].num,
                           payload |-> queue[i].payload, ok |-> FALSE]] :
        i \in {j \in DOMAIN queue : "corrupt" \in kinds}, kind \in Kinds}
=============================================================================
