--------------------------- MODULE SlidingWindow ---------------------------
(***************************************************************************)
(* One transfer over the reliable UDP channel of SlidingWindow.cpp: a      *)
(* sender running RDTWindowSender::sendData (Go-Back-N, slow start and     *)
(* AIMD, fast retransmit, FIN handshake) and a receiver running            *)
(* RDTWindowReceiver::receiveData (in-order delivery, cumulative ACKs),    *)
(* joined by two UDP queues that may lose, duplicate, delay and damage     *)
(* datagrams.                                                              *)
(***************************************************************************)
EXTENDS Datagrams, Integers

CONSTANTS
    Byte,                   \* the values of a payload byte
    Buffers,                \* what sendData may be called with
    MSS,                    \* mss_
    NoDataAck,              \* UINT32_MAX: "no DATA segment accepted yet"
    InitialCwnd,            \* initialCwnd_
    InitialSsthresh,        \* initialSsthresh_
    MaxWindowSegments,      \* maxWindowSegments_
    MaxRetransmitRounds,    \* maxRetransmitRounds_
    AdvertisedWindow,       \* advertisedWindow_ of the receiver
    BufferCapacity,         \* datagrams one direction of the channel holds
    MaxFaults,              \* bound: faults of the network in one behaviour
    DataFaults,             \* faults the network may cause towards the receiver
    AckFaults,              \* faults the network may cause towards the sender
    SendErrors,             \* whether sendTo may report an error
    MayCancel,              \* the sides whose shouldCancel_ may become true
    PromptNetwork,          \* a socket timer never beats a datagram under way
    ReceiverPollsFaster     \* the receiver's socket timer is the shorter one

ASSUME BuffersAssumption == Buffers \subseteq Seq(Byte)
ASSUME SizeAssumption == MSS \in Nat \ {0} /\ BufferCapacity \in Nat
ASSUME WindowAssumption ==
    /\ InitialCwnd \in Nat \ {0} /\ MaxWindowSegments \in Nat \ {0}
    /\ InitialSsthresh \in Nat /\ AdvertisedWindow \in Nat
ASSUME BoundAssumption == MaxRetransmitRounds \in Nat /\ MaxFaults \in Nat

VARIABLES
    data,                   \* the buffer handed to sendData
    \* locals and fields of sendData
    sender,                 \* where sendData is, or what it has returned
    base, nextSeq, retryRnd, lastDuplicateAck, duplicateAckCount,
    cwnd,                   \* floor of cwnd_
    ssthresh,               \* ceiling of ssthresh_
    recvWindow, attempt,
    \* locals and fields of receiveData
    receiver,               \* "recv", or what receiveData has returned
    expectedSeq, outData,
    peerKnown,              \* whether senderIP has been set by a datagram
    \* environment
    toReceiver, toSender,   \* the two directions of the channel
    cancelled,              \* the sides whose shouldCancel_ now returns true
    faults                  \* faults so far

windowVars == <<base, nextSeq, retryRnd, lastDuplicateAck, duplicateAckCount,
                cwnd, ssthresh>>
senderVars == <<sender, windowVars, recvWindow, attempt>>
receiverVars == <<receiver, expectedSeq, outData, peerKnown>>
environmentVars == <<data, cancelled, faults>>
vars == <<senderVars, receiverVars, toReceiver, toSender, environmentVars>>

-----------------------------------------------------------------------------
Lesser(a, b) == IF a =< b THEN a ELSE b
Greater(a, b) == IF a >= b THEN a ELSE b

\* Mutant: rounding down forgets a short last segment.
NRoundedDown == IF data = <<>> THEN 1 ELSE Len(data) \div MSS

\* The segments of the data, from Segment(0) to Segment(N - 1).
N == SegmentCount(data, MSS)
Offset(i) == SegmentOffset(data, MSS, i)
Segment(i) == SegmentAt(data, MSS, i)

ASSUME SequenceSpaceAssumption ==
    /\ NoDataAck \in Nat
    /\ \A bytes \in Buffers : SegmentCount(bytes, MSS) =< NoDataAck

DataSegment(seq) ==
    [kind |-> "data", num |-> seq, payload |-> Segment(seq), ok |-> TRUE]
Fin == [kind |-> "fin", num |-> N, payload |-> <<>>, ok |-> TRUE]
Ack(num) == [kind |-> "ack", num |-> num, payload |-> <<>>, ok |-> TRUE]
FinAck(num) == [kind |-> "finack", num |-> num, payload |-> <<>>, ok |-> TRUE]

\* Mutants: ackNum as the next segment expected; no sentinel before seq 0.
CumulativeAckNext(expected) == Ack(expected)
CumulativeAckZero(expected) == Ack(IF expected = 0 THEN 0 ELSE expected - 1)

\* sendCumulativeAck acknowledges the last segment taken in order.
CumulativeAck(expected) ==
    Ack(IF expected = 0 THEN NoDataAck ELSE expected - 1)

Init == /\ data \in Buffers
        /\ sender = "top"
        /\ base = 0 /\ nextSeq = 0 /\ retryRnd = 0
        /\ lastDuplicateAck = NoDataAck /\ duplicateAckCount = 0
        /\ cwnd = InitialCwnd /\ ssthresh = InitialSsthresh
        /\ recvWindow = InitialSsthresh
        /\ attempt = 0
        /\ receiver = "recv" /\ expectedSeq = 0 /\ outData = <<>>
        /\ peerKnown = FALSE
        /\ toReceiver = <<>> /\ toSender = <<>>
        /\ cancelled = {} /\ faults = 0

\* Mutant: the cancellation callback is never installed.
NoCallback == FALSE

\* shouldCancel_ of either side.
SenderAborted == "sender" \in cancelled
ReceiverAborted == "receiver" \in cancelled

-----------------------------------------------------------------------------
(* Sender: windows.                                                         *)

\* computeEffectiveWindow.  A zero receive window counts as one segment.
EffectiveWindow ==
    Lesser(Greater(1, cwnd),
           Lesser(IF recvWindow = 0 THEN 1 ELSE recvWindow,
                  MaxWindowSegments))

\* The floor of cwnd_ after `acked` more segments are acknowledged.  Each one
\* adds 1 below ssthresh_ and 1/cwnd_ above it, capped by the maximal window.
\* As at most cwnd_ segments are in flight, all the additions above ssthresh_
\* together move the floor by at most one.
GrownCwnd(acked) ==
    LET least == Greater(cwnd, Lesser(cwnd + acked, ssthresh - 1))
        most  == IF cwnd + acked =< ssthresh THEN cwnd + acked
                                             ELSE Greater(cwnd, ssthresh) + 1
    IN  Lesser(least, MaxWindowSegments) .. Lesser(most, MaxWindowSegments)

\* The ceiling of max(cwnd_ / 2, 1), where cwnd is only the floor of cwnd_.
HalvedCwnd ==
    {Greater(1, (cwnd + 1) \div 2), Greater(1, (cwnd + 2) \div 2)}

\* Mutants: a round too many; a round not counted; nextSeq not taken back.
RoundLeftOffByOne == retryRnd =< MaxRetransmitRounds
CountRoundNot == UNCHANGED retryRnd
RestartWindowOnly == cwnd' = 1 /\ UNCHANGED nextSeq

\* ++retryRnd must not exceed maxRetransmitRounds_.
RoundLeft == retryRnd < MaxRetransmitRounds
CountRound == retryRnd' = retryRnd + 1
Restart == cwnd' = 1 /\ nextSeq' = base

\* Go-Back-N: the next burst starts over at base with a window of one.
GoBack == /\ RoundLeft
          /\ CountRound
          /\ ssthresh' \in HalvedCwnd
          /\ Restart
          /\ sender' = "top"
          /\ UNCHANGED <<base, lastDuplicateAck>>

-----------------------------------------------------------------------------
(* Sender: the data phase.  "top" is the head of the loop, "burst" the loop *)
(* that fills the window and the recvFrom that follows it.                  *)

Returns(result) == /\ sender' = result
                   /\ UNCHANGED <<windowVars, recvWindow, attempt>>

\* Mutant: the loop ends one segment early.
AllButOneAcked == base >= N - 1

AllAcked == base >= N
StartBurst == /\ sender = "top" /\ ~AllAcked
              /\ ~SenderAborted
              /\ sender' = "burst"
              /\ UNCHANGED <<windowVars, recvWindow, attempt, receiverVars,
                             toReceiver, toSender, environmentVars>>

CancelAtTop == /\ sender = "top" /\ ~AllAcked
               /\ SenderAborted
               /\ Returns("false")
               /\ UNCHANGED <<receiverVars, toReceiver, toSender,
                              environmentVars>>

AllAcknowledged == /\ sender = "top" /\ AllAcked
                   /\ sender' = "fin"
                   /\ UNCHANGED <<windowVars, recvWindow, attempt,
                                  receiverVars, toReceiver, toSender,
                                  environmentVars>>

HasRoom == nextSeq < N /\ nextSeq < base + EffectiveWindow

SendSegment == /\ sender = "burst" /\ HasRoom
               /\ toReceiver' = Push(toReceiver, DataSegment(nextSeq),
                                     BufferCapacity)
               /\ nextSeq' = nextSeq + 1
               /\ UNCHANGED <<sender, base, retryRnd, lastDuplicateAck,
                              duplicateAckCount, cwnd, ssthresh, recvWindow,
                              attempt, receiverVars, toSender,
                              environmentVars>>

\* sendTo reports an error: sendData gives up at once.
SendSegmentFails == /\ SendErrors
                    /\ sender = "burst" /\ HasRoom
                    /\ Returns("false")
                    /\ UNCHANGED <<receiverVars, toReceiver, toSender,
                                   environmentVars>>

SenderWaits == sender = "burst" /\ ~HasRoom

SenderReturned == sender \in {"true", "false"}

\* In a prompt network a timer runs out only when no datagram is under way to
\* a side that still reads.
Quiet == /\ toSender = <<>> \/ SenderReturned
         /\ toReceiver = <<>> \/ receiver # "recv"
SenderTimerFires == PromptNetwork => Quiet

\* shouldCancel_ is asked again after recvFrom, whatever recvFrom brought.
CancelAfterRecv == /\ SenderWaits /\ SenderAborted
                   /\ \/ toSender # <<>> /\ toSender' = Tail(toSender)
                      \/ SenderTimerFires /\ UNCHANGED toSender
                   /\ Returns("false")
                   /\ UNCHANGED <<receiverVars, toReceiver, environmentVars>>

SenderTimeout == /\ SenderWaits /\ ~SenderAborted
                 /\ SenderTimerFires
                 /\ GoBack
                 /\ UNCHANGED <<duplicateAckCount, recvWindow, attempt,
                                receiverVars, toReceiver, toSender,
                                environmentVars>>

TooManyTimeouts == /\ SenderWaits /\ ~SenderAborted
                   /\ SenderTimerFires
                   /\ ~RoundLeft
                   /\ Returns("false")
                   /\ UNCHANGED <<receiverVars, toReceiver, toSender,
                                  environmentVars>>

SenderReceives == /\ SenderWaits /\ ~SenderAborted
                  /\ toSender # <<>>
                  /\ toSender' = Tail(toSender)
                  /\ UNCHANGED <<attempt, receiverVars, toReceiver,
                                 environmentVars>>

IsAck(datagram) == datagram.ok /\ datagram.kind \in {"ack", "finack"}

\* A failed checksum or a datagram without FLAG_ACK.
IgnoreDatagram == /\ SenderReceives
                  /\ ~IsAck(Head(toSender))
                  /\ sender' = "top"
                  /\ UNCHANGED <<windowVars, recvWindow>>

\* Every ACK, whatever it acknowledges, updates the receive window first.
ReceiveAck == /\ SenderReceives
              /\ IsAck(Head(toSender))
              /\ recvWindow' = IF AdvertisedWindow > 0 THEN AdvertisedWindow
                                                       ELSE recvWindow

AckNum == Head(toSender).num
IsNewAck(ackNum) == ackNum >= base /\ ackNum < nextSeq /\ ackNum < N
IsDuplicateAck(ackNum) == ackNum < base \/ ackNum = NoDataAck

\* A cumulative ACK for segments of the current window slides it.
SlideWindow == /\ ReceiveAck
               /\ IsNewAck(AckNum)
               /\ cwnd' \in GrownCwnd(AckNum + 1 - base)
               /\ base' = AckNum + 1
               /\ retryRnd' = 0
               /\ duplicateAckCount' = 0
               /\ lastDuplicateAck' = NoDataAck
               /\ sender' = "top"
               /\ UNCHANGED <<nextSeq, ssthresh>>

DuplicatesSeen(ackNum) ==
    IF ackNum = lastDuplicateAck THEN duplicateAckCount + 1 ELSE 1

CountDuplicateAck == /\ ReceiveAck
                     /\ ~IsNewAck(AckNum) /\ IsDuplicateAck(AckNum)
                     /\ DuplicatesSeen(AckNum) < 3
                     /\ duplicateAckCount' = DuplicatesSeen(AckNum)
                     /\ lastDuplicateAck' = AckNum
                     /\ sender' = "top"
                     /\ UNCHANGED <<base, nextSeq, retryRnd, cwnd, ssthresh>>

\* The third duplicate ACK in a row retransmits without waiting for the timer.
FastRetransmit == /\ ReceiveAck
                  /\ ~IsNewAck(AckNum) /\ IsDuplicateAck(AckNum)
                  /\ DuplicatesSeen(AckNum) >= 3
                  /\ duplicateAckCount' = 0
                  /\ GoBack

TooManyFastRetransmits == /\ ReceiveAck
                          /\ ~IsNewAck(AckNum) /\ IsDuplicateAck(AckNum)
                          /\ DuplicatesSeen(AckNum) >= 3
                          /\ ~RoundLeft
                          /\ sender' = "false"
                          /\ UNCHANGED windowVars

\* An ACK at or beyond nextSeq is taken to be for a segment never sent.
IgnoreUnsentAck == /\ ReceiveAck
                   /\ ~IsNewAck(AckNum) /\ ~IsDuplicateAck(AckNum)
                   /\ sender' = "top"
                   /\ UNCHANGED windowVars

-----------------------------------------------------------------------------
(* Sender: the FIN handshake.  Each attempt sends one FIN and makes one     *)
(* recvFrom; whatever that brings, short of a FINACK, ends the attempt.     *)

SendFin == /\ sender = "fin" /\ attempt < MaxRetransmitRounds
           /\ ~SenderAborted
           /\ toReceiver' = Push(toReceiver, Fin, BufferCapacity)
           /\ sender' = "finwait"
           /\ attempt' = attempt + 1
           /\ UNCHANGED <<windowVars, recvWindow, receiverVars, toSender,
                          environmentVars>>

\* Mutant: the data is there, so the missing FINACK is not reported.
GiveUpUnreported == /\ sender = "fin"
                    /\ attempt >= MaxRetransmitRounds \/ SenderAborted
                    /\ Returns("true")
                    /\ UNCHANGED <<receiverVars, toReceiver, toSender,
                                   environmentVars>>

GiveUpOnFinAck == /\ sender = "fin"
                  /\ attempt >= MaxRetransmitRounds \/ SenderAborted
                  /\ Returns("false")
                  /\ UNCHANGED <<receiverVars, toReceiver, toSender,
                                 environmentVars>>

FinReceives == /\ sender = "finwait"
               /\ toSender # <<>>
               /\ toSender' = Tail(toSender)
               /\ UNCHANGED <<windowVars, recvWindow, attempt, receiverVars,
                              toReceiver, environmentVars>>

\* Mutant: any ACK is taken for a FINACK.
IsAnyAck(datagram) == datagram.kind \in {"ack", "finack"}

\* Only the flags are looked at: neither checksum, nor ackNum, nor endpoint.
IsFinAck(datagram) == datagram.kind = "finack"
ReceiveFinAck == /\ FinReceives
                 /\ IsFinAck(Head(toSender))
                 /\ sender' = "true"

ReceiveOtherThanFinAck == /\ FinReceives
                          /\ ~IsFinAck(Head(toSender))
                          /\ sender' = "fin"

FinTimeout == /\ sender = "finwait" /\ SenderTimerFires
              /\ sender' = "fin"
              /\ UNCHANGED <<windowVars, recvWindow, attempt, receiverVars,
                             toReceiver, toSender, environmentVars>>

-----------------------------------------------------------------------------
(* Receiver.                                                                *)

Acknowledge(expected) ==
    toSender' = Push(toSender, CumulativeAck(expected), BufferCapacity)

\* A receiver whose timer is much longer than the sender's (the standalone
\* programs: 8000 ms and 500 ms) does not time out while the sender is active.
ReceiverTimerFires ==
    PromptNetwork =>
        /\ Quiet
        /\ \/ SenderReturned
           \/ ReceiverPollsFaster /\ (SenderWaits \/ sender = "finwait")

\* shouldCancel_ is asked before recvFrom and again after it.
ReceiverCancelled == /\ receiver = "recv" /\ ReceiverAborted
                     /\ receiver' = "false"
                     /\ \/ UNCHANGED <<toReceiver, peerKnown>>
                        \/ /\ toReceiver # <<>>
                           /\ toReceiver' = Tail(toReceiver)
                           /\ peerKnown' = TRUE
                     /\ UNCHANGED <<senderVars, expectedSeq, outData, toSender,
                                    environmentVars>>

\* recvFrom timed out: repeat the last ACK.  As long as no datagram has named
\* a sender there is nobody to send it to and the timeout changes nothing.
ReceiverTimeout == /\ receiver = "recv" /\ ~ReceiverAborted
                   /\ peerKnown
                   /\ ReceiverTimerFires
                   /\ Acknowledge(expectedSeq)
                   /\ UNCHANGED <<senderVars, receiverVars, toReceiver,
                                  environmentVars>>

\* recvFrom records where every datagram came from, valid or not.
ReceiverReceives == /\ receiver = "recv" /\ ~ReceiverAborted
                    /\ toReceiver # <<>>
                    /\ toReceiver' = Tail(toReceiver)
                    /\ peerKnown' = TRUE
                    /\ UNCHANGED <<senderVars, environmentVars>>

RejectDatagram == /\ ReceiverReceives
                  /\ ~Head(toReceiver).ok
                  /\ Acknowledge(expectedSeq)
                  /\ UNCHANGED <<receiver, expectedSeq, outData>>

\* Mutant: a gap is accepted.
IsInOrderOrLater(datagram) == datagram.num >= expectedSeq

\* Mutant: the flags of a damaged datagram count.
IsFinUnchecked(datagram) == datagram.kind = "fin"

IsFin(datagram) == datagram.ok /\ datagram.kind = "fin"
IsData(datagram) == datagram.ok /\ datagram.kind = "data"
IsInOrder(datagram) == datagram.num = expectedSeq

\* A FIN ends the stream; its seqNum is not compared with expectedSeq_.
ReceiveFin == /\ ReceiverReceives
              /\ IsFin(Head(toReceiver))
              /\ toSender' = Push(toSender, FinAck(Head(toReceiver).num),
                                  BufferCapacity)
              /\ receiver' = "true"
              /\ UNCHANGED <<expectedSeq, outData>>

ReceiveInOrder == /\ ReceiverReceives
                  /\ IsData(Head(toReceiver))
                  /\ IsInOrder(Head(toReceiver))
                  /\ outData' = outData \o Head(toReceiver).payload
                  /\ expectedSeq' = expectedSeq + 1
                  /\ Acknowledge(expectedSeq + 1)
                  /\ UNCHANGED receiver

ReceiveOutOfOrder == /\ ReceiverReceives
                     /\ IsData(Head(toReceiver))
                     /\ ~IsInOrder(Head(toReceiver))
                     /\ Acknowledge(expectedSeq)
                     /\ UNCHANGED <<receiver, expectedSeq, outData>>

-----------------------------------------------------------------------------
(* Environment.                                                             *)

NetworkFault == /\ faults < MaxFaults
                /\ faults' = faults + 1
                /\ \/ /\ toReceiver' \in AfterFault(toReceiver, DataFaults,
                                                    BufferCapacity)
                      /\ UNCHANGED toSender
                   \/ /\ toSender' \in AfterFault(toSender, AckFaults,
                                                  BufferCapacity)
                      /\ UNCHANGED toReceiver
                /\ UNCHANGED <<senderVars, receiverVars, data, cancelled>>

\* The session sees an ABOR: from now on shouldCancel_ returns true.
Abort(side) == /\ side \notin cancelled
               /\ cancelled' = cancelled \union {side}
               /\ UNCHANGED <<senderVars, receiverVars, toReceiver, toSender,
                              data, faults>>

-----------------------------------------------------------------------------
SenderStep == \/ StartBurst \/ CancelAtTop \/ AllAcknowledged
              \/ SendSegment \/ CancelAfterRecv
              \/ IgnoreDatagram \/ SlideWindow \/ CountDuplicateAck
              \/ FastRetransmit \/ TooManyFastRetransmits \/ IgnoreUnsentAck
              \/ SendFin \/ GiveUpOnFinAck
              \/ ReceiveFinAck \/ ReceiveOtherThanFinAck
SenderTimer == SenderTimeout \/ TooManyTimeouts \/ FinTimeout
ReceiverStep == \/ ReceiverCancelled \/ RejectDatagram \/ ReceiveFin
                \/ ReceiveInOrder \/ ReceiveOutOfOrder

Next == \/ SenderStep \/ SenderTimer \/ SendSegmentFails
        \/ ReceiverStep \/ ReceiverTimeout
        \/ NetworkFault
        \/ \E side \in MayCancel : Abort(side)

Spec == Init /\ [][Next]_vars

\* The threads run and their socket timers fire; the network's faults and the
\* user's ABOR are never forced.
FairSpec == /\ Spec
            /\ WF_vars(SenderStep) /\ WF_vars(SenderTimer)
            /\ WF_vars(ReceiverStep) /\ WF_vars(ReceiverTimeout)
=============================================================================
