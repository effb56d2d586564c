--------------------------- MODULE DataSocketReuse ---------------------------
(***************************************************************************)
(* Several transfers over the client's one active UDP socket.  PORT binds  *)
(* m_activeSocket once and every RETR, LIST and STOR that follows uses it, *)
(* whereas the session opens a fresh socket for each of them.  Whatever    *)
(* one transfer leaves in the client's socket is therefore still there for *)
(* the next one, and the receiver asks of no datagram where it came from.  *)
(*                                                                         *)
(* Each transfer is a SlidingWindow of its own; the network loses          *)
(* datagrams but keeps their order, and no transfer is aborted: Ctrl-C     *)
(* ends the client and with it the socket.                                 *)
(***************************************************************************)
EXTENDS Datagrams, Integers

CONSTANTS
    Byte, MSS, NoDataAck, InitialCwnd, InitialSsthresh, MaxWindowSegments,
    MaxRetransmitRounds, AdvertisedWindow, BufferCapacity, MaxFaults,
    PromptNetwork, ReceiverPollsFaster,     \* as in SlidingWindow
    Payloads,               \* the data of the first, second, ... transfer
    Directions              \* what a transfer may be

ASSUME PayloadsAssumption == Payloads \in Seq(Seq(Byte)) /\ Payloads # <<>>
ASSUME SizeAssumption == MSS \in Nat \ {0}
ASSUME SequenceSpaceAssumption ==
    /\ NoDataAck \in Nat
    /\ \A bytes \in Range(Payloads) : SegmentCount(bytes, MSS) =< NoDataAck
ASSUME DirectionsAssumption == Directions \subseteq {"download", "upload"}

VARIABLES
    transfer,               \* the number of the current transfer
    direction,              \* "download" or "upload"
    stale,                  \* datagrams of earlier transfers at the head of
                            \* the client's socket
    allSucceeded,           \* every earlier sendData has returned true
    sender, base, nextSeq, retryRnd, lastDuplicateAck, duplicateAckCount,
    cwnd, ssthresh, recvWindow, attempt,
    receiver, expectedSeq, outData, peerKnown,
    toReceiver, toSender, faults            \* as in SlidingWindow

reuseVars == <<transfer, direction, stale, allSucceeded>>
windowVars == <<base, nextSeq, retryRnd, lastDuplicateAck, duplicateAckCount,
                cwnd, ssthresh, recvWindow, attempt>>
vars == <<reuseVars, sender, windowVars, receiver, expectedSeq, outData,
          peerKnown, toReceiver, toSender, faults>>

\* The current transfer.
Window == INSTANCE SlidingWindow
              WITH data <- Payloads[transfer], Buffers <- Range(Payloads),
                   DataFaults <- {}, AckFaults <- {}, SendErrors <- FALSE,
                   MayCancel <- {}, cancelled <- {}

\* The locals of sendData and receiveData at the start of a transfer.
FreshWindow ==
    /\ base' = 0 /\ nextSeq' = 0 /\ retryRnd' = 0
    /\ lastDuplicateAck' = NoDataAck /\ duplicateAckCount' = 0
    /\ cwnd' = InitialCwnd /\ ssthresh' = InitialSsthresh
    /\ recvWindow' = InitialSsthresh
    /\ attempt' = 0
    /\ receiver' = "recv" /\ expectedSeq' = 0 /\ outData' = <<>>
    /\ peerKnown' = FALSE

\* The client of an upload first waits for the server's knock.
FirstState(way) == IF way = "upload" THEN "knock" ELSE "top"

Init == /\ transfer = 1 /\ direction \in Directions
        /\ stale = 0 /\ allSucceeded = TRUE
        /\ sender = FirstState(direction)
        /\ base = 0 /\ nextSeq = 0 /\ retryRnd = 0
        /\ lastDuplicateAck = NoDataAck /\ duplicateAckCount = 0
        /\ cwnd = InitialCwnd /\ ssthresh = InitialSsthresh
        /\ recvWindow = InitialSsthresh
        /\ attempt = 0
        /\ receiver = "recv" /\ expectedSeq = 0 /\ outData = <<>>
        /\ peerKnown = FALSE
        /\ toReceiver = <<>> /\ toSender = <<>> /\ faults = 0

-----------------------------------------------------------------------------
(* The two ends of the current transfer.                                    *)

\* The end that sends is the server's in a download, the client's in an
\* upload.  It never meets a stale datagram: the server's socket is fresh, and
\* a knock that was the server's came after all of them.
SendingEnd == /\ UNCHANGED reuseVars
              /\ Window!SenderStep \/ Window!SenderTimer

ReceivingEnd == /\ stale = 0
                /\ UNCHANGED reuseVars
                /\ Window!ReceiverStep \/ Window!ReceiverTimeout

\* receiveData takes what an earlier transfer has left as it takes everything:
\* any datagram with FLAG_FIN ends it, DATA counts by its number alone.  What
\* it answers goes to a socket that the server has closed.
TakeStale == /\ direction = "download" /\ stale > 0
             /\ receiver = "recv"
             /\ toReceiver' = Tail(toReceiver)
             /\ stale' = stale - 1
             /\ LET datagram == Head(toReceiver)
                IN  \/ /\ datagram.kind \in {"fin", "finack"}
                       /\ receiver' = "true"
                       /\ UNCHANGED <<expectedSeq, outData>>
                    \/ /\ datagram.kind = "data"
                       /\ datagram.num = expectedSeq
                       /\ outData' = outData \o datagram.payload
                       /\ expectedSeq' = expectedSeq + 1
                       /\ UNCHANGED receiver
                    \/ /\ \/ datagram.kind = "ack"
                          \/ /\ datagram.kind = "data"
                             /\ datagram.num # expectedSeq
                       /\ UNCHANGED <<receiver, expectedSeq, outData>>
             /\ UNCHANGED <<transfer, direction, allSucceeded, sender,
                            windowVars, peerKnown, toSender, faults>>

-----------------------------------------------------------------------------
(* The knock that opens an upload.                                          *)

KnockArrives == /\ sender = "knock" /\ stale = 0
                /\ sender' = "top"
                /\ UNCHANGED <<reuseVars, windowVars, receiver, expectedSeq,
                               outData, peerKnown, toReceiver, toSender,
                               faults>>

\* recvFrom times out: "Active data handshake failed".
KnockLost == /\ sender = "knock" /\ stale = 0
             /\ faults < MaxFaults
             /\ faults' = faults + 1
             /\ sender' = "false"
             /\ UNCHANGED <<reuseVars, windowVars, receiver, expectedSeq,
                            outData, peerKnown, toReceiver, toSender>>

\* Any datagram is taken for the knock.  An earlier transfer's names a socket
\* that the server has closed: all of the upload goes there, every other
\* datagram is ignored, and the sender's rounds are used up.
UploadGoesAstray == /\ sender = "knock" /\ stale > 0
                    /\ sender' = "false"
                    /\ toSender' = <<>> /\ stale' = 0
                    /\ UNCHANGED <<transfer, direction, allSucceeded,
                                   windowVars, receiver, expectedSeq, outData,
                                   peerKnown, toReceiver, faults>>

-----------------------------------------------------------------------------
SenderReturned == sender \in {"true", "false"}
BothReturned == SenderReturned /\ receiver # "recv"

ClientQueue == IF direction = "download" THEN toReceiver ELSE toSender

\* The client keeps its socket, and what is in it, as long as the port stays.
StartsWith(queue) == queue

\* The session closes its socket; what is under way to it is lost.
NextTransfer == /\ BothReturned /\ transfer < Len(Payloads)
                /\ transfer' = transfer + 1
                /\ allSucceeded' = (allSucceeded /\ sender = "true")
                /\ FreshWindow
                /\ \E way \in Directions :
                       LET kept == StartsWith(ClientQueue)
                       IN  /\ direction' = way
                           /\ stale' = Len(kept)
                           /\ sender' = FirstState(way)
                           /\ toReceiver' = IF way = "download" THEN kept
                                                                ELSE <<>>
                           /\ toSender' = IF way = "upload" THEN kept ELSE <<>>
                /\ UNCHANGED faults

\* A datagram of the current transfer is lost.
Lose == /\ faults < MaxFaults
        /\ faults' = faults + 1
        /\ \/ /\ \E i \in DOMAIN toReceiver :
                     /\ i > stale \/ direction = "upload"
                     /\ toReceiver' = RemoveAt(toReceiver, i)
              /\ UNCHANGED toSender
           \/ /\ \E i \in DOMAIN toSender :
                     /\ i > stale \/ direction = "download"
                     /\ toSender' = RemoveAt(toSender, i)
              /\ UNCHANGED toReceiver
        /\ UNCHANGED <<reuseVars, sender, windowVars, receiver, expectedSeq,
                       outData, peerKnown>>

Next == \/ SendingEnd \/ ReceivingEnd \/ TakeStale
        \/ KnockArrives \/ KnockLost \/ UploadGoesAstray
        \/ NextTransfer \/ Lose

Spec == Init /\ [][Next]_vars

-----------------------------------------------------------------------------
(* Properties.                                                              *)

\* As long as every sender has been told that it succeeded, a transfer starts
\* with nothing of the transfers before it in the client's socket: no repeated
\* FIN and no late ACK is left behind.
SuccessLeavesNothing == allSucceeded => stale = 0

\* Over a socket whose transfers have all succeeded the next stream is kept
\* apart from them: the receiver collects a prefix of its own data, and all of
\* it when receiveData returns true.
StreamsAreSeparate ==
    allSucceeded =>
        /\ IsPrefix(outData, Payloads[transfer])
        /\ receiver = "true" => outData = Payloads[transfer]

\* sendData never reports that an earlier transfer's bytes were its own: a
\* sender whose predecessors have all succeeded, or who has only one, succeeds
\* only if its receiver has exactly the data of this transfer.
SuccessIsOwnDelivery ==
    (allSucceeded \/ transfer =< 2) /\ sender = "true"
        => outData = Payloads[transfer]

\* receiveData returns true only when it has taken all data up to the FIN, in
\* order, of the transfer it was called for.
ReceivedIsComplete == receiver = "true" => outData = Payloads[transfer]
=============================================================================
