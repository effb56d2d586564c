--------------------------- MODULE ReliableStream ---------------------------
(***************************************************************************)
(* What the data channel promises to the code above it (RDTSender,         *)
(* RDTReceiver and, through them, RETR, STOR and LIST): the receiver's     *)
(* buffer is at all times a prefix of the sender's data, receiveData       *)
(* returns true only with all of it, and sendData returns true only when   *)
(* the receiver has all of it.  Either side may give up at any time.       *)
(***************************************************************************)
EXTENDS Naturals, Sequences

CONSTANT Buffers            \* what sendData may be called with

VARIABLES data,             \* the bytes handed to sendData
          delivered,        \* outData of receiveData
          sender,           \* what sendData has returned, or "running"
          receiver          \* what receiveData has returned, or "running"

vars == <<data, delivered, sender, receiver>>

Results == {"running", "true", "false"}

Init == /\ data \in Buffers
        /\ delivered = <<>>
        /\ sender = "running"
        /\ receiver = "running"

\* More of the data arrives, in order and without gaps.
Deliver == /\ receiver = "running"
           /\ \E n \in Len(delivered) .. Len(data) :
                  delivered' = SubSeq(data, 1, n)
           /\ UNCHANGED <<data, sender, receiver>>

ReceiveDataReturnsTrue == /\ receiver = "running"
                          /\ delivered = data
                          /\ receiver' = "true"
                          /\ UNCHANGED <<data, delivered, sender>>

ReceiveDataReturnsFalse == /\ receiver = "running"
                           /\ receiver' = "false"
                           /\ UNCHANGED <<data, delivered, sender>>

SendDataReturnsTrue == /\ sender = "running"
                       /\ delivered = data
                       /\ sender' = "true"
                       /\ UNCHANGED <<data, delivered, receiver>>

SendDataReturnsFalse == /\ sender = "running"
                        /\ sender' = "false"
                        /\ UNCHANGED <<data, delivered, receiver>>

Next == \/ Deliver
        \/ ReceiveDataReturnsTrue \/ ReceiveDataReturnsFalse
        \/ SendDataReturnsTrue \/ SendDataReturnsFalse

Spec == Init /\ [][Next]_vars
=============================================================================
