------------------------ MODULE FtpControlProperties ------------------------
(***************************************************************************)
(* What the client and the session must keep true together.                *)
(***************************************************************************)
EXTENDS FtpControl

AtPrompt == client \in {"head", "prompt"}

\* Each variable of the client stays within its type, and it has a line in
\* hand exactly while it carries out a command.
ClientTypeOK ==
    /\ client \in {"head", "prompt", "await", "pasv", "opening", "knock",
                   "transfer", "aborted", "final", "abor", "quit", "gone"}
    /\ clientType \in {"A", "I"} /\ clientMode \in {"S", "B", "C"}
    /\ clientActive \in BOOLEAN /\ aborted \in BOOLEAN
    /\ abortSent \in BOOLEAN
    /\ line \in Lines \union {NoLine}
    /\ AtPrompt => line = NoLine

-----------------------------------------------------------------------------
(* Safety.                                                                  *)

\* When the client asks for the next command, every line it sent has been taken
\* and every reply has been read by the command it belongs to; unless a transfer
\* was interrupted, or ABOR was typed, or a transfer has failed on the client's
\* side only, which are the returns that leave replies behind.
InStep == ~abortSent /\ ~leftEarly
RepliesPaired == AtPrompt /\ InStep => toServer = <<>> /\ toClient = <<>>

\* By then the server is done with the last command too, and waits for a line;
\* except for an upload the user has interrupted before the client had the knock
\* of the server.  The server waits for its data then, but the client is at the
\* head of its loop on the way out, where ABOR comes next, and never at the
\* prompt.
UploadInterrupted ==
    client = "head" /\ aborted /\ leftEarly /\ server = "receiving"
ServerIdle == AtPrompt /\ ~abortSent => server = "reading" \/ UploadInterrupted

\* Client and server have the same type and mode, except while the reply that
\* changes one of them is under way; so they have during every transfer, unless
\* replies were left behind.
SameRepresentation ==
    \/ client = "await" /\ line.name \in {"TYPE", "MODE"}
    \/ clientType = transferType /\ clientMode = transferMode
RepresentationAgreed == leftEarly \/ SameRepresentation

\* "Change local state only after the server accepted the command, so both
\* sides always apply the same data-channel representation" (ClientCLI.cpp).
AlwaysSameRepresentation == SameRepresentation

\* A client that will transfer over its active socket has a server that knows
\* the socket's address.
EndpointAgreed ==
    AtPrompt /\ clientActive /\ InStep =>
        dataMode = "ACTIVE" /\ activePort = "ok"

\* The reply a finished transfer reports to the user is its own: a download
\* that is complete reports 226, a completed upload 226 or 551.
FinalReplyIsOwn ==
    [][client = "final" /\ ~abortSent /\ client' = "head" =>
           \/ Head(toClient) = 226
           \/ Head(toClient) = 551 /\ ~Downloads]_vars

-----------------------------------------------------------------------------
(* Liveness.                                                                *)

\* Every command comes back to the prompt, or ends the client.
CommandReturns == client \notin {"prompt", "gone"}
                      ~> client \in {"prompt", "gone"}

\* The client has given up an upload whose data the server still waits for, and
\* no ABOR is the next line to end that: the server looks at nothing else.
UploadAbandoned ==
    /\ leftEarly /\ server = "receiving"
    /\ IF toServer = <<>> THEN hungUp ELSE Head(toServer).name # "ABOR"

\* Ctrl-C ends the client, whatever it is doing and whatever has gone wrong;
\* unless an upload is abandoned.
SignalEndsClient == aborted ~> client = "gone" \/ UploadAbandoned

\* The session ends when its client has gone, and with it the thread; with the
\* same exception.
SessionEnds == hungUp ~> server = "closed" \/ UploadAbandoned
=============================================================================
