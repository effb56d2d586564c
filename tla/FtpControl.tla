----------------------------- MODULE FtpControl -----------------------------
(***************************************************************************)
(* The FTP client (ClientCLI.cpp and the callbacks of main_client.cpp)     *)
(* with the Session that serves it.  The client's thread runs the prompt,  *)
(* sends a command line and reads the replies it expects; in a transfer it *)
(* also runs its end of the data channel.  A signal may set m_aborted at   *)
(* any time.  The two programs keep their own idea of type, mode and data  *)
(* mode, and only the replies keep them together.                          *)
(***************************************************************************)
EXTENDS Session

CONSTANTS
    Lines,          \* the command lines a user may type, as they are sent
    MayInterrupt,   \* whether the user may press Ctrl-C
    MaxUnread       \* bound: lines and replies unread when the user types

ASSUME MaxUnreadAssumption == MaxUnread \in Nat
\* handlePort refuses port 0 before anything is sent.
ASSUME LinesAssumption ==
    Lines \subseteq Commands \ {[name |-> "PORT", arg |-> "zero"]}
ASSUME ClientCommandsAssumption ==
    {[name |-> name, arg |-> "none"] : name \in {"PASV", "ABOR", "QUIT"}}
        \subseteq Commands

VARIABLES
    client,                 \* where the client's thread is
    line,                   \* the command line it is carrying out
    clientType,             \* m_transferType
    clientMode,             \* m_transferMode
    clientActive,           \* m_dataMode is Active, with m_activeSocket bound
    stray,                  \* what an earlier transfer has left in that socket:
                            \* "none", "fin", "knock" or "data"
    leftEarly,              \* whether a command has returned with replies of
                            \* its own still to come (observes the client)
    aborted,                \* m_aborted
    abortSent               \* m_abortCommandSent

settings == <<clientType, clientMode, clientActive>>
clientState == <<settings, stray, leftEarly>>
signals == <<aborted, abortSent>>
clientVars == <<client, line, clientState, signals>>
vars == <<sessionVars, clientVars>>

Command(name) == [name |-> name, arg |-> "none"]
NoLine == Command("empty")

Init == /\ SessionInit
        /\ client = "head" /\ line = NoLine
        /\ clientType = "A" /\ clientMode = "S" /\ clientActive = FALSE
        /\ stray = "none" /\ leftEarly = FALSE
        /\ aborted = FALSE /\ abortSent = FALSE

-----------------------------------------------------------------------------
Sends(command) == toServer' = Append(toServer, command)

\* Reading a reply takes it from the control connection.
Gets(codes) == /\ toClient # <<>>
               /\ Head(toClient) \in codes
               /\ toClient' = Tail(toClient)
Codes == {125, 150, 200, 221, 226, 227, 230, 250, 331, 350,
          425, 426, 451, 500, 501, 503, 530, 550, 551}

sessionThread == <<server, serving, identity, representation, endpoint>>

\* Mutant: the line of the last command is kept.
BackWithLine == client' = "head" /\ UNCHANGED line

\* run() goes back to its loop head after each command.
BackToHead == client' = "head" /\ line' = NoLine

\* Some returns of a transfer leave the server's last reply unread.
LeavesEarly == BackToHead /\ leftEarly' = TRUE

\* The head of run(): is there a signal?
ShowPrompt == /\ client = "head" /\ ~aborted
              /\ client' = "prompt"
              /\ UNCHANGED <<line, clientState, signals, sessionVars>>

\* A signal is answered with ABOR, unless a transfer has sent it, and QUIT.
LeaveAfterSignal == /\ client = "head" /\ aborted
                    /\ \/ /\ ~abortSent
                          /\ Sends(Command("ABOR"))
                          /\ client' = "abor"
                       \/ /\ abortSent
                          /\ Sends(Command("QUIT"))
                          /\ client' = "quit"
                    /\ UNCHANGED <<line, clientState, signals, sessionThread,
                                   toClient, hungUp, channel>>

AborAnswered == /\ client = "abor" /\ Gets(Codes)
                /\ Sends(Command("QUIT"))
                /\ client' = "quit"
                /\ UNCHANGED <<line, clientState, signals, sessionThread,
                               hungUp, channel>>

\* The reply to QUIT is not looked at; main then closes the connection.
QuitAnswered == /\ client = "quit" /\ Gets(Codes)
                /\ client' = "gone"
                /\ hungUp' = TRUE
                /\ UNCHANGED <<line, clientState, signals, sessionThread,
                               toServer, channel>>

\* getline fails: at the end of the input QUIT is sent, after a signal not.
EndOfTyping == /\ client = "prompt"
               /\ \/ /\ ~aborted
                     /\ Sends(Command("QUIT"))
                     /\ client' = "quit"
                     /\ UNCHANGED hungUp
                  \/ /\ aborted
                     /\ client' = "gone"
                     /\ hungUp' = TRUE
                     /\ UNCHANGED toServer
               /\ UNCHANGED <<line, clientState, signals, sessionThread,
                              toClient, channel>>

-----------------------------------------------------------------------------
(* Commands that need the control connection only.                          *)

TransferVerbs == {"LIST", "RETR", "STOR", "STOU"}

TypeCommand == /\ client = "prompt" /\ ~aborted
               /\ Len(toServer) <= MaxUnread /\ Len(toClient) <= MaxUnread
               /\ \E typed \in Lines :
                      /\ typed.name \notin TransferVerbs
                      /\ Sends(typed)
                      /\ line' = typed
               /\ client' = "await"
               /\ UNCHANGED <<clientState, signals, sessionThread, toClient,
                              hungUp, channel>>

\* Mutant: the mode is changed whatever the server answers.
AnyReply(code) == TRUE

\* The client changes its own state only when the server has accepted.
Accepted(code) == code = 200

ReplyArrives ==
    /\ client = "await" /\ Gets(Codes)
    /\ LET code == Head(toClient)
           takes(name, letters) == /\ line.name = name
                                   /\ line.arg \in letters
                                   /\ Accepted(code)
       IN  /\ clientType' = IF takes("TYPE", {"A", "I"})
                            THEN line.arg ELSE clientType
           /\ clientMode' = IF takes("MODE", {"S", "B", "C"})
                            THEN line.arg ELSE clientMode
           /\ clientActive' = \/ line.name = "PORT" /\ Accepted(code)
                              \/ /\ ~(line.name = "PASV" /\ code = 227)
                                 /\ clientActive
           /\ stray' = IF clientActive' THEN stray ELSE "none"
           /\ leftEarly' = (leftEarly \/ (line.name = "ABOR" /\ code = 426))
    /\ IF line.name = "QUIT"
       THEN client' = "gone" /\ hungUp' = TRUE /\ UNCHANGED line
       ELSE BackToHead /\ UNCHANGED hungUp
    /\ UNCHANGED <<signals, sessionThread, toServer, channel>>

-----------------------------------------------------------------------------
(* Transfers: handleRetr, handleStor and handleList.                        *)

\* A passive client asks for a new passive socket for every transfer.
TypeTransfer == /\ client = "prompt" /\ ~aborted
                /\ Len(toServer) <= MaxUnread /\ Len(toClient) <= MaxUnread
                /\ \E typed \in Lines :
                       /\ typed.name \in TransferVerbs
                       /\ line' = typed
                       /\ IF clientActive
                          THEN Sends(typed) /\ client' = "opening"
                          ELSE Sends(Command("PASV")) /\ client' = "pasv"
                /\ UNCHANGED <<clientState, signals, sessionThread, toClient,
                               hungUp, channel>>

Downloads == line.name \in {"LIST", "RETR"}

\* Mutant: the client forgets to knock.
KnocksNot == UNCHANGED passiveSocket

\* A knock goes to the socket the reply names, which is the server's current
\* one unless other replies are still to come.
Knocks == IF Downloads /\ Tail(toClient) = <<>> /\ toServer = <<>>
          THEN \/ passiveSocket' = "knocked"
               \/ "knock" \in Troubles /\ UNCHANGED passiveSocket
          ELSE UNCHANGED passiveSocket

PasvAnswered == /\ client = "pasv" /\ Gets({227})
                /\ Knocks
                /\ Sends(line)
                /\ client' = "opening"
                /\ UNCHANGED <<line, clientState, signals, server, serving,
                               identity, representation, dataMode, activePort,
                               hungUp, channel>>

PasvRefused == /\ client = "pasv" /\ Gets(Codes \ {227})
               /\ BackToHead
               /\ UNCHANGED <<clientState, signals, sessionThread, toServer,
                              hungUp, channel>>

\* Mutant: the 125 of STOU is taken for a refusal.
OnlyOpening150 == {150}

Opening == IF Downloads THEN {150} ELSE {125, 150}

TransferRefused == /\ client = "opening" /\ Gets(Codes \ Opening)
                   /\ BackToHead
                   /\ UNCHANGED <<clientState, signals, sessionThread,
                                  toServer, hungUp, channel>>

DownloadOpened == /\ client = "opening" /\ Downloads /\ Gets(Opening)
                  /\ client' = "transfer"
                  /\ UNCHANGED <<line, clientState, signals, sessionThread,
                                 toServer, hungUp, channel>>

\* The first data of an upload reaches a server that is waiting for it; one that
\* has refused a STOU after its 125, or has sent no knock, is not.
Uploads == data' = IF server = "receiving" THEN "flowing" ELSE "dropped"

UploadOpened == /\ client = "opening" /\ ~Downloads /\ Gets(Opening)
                /\ IF clientActive
                   THEN client' = "knock" /\ UNCHANGED data
                   ELSE client' = "transfer" /\ Uploads
                /\ UNCHANGED <<line, clientState, signals, sessionThread,
                               toServer, hungUp, activeKnock>>

ServerKnocked == /\ client = "knock" /\ activeKnock /\ stray = "none"
                 /\ activeKnock' = FALSE
                 /\ client' = "transfer"
                 /\ Uploads
                 /\ UNCHANGED <<line, clientState, signals, sessionThread,
                                toServer, toClient, hungUp>>

\* Any datagram of sufficient length is taken for the knock.  The data then
\* goes where that one came from, where nobody listens any more.
StrayKnocked == /\ client = "knock" /\ stray # "none"
                /\ stray' \in {IF activeKnock THEN "knock" ELSE "none"}
                                 \union ({"data"} \intersect {stray})
                /\ activeKnock' = FALSE
                /\ client' = "transfer"
                /\ data' = "dropped"
                /\ UNCHANGED <<line, settings, leftEarly, signals,
                               sessionThread, toServer, toClient, hungUp>>

\* No knock from the server in time: handleStor returns.
NoKnock == /\ client = "knock" /\ stray = "none"
           /\ activeKnock => "knock" \in Troubles
           /\ activeKnock' = FALSE
           /\ \/ UNCHANGED stray
              \/ activeKnock /\ "stray" \in Troubles /\ stray' = "knock"
           /\ LeavesEarly
           /\ UNCHANGED <<settings, signals, sessionThread, toServer,
                          toClient, hungUp, data>>

\* A signal ends the one recvFrom that waits for the knock: a receive on a socket
\* with a timeout is not restarted, and handleStor takes it for no knock.  The
\* knock comes all the same.
KnockInterrupted ==
    /\ client = "knock" /\ stray = "none" /\ aborted
    /\ activeKnock' = FALSE
    /\ stray' = IF activeKnock THEN "knock" ELSE "none"
    /\ LeavesEarly
    /\ UNCHANGED <<settings, signals, sessionThread, toServer, toClient,
                   hungUp, data>>

\* decode: what one mode has encoded may decode in another one by chance, but
\* blocks never do when the client expects them compressed.  A stream takes
\* anything.  Data of an earlier transfer may be the first that is taken.
MayDecode == transferMode = "B" /\ clientMode = "C" => stray = "data"
MayFailToDecode == /\ clientMode # "S"
                   /\ clientMode # transferMode \/ stray = "data"

\* The refusal of an opened LIST has two replies, of which one will be read.
RefusedTwice == \E i \in DOMAIN toClient : toClient[i] = 425

\* The receiver has returned, with what decodes or fails to.
ReceiverReturns(decodes, fails) ==
    \/ /\ decodes
       /\ client' = "final"
       /\ leftEarly' = (leftEarly \/ RefusedTwice)
       /\ UNCHANGED line
    \/ /\ \/ fails
          \/ "localfile" \in Troubles /\ line.name = "RETR"
       /\ LeavesEarly

\* The receiver has everything.  If its FINACK is lost, the next FIN finds the
\* receiver gone and waits in the active socket.
Received == /\ client = "transfer" /\ Downloads /\ data = "flowing"
            /\ data' = "delivered"
            /\ \/ stray' = "none"
               \/ clientActive /\ "stray" \in Troubles /\ stray' = "fin"
            /\ ReceiverReturns(MayDecode, MayFailToDecode)
            /\ UNCHANGED <<settings, signals, sessionThread, toServer,
                           toClient, hungUp, activeKnock>>

\* The server goes on sending this download, or has given it up.
ServerSends == data = "flowing" \/ (data = "dropped" /\ toClient = <<426>>)

\* The FIN of an earlier download ends this one before it has begun, or
\* although the server has refused it.  Only a stream may be empty.  The data the
\* server sends all the same stays in the active socket.
StrayFinEndsDownload ==
    /\ client = "transfer" /\ Downloads /\ clientActive /\ stray = "fin"
    /\ stray' \in IF ServerSends THEN {"none", "data"} ELSE {"none"}
    /\ data' = "dropped"
    /\ ReceiverReturns(clientMode = "S", clientMode # "S")
    /\ UNCHANGED <<settings, signals, sessionThread, toServer, toClient,
                   hungUp, activeKnock>>

\* A sender waiting for its ACKs reads whatever else is in the socket.
Sent == /\ client = "transfer" /\ ~Downloads /\ data = "delivered"
        /\ client' = "final"
        /\ stray' = "none"
        /\ UNCHANGED <<line, settings, leftEarly, signals, sessionVars>>

\* The sender's rounds are used up: handleStor returns.  The server may have
\* stored everything and only its FINACK be lost: its reply is not read then.
SenderGaveUp == /\ client = "transfer" /\ ~Downloads
                /\ data \in {"flowing", "delivered"}
                       => "uploadfails" \in Troubles
                /\ data' = IF data = "delivered" THEN data ELSE "dropped"
                /\ stray' = "none"
                /\ LeavesEarly
                /\ UNCHANGED <<settings, signals, sessionThread, toServer,
                               toClient, hungUp, activeKnock>>

\* sendAbortWithoutWaiting, called by the cancellation callback of either end.
\* What an upload has already sent may still complete it.
SendAbort == IF abortSent THEN UNCHANGED toServer ELSE Sends(Command("ABOR"))

TransferAborted == /\ client = "transfer" /\ aborted
                   /\ SendAbort
                   /\ abortSent' = TRUE
                   /\ \/ data' = IF data = "delivered" THEN data ELSE "dropped"
                      \/ ~Downloads /\ UNCHANGED data
                   /\ client' = "aborted"
                   /\ UNCHANGED <<line, clientState, aborted, sessionThread,
                                  toClient, hungUp, activeKnock>>

\* An aborted transfer reads two replies, a completed one reads one.
FirstAbortReply == /\ client = "aborted" /\ Gets(Codes)
                   /\ client' = "final"
                   /\ UNCHANGED <<line, clientState, signals, sessionThread,
                                  toServer, hungUp, channel>>

FinalReply == /\ client = "final" /\ Gets(Codes)
              /\ BackToHead
              /\ UNCHANGED <<clientState, signals, sessionThread, toServer,
                             hungUp, channel>>

\* SIGINT or SIGTERM.
Signal == /\ MayInterrupt /\ ~aborted /\ client # "gone"
          /\ aborted' = TRUE
          /\ UNCHANGED <<client, line, clientState, abortSent, sessionVars>>

-----------------------------------------------------------------------------
CliStep == \/ ShowPrompt \/ LeaveAfterSignal \/ AborAnswered \/ QuitAnswered
           \/ ReplyArrives \/ PasvAnswered \/ PasvRefused \/ TransferRefused
           \/ DownloadOpened \/ UploadOpened \/ ServerKnocked
           \/ StrayKnocked \/ NoKnock \/ KnockInterrupted
           \/ Received \/ StrayFinEndsDownload \/ Sent \/ SenderGaveUp
           \/ TransferAborted \/ FirstAbortReply \/ FinalReply
UserStep == EndOfTyping \/ TypeCommand \/ TypeTransfer

ServeStep == Serve /\ UNCHANGED clientVars

Next == CliStep \/ UserStep \/ Signal \/ ServeStep

Spec == Init /\ [][Next]_vars

\* Both threads run.  The user need not type a command or press Ctrl-C, but who
\* has pressed it also ends the line: the handler has set failbit, and getline
\* returns false once the read it restarts has brought a line.
FairSpec == /\ Spec
            /\ WF_vars(CliStep) /\ WF_vars(ServeStep)
            /\ WF_vars(EndOfTyping /\ aborted)
=============================================================================
