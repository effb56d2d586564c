------------------------------ MODULE Session ------------------------------
(***************************************************************************)
(* The server's side of one control connection (Session.cpp): the thread   *)
(* of handle_client_thread, the SessionState it owns, one action for each  *)
(* command handle_command answers and for each way a data transfer ends.   *)
(*                                                                         *)
(* The two directions of the TCP connection are FIFO queues, of command    *)
(* lines and of reply codes.  A line is its verb and the class of its      *)
(* argument: "none", the letter of TYPE and MODE, "ok" or "bad" for an     *)
(* argument the handler accepts or not, "zero" for a PORT with port 0.     *)
(* What the file system answers is a free choice.                          *)
(*                                                                         *)
(* The data channel is the promise of ReliableStream: a sender is told     *)
(* that it succeeded only after the receiver has everything, a receiver    *)
(* never gives up by itself.                                               *)
(***************************************************************************)
EXTENDS Naturals, Sequences

CONSTANTS
    Commands,       \* the command lines a client may send
    Troubles        \* what may go wrong on a data channel, see below

\* "socket"      the server cannot open a UDP socket
\* "knock"       a knock datagram is lost
\* "knockfails"  the server cannot send its knock
\* "giveup"      the server's RDT sender gives up on a client still there
\* "uploadfails" the client's RDT sender gives up on a server still there, or
\*               on the FINACK of one that has everything
\* "unreadable"  the file of a RETR cannot be read after all
\* "localfile"   the client cannot create its local file
\* "stray"       a datagram of one transfer is left in the client's socket
ASSUME TroublesAssumption ==
    Troubles \subseteq {"socket", "knock", "knockfails", "giveup", "uploadfails",
                   "unreadable", "localfile", "stray"}

Verbs == {"empty", "invalid", "QUIT", "NOOP", "USER", "PASS", "TYPE", "MODE",
          "PORT", "PASV", "CWD", "SIZE", "HASH", "RNFR", "RNTO", "LIST",
          "RETR", "STOR", "STOU", "ABOR"}
Arguments == {"none", "ok", "bad", "zero", "A", "I", "S", "B", "C"}
ASSUME CommandsAssumption ==
    Commands \subseteq [name : Verbs, arg : Arguments]

VARIABLES
    server,         \* what the session's thread is doing
    serving,        \* the transfer command being carried out, or "none"
    \* SessionState
    loginState,
    renameFrom,     \* whether it holds a "path" or "none"
    transferType, transferMode,
    dataMode,
    activePort,     \* "none", "zero" or "ok"
    passiveSocket,  \* "closed", "open" or "knocked": a knock waits in it
    \* the control connection
    toServer, toClient,
    hungUp,         \* whether the client has closed it
    \* the data channel
    activeKnock,    \* a knock waits in the client's active socket
    data            \* how far the transfer's data has come

identity == <<loginState, renameFrom>>
representation == <<transferType, transferMode>>
endpoint == <<dataMode, activePort, passiveSocket>>
channel == <<activeKnock, data>>
sessionVars == <<server, serving, identity, representation, endpoint,
                 toServer, toClient, hungUp, channel>>

\* The banner 220 has been sent and read.
SessionInit ==
    /\ server = "reading" /\ serving = "none"
    /\ loginState = "NotLoggedIn" /\ renameFrom = "none"
    /\ transferType = "A" /\ transferMode = "S"
    /\ dataMode = "NONE" /\ activePort = "none" /\ passiveSocket = "closed"
    /\ toServer = <<>> /\ toClient = <<>> /\ hungUp = FALSE
    /\ activeKnock = FALSE /\ data = "none"

-----------------------------------------------------------------------------
(* handle_command.                                                          *)

Reply(codes) == toClient' = toClient \o codes
Arg == Head(toServer).arg
LoggedIn == loginState = "LoggedIn"

\* read_line brings one of the given commands.
Reads(names) == /\ server = "reading"
                /\ toServer # <<>>
                /\ Head(toServer).name \in names
                /\ toServer' = Tail(toServer)
                /\ UNCHANGED hungUp

\* Mutant: RNFR is remembered until RNTO comes, whatever comes in between.
KeepsRename == UNCHANGED renameFrom

\* Any command but RNTO cancels a pending rename.
CancelsRename == renameFrom' = "none"

StaysIdle == UNCHANGED <<server, serving>>

SkipEmptyLine == /\ Reads({"empty"})
                 /\ UNCHANGED <<server, serving, identity, representation,
                                endpoint, channel, toClient>>

RejectInvalidLine == /\ Reads({"invalid"})
                     /\ CancelsRename
                     /\ Reply(<<500>>)
                     /\ StaysIdle
                     /\ UNCHANGED <<loginState, representation, endpoint,
                                    channel>>

HandleQuit == /\ Reads({"QUIT"})
              /\ CancelsRename
              /\ \/ Arg # "none" /\ Reply(<<501>>) /\ UNCHANGED server
                 \/ Arg = "none" /\ Reply(<<221>>) /\ server' = "closed"
              /\ UNCHANGED <<serving, loginState, representation, endpoint,
                             channel>>

HandleNoop == /\ Reads({"NOOP"})
              /\ CancelsRename
              /\ Reply(IF Arg = "none" THEN <<200>> ELSE <<501>>)
              /\ StaysIdle
              /\ UNCHANGED <<loginState, representation, endpoint, channel>>

\* USER starts the login over, also in the middle of a session.
HandleUser == /\ Reads({"USER"})
              /\ CancelsRename
              /\ \/ Arg = "none" /\ Reply(<<501>>) /\ UNCHANGED loginState
                 \/ /\ Arg # "none"
                    /\ loginState' = "UsernameAccepted"
                    /\ Reply(<<331>>)
              /\ StaysIdle
              /\ UNCHANGED <<representation, endpoint, channel>>

HandlePass ==
    /\ Reads({"PASS"})
    /\ CancelsRename
    /\ \/ Arg = "none" /\ Reply(<<501>>) /\ UNCHANGED loginState
       \/ /\ Arg # "none" /\ loginState # "UsernameAccepted"
          /\ Reply(<<503>>)
          /\ UNCHANGED loginState
       \/ /\ Arg # "none" /\ loginState = "UsernameAccepted"
          /\ loginState' = "LoggedIn"
          /\ Reply(<<230>>)
    /\ StaysIdle
    /\ UNCHANGED <<representation, endpoint, channel>>

FreeCommands == {"empty", "invalid", "QUIT", "NOOP", "USER", "PASS"}

RefuseStranger ==
    /\ Reads(Verbs \ FreeCommands)
    /\ ~LoggedIn
    /\ IF Head(toServer).name = "RNTO" THEN UNCHANGED renameFrom
                                       ELSE CancelsRename
    /\ Reply(<<530>>)
    /\ StaysIdle
    /\ UNCHANGED <<loginState, representation, endpoint, channel>>

\* Mutant: the commands below the login gate are answered without a login.
ServesStranger(names) == Reads(names) /\ UNCHANGED loginState

\* The commands below the login gate.
Serves(names) == /\ Reads(names)
                 /\ LoggedIn
                 /\ UNCHANGED loginState

\* Mutant: any letter is a type.
AnyType == Arguments

KnownTypes == {"A", "I"}

HandleType == /\ Serves({"TYPE"})
              /\ CancelsRename
              /\ \/ /\ Arg \in KnownTypes
                    /\ transferType' = Arg
                    /\ Reply(<<200>>)
                 \/ /\ Arg \notin KnownTypes
                    /\ Reply(<<501>>)
                    /\ UNCHANGED transferType
              /\ StaysIdle
              /\ UNCHANGED <<transferMode, endpoint, channel>>

HandleMode == /\ Serves({"MODE"})
              /\ CancelsRename
              /\ \/ /\ Arg \in {"S", "B", "C"}
                    /\ transferMode' = Arg
                    /\ Reply(<<200>>)
                 \/ /\ Arg \notin {"S", "B", "C"}
                    /\ Reply(<<501>>)
                    /\ UNCHANGED transferMode
              /\ StaysIdle
              /\ UNCHANGED <<transferType, endpoint, channel>>

\* Mutant: PORT leaves the passive socket open.
KeepsPassiveSocket == UNCHANGED passiveSocket

\* A closed socket loses the knock that waits in it.
ClosesPassiveSocket == passiveSocket' = "closed"

\* Port 0 is accepted here and refused only when a transfer needs it.
HandlePort == /\ Serves({"PORT"})
              /\ CancelsRename
              /\ \/ /\ Arg \in {"none", "bad"}
                    /\ Reply(<<501>>)
                    /\ UNCHANGED <<endpoint, channel>>
                 \/ /\ Arg \in {"ok", "zero"}
                    /\ dataMode' = "ACTIVE"
                    /\ activePort' = Arg
                    /\ ClosesPassiveSocket
                    /\ Reply(<<200>>)
                    /\ UNCHANGED channel
              /\ StaysIdle
              /\ UNCHANGED representation

\* A PASV that cannot open its socket leaves the previous one in place.
HandlePasv == /\ Serves({"PASV"})
              /\ CancelsRename
              /\ \/ /\ "socket" \in Troubles
                    /\ Reply(<<425>>)
                    /\ UNCHANGED endpoint
                 \/ /\ passiveSocket' = "open"
                    /\ dataMode' = "PASSIVE"
                    /\ Reply(<<227>>)
                    /\ UNCHANGED activePort
              /\ StaysIdle
              /\ UNCHANGED <<representation, channel>>

\* The commands that only look at or change the file system.  They stand for
\* one another: CWD for PWD, RMD, CDUP and MKD; SIZE for STAT, MDTM, HELP and
\* DELE; HASH for itself and for a verb nobody knows.  The client tells their
\* replies from none but 200, 227, 150 and 125, which they never give.
Answers(name) == /\ Serves({name})
                 /\ CancelsRename
                 /\ Reply(<<250>>) \/ Reply(<<550>>)
                 /\ StaysIdle
                 /\ UNCHANGED <<representation, endpoint, channel>>
HandleDirectoryCommand == Answers("CWD")
HandleFileCommand == Answers("SIZE")
HandleHash == Answers("HASH")

HandleRnfr == /\ Serves({"RNFR"})
              /\ \/ Arg = "none" /\ CancelsRename /\ Reply(<<501>>)
                 \/ Arg # "none" /\ CancelsRename /\ Reply(<<550>>)
                 \/ Arg # "none" /\ renameFrom' = "path" /\ Reply(<<350>>)
              /\ StaysIdle
              /\ UNCHANGED <<representation, endpoint, channel>>

HandleRnto == /\ Serves({"RNTO"})
              /\ CancelsRename
              /\ \/ Arg = "none" /\ Reply(<<501>>)
                 \/ Arg # "none" /\ renameFrom = "none" /\ Reply(<<503>>)
                 \/ /\ Arg # "none" /\ renameFrom = "path"
                    /\ Reply(<<250>>) \/ Reply(<<550>>)
              /\ StaysIdle
              /\ UNCHANGED <<representation, endpoint, channel>>

-----------------------------------------------------------------------------
(* The transfers.                                                           *)

\* Mutant: the data channel is not looked at.
OpensAlways == TRUE

\* open_data_channel; a fresh active socket is needed, a passive one is there.
ChannelOpens == \/ dataMode = "PASSIVE" /\ passiveSocket # "closed"
                \/ dataMode = "ACTIVE" /\ activePort = "ok"
ChannelFails == \/ ~ChannelOpens
                \/ dataMode = "ACTIVE" /\ "socket" \in Troubles

\* The passive socket serves one transfer; an active endpoint is kept.
ReleaseChannel ==
    \/ dataMode # "PASSIVE" /\ UNCHANGED endpoint
    \/ /\ dataMode = "PASSIVE"
       /\ dataMode' = "NONE"
       /\ ClosesPassiveSocket
       /\ UNCHANGED activePort

Refuses(codes) == /\ Reply(codes)
                  /\ StaysIdle
                  /\ UNCHANGED <<endpoint, channel>>

Begins(command, state) == server' = state /\ serving' = command

\* A passive server first waits for the knock that tells it where to send.
BeginsSending(command) ==
    /\ Reply(<<150>>)
    /\ \/ /\ dataMode = "PASSIVE"
          /\ Begins(command, "awaitKnock")
          /\ data' = "none"
       \/ /\ dataMode = "ACTIVE"
          /\ Begins(command, "sending")
          /\ data' = "flowing"
    /\ UNCHANGED <<endpoint, activeKnock>>

\* LIST and NLST.  The channel is opened after the 150, so that a failure
\* answers three times.
HandleList == /\ Serves({"LIST"})
              /\ CancelsRename
              /\ \/ Refuses(<<550>>)
                 \/ dataMode = "NONE" /\ Refuses(<<425>>)
                 \/ /\ dataMode # "NONE" /\ ChannelFails
                    /\ Refuses(<<150, 425, 426>>)
                 \/ ChannelOpens /\ BeginsSending("LIST")
              /\ UNCHANGED representation

HandleRetr == /\ Serves({"RETR"})
              /\ CancelsRename
              /\ \/ Arg = "none" /\ Refuses(<<501>>)
                 \/ Arg # "none" /\ Refuses(<<550>>)
                 \/ Arg # "none" /\ ChannelFails /\ Refuses(<<425>>)
                 \/ /\ Arg # "none" /\ ChannelOpens /\ dataMode = "ACTIVE"
                    /\ "unreadable" \in Troubles
                    /\ Refuses(<<150, 451>>)
                 \/ Arg # "none" /\ ChannelOpens /\ BeginsSending("RETR")
              /\ UNCHANGED representation

\* Mutant: the command and receiveFileOverDataChannel both announce the data.
AnnouncesTwice(opening) ==
    IF opening = <<>> THEN <<150, 150>> ELSE opening \o <<150>>

Announces(opening) == IF opening = <<>> THEN <<150>> ELSE opening

\* receiveFileOverDataChannel up to receiveBuffer.  A "bad" name leads out of
\* the root.  An active server tells the client with a knock where to send.
OpensUpload(opening) ==
    \/ ChannelFails /\ Refuses(opening \o <<425>>)
    \/ ChannelOpens /\ Arg = "bad" /\ Refuses(opening \o <<550>>)
    \/ /\ ChannelOpens /\ Arg # "bad"
       /\ dataMode = "ACTIVE" /\ "knockfails" \in Troubles
       /\ Refuses(Announces(opening) \o <<425>>)
    \/ /\ ChannelOpens /\ Arg # "bad"
       /\ Reply(Announces(opening))
       /\ Begins("STOR", "receiving")
       /\ data' = "none"
       /\ activeKnock' = (dataMode = "ACTIVE")
       /\ UNCHANGED endpoint

\* STOR and APPE.
HandleStor == /\ Serves({"STOR"})
              /\ CancelsRename
              /\ \/ Arg = "none" /\ Refuses(<<501>>)
                 \/ Arg # "none" /\ OpensUpload(<<>>)
              /\ UNCHANGED representation

\* STOU answers 125 before it knows whether there is a data channel.
HandleStou == /\ Serves({"STOU"})
              /\ CancelsRename
              /\ OpensUpload(<<125>>)
              /\ UNCHANGED representation

\* An ABOR that finds no transfer: the data channel is reset, and it is
\* answered twice, like one that ends a transfer.
AborClosesChannel == dataMode' = "NONE" /\ ClosesPassiveSocket
HandleAbor == /\ Serves({"ABOR"})
              /\ CancelsRename
              /\ AborClosesChannel
              /\ Reply(<<426, 226>>)
              /\ StaysIdle
              /\ UNCHANGED <<representation, activePort, channel>>

Ends(codes) == /\ Reply(codes)
               /\ server' = "reading"
               /\ serving' = "none"
               /\ UNCHANGED <<identity, representation, activeKnock, hungUp>>

KnockArrives == /\ server = "awaitKnock" /\ passiveSocket = "knocked"
                /\ passiveSocket' = "open"
                /\ server' = "sending"
                /\ data' = IF data = "dropped" THEN data ELSE "flowing"
                /\ UNCHANGED <<serving, identity, representation, dataMode,
                               activePort, toServer, toClient, hungUp,
                               activeKnock>>

KnockButUnreadable == /\ server = "awaitKnock" /\ passiveSocket = "knocked"
                      /\ serving = "RETR" /\ "unreadable" \in Troubles
                      /\ ReleaseChannel
                      /\ Ends(<<451>>)
                      /\ UNCHANGED <<toServer, data>>

\* No knock within 10 seconds.  RETR leaves the passive socket open.
KnockTimeout == /\ server = "awaitKnock" /\ passiveSocket # "knocked"
                /\ \/ serving = "LIST" /\ ReleaseChannel /\ Ends(<<426>>)
                   \/ serving = "RETR" /\ Ends(<<425>>)
                      /\ UNCHANGED endpoint
                /\ UNCHANGED <<toServer, data>>

SendSucceeds == /\ server = "sending" /\ data = "delivered"
                /\ ReleaseChannel
                /\ Ends(<<226>>)
                /\ UNCHANGED <<toServer, data>>

\* The sender's rounds are used up: the receiver has stopped, or is too far.
SendGivesUp == /\ server = "sending"
               /\ data = "dropped" \/ "giveup" \in Troubles
               /\ ReleaseChannel
               /\ Ends(<<426>>)
               /\ data' = IF data = "delivered" THEN data ELSE "dropped"
               /\ UNCHANGED toServer

\* consume_pending_abor: an ABOR is taken only if it is the next line.
TakeAbor == /\ toServer # <<>>
            /\ Head(toServer) = [name |-> "ABOR", arg |-> "none"]
            /\ toServer' = Tail(toServer)

\* Mutant: the abort is answered once.
AbortAnsweredOnce == <<426>>

\* The transfer and the ABOR that ended it are answered each.
AbortReplies == <<426, 226>>

\* Only file transfers look for an ABOR; LIST does not.
SendAborted == /\ server = "sending" /\ serving = "RETR"
               /\ TakeAbor
               /\ ReleaseChannel
               /\ Ends(AbortReplies)
               /\ data' = IF data = "delivered" THEN data ELSE "dropped"

\* All data has arrived.  Decoding or writing it may still fail.
Stored == /\ server = "receiving" /\ data = "flowing"
          /\ data' = "delivered"
          /\ ReleaseChannel
          /\ Ends(<<226>>) \/ Ends(<<551>>)
          /\ UNCHANGED toServer

ReceiveAborted == /\ server = "receiving"
                  /\ TakeAbor
                  /\ ReleaseChannel
                  /\ Ends(AbortReplies)
                  /\ data' = "dropped"

\* Mutant: the end of the connection is taken for an empty line.
NoEnd == FALSE

\* recv returns 0: the client has closed the connection.
EndOfConnection == toServer = <<>> /\ hungUp

EndOfInput == /\ server = "reading" /\ EndOfConnection
              /\ server' = "closed"
              /\ UNCHANGED <<serving, identity, representation, endpoint,
                             toServer, toClient, hungUp, channel>>

HandleCommand ==
    \/ SkipEmptyLine \/ RejectInvalidLine \/ HandleQuit \/ HandleNoop
    \/ HandleUser \/ HandlePass \/ RefuseStranger \/ HandleType \/ HandleMode
    \/ HandlePort \/ HandlePasv \/ HandleDirectoryCommand
    \/ HandleFileCommand \/ HandleHash \/ HandleRnfr \/ HandleRnto
    \/ HandleList \/ HandleRetr \/ HandleStor \/ HandleStou \/ HandleAbor

Transfer == \/ KnockArrives \/ KnockButUnreadable \/ KnockTimeout
            \/ SendSucceeds \/ SendGivesUp \/ SendAborted
            \/ Stored \/ ReceiveAborted

Serve == HandleCommand \/ Transfer \/ EndOfInput
=============================================================================
