-------------------------- MODULE FtpControlProofs --------------------------
(***************************************************************************)
(* Proofs about FtpControl.tla: that client and server stay together, for  *)
(* any lines a user may type, any time a signal may come and any troubles. *)
(***************************************************************************)
EXTENDS FtpControlProperties, SequenceTheorems, TLAPS

-----------------------------------------------------------------------------
(* Where the two stand in a command, as long as no replies were left behind *)
(* and no ABOR is under way.                                                *)

AtRest == toServer = <<>> /\ toClient = <<>> /\ server = "reading"
Asked(command) ==
    toServer = <<command>> /\ toClient = <<>> /\ server = "reading"
Answered(codes) ==
    toServer = <<>> /\ toClient = codes /\ server = "reading"
Busy == server \in {"awaitKnock", "sending", "receiving"}
Working(codes) == toServer = <<>> /\ toClient = codes /\ Busy

SameSettings == clientType = transferType /\ clientMode = transferMode
ActiveIs(active) == active => dataMode = "ACTIVE" /\ activePort = "ok"
Agreed == SameSettings /\ ActiveIs(clientActive)

\* What ReplyArrives makes of the client's settings.
TypeAfter(code) == IF line.name = "TYPE" /\ line.arg \in {"A", "I"} /\ code = 200
                   THEN line.arg ELSE clientType
ModeAfter(code) ==
    IF line.name = "MODE" /\ line.arg \in {"S", "B", "C"} /\ code = 200
    THEN line.arg ELSE clientMode
ActiveAfter(code) == \/ line.name = "PORT" /\ code = 200
                     \/ /\ ~(line.name = "PASV" /\ code = 227)
                        /\ clientActive
AgreedAfter(code) == /\ transferType = TypeAfter(code)
                     /\ transferMode = ModeAfter(code)
                     /\ ActiveIs(ActiveAfter(code))

AwaitPosition ==
    \/ Asked(line) /\ Agreed
    \/ \E code \in Codes :
           /\ toServer = <<>> /\ toClient = <<code>>
           /\ \/ server = "reading"
              \/ server = "closed" /\ line.name = "QUIT"
           /\ AgreedAfter(code)
    \/ line.name = "ABOR" /\ Answered(<<426, 226>>) /\ SameSettings
    \/ line.name = "empty" /\ AtRest /\ Agreed

PasvPosition ==
    /\ ~clientActive /\ SameSettings
    /\ \/ Asked(Command("PASV"))
       \/ \E code \in Codes : /\ Answered(<<code>>)
                              /\ code = 227 => dataMode = "PASSIVE"

OpeningPosition ==
    /\ Agreed
    /\ \/ Asked(line)
       \/ \E code \in Codes \ Opening : Answered(<<code>>)
       \/ \E open \in Opening : \/ Working(<<open>>)
                                \/ \E code \in Codes : Answered(<<open, code>>)
       \/ Downloads /\ Answered(<<150, 425, 426>>)

TransferPosition ==
    /\ Agreed
    /\ \/ Working(<<>>)
       \/ \E code \in Codes : Answered(<<code>>)
       \/ Downloads /\ Answered(<<425, 426>>)

FinalPosition ==
    /\ Agreed
    /\ Working(<<>>) \/ \E code \in Codes : Answered(<<code>>)

Position ==
    /\ AtPrompt => AtRest /\ Agreed
    /\ client = "await" => AwaitPosition
    /\ client = "pasv" => PasvPosition
    /\ client = "opening" => OpeningPosition
    /\ client = "knock" => TransferPosition /\ ~Downloads
    /\ client = "transfer" => TransferPosition
    /\ client = "final" => FinalPosition

\* A client on its way out changes no setting any more.
Leaving == abortSent \/ client \in {"abor", "quit", "gone"}
NoSetting(queue) == \A i \in 1 .. Len(queue) :
                        queue[i].name \notin {"TYPE", "MODE"}
SettingsStay == SameSettings /\ NoSetting(toServer)

LineInHand ==
    /\ client = "await" => line \in Lines /\ line.name \notin TransferVerbs
    /\ client \in {"pasv", "opening", "knock", "transfer", "aborted",
                   "final"} =>
           line \in Lines /\ line.name \in TransferVerbs

\* What holds wherever the client is.
Bookkeeping ==
    /\ ClientTypeOK /\ LineInHand
    /\ toServer \in Seq(Commands) /\ leftEarly \in BOOLEAN
    /\ abortSent => aborted /\ client \in {"aborted", "final", "head", "quit",
                                           "gone"}
    /\ client = "aborted" => abortSent
    /\ hungUp => client = "gone"

Standing == /\ ~leftEarly /\ Leaving => SettingsStay
            /\ ~leftEarly /\ ~Leaving => Position

ControlInv == Bookkeeping /\ Standing

-----------------------------------------------------------------------------
(* Where they stand when nothing goes wrong but the user's Ctrl-C.          *)

\* No troubles; no ABOR at the prompt, which is answered twice; no STOU with a
\* name that leads out of the root, which is refused after its 125.
Untroubled ==
    /\ Troubles = {}
    /\ \A typed \in Lines : /\ typed.name # "ABOR"
                            /\ typed # [name |-> "STOU", arg |-> "bad"]

\* The server is to carry out the transfer the client is waiting for.
Begun(codes) ==
    /\ Working(codes)
    /\ \/ /\ Downloads /\ server = "awaitKnock"
          /\ data = "none" /\ passiveSocket = "knocked"
       \/ Downloads /\ server = "sending" /\ data = "flowing"
       \/ /\ ~Downloads /\ server = "receiving"
          /\ data = "none" /\ (clientActive => activeKnock)

UploadAnswered == \E code \in {226, 551} : Answered(<<code>>)

SmoothPosition ==
    /\ client = "opening" =>
           \/ /\ Asked(line) /\ ChannelOpens
              /\ Downloads /\ dataMode = "PASSIVE" => passiveSocket = "knocked"
           \/ \E code \in Codes \ Opening : Answered(<<code>>)
           \/ \E open \in Opening : Begun(<<open>>)
    /\ client = "knock" => Begun(<<>>) /\ ~Downloads /\ activeKnock
    /\ client = "transfer" /\ Downloads => Begun(<<>>)
    /\ client = "transfer" /\ ~Downloads =>
           \/ Working(<<>>) /\ server = "receiving" /\ data = "flowing"
           \/ UploadAnswered /\ data = "delivered"
    /\ client = "final" /\ Downloads =>
           \/ Working(<<>>) /\ server = "sending" /\ data = "delivered"
           \/ Answered(<<226>>)
    /\ client = "final" /\ ~Downloads => UploadAnswered

\* A passive session has its socket, and nothing is left over.
SocketOpen == dataMode = "PASSIVE" => passiveSocket # "closed"
NothingLeft == ~leftEarly /\ stray = "none"

SmoothSoFar == ~Leaving => NothingLeft /\ SocketOpen /\ SmoothPosition

\* Ctrl-C has ended the wait for the server's knock; ABOR will end the upload.
Interrupted == /\ client = "head" /\ aborted /\ leftEarly
               /\ server = "receiving" /\ toServer = <<>> /\ data = "none"

SmoothInv == SmoothSoFar \/ Interrupted

-----------------------------------------------------------------------------
(* Queues.                                                                  *)

\* A command put into an empty queue is alone in it.
LEMMA FirstInQueue == ASSUME NEW x PROVE Append(<<>>, x) = <<x>>
OBVIOUS

LEMMA OneInQueue ==
    ASSUME NEW x PROVE <<x>> # <<>> /\ Head(<<x>>) = x /\ Tail(<<x>>) = <<>>
OBVIOUS

LEMMA TwoInQueue ==
    ASSUME NEW x, NEW y
    PROVE  <<x, y>> # <<>> /\ Head(<<x, y>>) = x /\ Tail(<<x, y>>) = <<y>>
OBVIOUS

\* A reply that follows one still unread.
LEMMA SecondReply ==
    ASSUME NEW S, NEW x \in S, NEW y \in S
    PROVE  <<x>> \o <<y>> = <<x, y>>
<1> DEFINE first == <<x>>
           second == <<y>>
           both == <<x, y>>
<1>1. first \in Seq(S) /\ second \in Seq(S) /\ both \in Seq(S)
  OBVIOUS
<1>2. Len(first) = 1 /\ Len(second) = 1 /\ Len(both) = 2
  OBVIOUS
<1>3. first[1] = x /\ second[1] = y /\ both[1] = x /\ both[2] = y
  OBVIOUS
<1> HIDE DEF first, second, both
<1>4. /\ first \o second \in Seq(S) /\ Len(first \o second) = 2
      /\ (first \o second)[1] = x /\ (first \o second)[2] = y
  BY <1>1, <1>2, <1>3, ConcatProperties
<1>5. \A i \in 1 .. Len(both) : (first \o second)[i] = both[i]
  BY <1>2, <1>3, <1>4
<1>6. first \o second = both
  BY <1>1, <1>2, <1>4, <1>5, SeqEqual
<1> QED
  BY <1>6 DEF first, second, both

\* A queue without TYPE and MODE stays so when one is taken out or a command of
\* another kind is added.
LEMMA NoSettingInRest ==
    ASSUME NEW queue \in Seq(Commands), queue # <<>>, NoSetting(queue)
    PROVE  /\ Head(queue).name \notin {"TYPE", "MODE"}
           /\ Tail(queue) \in Seq(Commands) /\ NoSetting(Tail(queue))
<1>1. /\ Tail(queue) \in Seq(Commands) /\ Len(Tail(queue)) = Len(queue) - 1
      /\ \A i \in 1 .. Len(Tail(queue)) : Tail(queue)[i] = queue[i + 1]
  BY HeadTailProperties
<1>2. Len(queue) \in Nat /\ Len(queue) > 0 /\ Head(queue) = queue[1]
  BY EmptySeq, LenProperties
<1> QED
  BY <1>1, <1>2 DEF NoSetting

LEMMA NoSettingAppended ==
    ASSUME NEW queue \in Seq(Commands), NoSetting(queue),
           NEW command, command.name \notin {"TYPE", "MODE"}
    PROVE  NoSetting(Append(queue, command))
BY DEF NoSetting

LEMMA NoSettingAtFirst ==
    ASSUME NEW command, command.name \notin {"TYPE", "MODE"}
    PROVE  NoSetting(<<>>) /\ NoSetting(<<command>>)
BY DEF NoSetting

-----------------------------------------------------------------------------
(* The client's steps.                                                      *)

LEMMA ClientCommands ==
    ASSUME NEW name \in {"PASV", "ABOR", "QUIT"}
    PROVE  /\ Command(name) \in Commands
           /\ Command(name).name \notin {"TYPE", "MODE"}
BY ClientCommandsAssumption DEF Command

\* Every step of the client keeps its own variables in order.
LEMMA ClientKeepsBooks ==
    ASSUME Bookkeeping, CliStep \/ UserStep \/ Signal
    PROVE  Bookkeeping'
<1> USE DEF Bookkeeping, ClientTypeOK, LineInHand, AtPrompt
<1>1. ASSUME NEW command \in Commands, Sends(command)
      PROVE  toServer' \in Seq(Commands)
  BY <1>1 DEF Sends
<1>2. CASE ShowPrompt
  BY <1>2 DEF ShowPrompt, clientState, settings, signals, sessionVars
<1>3. CASE LeaveAfterSignal
  BY <1>1, <1>3, ClientCommands
     DEF LeaveAfterSignal, clientState, settings, signals
<1>4. CASE AborAnswered
  BY <1>1, <1>4, ClientCommands
     DEF AborAnswered, clientState, settings, signals
<1>5. CASE QuitAnswered
  BY <1>5 DEF QuitAnswered, clientState, settings, signals
<1>6. CASE EndOfTyping
  BY <1>1, <1>6, ClientCommands
     DEF EndOfTyping, clientState, settings, signals
<1>7. CASE TypeCommand
  BY <1>1, <1>7, LinesAssumption
     DEF TypeCommand, clientState, settings, signals
<1>8. CASE ReplyArrives
  BY <1>8 DEF ReplyArrives, BackToHead, Accepted, signals
<1>9. CASE TypeTransfer
  BY <1>1, <1>9, LinesAssumption, ClientCommands
     DEF TypeTransfer, clientState, settings, signals
<1>10. CASE PasvAnswered
  BY <1>1, <1>10, LinesAssumption
     DEF PasvAnswered, clientState, settings, signals
<1>11. CASE PasvRefused \/ TransferRefused
  BY <1>11
     DEF PasvRefused, TransferRefused, BackToHead, clientState, settings,
         signals
<1>12. CASE DownloadOpened \/ UploadOpened
  BY <1>12
     DEF DownloadOpened, UploadOpened, clientState, settings, signals
<1>13. CASE ServerKnocked \/ StrayKnocked
  BY <1>13
     DEF ServerKnocked, StrayKnocked, clientState, settings, signals
<1>14. CASE NoKnock \/ KnockInterrupted \/ SenderGaveUp
  <2>1. /\ UNCHANGED <<settings, signals, toServer, hungUp>> /\ LeavesEarly
        /\ client \in {"knock", "transfer"}
    BY <1>14 DEF NoKnock, KnockInterrupted, SenderGaveUp
  <2> QED
    BY <2>1 DEF LeavesEarly, BackToHead, settings, signals
<1>15. CASE Received \/ StrayFinEndsDownload
  <2>1. /\ UNCHANGED <<settings, signals, toServer, hungUp>>
        /\ client = "transfer"
        /\ \E decodes, fails \in BOOLEAN : ReceiverReturns(decodes, fails)
    BY <1>15
       DEF Received, StrayFinEndsDownload, MayDecode, MayFailToDecode
  <2>2. leftEarly' \in BOOLEAN
    BY <2>1 DEF ReceiverReturns, LeavesEarly
  <2> QED
    BY <2>1, <2>2
       DEF ReceiverReturns, LeavesEarly, BackToHead, settings, signals
<1>16. CASE Sent
  BY <1>16 DEF Sent, settings, signals, sessionVars
<1>17. CASE TransferAborted
  BY <1>1, <1>17, ClientCommands
     DEF TransferAborted, SendAbort, clientState, settings
<1>18. CASE FirstAbortReply
  BY <1>18 DEF FirstAbortReply, clientState, settings, signals
<1>19. CASE FinalReply
  BY <1>19 DEF FinalReply, BackToHead, clientState, settings, signals
<1>20. CASE Signal
  BY <1>20 DEF Signal, clientState, settings, sessionVars
<1> QED
  BY <1>2, <1>3, <1>4, <1>5, <1>6, <1>7, <1>8, <1>9, <1>10, <1>11, <1>12,
     <1>13, <1>14, <1>15, <1>16, <1>17, <1>18, <1>19, <1>20
     DEF CliStep, UserStep

\* A client that is leaving sends ABOR and QUIT and changes nothing else.
LEMMA LeavingStands ==
    ASSUME ControlInv,
           \/ LeaveAfterSignal \/ AborAnswered \/ QuitAnswered
           \/ TransferAborted \/ FirstAbortReply \/ EndOfTyping
    PROVE  Standing'
<1> USE DEF ControlInv, Bookkeeping, Standing
<1> SUFFICES ASSUME ~leftEarly' PROVE Leaving' /\ SettingsStay'
  BY DEF Standing
<1>1. /\ UNCHANGED <<settings, leftEarly, transferType, transferMode>>
      /\ Leaving'
  BY DEF LeaveAfterSignal, AborAnswered, QuitAnswered, TransferAborted,
         FirstAbortReply, EndOfTyping, clientState, settings, signals,
         sessionThread, representation, channel, Leaving
<1>2. SameSettings /\ NoSetting(toServer)
  <2>1. CASE Leaving
    BY <1>1, <2>1 DEF SettingsStay, settings
  <2>2. CASE ~Leaving
    <3>1. client \in {"head", "prompt", "transfer"} /\ Position
      BY <1>1, <2>2
         DEF LeaveAfterSignal, AborAnswered, QuitAnswered, TransferAborted,
             FirstAbortReply, EndOfTyping, Leaving
    <3>2. toServer = <<>> /\ SameSettings
      BY <3>1 DEF Position, AtPrompt, AtRest, TransferPosition, Agreed,
                  Working, Answered
    <3> QED
      BY <3>2, NoSettingAtFirst, ClientCommands
  <2> QED
    BY <2>1, <2>2
<1>3. \/ toServer' = toServer
      \/ \E name \in {"ABOR", "QUIT"} : Sends(Command(name))
  BY DEF LeaveAfterSignal, AborAnswered, QuitAnswered, TransferAborted,
         SendAbort, FirstAbortReply, EndOfTyping
<1>4. NoSetting(toServer')
  BY <1>2, <1>3, NoSettingAppended, ClientCommands DEF Sends
<1>5. SameSettings'
  BY <1>1, <1>2 DEF SameSettings, settings
<1> QED
  BY <1>1, <1>4, <1>5 DEF SettingsStay, NoSetting

\* A command line is sent when the last one is done with.
LEMMA TypingStands ==
    ASSUME ControlInv, ShowPrompt \/ TypeCommand \/ TypeTransfer
    PROVE  Standing'
<1> USE DEF ControlInv, Bookkeeping
<1> SUFFICES ASSUME ~leftEarly' PROVE ~Leaving' /\ Position'
  BY DEF Standing
<1>1. ~leftEarly /\ ~Leaving
  BY DEF ShowPrompt, TypeCommand, TypeTransfer, clientState, Leaving
<1>2. AtRest /\ Agreed
  BY <1>1 DEF ShowPrompt, TypeCommand, TypeTransfer, Standing, Position,
              AtPrompt
<1>3. ASSUME UNCHANGED <<settings, server, representation, endpoint>>
      PROVE  Agreed' /\ server' = "reading"
  BY <1>2, <1>3 DEF Agreed, SameSettings, ActiveIs, AtRest, settings,
                    representation, endpoint
<1>4. CASE ShowPrompt
  BY <1>1, <1>2, <1>3, <1>4
     DEF ShowPrompt, clientState, signals, sessionVars, Leaving, Position,
         AtPrompt, AtRest
<1>5. CASE TypeCommand
  <2>1. PICK typed \in Lines : Sends(typed) /\ line' = typed
    BY <1>5 DEF TypeCommand
  <2>2. toServer' = <<typed>>
    BY <1>2, <2>1, FirstInQueue DEF Sends, AtRest
  <2>3. client' = "await" /\ toClient' = <<>> /\ ~Leaving'
    BY <1>1, <1>2, <1>5
       DEF TypeCommand, AtRest, Leaving, signals
  <2>4. Agreed' /\ server' = "reading"
    BY <1>3, <1>5 DEF TypeCommand, clientState, sessionThread
  <2>5. AwaitPosition'
    BY <2>1, <2>2, <2>3, <2>4 DEF AwaitPosition, Asked
  <2> QED
    BY <2>3, <2>5 DEF Position, AtPrompt
<1>6. CASE TypeTransfer
  <2>1. PICK typed \in Lines :
            /\ line' = typed
            /\ IF clientActive THEN Sends(typed) /\ client' = "opening"
                               ELSE Sends(Command("PASV")) /\ client' = "pasv"
    BY <1>6 DEF TypeTransfer
  <2>2. toClient' = <<>> /\ ~Leaving' /\ clientActive' = clientActive
    BY <1>1, <1>2, <1>6, <2>1
       DEF TypeTransfer, AtRest, Leaving, signals, clientState, settings
  <2>3. Agreed' /\ server' = "reading"
    BY <1>3, <1>6 DEF TypeTransfer, clientState, sessionThread
  <2>4. CASE clientActive
    <3>1. toServer' = <<typed>> /\ client' = "opening"
      BY <1>2, <2>1, <2>4, FirstInQueue DEF Sends, AtRest
    <3>2. OpeningPosition'
      BY <2>1, <2>2, <2>3, <3>1 DEF OpeningPosition, Asked
    <3> QED
      BY <2>2, <3>1, <3>2 DEF Position, AtPrompt
  <2>5. CASE ~clientActive
    <3>1. toServer' = <<Command("PASV")>> /\ client' = "pasv"
      BY <1>2, <2>1, <2>5, FirstInQueue DEF Sends, AtRest
    <3>2. PasvPosition'
      BY <2>2, <2>3, <2>5, <3>1 DEF PasvPosition, Asked, Agreed, Command
    <3> QED
      BY <2>2, <3>1, <3>2 DEF Position, AtPrompt
  <2> QED
    BY <2>4, <2>5
<1> QED
  BY <1>4, <1>5, <1>6

\* Reading the one reply to a plain command ends the command.
LEMMA ReplyStands ==
    ASSUME ControlInv, ReplyArrives
    PROVE  Standing'
<1> USE DEF ControlInv, Bookkeeping
<1> SUFFICES ASSUME ~leftEarly'
             PROVE  IF Leaving' THEN SettingsStay' ELSE Position'
  BY DEF Standing
<1>1. /\ client = "await" /\ toClient # <<>> /\ toClient' = Tail(toClient)
      /\ ~leftEarly /\ ~(line.name = "ABOR" /\ Head(toClient) = 426)
  BY DEF ReplyArrives, Gets, Accepted
<1>2. AwaitPosition /\ ~abortSent
  BY <1>1 DEF Standing, Position, Leaving
<1>3. PICK code \in Codes :
          /\ toServer = <<>> /\ toClient = <<code>>
          /\ \/ server = "reading"
             \/ server = "closed" /\ line.name = "QUIT"
          /\ AgreedAfter(code)
  <2>1. toClient # <<426, 226>> \/ line.name # "ABOR"
    BY <1>1, TwoInQueue
  <2> QED
    BY <1>1, <1>2, <2>1 DEF AwaitPosition, Asked, AtRest, Answered
<1>4. Head(toClient) = code /\ toClient' = <<>>
  BY <1>1, <1>3, OneInQueue
<1>5. /\ clientType' = TypeAfter(code) /\ clientMode' = ModeAfter(code)
      /\ clientActive' = ActiveAfter(code)
      /\ UNCHANGED <<server, representation, endpoint, toServer, signals>>
  BY <1>4 DEF ReplyArrives, Accepted, TypeAfter, ModeAfter, ActiveAfter,
              sessionThread
<1>6. Agreed'
  BY <1>3, <1>5 DEF AgreedAfter, Agreed, SameSettings, ActiveIs,
                    representation, endpoint
<1>7. CASE line.name = "QUIT"
  BY <1>3, <1>5, <1>6, <1>7, NoSettingAtFirst
     DEF ReplyArrives, Leaving, SettingsStay, Agreed, NoSetting
<1>8. CASE line.name # "QUIT"
  <2>1. client' = "head" /\ ~Leaving'
    BY <1>2, <1>5, <1>8 DEF ReplyArrives, BackToHead, Leaving, signals
  <2> QED
    BY <1>3, <1>4, <1>5, <1>6, <1>8, <2>1
       DEF Position, AtPrompt, AtRest
<1> QED
  BY <1>7, <1>8

\* The one reply to PASV, or a refusal, brings the client on or back.
LEMMA OpeningStands ==
    ASSUME ControlInv,
           \/ PasvAnswered \/ PasvRefused \/ TransferRefused
           \/ DownloadOpened \/ UploadOpened
    PROVE  Standing'
<1> USE DEF ControlInv, Bookkeeping
<1> SUFFICES ASSUME ~leftEarly' PROVE ~Leaving' /\ Position'
  BY DEF Standing
<1>1. /\ UNCHANGED <<settings, leftEarly, signals, server, representation,
                     dataMode, activePort>>
      /\ client \in {"pasv", "opening"}
      /\ toClient # <<>> /\ toClient' = Tail(toClient)
  BY DEF PasvAnswered, PasvRefused, TransferRefused, DownloadOpened,
         UploadOpened, Gets, clientState, sessionThread, endpoint
<1>2. ~abortSent /\ ~leftEarly /\ ~abortSent'
  BY <1>1 DEF signals
<1>3. Position
  BY <1>1, <1>2 DEF Standing, Leaving
<1>4. Agreed'
  BY <1>1, <1>3 DEF Position, PasvPosition, OpeningPosition, Agreed,
                    SameSettings, ActiveIs, settings, representation
<1>5. CASE PasvAnswered
  <2>1. toClient = <<Head(toClient)>> /\ toServer = <<>> /\ server = "reading"
    BY <1>1, <1>3, <1>5, OneInQueue
       DEF PasvAnswered, Position, PasvPosition, Asked, Answered
  <2>2. /\ toServer' = <<line>> /\ toClient' = <<>> /\ server' = "reading"
        /\ client' = "opening" /\ line' = line
    BY <1>1, <1>5, <2>1, FirstInQueue, OneInQueue DEF PasvAnswered, Sends
  <2> QED
    BY <1>2, <1>4, <2>2 DEF Position, AtPrompt, OpeningPosition, Asked, Leaving
<1>6. CASE PasvRefused
  <2>1. toClient = <<Head(toClient)>> /\ toServer = <<>> /\ server = "reading"
    BY <1>1, <1>3, <1>6, OneInQueue
       DEF PasvRefused, Position, PasvPosition, Asked, Answered
  <2>2. toServer' = <<>> /\ toClient' = <<>> /\ server' = "reading"
    BY <1>1, <1>6, <2>1, OneInQueue DEF PasvRefused
  <2> QED
    BY <1>2, <1>4, <1>6, <2>2
       DEF PasvRefused, BackToHead, Position, AtPrompt, AtRest, Leaving
<1>7. ASSUME client = "opening"
      PROVE  \/ \E code \in Codes \ Opening : Answered(<<code>>)
             \/ \E open \in Opening :
                    \/ Working(<<open>>)
                    \/ \E code \in Codes : Answered(<<open, code>>)
             \/ Downloads /\ Answered(<<150, 425, 426>>)
  BY <1>1, <1>3, <1>7 DEF Position, OpeningPosition, Asked
<1>8. CASE TransferRefused
  <2>1. Head(toClient) \notin Opening /\ client = "opening"
    BY <1>8 DEF TransferRefused, Gets
  <2>2. PICK code \in Codes \ Opening : Answered(<<code>>)
    <3>1. ~(Downloads /\ Answered(<<150, 425, 426>>))
      BY <2>1 DEF Answered, Opening
    <3> QED
      BY <1>7, <2>1, <3>1, OneInQueue, TwoInQueue DEF Working, Answered
  <2>3. toServer' = <<>> /\ toClient' = <<>> /\ server' = "reading"
    BY <1>1, <1>8, <2>2, OneInQueue DEF TransferRefused, Answered
  <2> QED
    BY <1>2, <1>4, <1>8, <2>3
       DEF TransferRefused, BackToHead, Position, AtPrompt, AtRest, Leaving
<1>9. CASE DownloadOpened \/ UploadOpened
  <2>1. /\ Head(toClient) \in Opening /\ client = "opening"
        /\ toServer' = toServer /\ line' = line
    BY <1>9 DEF DownloadOpened, UploadOpened, Gets
  <2>2. /\ client' \in {"knock", "transfer"}
        /\ client' = "knock" => ~Downloads
    BY <1>9 DEF DownloadOpened, UploadOpened
  <2>3. TransferPosition'
    <3>1. CASE \E open \in Opening : Working(<<open>>)
      <4>1. Working(<<>>)'
        BY <1>1, <2>1, <3>1, OneInQueue DEF Working, Busy
      <4> QED
        BY <1>4, <4>1 DEF TransferPosition
    <3>2. CASE \E open \in Opening, code \in Codes : Answered(<<open, code>>)
      <4>1. \E code \in Codes : Answered(<<code>>)'
        BY <1>1, <2>1, <3>2, TwoInQueue DEF Answered
      <4> QED
        BY <1>4, <4>1 DEF TransferPosition
    <3>3. CASE Downloads /\ Answered(<<150, 425, 426>>)
      <4>1. Tail(<<150, 425, 426>>) = <<425, 426>>
        OBVIOUS
      <4>2. Downloads' /\ Answered(<<425, 426>>)'
        BY <1>1, <2>1, <3>3, <4>1 DEF Answered, Downloads
      <4> QED
        BY <1>4, <4>2 DEF TransferPosition
    <3>4. ~\E code \in Codes \ Opening : Answered(<<code>>)
      BY <2>1, OneInQueue DEF Answered
    <3> QED
      BY <1>7, <2>1, <3>1, <3>2, <3>3, <3>4
  <2> QED
    BY <1>2, <2>1, <2>2, <2>3
       DEF Position, AtPrompt, Leaving, Downloads
<1> QED
  BY <1>5, <1>6, <1>8, <1>9

\* In a transfer the client reads no reply before its own end is through.
LEMMA TransferStands ==
    ASSUME ControlInv,
           \/ ServerKnocked \/ StrayKnocked \/ NoKnock \/ KnockInterrupted
           \/ Received \/ StrayFinEndsDownload \/ Sent \/ SenderGaveUp
    PROVE  Standing'
<1> USE DEF ControlInv, Bookkeeping
<1> SUFFICES ASSUME ~leftEarly' PROVE ~Leaving' /\ Position'
  BY DEF Standing
<1>1. /\ UNCHANGED <<settings, signals, sessionThread, toServer, toClient>>
      /\ line' = line
      /\ client \in {"knock", "transfer"}
      /\ client' = "transfer" \/ client' = "final"
      /\ client' = "final" /\ Downloads => leftEarly' = (leftEarly \/ RefusedTwice)
      /\ client' = "final" /\ ~Downloads => leftEarly' = leftEarly
      /\ client' = "transfer" => leftEarly' = leftEarly
  BY DEF ServerKnocked, StrayKnocked, NoKnock, KnockInterrupted, Received,
         StrayFinEndsDownload, Sent, SenderGaveUp, ReceiverReturns, LeavesEarly, clientState,
         sessionVars, sessionThread
<1>2. ~leftEarly /\ ~abortSent /\ ~abortSent'
  BY <1>1 DEF signals
<1>3. TransferPosition
  BY <1>1, <1>2 DEF Standing, Leaving, Position
<1>4. Agreed'
  BY <1>1, <1>3 DEF TransferPosition, Agreed, SameSettings, ActiveIs, settings,
                    sessionThread, representation, endpoint
<1>5. /\ Working(<<>>) => Working(<<>>)'
      /\ \A code \in Codes : Answered(<<code>>) => Answered(<<code>>)'
      /\ Answered(<<425, 426>>) => Answered(<<425, 426>>)'
      /\ Downloads => Downloads'
  BY <1>1 DEF Working, Answered, Busy, Downloads, sessionThread
<1>6. CASE client' = "transfer"
  <2>1. TransferPosition'
    BY <1>3, <1>4, <1>5 DEF TransferPosition
  <2> QED
    BY <1>2, <1>6, <2>1 DEF Position, AtPrompt, Leaving
<1>7. CASE client' = "final"
  <2>1. ~(Downloads /\ Answered(<<425, 426>>))
    <3> SUFFICES ASSUME Downloads, toClient = <<425, 426>> PROVE FALSE
      BY DEF Answered
    <3>1. ~RefusedTwice
      BY <1>1, <1>7
    <3>2. 1 \in DOMAIN toClient /\ toClient[1] = 425
      OBVIOUS
    <3> QED
      BY <3>1, <3>2 DEF RefusedTwice
  <2>2. FinalPosition'
    BY <1>3, <1>4, <1>5, <2>1 DEF TransferPosition, FinalPosition
  <2> QED
    BY <1>2, <1>7, <2>2 DEF Position, AtPrompt, Leaving
<1> QED
  BY <1>1, <1>6, <1>7

\* The last reply to a transfer ends it; an interrupted client reads it too.
LEMMA FinalStands ==
    ASSUME ControlInv, FinalReply \/ Signal
    PROVE  Standing'
<1> USE DEF ControlInv, Bookkeeping
<1>1. CASE FinalReply
  <2>1. /\ UNCHANGED <<settings, leftEarly, signals, server, representation,
                       endpoint, toServer>>
        /\ client = "final" /\ client' = "head"
        /\ toClient # <<>> /\ toClient' = Tail(toClient)
    BY <1>1 DEF FinalReply, BackToHead, Gets, clientState, sessionThread
  <2>2. CASE leftEarly
    BY <2>1, <2>2 DEF Standing
  <2>3. CASE ~leftEarly /\ abortSent
    BY <2>1, <2>3
       DEF Standing, Leaving, SettingsStay, SameSettings, NoSetting, settings,
           signals, representation
  <2>4. CASE ~leftEarly /\ ~abortSent
    <3>1. FinalPosition
      BY <2>1, <2>4 DEF Standing, Leaving, Position
    <3>2. PICK code \in Codes : Answered(<<code>>)
      BY <2>1, <3>1 DEF FinalPosition, Working
    <3>3. AtRest'
      BY <2>1, <3>2, OneInQueue DEF Answered, AtRest
    <3>4. Agreed'
      BY <2>1, <3>1 DEF FinalPosition, Agreed, SameSettings, ActiveIs, settings,
                        representation, endpoint
    <3> QED
      BY <2>1, <2>4, <3>3, <3>4
         DEF Standing, Leaving, Position, AtPrompt, signals
  <2> QED
    BY <2>2, <2>3, <2>4
<1>2. CASE Signal
  <2>1. UNCHANGED <<client, line, clientState, abortSent, sessionVars>>
    BY <1>2 DEF Signal
  <2> QED
    BY <2>1
       DEF Standing, Leaving, SettingsStay, SameSettings, NoSetting, Position,
           AtPrompt, AtRest, Agreed, ActiveIs, AwaitPosition, Asked, Answered,
           AgreedAfter, TypeAfter, ModeAfter, ActiveAfter, PasvPosition,
           OpeningPosition, Opening, Downloads, Working, Busy,
           TransferPosition, FinalPosition, clientState, settings,
           sessionVars, representation, endpoint
<1> QED
  BY <1>1, <1>2

-----------------------------------------------------------------------------
(* The server's steps.                                                      *)

\* What a step of the session may do to its queue of lines and to the settings:
\* it takes at most one line, and only TYPE and MODE change a setting.
LEMMA ServeTakesOne ==
    ASSUME Serve
    PROVE  /\ hungUp' = hungUp
           /\ \/ toServer' = toServer
              \/ toServer # <<>> /\ toServer' = Tail(toServer)
           /\ \/ UNCHANGED representation
              \/ toServer # <<>> /\ Head(toServer).name \in {"TYPE", "MODE"}
<1> DEFINE Modest == /\ hungUp' = hungUp
                     /\ \/ toServer' = toServer
                        \/ toServer # <<>> /\ toServer' = Tail(toServer)
                     /\ \/ UNCHANGED representation
                        \/ /\ toServer # <<>>
                           /\ Head(toServer).name \in {"TYPE", "MODE"}
<1>1. CASE EndOfInput
  BY <1>1 DEF EndOfInput
<1>2. CASE Transfer
  BY <1>2
     DEF Transfer, KnockArrives, KnockButUnreadable, KnockTimeout,
         SendSucceeds, SendGivesUp, SendAborted, Stored, ReceiveAborted,
         TakeAbor, Ends
<1>3. CASE \/ SkipEmptyLine \/ RejectInvalidLine \/ HandleQuit \/ HandleNoop
           \/ HandleUser \/ HandlePass \/ RefuseStranger
  BY <1>3
     DEF SkipEmptyLine, RejectInvalidLine, HandleQuit, HandleNoop, HandleUser,
         HandlePass, RefuseStranger, Reads
<1>4. CASE HandleType \/ HandleMode
  BY <1>4 DEF HandleType, HandleMode, Serves, Reads
<1>5. CASE \/ HandlePort \/ HandlePasv \/ HandleDirectoryCommand
           \/ HandleFileCommand \/ HandleHash \/ HandleRnfr \/ HandleRnto
  BY <1>5
     DEF HandlePort, HandlePasv, HandleDirectoryCommand, HandleFileCommand,
         HandleHash, Answers, HandleRnfr, HandleRnto, Serves, Reads
<1>6. CASE \/ HandleList \/ HandleRetr \/ HandleStor \/ HandleStou
           \/ HandleAbor
  BY <1>6
     DEF HandleList, HandleRetr, HandleStor, HandleStou, HandleAbor, Serves,
         Reads
<1> QED
  BY <1>1, <1>2, <1>3, <1>4, <1>5, <1>6 DEF Serve, HandleCommand

LEMMA ServeKeepsBooks ==
    ASSUME Bookkeeping, ServeStep
    PROVE  Bookkeeping'
<1>1. toServer' \in Seq(Commands) /\ hungUp' = hungUp
  BY ServeTakesOne, HeadTailProperties DEF ServeStep, Bookkeeping
<1> QED
  BY <1>1
     DEF ServeStep, Bookkeeping, ClientTypeOK, LineInHand, AtPrompt,
         clientVars, clientState, settings, signals

\* A leaving client is served ABOR and QUIT, which change no setting.
LEMMA LeavingIsServed ==
    ASSUME ControlInv, ServeStep, ~leftEarly, Leaving
    PROVE  SettingsStay'
<1>1. SameSettings /\ NoSetting(toServer) /\ toServer \in Seq(Commands)
  BY DEF ControlInv, Standing, SettingsStay, Bookkeeping
<1>2. UNCHANGED <<representation, settings>>
  BY <1>1, ServeTakesOne, NoSettingInRest
     DEF ServeStep, clientVars, clientState
<1>3. NoSetting(toServer')
  BY <1>1, ServeTakesOne, NoSettingInRest DEF ServeStep
<1> QED
  BY <1>1, <1>2, <1>3
     DEF SettingsStay, SameSettings, NoSetting, representation, settings

\* A server that waits for a line has nothing to do without one.
LEMMA NothingToServe ==
    ASSUME toServer = <<>>, ~hungUp, ~Busy
    PROVE  ~Serve
<1>1. ~HandleCommand
  BY DEF HandleCommand, SkipEmptyLine, RejectInvalidLine, HandleQuit,
         HandleNoop, HandleUser, HandlePass, RefuseStranger, HandleType,
         HandleMode, HandlePort, HandlePasv, HandleDirectoryCommand,
         HandleFileCommand, HandleHash, Answers, HandleRnfr, HandleRnto,
         HandleList, HandleRetr, HandleStor, HandleStou, HandleAbor, Serves,
         Reads
<1>2. ~Transfer
  BY DEF Busy, Transfer, KnockArrives, KnockButUnreadable, KnockTimeout,
         SendSucceeds, SendGivesUp, SendAborted, Stored, ReceiveAborted
<1>3. ~EndOfInput
  BY DEF EndOfInput, EndOfConnection
<1> QED
  BY <1>1, <1>2, <1>3 DEF Serve

\* A server that has been sent a line handles it.
LEMMA LineIsHandled ==
    ASSUME NEW command, Asked(command), Serve
    PROVE  HandleCommand
<1>1. ~Transfer
  BY DEF Asked, Transfer, KnockArrives, KnockButUnreadable, KnockTimeout,
         SendSucceeds, SendGivesUp, SendAborted, Stored, ReceiveAborted
<1>2. ~EndOfInput
  BY DEF Asked, EndOfInput, EndOfConnection
<1> QED
  BY <1>1, <1>2 DEF Serve

\* read_line takes the only line there is.
LEMMA OnlyLineRead ==
    ASSUME NEW command, Asked(command), NEW names, Reads(names)
    PROVE  /\ toServer' = <<>> /\ Head(toServer) = command
           /\ command.name \in names
BY OneInQueue DEF Asked, Reads

\* Its reply is then the only one.
LEMMA OnlyReplies ==
    ASSUME toClient = <<>>, NEW codes \in Seq(Codes), Reply(codes)
    PROVE  toClient' = codes
BY ConcatEmptySeq DEF Reply

LEMMA OneCode == ASSUME NEW code \in Codes PROVE <<code>> \in Seq(Codes)
OBVIOUS

\* A command that keeps settings and endpoint leaves the two agreed.
LEMMA PlainAnswer ==
    ASSUME Agreed, NEW code \in Codes,
           code # 200 \/ line.name \notin {"TYPE", "MODE", "PORT"},
           UNCHANGED <<representation, dataMode, activePort, settings, line>>
    PROVE  AgreedAfter(code)'
BY DEF Agreed, SameSettings, ActiveIs, AgreedAfter, TypeAfter, ModeAfter,
       ActiveAfter, representation, settings

\* The server answers a plain command, and the answer tells what it has done.
LEMMA PlainCommandServed ==
    ASSUME ControlInv, ServeStep, client = "await", ~leftEarly
    PROVE  AwaitPosition'
<1> USE DEF ControlInv, Bookkeeping
<1>1. AwaitPosition /\ ~hungUp /\ Serve
  BY DEF Standing, Leaving, Position, ServeStep
<1>2. UNCHANGED <<settings, line>>
  BY DEF ServeStep, clientVars, clientState
<1>3. Asked(line) /\ Agreed
  BY <1>1, NothingToServe DEF AwaitPosition, Busy, Answered, AtRest
<1>4. HandleCommand /\ line \in Lines /\ line.name \notin TransferVerbs
  BY <1>1, <1>3, LineIsHandled DEF LineInHand
<1>5. ASSUME NEW names, Reads(names)
      PROVE  /\ toServer' = <<>> /\ Head(toServer) = line
             /\ line.name \in names /\ Arg = line.arg
  BY <1>3, <1>5, OnlyLineRead DEF Arg
<1>6. ASSUME NEW code \in Codes, Reply(<<code>>) PROVE toClient' = <<code>>
  BY <1>3, <1>6, OnlyReplies, OneCode DEF Asked
<1>7. ASSUME NEW code \in Codes, NEW names, Reads(names), Reply(<<code>>),
             \/ UNCHANGED server
             \/ server' = "closed" /\ line.name = "QUIT",
             AgreedAfter(code)'
      PROVE  AwaitPosition'
  BY <1>2, <1>3, <1>5, <1>6, <1>7 DEF AwaitPosition, Asked
<1>8. ASSUME NEW code \in Codes, NEW names, Reads(names), Reply(<<code>>),
             \/ UNCHANGED server
             \/ server' = "closed" /\ line.name = "QUIT",
             UNCHANGED <<representation, endpoint>>,
             code # 200 \/ line.name \notin {"TYPE", "MODE", "PORT"}
      PROVE  AwaitPosition'
  BY <1>2, <1>3, <1>7, <1>8, PlainAnswer DEF endpoint
<1>9. CASE SkipEmptyLine
  BY <1>2, <1>3, <1>5, <1>9
     DEF SkipEmptyLine, AwaitPosition, AtRest, Asked, Agreed, SameSettings,
         ActiveIs, representation, endpoint, settings
<1>10. CASE RejectInvalidLine
  BY <1>8, <1>10 DEF RejectInvalidLine, StaysIdle, Codes
<1>11. CASE HandleQuit
  <2>1. /\ Reads({"QUIT"}) /\ line.name = "QUIT"
        /\ UNCHANGED <<representation, endpoint>>
        /\ \/ Reply(<<501>>) /\ UNCHANGED server
           \/ Reply(<<221>>) /\ server' = "closed"
    BY <1>5, <1>11 DEF HandleQuit
  <2>2. 501 \in Codes /\ 221 \in Codes
    BY DEF Codes
  <2> QED
    BY <1>8, <2>1, <2>2
<1>12. CASE HandleNoop
  <2>1. /\ Reads({"NOOP"}) /\ line.name = "NOOP"
        /\ UNCHANGED <<server, representation, endpoint>>
        /\ Reply(<<200>>) \/ Reply(<<501>>)
    BY <1>5, <1>12 DEF HandleNoop, StaysIdle
  <2>2. 200 \in Codes /\ 501 \in Codes
    BY DEF Codes
  <2> QED
    BY <1>8, <2>1, <2>2
<1>13. CASE HandleUser \/ HandlePass
  BY <1>8, <1>13 DEF HandleUser, HandlePass, StaysIdle, Codes
<1>14. CASE RefuseStranger
  BY <1>8, <1>14 DEF RefuseStranger, StaysIdle, Codes
<1>15. CASE \/ HandleDirectoryCommand \/ HandleFileCommand \/ HandleHash
            \/ HandleRnfr \/ HandleRnto
  BY <1>8, <1>15
     DEF HandleDirectoryCommand, HandleFileCommand, HandleHash, Answers,
         HandleRnfr, HandleRnto, Serves, StaysIdle, Codes
<1>16. CASE HandleType
  <2>1. /\ Reads({"TYPE"}) /\ line.name = "TYPE" /\ Arg = line.arg
        /\ UNCHANGED <<server, transferMode, endpoint>>
    BY <1>5, <1>16 DEF HandleType, Serves, StaysIdle
  <2>2. CASE Arg \in KnownTypes /\ transferType' = Arg /\ Reply(<<200>>)
    <3>1. AgreedAfter(200)'
      BY <1>2, <1>3, <2>1, <2>2
         DEF Agreed, SameSettings, ActiveIs, AgreedAfter, TypeAfter, ModeAfter,
             ActiveAfter, settings, endpoint, KnownTypes
    <3> QED
      BY <1>7, <2>1, <2>2, <3>1 DEF Codes
  <2>3. CASE Reply(<<501>>) /\ UNCHANGED transferType
    BY <1>8, <2>1, <2>3 DEF Codes, representation
  <2> QED
    BY <1>16, <2>2, <2>3 DEF HandleType
<1>17. CASE HandleMode
  <2>1. /\ Reads({"MODE"}) /\ line.name = "MODE" /\ Arg = line.arg
        /\ UNCHANGED <<server, transferType, endpoint>>
    BY <1>5, <1>17 DEF HandleMode, Serves, StaysIdle
  <2>2. CASE Arg \in {"S", "B", "C"} /\ transferMode' = Arg /\ Reply(<<200>>)
    <3>1. AgreedAfter(200)'
      BY <1>2, <1>3, <2>1, <2>2
         DEF Agreed, SameSettings, ActiveIs, AgreedAfter, TypeAfter, ModeAfter,
             ActiveAfter, settings, endpoint
    <3> QED
      BY <1>7, <2>1, <2>2, <3>1 DEF Codes
  <2>3. CASE Reply(<<501>>) /\ UNCHANGED transferMode
    BY <1>8, <2>1, <2>3 DEF Codes, representation
  <2> QED
    BY <1>17, <2>2, <2>3 DEF HandleMode
<1>18. CASE HandlePort
  <2>1. /\ Reads({"PORT"}) /\ line.name = "PORT" /\ Arg = line.arg
        /\ UNCHANGED <<server, representation>>
    BY <1>5, <1>18 DEF HandlePort, Serves, StaysIdle
  <2>2. Arg # "zero"
    <3>1. line \in [name : Verbs, arg : Arguments]
      BY <1>4, LinesAssumption, CommandsAssumption
    <3>2. line = [name |-> line.name, arg |-> line.arg]
      BY <3>1
    <3> QED
      BY <1>4, <2>1, <3>2, LinesAssumption
  <2>3. CASE Arg = "ok" /\ dataMode' = "ACTIVE" /\ activePort' = Arg
             /\ Reply(<<200>>)
    <3>1. AgreedAfter(200)'
      BY <1>2, <1>3, <2>1, <2>3
         DEF Agreed, SameSettings, ActiveIs, AgreedAfter, TypeAfter, ModeAfter,
             ActiveAfter, settings, representation
    <3> QED
      BY <1>7, <2>1, <2>3, <3>1 DEF Codes
  <2>4. CASE Reply(<<501>>) /\ UNCHANGED endpoint
    BY <1>8, <2>1, <2>4 DEF Codes
  <2> QED
    BY <1>18, <2>2, <2>3, <2>4 DEF HandlePort
<1>19. CASE HandlePasv
  <2>1. /\ Reads({"PASV"}) /\ line.name = "PASV"
        /\ UNCHANGED <<server, representation>>
    BY <1>5, <1>19 DEF HandlePasv, Serves, StaysIdle
  <2>2. CASE Reply(<<425>>) /\ UNCHANGED endpoint
    BY <1>8, <2>1, <2>2 DEF Codes
  <2>3. CASE Reply(<<227>>)
    <3>1. AgreedAfter(227)'
      BY <1>2, <1>3, <2>1
         DEF Agreed, SameSettings, ActiveIs, AgreedAfter, TypeAfter, ModeAfter,
             ActiveAfter, settings, representation
    <3> QED
      BY <1>7, <2>1, <2>3, <3>1 DEF Codes
  <2> QED
    BY <1>19, <2>2, <2>3 DEF HandlePasv
<1>20. CASE HandleAbor
  <2>1. /\ line.name = "ABOR" /\ toServer' = <<>>
        /\ UNCHANGED <<server, representation>>
    BY <1>5, <1>20 DEF HandleAbor, Serves, StaysIdle
  <2>2. <<426, 226>> \in Seq(Codes)
    BY DEF Codes
  <2>3. toClient' = <<426, 226>>
    BY <1>3, <1>20, <2>2, OnlyReplies DEF HandleAbor, Asked
  <2> QED
    BY <1>2, <1>3, <2>1, <2>3
       DEF AwaitPosition, Answered, Asked, Agreed, SameSettings,
           representation, settings
<1>21. ~(HandleList \/ HandleRetr \/ HandleStor \/ HandleStou)
  BY <1>4, <1>5
     DEF HandleList, HandleRetr, HandleStor, HandleStou, Serves, TransferVerbs
<1> QED
  BY <1>4, <1>9, <1>10, <1>11, <1>12, <1>13, <1>14, <1>15, <1>16, <1>17, <1>18,
     <1>19, <1>20, <1>21 DEF HandleCommand

\* PASV is refused or opens a socket for the transfer in hand.
LEMMA PasvServed ==
    ASSUME ControlInv, ServeStep, client = "pasv", ~leftEarly
    PROVE  PasvPosition'
<1> USE DEF ControlInv, Bookkeeping
<1>1. PasvPosition /\ ~hungUp /\ Serve
  BY DEF Standing, Leaving, Position, ServeStep
<1>2. UNCHANGED <<settings, line>>
  BY DEF ServeStep, clientVars, clientState
<1>3. Asked(Command("PASV"))
  BY <1>1, NothingToServe DEF PasvPosition, Busy, Answered
<1>4. HandleCommand
  BY <1>1, <1>3, LineIsHandled
<1>5. ASSUME NEW names, Reads(names)
      PROVE  toServer' = <<>> /\ "PASV" \in names
  BY <1>3, <1>5, OnlyLineRead DEF Command
<1>6. ASSUME NEW code \in Codes, Reply(<<code>>) PROVE toClient' = <<code>>
  BY <1>3, <1>6, OnlyReplies, OneCode DEF Asked
<1>7. ASSUME NEW code \in Codes, NEW names, Reads(names), Reply(<<code>>),
             UNCHANGED <<server, representation>>,
             code = 227 => dataMode' = "PASSIVE"
      PROVE  PasvPosition'
  BY <1>1, <1>2, <1>3, <1>5, <1>6, <1>7
     DEF PasvPosition, Answered, Asked, SameSettings, settings, representation
<1>8. CASE RefuseStranger
  <2>1. /\ Reads(Verbs \ FreeCommands) /\ Reply(<<530>>)
        /\ UNCHANGED <<server, representation>>
    BY <1>8 DEF RefuseStranger, StaysIdle
  <2> QED
    BY <1>7, <2>1 DEF Codes
<1>9. CASE HandlePasv
  <2>1. /\ Reads({"PASV"}) /\ UNCHANGED <<server, representation>>
        /\ \/ Reply(<<425>>)
           \/ Reply(<<227>>) /\ dataMode' = "PASSIVE"
    BY <1>9 DEF HandlePasv, Serves, StaysIdle
  <2> QED
    BY <1>7, <2>1 DEF Codes
<1>10. HandleCommand => RefuseStranger \/ HandlePasv
  BY <1>5
     DEF HandleCommand, SkipEmptyLine, RejectInvalidLine, HandleQuit,
         HandleNoop, HandleUser, HandlePass, HandleType,
         HandleMode, HandlePort, HandleDirectoryCommand,
         HandleFileCommand, HandleHash, Answers, HandleRnfr, HandleRnto,
         HandleList, HandleRetr, HandleStor, HandleStou, HandleAbor, Serves
<1> QED
  BY <1>4, <1>8, <1>9, <1>10

\* A transfer command is refused, or refused after its opening reply, or the
\* server is at work.
LEMMA TransferCommandServed ==
    ASSUME ControlInv, ServeStep, client = "opening", ~leftEarly, Asked(line)
    PROVE  OpeningPosition'
<1>1. OpeningPosition /\ Agreed /\ Serve
  BY DEF ControlInv, Bookkeeping, Standing, Leaving, Position, ServeStep,
         OpeningPosition
<1>2. /\ UNCHANGED <<settings, line>>
      /\ line \in Lines /\ line.name \in TransferVerbs
  BY DEF ControlInv, Bookkeeping, ServeStep, clientVars, clientState,
         LineInHand
<1>3. HandleCommand
  BY <1>1, LineIsHandled
<1>4. ASSUME NEW names, Reads(names)
      PROVE  toServer' = <<>> /\ line.name \in names
  BY <1>4, OnlyLineRead
<1>5. ASSUME NEW codes \in Seq(Codes), Reply(codes) PROVE toClient' = codes
  BY <1>5, OnlyReplies DEF Asked
<1>6. Opening' = Opening /\ Downloads' = Downloads
  BY <1>2 DEF Opening, Downloads
<1>7. ASSUME UNCHANGED <<representation, dataMode, activePort>> PROVE Agreed'
  BY <1>1, <1>2, <1>7 DEF Agreed, SameSettings, ActiveIs, settings, representation
<1>8. ASSUME NEW codes \in Seq(Codes), NEW names, Reads(names), Refuses(codes),
             UNCHANGED representation,
             \/ \E code \in Codes \ Opening : codes = <<code>>
             \/ \E open \in Opening, code \in Codes : codes = <<open, code>>
             \/ Downloads /\ codes = <<150, 425, 426>>
      PROVE  OpeningPosition'
  <2>1. toServer' = <<>> /\ toClient' = codes /\ server' = "reading" /\ Agreed'
    BY <1>4, <1>5, <1>7, <1>8
       DEF Refuses, StaysIdle, endpoint, Asked
  <2> QED
    BY <1>6, <1>8, <2>1 DEF OpeningPosition, Answered
<1>9. ASSUME NEW open \in Opening, NEW names, Reads(names), Reply(<<open>>),
             Busy', UNCHANGED <<representation, endpoint>>
      PROVE  OpeningPosition'
  <2>1. open \in Codes
    BY DEF Opening, Codes
  <2>2. toServer' = <<>> /\ toClient' = <<open>> /\ Agreed'
    BY <1>4, <1>5, <1>7, <1>9, <2>1, OneCode DEF endpoint
  <2> QED
    BY <1>6, <1>9, <2>2 DEF OpeningPosition, Working
<1>10. /\ 425 \in Codes \ Opening /\ 501 \in Codes \ Opening
       /\ 530 \in Codes \ Opening /\ 550 \in Codes \ Opening
       /\ 425 \in Codes /\ 451 \in Codes /\ 550 \in Codes
       /\ 125 \in Codes /\ 150 \in Codes
       /\ 150 \in Opening /\ (~Downloads => 125 \in Opening)
  BY DEF Codes, Opening
<1>11. ASSUME NEW names, Reads(names), UNCHANGED representation
       PROVE  /\ \A code \in Codes \ Opening :
                     Refuses(<<code>>) => OpeningPosition'
              /\ \A open \in Opening, code \in Codes :
                     Refuses(<<open, code>>) => OpeningPosition'
  <2>1. ASSUME NEW code \in Codes \ Opening, Refuses(<<code>>)
        PROVE  OpeningPosition'
    <3>1. <<code>> \in Seq(Codes)
      OBVIOUS
    <3> QED
      BY <1>8, <1>11, <2>1, <3>1
  <2>2. ASSUME NEW open \in Opening, NEW code \in Codes,
               Refuses(<<open, code>>)
        PROVE  OpeningPosition'
    <3>1. open \in Codes
      BY DEF Opening, Codes
    <3>2. <<open, code>> \in Seq(Codes)
      BY <3>1
    <3> QED
      BY <1>8, <1>11, <2>2, <3>2
  <2> QED
    BY <2>1, <2>2
<1>12. CASE RefuseStranger
  <2>1. /\ Reads(Verbs \ FreeCommands) /\ Reply(<<530>>)
        /\ UNCHANGED <<server, representation, endpoint>>
    BY <1>12 DEF RefuseStranger, StaysIdle
  <2>2. toServer' = <<>> /\ Agreed'
    BY <1>4, <1>7, <2>1 DEF endpoint
  <2>3. <<530>> \in Seq(Codes)
    BY <1>10
  <2>4. toClient' = <<530>>
    BY <1>5, <2>1, <2>3
  <2> QED
    BY <1>6, <1>10, <2>1, <2>2, <2>4 DEF OpeningPosition, Answered, Asked
<1>13. ASSUME NEW name, BeginsSending(name), NEW names, Reads(names),
              UNCHANGED representation
       PROVE  OpeningPosition'
  <2>1. Reply(<<150>>) /\ UNCHANGED endpoint
    BY <1>13 DEF BeginsSending
  <2>2. Busy'
    BY <1>13 DEF BeginsSending, Begins, Busy
  <2> QED
    BY <1>9, <1>10, <1>13, <2>1, <2>2
<1>14. CASE HandleList
  <2>1. Reads({"LIST"}) /\ UNCHANGED representation /\ Downloads
    BY <1>4, <1>14 DEF HandleList, Serves, Downloads
  <2>2. CASE Refuses(<<550>>) \/ Refuses(<<425>>)
    BY <1>10, <1>11, <2>1, <2>2
  <2>3. CASE Refuses(<<150, 425, 426>>)
    <3>1. <<150, 425, 426>> \in Seq(Codes)
      BY DEF Codes
    <3> QED
      BY <1>8, <2>1, <2>3, <3>1
  <2> QED
    BY <1>13, <1>14, <2>1, <2>2, <2>3 DEF HandleList
<1>15. CASE HandleRetr
  <2>1. Reads({"RETR"}) /\ UNCHANGED representation
    BY <1>15 DEF HandleRetr, Serves
  <2>2. CASE Refuses(<<501>>) \/ Refuses(<<550>>) \/ Refuses(<<425>>)
    BY <1>10, <1>11, <2>1, <2>2
  <2>3. CASE Refuses(<<150, 451>>)
    BY <1>10, <1>11, <2>1, <2>3
  <2> QED
    BY <1>13, <1>15, <2>1, <2>2, <2>3 DEF HandleRetr
<1>16. ASSUME NEW names, Reads(names), UNCHANGED representation,
              NEW open \in Opening,
              Reply(<<open>>), Begins("STOR", "receiving"), UNCHANGED endpoint
       PROVE  OpeningPosition'
  <2>1. Busy'
    BY <1>16 DEF Begins, Busy
  <2> QED
    BY <1>9, <1>16, <2>1
<1>17. CASE HandleStor
  <2> DEFINE refused == <<425>>
             outside == <<550>>
             announced == <<150>>
             late == <<150, 425>>
  <2>1. Reads({"STOR"}) /\ UNCHANGED representation
    BY <1>17 DEF HandleStor, Serves
  <2>2. /\ refused = <<>> \o <<425>> /\ outside = <<>> \o <<550>>
        /\ announced = Announces(<<>>)
    BY DEF Announces
  <2>3. late = announced \o <<425>>
    BY <1>10, SecondReply
  <2>4. CASE Refuses(refused) \/ Refuses(outside) \/ Refuses(<<501>>)
    BY <1>10, <1>11, <2>1, <2>4
  <2>5. CASE Refuses(late)
    BY <1>10, <1>11, <2>1, <2>5
  <2>6. CASE /\ Reply(announced) /\ Begins("STOR", "receiving")
             /\ UNCHANGED endpoint
    BY <1>10, <1>16, <2>1, <2>6
  <2> HIDE DEF refused, outside, announced, late
  <2>7. OpensUpload(<<>>) =>
            \/ Refuses(refused) \/ Refuses(outside) \/ Refuses(late)
            \/ /\ Reply(announced) /\ Begins("STOR", "receiving")
               /\ UNCHANGED endpoint
    BY <2>2, <2>3 DEF OpensUpload
  <2> QED
    BY <1>17, <2>4, <2>5, <2>6, <2>7 DEF HandleStor
<1>18. CASE HandleStou
  <2> DEFINE announced == <<125>>
             late == <<125, 425>>
             outside == <<125, 550>>
  <2>1. Reads({"STOU"}) /\ UNCHANGED representation /\ ~Downloads
    BY <1>4, <1>18 DEF HandleStou, Serves, Downloads
  <2>2. announced = Announces(announced)
    BY DEF Announces
  <2>3. late = announced \o <<425>> /\ outside = announced \o <<550>>
    BY <1>10, SecondReply
  <2>4. CASE Refuses(late) \/ Refuses(outside)
    BY <1>10, <1>11, <2>1, <2>4
  <2>5. CASE /\ Reply(announced) /\ Begins("STOR", "receiving")
             /\ UNCHANGED endpoint
    BY <1>10, <1>16, <2>1, <2>5
  <2>6. OpensUpload(announced)
    BY <1>18 DEF HandleStou
  <2> HIDE DEF announced, late, outside
  <2>7. \/ Refuses(late) \/ Refuses(outside)
        \/ /\ Reply(announced) /\ Begins("STOR", "receiving")
           /\ UNCHANGED endpoint
    BY <2>2, <2>3, <2>6 DEF OpensUpload
  <2> QED
    BY <2>4, <2>5, <2>7
<1>19. HandleCommand => \/ RefuseStranger \/ HandleList \/ HandleRetr
                        \/ HandleStor \/ HandleStou
  BY <1>2, <1>4
     DEF HandleCommand, SkipEmptyLine, RejectInvalidLine, HandleQuit,
         HandleNoop, HandleUser, HandlePass, HandleType, TransferVerbs,
         HandleMode, HandlePort, HandlePasv, HandleDirectoryCommand,
         HandleFileCommand, HandleHash, Answers, HandleRnfr, HandleRnto,
         HandleAbor, Serves
<1> QED
  BY <1>3, <1>12, <1>14, <1>15, <1>17, <1>18, <1>19

\* A server at work reads no lines.
LEMMA BusyTransfers ==
    ASSUME Busy, Serve
    PROVE  Transfer
BY DEF Serve, Busy, HandleCommand, SkipEmptyLine, RejectInvalidLine,
       HandleQuit, HandleNoop, HandleUser, HandlePass, RefuseStranger,
       HandleType, HandleMode, HandlePort, HandlePasv,
       HandleDirectoryCommand, HandleFileCommand, HandleHash, Answers,
       HandleRnfr, HandleRnto, HandleList, HandleRetr, HandleStor,
       HandleStou, HandleAbor, Serves, Reads, EndOfInput

\* A server at work goes on, or ends the transfer with one reply; the endpoint
\* of an active client is kept.
LEMMA TransferServed ==
    ASSUME NEW codes \in Seq(Codes), Working(codes), Serve
    PROVE  /\ \/ Working(codes)'
              \/ \E code \in Codes : Answered(codes \o <<code>>)'
           /\ UNCHANGED representation
           /\ dataMode = "ACTIVE" => UNCHANGED <<dataMode, activePort>>
<1>1. Transfer
  BY BusyTransfers DEF Working
<1>2. toServer = <<>> /\ toClient = codes
  BY DEF Working
<1>3. ReleaseChannel => (dataMode = "ACTIVE" => UNCHANGED <<dataMode, activePort>>)
  BY DEF ReleaseChannel, endpoint
<1>4. ASSUME NEW code \in Codes, Ends(<<code>>), UNCHANGED toServer,
             ReleaseChannel \/ UNCHANGED endpoint
      PROVE  /\ \E c \in Codes : Answered(codes \o <<c>>)'
             /\ UNCHANGED representation
             /\ dataMode = "ACTIVE" => UNCHANGED <<dataMode, activePort>>
  <2>1. Answered(codes \o <<code>>)'
    BY <1>2, <1>4 DEF Ends, Reply, Answered
  <2> QED
    BY <1>3, <1>4, <2>1 DEF Ends, endpoint
<1>5. /\ 226 \in Codes /\ 425 \in Codes /\ 426 \in Codes /\ 451 \in Codes
      /\ 551 \in Codes
  BY DEF Codes
<1>6. CASE KnockArrives
  BY <1>2, <1>6 DEF KnockArrives, Working, Busy
<1>7. CASE KnockButUnreadable
  <2>1. Ends(<<451>>) /\ UNCHANGED toServer /\ ReleaseChannel
    BY <1>7 DEF KnockButUnreadable
  <2> QED
    BY <1>4, <1>5, <2>1, ZenonT(40)
<1>8. CASE KnockTimeout
  <2>1. /\ UNCHANGED toServer
        /\ \/ ReleaseChannel /\ Ends(<<426>>)
           \/ Ends(<<425>>) /\ UNCHANGED endpoint
    BY <1>8 DEF KnockTimeout
  <2> QED
    BY <1>4, <1>5, <2>1, ZenonT(40)
<1>9. CASE SendSucceeds
  <2>1. Ends(<<226>>) /\ UNCHANGED toServer /\ ReleaseChannel
    BY <1>9 DEF SendSucceeds
  <2> QED
    BY <1>4, <1>5, <2>1, ZenonT(40)
<1>10. CASE SendGivesUp
  <2>1. Ends(<<426>>) /\ UNCHANGED toServer /\ ReleaseChannel
    BY <1>10 DEF SendGivesUp
  <2> QED
    BY <1>4, <1>5, <2>1, ZenonT(40)
<1>11. CASE Stored
  <2>1. /\ Ends(<<226>>) \/ Ends(<<551>>)
        /\ UNCHANGED toServer /\ ReleaseChannel
    BY <1>11 DEF Stored
  <2> QED
    BY <1>4, <1>5, <2>1, ZenonT(40)
<1>12. ~SendAborted /\ ~ReceiveAborted
  BY <1>2 DEF SendAborted, ReceiveAborted, TakeAbor
<1> QED
  BY <1>1, <1>6, <1>7, <1>8, <1>9, <1>10, <1>11, <1>12 DEF Transfer

\* The server answers, and where it was working, the client's position stands.
LEMMA ServeStands ==
    ASSUME ControlInv, ServeStep
    PROVE  Standing'
<1>1. /\ UNCHANGED <<client, line, settings, leftEarly, abortSent>>
      /\ Serve /\ (client # "gone" => ~hungUp)
  BY DEF ControlInv, Bookkeeping, ServeStep, clientVars, clientState, signals
<1>2. Leaving' = Leaving /\ Downloads' = Downloads /\ Opening' = Opening
  BY <1>1 DEF Leaving, Downloads, Opening
<1>3. CASE leftEarly
  BY <1>1, <1>3 DEF Standing
<1>4. CASE ~leftEarly /\ Leaving
  BY <1>1, <1>2, <1>4, LeavingIsServed DEF Standing
<1>5. CASE ~leftEarly /\ ~Leaving
  <2>1. Position /\ ~hungUp
    BY <1>1, <1>5 DEF ControlInv, Standing, Leaving
  <2>2. ~AtPrompt
    BY <1>1, <2>1, NothingToServe DEF Position, AtRest, Busy
  <2>3. client = "await" => AwaitPosition'
    BY <1>5, PlainCommandServed
  <2>4. client = "pasv" => PasvPosition'
    BY <1>5, PasvServed
  <2>5. ASSUME NEW codes \in Seq(Codes), Working(codes), Agreed
        PROVE  /\ \/ Working(codes)'
                  \/ \E code \in Codes : Answered(codes \o <<code>>)'
               /\ Agreed'
    BY <1>1, <2>5, TransferServed
       DEF Agreed, SameSettings, ActiveIs, settings, representation
  <2>6. ASSUME Working(<<>>), Agreed
        PROVE  /\ Working(<<>>)' \/ \E code \in Codes : Answered(<<code>>)'
               /\ Agreed'
    <3>1. <<>> \in Seq(Codes) /\ \A code \in Codes : <<>> \o <<code>> = <<code>>
      OBVIOUS
    <3> QED
      BY <2>5, <2>6, <3>1
  <2>7. ASSUME NEW codes, Answered(codes) PROVE FALSE
    BY <1>1, <2>1, <2>7, NothingToServe DEF Answered, Busy
  <2>8. client = "opening" => OpeningPosition'
    <3> SUFFICES ASSUME client = "opening" PROVE OpeningPosition'
      OBVIOUS
    <3>1. OpeningPosition
      BY <2>1 DEF Position
    <3>2. CASE Asked(line)
      BY <1>5, <3>2, TransferCommandServed
    <3>3. ASSUME NEW open \in Opening, Working(<<open>>)
          PROVE  OpeningPosition'
      <4>1. open \in Codes /\ Agreed
        BY <3>1 DEF Opening, Codes, OpeningPosition
      <4>2. /\ Working(<<open>>)' \/ \E code \in Codes : Answered(<<open>> \o <<code>>)'
            /\ Agreed'
        BY <2>5, <3>3, <4>1, OneCode
      <4>3. \A code \in Codes : <<open>> \o <<code>> = <<open, code>>
        BY <4>1, SecondReply
      <4>4. \/ Working(<<open>>)'
            \/ \E code \in Codes : Answered(<<open, code>>)'
        BY <4>2, <4>3 DEF Answered
      <4> QED
        BY <1>2, <4>2, <4>4 DEF OpeningPosition
    <3> QED
      BY <2>7, <3>1, <3>2, <3>3, ZenonT(40) DEF OpeningPosition
  <2>9. TransferPosition => TransferPosition'
    BY <2>6, <2>7 DEF TransferPosition
  <2>10. FinalPosition => FinalPosition'
    BY <2>6, <2>7 DEF FinalPosition
  <2>11. Position'
    BY <1>1, <1>2, <2>1, <2>2, <2>3, <2>4, <2>8, <2>9, <2>10
       DEF Position, AtPrompt
  <2> QED
    BY <1>2, <1>5, <2>11 DEF Standing
<1> QED
  BY <1>3, <1>4, <1>5

-----------------------------------------------------------------------------
(* The invariant.                                                           *)

LEMMA ControlInit == Init => ControlInv
<1> SUFFICES ASSUME Init PROVE ControlInv
  OBVIOUS
<1>1. Bookkeeping
  <2>1. <<>> \in Seq(Commands) /\ NoLine \in Lines \union {NoLine}
    OBVIOUS
  <2> QED
    BY <2>1
       DEF Init, SessionInit, Bookkeeping, ClientTypeOK, LineInHand, AtPrompt
<1>2. AtRest /\ Agreed
  BY DEF Init, SessionInit, AtRest, Agreed, SameSettings, ActiveIs
<1>3. Standing
  BY <1>2 DEF Init, Standing, Leaving, Position, AtPrompt
<1> QED
  BY <1>1, <1>3 DEF ControlInv

LEMMA ControlKept ==
    ASSUME ControlInv, [Next]_vars
    PROVE  ControlInv'
<1>1. CASE CliStep \/ UserStep \/ Signal
  <2>1. Bookkeeping'
    BY <1>1, ClientKeepsBooks DEF ControlInv
  <2>2. Standing'
    BY <1>1, LeavingStands, TypingStands, ReplyStands, OpeningStands,
       TransferStands, FinalStands DEF CliStep, UserStep
  <2> QED
    BY <2>1, <2>2 DEF ControlInv
<1>2. CASE ServeStep
  BY <1>2, ServeKeepsBooks, ServeStands DEF ControlInv
<1>3. CASE UNCHANGED vars
  <2>1. UNCHANGED <<client, line, clientState, signals, sessionVars>>
    BY <1>3 DEF vars, clientVars
  <2>2. Bookkeeping'
    BY <2>1
       DEF ControlInv, Bookkeeping, ClientTypeOK, LineInHand, AtPrompt,
           clientState, settings, signals, sessionVars
  <2>3. Standing'
    BY <2>1
       DEF ControlInv,
           Standing, Leaving, SettingsStay, SameSettings, NoSetting, Position,
           AtPrompt, AtRest, Agreed, ActiveIs, AwaitPosition, Asked, Answered,
           AgreedAfter, TypeAfter, ModeAfter, ActiveAfter, PasvPosition,
           OpeningPosition, Opening, Downloads, Working, Busy,
           TransferPosition, FinalPosition, clientState, settings, signals,
           sessionVars, representation, endpoint
  <2> QED
    BY <2>2, <2>3 DEF ControlInv
<1> QED
  BY <1>1, <1>2, <1>3 DEF Next

LEMMA ControlInductive == Spec => []ControlInv
<1>1. ControlInv /\ [Next]_vars => ControlInv'
  BY ControlKept
<1> QED
  BY <1>1, ControlInit, PTL DEF Spec

-----------------------------------------------------------------------------
(* What follows from it.                                                    *)

\* The variables of the client (ClientCLI.cpp) keep their types, and it has no
\* line in hand when it asks for one.
THEOREM ClientTypeCorrect == Spec => []ClientTypeOK
<1>1. ControlInv => ClientTypeOK
  BY DEF ControlInv, Bookkeeping
<1> QED
  BY <1>1, ControlInductive, PTL

\* As long as no transfer was interrupted and none has failed on the client's
\* side alone, each command reads exactly the replies the server gives it.
THEOREM RepliesStayPaired == Spec => []RepliesPaired
<1>1. ControlInv => RepliesPaired
  BY DEF ControlInv, Standing, Leaving, Position, AtRest, RepliesPaired, InStep,
         AtPrompt
<1> QED
  BY <1>1, ControlInductive, PTL

\* Client and server apply the same type and mode, whatever is typed in whatever
\* order and whenever a signal comes.
THEOREM RepresentationStaysAgreed == Spec => []RepresentationAgreed
<1>1. ControlInv => RepresentationAgreed
  <2> SUFFICES ASSUME ControlInv, ~leftEarly,
                      ~(client = "await" /\ line.name \in {"TYPE", "MODE"})
               PROVE  SameSettings
    BY DEF RepresentationAgreed, SameRepresentation, SameSettings
  <2>1. CASE Leaving
    BY <2>1 DEF ControlInv, Standing, SettingsStay
  <2>2. CASE ~Leaving
    <3>1. Position /\ client # "aborted"
      BY <2>2 DEF ControlInv, Bookkeeping, Standing, Leaving
    <3>2. CASE client = "await"
      BY <3>1, <3>2
         DEF Position, AwaitPosition, Agreed, AgreedAfter, TypeAfter, ModeAfter,
             SameSettings
    <3>3. CASE client # "await"
      BY <2>2, <3>1, <3>3
         DEF ControlInv, Bookkeeping, ClientTypeOK, Position, AtPrompt, Agreed,
             PasvPosition, OpeningPosition, TransferPosition, FinalPosition,
             Leaving
    <3> QED
      BY <3>2, <3>3
  <2> QED
    BY <2>1, <2>2
<1> QED
  BY <1>1, ControlInductive, PTL

\* The server sends to the address of the socket the client listens on.
THEOREM EndpointStaysAgreed == Spec => []EndpointAgreed
<1>1. ControlInv => EndpointAgreed
  BY DEF ControlInv, Standing, Leaving, Position, Agreed, ActiveIs,
         EndpointAgreed, InStep, AtPrompt
<1> QED
  BY <1>1, ControlInductive, PTL

-----------------------------------------------------------------------------
(* When nothing goes wrong.                                                 *)

\* What the client's steps before a transfer leave as it is.
LEMMA SmoothBefore ==
    ASSUME Untroubled, ControlInv, SmoothSoFar, ~Leaving',
           ShowPrompt \/ TypeCommand \/ TypeTransfer \/ ReplyArrives \/ Signal
    PROVE  SmoothSoFar'
<1> SUFFICES NothingLeft' /\ SocketOpen' /\ SmoothPosition'
  BY DEF SmoothSoFar
<1>1. CASE ShowPrompt \/ TypeCommand
  <2>1. ~Leaving /\ UNCHANGED <<stray, leftEarly, endpoint>>
    BY <1>1
       DEF ShowPrompt, TypeCommand, clientState, sessionVars, sessionThread,
           ControlInv, Bookkeeping, Leaving, signals
  <2> QED
    BY <1>1, <2>1
       DEF ShowPrompt, TypeCommand, SmoothSoFar, NothingLeft, SocketOpen,
           SmoothPosition, endpoint
<1>2. CASE TypeTransfer
  <2>1. /\ client = "prompt" /\ ~Leaving /\ ~leftEarly
        /\ UNCHANGED <<stray, leftEarly, clientActive, server, endpoint, toClient>>
    BY <1>2
       DEF TypeTransfer, clientState, settings, sessionThread, signals,
           Leaving, SmoothSoFar, NothingLeft
  <2>2. NothingLeft' /\ SocketOpen'
    BY <2>1 DEF SmoothSoFar, NothingLeft, SocketOpen, endpoint
  <2>3. CASE ~clientActive
    <3>1. client' = "pasv"
      BY <1>2, <2>3 DEF TypeTransfer
    <3> QED
      BY <2>2, <3>1 DEF SmoothPosition
  <2>4. CASE clientActive
    <3>1. client' = "opening" /\ Asked(line)' /\ dataMode = "ACTIVE"
          /\ activePort = "ok"
      <4>1. PICK typed \in Lines :
                line' = typed /\ Sends(typed) /\ client' = "opening"
        BY <1>2, <2>4 DEF TypeTransfer
      <4>2. AtRest /\ Agreed
        BY <2>1 DEF ControlInv, Standing, Position, AtPrompt
      <4> QED
        BY <2>1, <2>4, <4>1, <4>2, FirstInQueue
           DEF Sends, Asked, AtRest, Agreed, ActiveIs
    <3>2. ChannelOpens' /\ dataMode' = "ACTIVE"
      BY <2>1, <3>1 DEF ChannelOpens, endpoint
    <3> QED
      BY <2>2, <3>1, <3>2 DEF SmoothPosition
  <2> QED
    BY <2>3, <2>4
<1>3. CASE ReplyArrives
  <2>1. /\ client = "await" /\ client' \in {"head", "gone"}
        /\ UNCHANGED <<signals, endpoint>>
        /\ ~leftEarly /\ line.name # "ABOR" => ~leftEarly'
        /\ stray' \in {stray, "none"}
    BY <1>3
       DEF ReplyArrives, BackToHead, sessionThread
  <2>2. ~Leaving /\ line \in Lines
    BY <2>1 DEF Leaving, ControlInv, Bookkeeping, LineInHand
  <2>3. line.name # "ABOR"
    BY <2>2 DEF Untroubled
  <2> QED
    BY <2>1, <2>2, <2>3
       DEF SmoothSoFar, NothingLeft, SocketOpen, SmoothPosition, endpoint
<1>4. CASE Signal
  <2>1. UNCHANGED <<client, line, clientState, abortSent, sessionVars>>
    BY <1>4 DEF Signal
  <2>2. ~Leaving
    BY <2>1 DEF Leaving
  <2> QED
    BY <2>1, <2>2
       DEF SmoothSoFar, NothingLeft, SocketOpen, SmoothPosition, Asked, Answered,
           ChannelOpens, Downloads, Opening, Begun, Working, Busy,
           UploadAnswered, clientState, settings, sessionVars, endpoint, channel
<1> QED
  BY <1>1, <1>2, <1>3, <1>4

\* A transfer is refused with one reply, or client and server both begin it.
LEMMA SmoothOpening ==
    ASSUME Untroubled, ControlInv, SmoothSoFar,
           \/ PasvAnswered \/ PasvRefused \/ TransferRefused
           \/ DownloadOpened \/ UploadOpened
    PROVE  SmoothSoFar'
<1> SUFFICES NothingLeft' /\ SocketOpen' /\ SmoothPosition'
  BY DEF SmoothSoFar
<1>1. /\ UNCHANGED <<stray, leftEarly, clientActive, server, dataMode,
                     activePort, line>> \/ client' = "head"
      /\ UNCHANGED <<stray, leftEarly, dataMode>>
      /\ passiveSocket' \in {passiveSocket, "knocked"}
      /\ client \in {"pasv", "opening"}
      /\ toClient # <<>> /\ toClient' = Tail(toClient)
  BY DEF PasvAnswered, PasvRefused, TransferRefused, DownloadOpened,
         UploadOpened, Gets, Knocks, BackToHead, clientState, settings,
         sessionThread, endpoint
<1>2. ~Leaving /\ ~leftEarly
  BY <1>1 DEF ControlInv, Bookkeeping, Leaving, SmoothSoFar, NothingLeft
<1>3. NothingLeft' /\ SocketOpen'
  BY <1>1, <1>2 DEF SmoothSoFar, NothingLeft, SocketOpen
<1>4. SmoothPosition /\ Position
  BY <1>2 DEF SmoothSoFar, ControlInv, Standing
<1>5. CASE PasvRefused \/ TransferRefused
  BY <1>3, <1>5 DEF PasvRefused, TransferRefused, BackToHead, SmoothPosition
<1>6. CASE PasvAnswered
  <2>1. /\ client = "pasv" /\ client' = "opening" /\ Head(toClient) = 227
        /\ Knocks /\ Sends(line)
    BY <1>6 DEF PasvAnswered, Gets
  <2>2. toClient = <<227>> /\ toServer = <<>> /\ server = "reading"
        /\ dataMode = "PASSIVE"
    BY <1>1, <1>4, <2>1, OneInQueue
       DEF Position, PasvPosition, Asked, Answered
  <2>3. Asked(line)'
    BY <1>1, <2>1, <2>2, FirstInQueue, OneInQueue DEF Sends, Asked
  <2>4. Downloads => passiveSocket' = "knocked"
    BY <2>1, <2>2, OneInQueue DEF Knocks, Untroubled
  <2>5. ChannelOpens'
    BY <1>1, <1>3, <2>2 DEF ChannelOpens, SocketOpen
  <2> QED
    BY <1>1, <1>3, <2>1, <2>3, <2>4, <2>5 DEF SmoothPosition, Downloads
<1>7. ASSUME client = "opening", Head(toClient) \in Opening
      PROVE  \E open \in Opening : Begun(<<open>>)
  BY <1>1, <1>4, <1>7, OneInQueue DEF SmoothPosition, Asked, Answered
<1>8. ASSUME client = "opening", Head(toClient) \in Opening,
             UNCHANGED <<server, toServer, passiveSocket, data, activeKnock,
                         line, clientActive>>
      PROVE  Begun(<<>>)'
  BY <1>1, <1>7, <1>8, OneInQueue DEF Begun, Working, Busy, Downloads
<1>9. CASE DownloadOpened
  <2>1. /\ client = "opening" /\ Head(toClient) \in Opening
        /\ UNCHANGED <<server, toServer, passiveSocket, data, activeKnock,
                       line, clientActive>>
        /\ client' = "transfer" /\ Downloads /\ Downloads'
    BY <1>9
       DEF DownloadOpened, Gets, sessionThread, endpoint, channel, clientState,
           settings, Downloads
  <2> QED
    BY <1>3, <1>8, <2>1 DEF SmoothPosition
<1>10. CASE UploadOpened /\ clientActive
  <2>1. /\ client = "opening" /\ Head(toClient) \in Opening
        /\ UNCHANGED <<server, toServer, passiveSocket, data, activeKnock,
                       line, clientActive>>
        /\ client' = "knock" /\ ~Downloads /\ ~Downloads'
    BY <1>10
       DEF UploadOpened, Gets, sessionThread, endpoint, clientState,
           settings, Downloads
  <2> QED
    BY <1>3, <1>8, <1>10, <2>1 DEF SmoothPosition, Begun
<1>11. CASE UploadOpened /\ ~clientActive
  <2>1. /\ client = "opening" /\ Head(toClient) \in Opening
        /\ UNCHANGED <<server, toServer, line>>
        /\ client' = "transfer" /\ Uploads /\ ~Downloads /\ ~Downloads'
    BY <1>11
       DEF UploadOpened, Gets, sessionThread, Downloads
  <2>2. server = "receiving" /\ Working(<<>>)'
    BY <1>1, <1>7, <2>1, OneInQueue DEF Begun, Working, Busy
  <2> QED
    BY <1>3, <2>1, <2>2 DEF SmoothPosition, Uploads
<1> QED
  BY <1>5, <1>6, <1>9, <1>10, <1>11

\* The client's end of a transfer succeeds.
LEMMA SmoothTransfer ==
    ASSUME Untroubled, ControlInv, SmoothSoFar,
           \/ ServerKnocked \/ StrayKnocked \/ NoKnock \/ Received
           \/ StrayFinEndsDownload \/ Sent \/ SenderGaveUp \/ FinalReply
    PROVE  SmoothSoFar'
<1> SUFFICES ASSUME ~Leaving'
             PROVE  NothingLeft' /\ SocketOpen' /\ SmoothPosition'
  BY DEF SmoothSoFar
<1>1. /\ UNCHANGED <<settings, signals, sessionThread, toServer>>
      /\ client \in {"knock", "transfer", "final"}
  BY DEF ServerKnocked, StrayKnocked, NoKnock, Received, StrayFinEndsDownload,
         Sent, SenderGaveUp, FinalReply, clientState, sessionVars, sessionThread
<1>2. ~Leaving /\ NothingLeft /\ SocketOpen /\ SmoothPosition /\ SameSettings
  <2>1. ~Leaving
    BY <1>1 DEF Leaving, signals
  <2> QED
    BY <1>1, <2>1
       DEF SmoothSoFar, NothingLeft, ControlInv, Standing, Position,
           TransferPosition, FinalPosition, Agreed
<1>3. SocketOpen'
  BY <1>1, <1>2 DEF SocketOpen, sessionThread, endpoint
<1>4. CASE ServerKnocked
  <2>1. Begun(<<>>) /\ ~Downloads /\ ~Downloads' /\ server = "receiving"
    BY <1>2, <1>4 DEF ServerKnocked, SmoothPosition, Begun, Downloads
  <2>2. Working(<<>>)' /\ server' = "receiving" /\ data' = "flowing"
    BY <1>4, <2>1
       DEF ServerKnocked, Uploads, Begun, Working, Busy, sessionThread
  <2> QED
    BY <1>2, <1>3, <1>4, <2>1, <2>2
       DEF ServerKnocked, clientState, NothingLeft, SmoothPosition
<1>5. ~StrayKnocked /\ ~StrayFinEndsDownload
  BY <1>2 DEF StrayKnocked, StrayFinEndsDownload, NothingLeft
<1>6. ~NoKnock
  BY <1>2 DEF NoKnock, Untroubled, SmoothPosition
<1>7. CASE Received
  <2>1. /\ client = "transfer" /\ Downloads /\ data = "flowing"
        /\ data' = "delivered" /\ stray' = "none"
        /\ ReceiverReturns(MayDecode, MayFailToDecode)
        /\ toClient' = toClient
    BY <1>7 DEF Received, Untroubled
  <2>2. Begun(<<>>) /\ server = "sending"
    BY <1>2, <2>1 DEF SmoothPosition, Begun
  <2>3. ~RefusedTwice /\ ~MayFailToDecode
    BY <1>2, <2>2 DEF Begun, Working, RefusedTwice, MayFailToDecode,
                      SameSettings, NothingLeft
  <2>4. client' = "final" /\ ~leftEarly' /\ line' = line
    BY <1>2, <2>1, <2>3 DEF ReceiverReturns, Untroubled, NothingLeft
  <2>5. Working(<<>>)' /\ server' = "sending"
    BY <1>1, <2>1, <2>2 DEF Begun, Working, Busy, sessionThread
  <2> QED
    BY <1>2, <1>3, <2>1, <2>4, <2>5 DEF NothingLeft, SmoothPosition, Downloads
<1>8. CASE Sent
  <2>1. UploadAnswered /\ ~Downloads
    BY <1>2, <1>8 DEF Sent, SmoothPosition
  <2>2. UploadAnswered' /\ ~Downloads' /\ client' = "final"
    BY <1>8, <2>1 DEF Sent, UploadAnswered, Answered, Downloads, sessionVars
  <2> QED
    BY <1>2, <1>3, <1>8, <2>2 DEF Sent, NothingLeft, SmoothPosition
<1>9. ~SenderGaveUp
  BY <1>2 DEF SenderGaveUp, Untroubled, SmoothPosition
<1>10. CASE FinalReply
  BY <1>2, <1>3, <1>10
     DEF FinalReply, BackToHead, clientState, NothingLeft, SmoothPosition
<1> QED
  BY <1>4, <1>5, <1>6, <1>7, <1>8, <1>9, <1>10

\* A passive session never goes without its socket.
LEMMA SocketStaysOpen ==
    ASSUME SocketOpen, Serve
    PROVE  SocketOpen'
<1>1. ASSUME ReleaseChannel \/ UNCHANGED endpoint PROVE SocketOpen'
  BY <1>1 DEF SocketOpen, ReleaseChannel, endpoint
<1>2. CASE \/ SkipEmptyLine \/ RejectInvalidLine \/ HandleQuit \/ HandleNoop
           \/ HandleUser \/ HandlePass \/ RefuseStranger \/ HandleType
           \/ HandleMode \/ EndOfInput
  BY <1>1, <1>2
     DEF SkipEmptyLine, RejectInvalidLine, HandleQuit, HandleNoop, HandleUser,
         HandlePass, RefuseStranger, HandleType, HandleMode, EndOfInput
<1>3. CASE \/ HandleDirectoryCommand \/ HandleFileCommand \/ HandleHash
           \/ HandleRnfr \/ HandleRnto
  BY <1>1, <1>3
     DEF HandleDirectoryCommand, HandleFileCommand, HandleHash, Answers,
         HandleRnfr, HandleRnto
<1>4. CASE HandlePort
  BY <1>1, <1>4 DEF HandlePort, SocketOpen
<1>5. CASE HandlePasv \/ HandleAbor
  BY <1>1, <1>5 DEF HandlePasv, HandleAbor, AborClosesChannel, SocketOpen
<1>6. CASE HandleList \/ HandleRetr
  <2>1. UNCHANGED endpoint
    BY <1>6 DEF HandleList, HandleRetr, Refuses, BeginsSending
  <2> QED
    BY <1>1, <2>1
<1>7. CASE HandleStor \/ HandleStou
  <2>1. UNCHANGED endpoint
    BY <1>7 DEF HandleStor, HandleStou, OpensUpload, Refuses
  <2> QED
    BY <1>1, <2>1
<1>8. CASE KnockArrives
  BY <1>8 DEF KnockArrives, SocketOpen
<1>9. CASE \/ KnockButUnreadable \/ KnockTimeout \/ SendSucceeds \/ SendGivesUp
           \/ SendAborted \/ Stored \/ ReceiveAborted
  <2>1. ReleaseChannel \/ UNCHANGED endpoint
    BY <1>9
       DEF KnockButUnreadable, KnockTimeout, SendSucceeds, SendGivesUp,
           SendAborted, Stored, ReceiveAborted
  <2> QED
    BY <1>1, <2>1
<1> QED
  BY <1>2, <1>3, <1>4, <1>5, <1>6, <1>7, <1>8, <1>9
     DEF Serve, HandleCommand, Transfer

\* The server begins the transfer it announces, or refuses it with one reply.
LEMMA SmoothCommandServed ==
    ASSUME Untroubled, ServeStep, Asked(line), ChannelOpens, line \in Lines,
           clientActive => dataMode = "ACTIVE",
           Downloads /\ dataMode = "PASSIVE" => passiveSocket = "knocked",
           line.name \in TransferVerbs
    PROVE  \/ \E code \in Codes \ Opening : Answered(<<code>>)'
           \/ \E open \in Opening : Begun(<<open>>)'
<1>1. HandleCommand
  BY LineIsHandled DEF ServeStep
<1>2. ASSUME NEW names, Reads(names)
      PROVE  /\ toServer' = <<>> /\ Head(toServer) = line
             /\ line.name \in names
  BY <1>2, OnlyLineRead
<1>3. ASSUME NEW code \in Codes, Reply(<<code>>) PROVE toClient' = <<code>>
  BY <1>3, OnlyReplies, OneCode DEF Asked
<1>4. /\ 425 \in Codes \ Opening /\ 501 \in Codes \ Opening
      /\ 530 \in Codes \ Opening /\ 550 \in Codes \ Opening
      /\ 150 \in Codes /\ 150 \in Opening
      /\ 125 \in Codes /\ (~Downloads => 125 \in Opening)
  BY DEF Codes, Opening
<1>5. UNCHANGED <<line, clientActive>> /\ Downloads' = Downloads
  BY DEF ServeStep, clientVars, clientState, settings, Downloads
<1>6. ~ChannelFails
  BY DEF ChannelFails, Untroubled
<1>7. ASSUME NEW code \in Codes \ Opening, NEW names, Reads(names),
             Reply(<<code>>), UNCHANGED server
      PROVE  Answered(<<code>>)'
  BY <1>2, <1>3, <1>7 DEF Answered, Asked
<1>8. CASE RefuseStranger
  BY <1>4, <1>7, <1>8 DEF RefuseStranger, StaysIdle
<1>9. ASSUME NEW command, BeginsSending(command), Downloads,
             NEW names, Reads(names)
      PROVE  Begun(<<150>>)'
  <2>1. /\ toServer' = <<>> /\ toClient' = <<150>> /\ UNCHANGED endpoint
        /\ \/ dataMode = "PASSIVE" /\ server' = "awaitKnock" /\ data' = "none"
           \/ server' = "sending" /\ data' = "flowing"
    BY <1>2, <1>3, <1>4, <1>9 DEF BeginsSending, Begins
  <2> QED
    BY <1>5, <1>9, <2>1 DEF Begun, Working, Busy, endpoint
<1>10. CASE HandleList
  <2>1. Reads({"LIST"}) /\ dataMode # "NONE"
    BY <1>10 DEF HandleList, Serves, ChannelOpens
  <2>2. Downloads
    BY <1>2, <2>1 DEF Downloads
  <2>3. Refuses(<<550>>) \/ BeginsSending("LIST")
    BY <1>6, <1>10, <2>1 DEF HandleList
  <2> QED
    BY <1>4, <1>7, <1>9, <2>1, <2>2, <2>3 DEF Refuses, StaysIdle
<1>11. CASE HandleRetr
  <2>1. Reads({"RETR"})
    BY <1>11 DEF HandleRetr, Serves
  <2>2. Downloads
    BY <1>2, <2>1 DEF Downloads
  <2>3. Refuses(<<501>>) \/ Refuses(<<550>>) \/ BeginsSending("RETR")
    BY <1>6, <1>11 DEF HandleRetr, Untroubled
  <2> QED
    BY <1>4, <1>7, <1>9, <2>1, <2>2, <2>3 DEF Refuses, StaysIdle
<1>12. ASSUME NEW open \in Opening, Reply(<<open>>), ~Downloads,
              NEW names, Reads(names), Begins("STOR", "receiving"),
              data' = "none", activeKnock' = (dataMode = "ACTIVE")
       PROVE  Begun(<<open>>)'
  <2>1. open \in Codes
    BY DEF Opening, Codes
  <2>2. toServer' = <<>> /\ toClient' = <<open>> /\ server' = "receiving"
    BY <1>2, <1>3, <1>12, <2>1 DEF Begins
  <2>3. clientActive' => activeKnock'
    BY <1>5, <1>12
  <2> QED
    BY <1>5, <1>12, <2>2, <2>3 DEF Begun, Working, Busy
<1>13. CASE HandleStor
  <2> DEFINE outside == <<550>>
             announced == <<150>>
  <2>1. Reads({"STOR"})
    BY <1>13 DEF HandleStor, Serves
  <2>2. ~Downloads
    BY <1>2, <2>1 DEF Downloads
  <2>3. outside = <<>> \o <<550>> /\ announced = Announces(<<>>)
    BY DEF Announces
  <2>4. CASE Refuses(<<501>>) \/ Refuses(outside)
    BY <1>4, <1>7, <2>1, <2>4 DEF Refuses, StaysIdle
  <2>5. CASE /\ Reply(announced) /\ Begins("STOR", "receiving")
             /\ data' = "none" /\ activeKnock' = (dataMode = "ACTIVE")
    BY <1>4, <1>12, <2>1, <2>2, <2>5
  <2> HIDE DEF outside, announced
  <2>6. OpensUpload(<<>>) =>
            \/ Refuses(outside)
            \/ /\ Reply(announced) /\ Begins("STOR", "receiving")
               /\ data' = "none" /\ activeKnock' = (dataMode = "ACTIVE")
    BY <1>6, <2>3 DEF OpensUpload, Untroubled
  <2> QED
    BY <1>13, <2>4, <2>5, <2>6 DEF HandleStor
<1>14. CASE HandleStou
  <2> DEFINE announced == <<125>>
  <2>1. Reads({"STOU"}) /\ OpensUpload(announced)
    BY <1>14 DEF HandleStou, Serves
  <2>2. ~Downloads /\ line.name = "STOU"
    BY <1>2, <2>1 DEF Downloads
  <2>3. announced = Announces(announced)
    BY DEF Announces
  <2>4. Arg # "bad"
    <3>1. line \in [name : Verbs, arg : Arguments] /\ Arg = line.arg
      BY <1>2, <2>1, LinesAssumption, CommandsAssumption DEF Arg
    <3>2. line = [name |-> line.name, arg |-> line.arg]
      BY <3>1
    <3> QED
      BY <2>2, <3>1, <3>2 DEF Untroubled
  <2>5. CASE /\ Reply(announced) /\ Begins("STOR", "receiving")
             /\ data' = "none" /\ activeKnock' = (dataMode = "ACTIVE")
    BY <1>4, <1>12, <2>1, <2>2, <2>5
  <2> HIDE DEF announced
  <2>6. /\ Reply(announced) /\ Begins("STOR", "receiving")
        /\ data' = "none" /\ activeKnock' = (dataMode = "ACTIVE")
    BY <1>6, <2>1, <2>3, <2>4 DEF OpensUpload, Untroubled
  <2> QED
    BY <2>5, <2>6
<1>15. HandleCommand => \/ RefuseStranger \/ HandleList \/ HandleRetr
                        \/ HandleStor \/ HandleStou
  BY <1>2
     DEF HandleCommand, SkipEmptyLine, RejectInvalidLine, HandleQuit,
         HandleNoop, HandleUser, HandlePass, HandleType, TransferVerbs,
         HandleMode, HandlePort, HandlePasv, HandleDirectoryCommand,
         HandleFileCommand, HandleHash, Answers, HandleRnfr, HandleRnto,
         HandleAbor, Serves
<1> QED
  BY <1>1, <1>8, <1>10, <1>11, <1>13, <1>14, <1>15

\* A transfer begun waits for the client's data, or goes on to send its own.
LEMMA SmoothStartServed ==
    ASSUME Untroubled, NEW codes, Begun(codes), ServeStep
    PROVE  Begun(codes)' /\ Downloads
<1>1. Transfer /\ toServer = <<>>
  BY BusyTransfers DEF Begun, Working, ServeStep
<1>2. UNCHANGED <<line, clientActive>>
  BY DEF ServeStep, clientVars, clientState, settings
<1>3. KnockArrives
  BY <1>1
     DEF Transfer, KnockButUnreadable, KnockTimeout, SendSucceeds, SendGivesUp,
         SendAborted, Stored, ReceiveAborted, TakeAbor, Untroubled, Begun,
         Working, Busy
<1> QED
  BY <1>2, <1>3 DEF KnockArrives, Begun, Working, Busy, Downloads

\* The server's end of a transfer succeeds, too; what an upload brings may
\* still not decode.
LEMMA SmoothEndServed ==
    ASSUME Untroubled, Working(<<>>), Serve,
           \/ server = "sending" /\ data = "delivered"
           \/ server = "receiving" /\ data = "flowing"
    PROVE  /\ data' = "delivered"
           /\ server = "sending" => Answered(<<226>>)'
           /\ server = "receiving" => UploadAnswered'
<1>1. Transfer /\ toServer = <<>> /\ toClient = <<>>
  BY BusyTransfers DEF Working
<1>2. \/ SendSucceeds /\ server = "sending"
      \/ Stored /\ server = "receiving"
  BY <1>1
     DEF Transfer, KnockArrives, KnockButUnreadable, KnockTimeout,
         SendSucceeds, SendGivesUp, SendAborted, Stored, ReceiveAborted,
         TakeAbor, Untroubled
<1>3. ASSUME NEW code \in Codes, Ends(<<code>>), UNCHANGED toServer
      PROVE  Answered(<<code>>)'
  <2>1. toClient' = <<code>>
    BY <1>1, <1>3, OnlyReplies, OneCode DEF Ends
  <2> QED
    BY <1>1, <1>3, <2>1 DEF Ends, Answered
<1>4. 226 \in Codes /\ 551 \in Codes
  BY DEF Codes
<1>5. CASE SendSucceeds /\ server = "sending"
  BY <1>3, <1>4, <1>5 DEF SendSucceeds
<1>6. CASE Stored /\ server = "receiving"
  <2>1. Answered(<<226>>)' \/ Answered(<<551>>)'
    BY <1>3, <1>4, <1>6 DEF Stored
  <2> QED
    BY <1>6, <2>1 DEF Stored, UploadAnswered
<1> QED
  BY <1>2, <1>5, <1>6

LEMMA SmoothServed ==
    ASSUME Untroubled, ControlInv, SmoothSoFar, ServeStep
    PROVE  SmoothSoFar'
<1> SUFFICES ASSUME ~Leaving'
             PROVE  NothingLeft' /\ SocketOpen' /\ SmoothPosition'
  BY DEF SmoothSoFar
<1>1. /\ UNCHANGED <<client, line, settings, stray, leftEarly, abortSent>>
      /\ Serve
  BY DEF ServeStep, clientVars, clientState, signals
<1>2. Downloads' = Downloads /\ Opening' = Opening
  BY <1>1 DEF Downloads, Opening
<1>3. /\ ~Leaving /\ NothingLeft /\ SocketOpen /\ SmoothPosition
  BY <1>1 DEF Leaving, SmoothSoFar
<1>4. NothingLeft' /\ SocketOpen'
  BY <1>1, <1>3, SocketStaysOpen DEF NothingLeft
<1>5. Position /\ client # "gone" /\ ~hungUp
  BY <1>3 DEF NothingLeft, ControlInv, Bookkeeping, Standing, Leaving
<1>6. ASSUME NEW codes, Answered(codes) PROVE FALSE
  BY <1>1, <1>5, <1>6, NothingToServe DEF Answered, Busy
<1>7. CASE client = "opening"
  <2>1. CASE /\ Asked(line) /\ ChannelOpens
             /\ Downloads /\ dataMode = "PASSIVE" => passiveSocket = "knocked"
    <3>1. clientActive => dataMode = "ACTIVE"
      BY <1>5, <1>7 DEF Position, OpeningPosition, Agreed, ActiveIs
    <3>2. line \in Lines /\ line.name \in TransferVerbs
      BY <1>7 DEF ControlInv, Bookkeeping, LineInHand
    <3> QED
      BY <1>1, <1>2, <1>4, <1>7, <2>1, <3>1, <3>2, SmoothCommandServed
         DEF SmoothPosition
  <2>2. CASE \E open \in Opening : Begun(<<open>>)
    <3>1. \E open \in Opening : Begun(<<open>>)'
      BY <2>2, SmoothStartServed
    <3> QED
      BY <1>1, <1>2, <1>4, <1>7, <3>1 DEF SmoothPosition
  <2> QED
    BY <1>3, <1>6, <1>7, <2>1, <2>2 DEF SmoothPosition
<1>8. CASE client = "knock"
  <2>1. Begun(<<>>) /\ ~Downloads
    BY <1>3, <1>8 DEF SmoothPosition
  <2> QED
    BY <2>1, SmoothStartServed
<1>9. CASE client = "transfer" /\ Downloads
  <2>1. Begun(<<>>)
    BY <1>3, <1>9 DEF SmoothPosition
  <2>2. Begun(<<>>)'
    BY <2>1, SmoothStartServed
  <2> QED
    BY <1>1, <1>2, <1>4, <1>9, <2>2 DEF SmoothPosition
<1>10. CASE client = "transfer" /\ ~Downloads
  <2>1. Working(<<>>) /\ server = "receiving" /\ data = "flowing"
    BY <1>3, <1>6, <1>10 DEF SmoothPosition, UploadAnswered
  <2>2. UploadAnswered' /\ data' = "delivered"
    BY <1>1, <2>1, SmoothEndServed
  <2> QED
    BY <1>1, <1>2, <1>4, <1>10, <2>2 DEF SmoothPosition
<1>11. CASE client = "final"
  <2>1. Downloads /\ Working(<<>>) /\ server = "sending" /\ data = "delivered"
    BY <1>3, <1>6, <1>11 DEF SmoothPosition, UploadAnswered
  <2>2. Answered(<<226>>)'
    BY <1>1, <2>1, SmoothEndServed
  <2> QED
    BY <1>1, <1>2, <1>4, <1>11, <2>1, <2>2 DEF SmoothPosition
<1>12. CASE client \notin {"opening", "knock", "transfer", "final"}
  BY <1>1, <1>4, <1>12 DEF SmoothPosition
<1> QED
  BY <1>7, <1>8, <1>9, <1>10, <1>11, <1>12

\* A signal that comes while the client waits for the knock interrupts it.
LEMMA KnockIsInterrupted ==
    ASSUME ControlInv, SmoothSoFar, KnockInterrupted
    PROVE  SmoothSoFar' \/ Interrupted'
<1>1. CASE Leaving
  <2>1. Leaving'
    BY <1>1
       DEF KnockInterrupted, LeavesEarly, BackToHead, Leaving, signals
  <2> QED
    BY <2>1 DEF SmoothSoFar
<1>2. CASE ~Leaving
  <2>1. client = "knock" /\ aborted /\ SmoothPosition
    BY <1>2 DEF KnockInterrupted, SmoothSoFar
  <2>2. Begun(<<>>) /\ ~Downloads
    BY <2>1 DEF SmoothPosition
  <2>3. server = "receiving" /\ toServer = <<>> /\ data = "none"
    BY <2>2 DEF Begun, Working
  <2> QED
    BY <2>1, <2>3
       DEF KnockInterrupted, LeavesEarly, BackToHead, Interrupted, signals,
           sessionThread
<1> QED
  BY <1>1, <1>2

\* Then the client sends ABOR or QUIT, before which the server does nothing.
LEMMA InterruptedLeaves ==
    ASSUME ControlInv, Interrupted, [Next]_vars
    PROVE  SmoothSoFar' \/ Interrupted'
<1>1. CASE LeaveAfterSignal
  <2>1. Leaving'
    BY <1>1 DEF LeaveAfterSignal, Leaving
  <2> QED
    BY <2>1 DEF SmoothSoFar
<1>2. ~ServeStep
  <2> SUFFICES ASSUME Serve PROVE FALSE
    BY DEF ServeStep
  <2>1. Transfer
    BY BusyTransfers DEF Interrupted, Busy
  <2> QED
    BY <2>1
       DEF Interrupted, Transfer, KnockArrives, KnockButUnreadable,
           KnockTimeout, SendSucceeds, SendGivesUp, SendAborted, Stored,
           ReceiveAborted, TakeAbor
<1>3. CASE Signal \/ UNCHANGED vars
  BY <1>3
     DEF Signal, Interrupted, vars, clientVars, clientState, signals,
         sessionVars, channel
<1>4. ~CliStep \/ LeaveAfterSignal
  BY DEF Interrupted, CliStep, ShowPrompt, AborAnswered, QuitAnswered,
         ReplyArrives, PasvAnswered, PasvRefused, TransferRefused,
         DownloadOpened, UploadOpened, ServerKnocked, StrayKnocked, NoKnock,
         KnockInterrupted, Received, StrayFinEndsDownload, Sent, SenderGaveUp,
         TransferAborted, FirstAbortReply, FinalReply
<1>5. ~UserStep
  BY DEF Interrupted, UserStep, EndOfTyping, TypeCommand, TypeTransfer
<1> QED
  BY <1>1, <1>2, <1>3, <1>4, <1>5 DEF Next

LEMMA SmoothKept ==
    ASSUME Untroubled, ControlInv, SmoothInv, [Next]_vars
    PROVE  SmoothInv'
<1> SUFFICES ASSUME SmoothSoFar PROVE SmoothSoFar' \/ Interrupted'
  BY InterruptedLeaves DEF SmoothInv
<1>1. CASE \/ LeaveAfterSignal \/ AborAnswered \/ QuitAnswered
           \/ TransferAborted \/ FirstAbortReply \/ EndOfTyping
  <2>1. Leaving'
    BY <1>1
       DEF LeaveAfterSignal, AborAnswered, QuitAnswered, TransferAborted,
           FirstAbortReply, EndOfTyping, Leaving, ControlInv, Bookkeeping,
           signals
  <2> QED
    BY <2>1 DEF SmoothSoFar
<1>2. CASE \/ ShowPrompt \/ TypeCommand \/ TypeTransfer \/ ReplyArrives
           \/ Signal
  BY <1>2, SmoothBefore DEF SmoothSoFar
<1>3. CASE \/ PasvAnswered \/ PasvRefused \/ TransferRefused
           \/ DownloadOpened \/ UploadOpened
  BY <1>3, SmoothOpening
<1>4. CASE \/ ServerKnocked \/ StrayKnocked \/ NoKnock \/ Received
           \/ StrayFinEndsDownload \/ Sent \/ SenderGaveUp \/ FinalReply
  BY <1>4, SmoothTransfer
<1>5. CASE ServeStep
  BY <1>5, SmoothServed
<1>6. CASE UNCHANGED vars
  BY <1>6
     DEF SmoothSoFar, Leaving, NothingLeft, SocketOpen, SmoothPosition, Asked,
         Answered, ChannelOpens, Downloads, Opening, Begun, Working, Busy,
         UploadAnswered, vars, clientVars, clientState, settings, signals,
         sessionVars, endpoint, channel
<1>7. CASE KnockInterrupted
  BY <1>7, KnockIsInterrupted
<1> QED
  BY <1>1, <1>2, <1>3, <1>4, <1>5, <1>6, <1>7 DEF Next, CliStep, UserStep

LEMMA SmoothInductive ==
    ASSUME Untroubled
    PROVE  Spec => [](ControlInv /\ SmoothInv)
<1>1. Init => SmoothInv
  BY DEF Init, SessionInit, SmoothInv, SmoothSoFar, NothingLeft, SocketOpen,
         SmoothPosition
<1>2. ControlInv /\ SmoothInv /\ [Next]_vars => SmoothInv'
  BY SmoothKept
<1> QED
  BY <1>1, <1>2, ControlInductive, PTL DEF Spec

\* If nothing goes wrong on the data channel and the user types no ABOR, the
\* server has finished a transfer (handleRetrCommand and the like have returned)
\* by the time the client asks for the next command.  A signal changes that only
\* where handleStor waits for the server's knock: the upload then waits for the
\* ABOR the client sends at the head of its loop.
THEOREM ServerStaysIdle == ASSUME Untroubled PROVE Spec => []ServerIdle
<1>1. ControlInv /\ SmoothInv => ServerIdle
  BY DEF ControlInv, SmoothInv, SmoothSoFar, Interrupted, NothingLeft, Standing,
         Leaving, Position, AtRest, AtPrompt, ServerIdle, UploadInterrupted
<1> QED
  BY <1>1, SmoothInductive, PTL

\* Nor is the reply that ends a transfer ever that of another command.
THEOREM FinalReplyStaysOwn == ASSUME Untroubled PROVE Spec => FinalReplyIsOwn
<1> DEFINE OwnReply == client = "final" /\ ~abortSent /\ client' = "head" =>
                           \/ Head(toClient) = 226
                           \/ Head(toClient) = 551 /\ ~Downloads
<1>1. ControlInv /\ SmoothInv /\ [Next]_vars => [OwnReply]_vars
  <2> SUFFICES ASSUME SmoothInv, Next, client = "final", ~abortSent,
                      client' = "head"
               PROVE  \/ Head(toClient) = 226
                      \/ Head(toClient) = 551 /\ ~Downloads
    BY DEF vars
  <2>1. toClient # <<>>
    BY DEF Next, CliStep, UserStep, ServeStep, ShowPrompt, LeaveAfterSignal,
           AborAnswered, QuitAnswered, ReplyArrives, PasvAnswered, PasvRefused,
           TransferRefused, DownloadOpened, UploadOpened, ServerKnocked,
           StrayKnocked, NoKnock, KnockInterrupted, Received,
           StrayFinEndsDownload, Sent, SenderGaveUp, TransferAborted, FirstAbortReply, FinalReply, Gets,
           EndOfTyping, TypeCommand, TypeTransfer, Signal, clientVars
  <2>2. SmoothPosition
    BY DEF SmoothInv, SmoothSoFar, Interrupted, Leaving
  <2> QED
    BY <2>1, <2>2, OneInQueue
       DEF SmoothPosition, Working, UploadAnswered, Answered
<1> QED
  BY <1>1, SmoothInductive, PTL DEF Spec, FinalReplyIsOwn
=============================================================================
