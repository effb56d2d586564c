--------------------------- MODULE SessionProofs ---------------------------
(***************************************************************************)
(* The invariants of SessionAlone hold for every set of command lines a    *)
(* client may send, every bound on what it leaves unread and every set of  *)
(* troubles.                                                               *)
(***************************************************************************)
EXTENDS SessionAlone, TLAPS

(* The control connection: what sending replies and reading lines leaves.   *)

\* send_reply adds codes to the end of what the client has still to read.
LEMMA Replied ==
    ASSUME TypeOK, NEW codes \in Seq(ReplyCodes), codes # <<>>, Reply(codes)
    PROVE  /\ toClient' \in Seq(ReplyCodes)
           /\ toClient' # <<>>
           /\ Last(toClient') = Last(codes)
BY SMT DEF TypeOK, Reply, Last

\* A single reply is the last one.
LEMMA OneReply ==
    ASSUME TypeOK, NEW code \in ReplyCodes, Reply(<<code>>)
    PROVE  /\ toClient' \in Seq(ReplyCodes)
           /\ toClient' # <<>>
           /\ Last(toClient') = code
<1>1. <<code>> \in Seq(ReplyCodes) /\ <<code>> # <<>> /\ Last(<<code>>) = code
      BY SMT DEF Last
<1>2. QED BY <1>1, Replied

\* Several replies in a row are replies.
LEMMA SeveralReplies ==
    ASSUME TypeOK, NEW codes \in Seq(ReplyCodes), Reply(codes)
    PROVE  toClient' \in Seq(ReplyCodes)
BY SMT DEF TypeOK, Reply

\* read_line takes one line and changes no more than that.
LEMMA LineRead ==
    ASSUME TypeOK, NEW names, Reads(names)
    PROVE  /\ toServer' \in Seq(Commands)
           /\ hungUp' = hungUp
           /\ server = "reading"
BY SMT DEF TypeOK, Reads

(* handle_command.  The lemmas name the actions they are about and leave the *)
(* replies to the lemmas above.                                              *)

\* The initial state satisfies the invariant.
LEMMA InitSessionInv ==
    ASSUME SessionInit
    PROVE  SessionInv
<1>1. TypeOK
      <2>1. toServer \in Seq(Commands) /\ toClient \in Seq(ReplyCodes)
            BY SMT DEF SessionInit
      <2>2. hungUp \in BOOLEAN /\ activeKnock \in BOOLEAN
            BY Zenon DEF SessionInit
      <2>3. QED BY <2>1, <2>2, SMT DEF SessionInit, TypeOK
<1>2. PassiveSocketMatchesMode /\ TransferHasEndpoint
      BY SMT DEF SessionInit, PassiveSocketMatchesMode, TransferHasEndpoint
<1>3. OnlyLoggedInClients /\ RenameFollowsRnfr
      BY SMT DEF SessionInit, OnlyLoggedInClients, RenameFollowsRnfr
<1>4. QED BY <1>1, <1>2, <1>3 DEF SessionInv

\* The commands answered without a login keep the invariant.
LEMMA FreeCommandsKeepSessionInv ==
    ASSUME SessionInv,
           \/ SkipEmptyLine \/ RejectInvalidLine \/ HandleQuit \/ HandleNoop
           \/ HandleUser \/ HandlePass \/ RefuseStranger
    PROVE  SessionInv'
<1> USE DEF SessionInv, PassiveSocketMatchesMode, TransferHasEndpoint,
            OnlyLoggedInClients, RenameFollowsRnfr, LoggedIn, CancelsRename,
            StaysIdle, identity, representation, endpoint, channel
<1>1. ASSUME SkipEmptyLine PROVE SessionInv'
      <2>1. toServer' \in Seq(Commands) /\ hungUp' = hungUp
            BY <1>1, LineRead DEF SkipEmptyLine
      <2>2. QED BY <1>1, <2>1, SMT DEF SkipEmptyLine, TypeOK
<1>2. ASSUME RejectInvalidLine PROVE SessionInv'
      <2>1. toServer' \in Seq(Commands) /\ hungUp' = hungUp
            BY <1>2, LineRead DEF RejectInvalidLine
      <2>2. toClient' \in Seq(ReplyCodes)
            BY <1>2, OneReply, SMT DEF RejectInvalidLine, ReplyCodes
      <2>3. QED BY <1>2, <2>1, <2>2, SMT DEF RejectInvalidLine, TypeOK
<1>3. ASSUME HandleQuit PROVE SessionInv'
      <2>1. toServer' \in Seq(Commands) /\ hungUp' = hungUp /\ server = "reading"
            BY <1>3, LineRead DEF HandleQuit
      <2>2. toClient' \in Seq(ReplyCodes)
            BY <1>3, OneReply, SMT DEF HandleQuit, ReplyCodes
      <2>3. QED BY <1>3, <2>1, <2>2, SMT DEF HandleQuit, TypeOK
<1>4. ASSUME HandleNoop PROVE SessionInv'
      <2>1. toServer' \in Seq(Commands) /\ hungUp' = hungUp
            BY <1>4, LineRead DEF HandleNoop
      <2>2. toClient' \in Seq(ReplyCodes)
            BY <1>4, OneReply, SMT DEF HandleNoop, ReplyCodes
      <2>3. QED BY <1>4, <2>1, <2>2, SMT DEF HandleNoop, TypeOK
<1>5. ASSUME HandleUser PROVE SessionInv'
      <2>1. toServer' \in Seq(Commands) /\ hungUp' = hungUp /\ server = "reading"
            BY <1>5, LineRead DEF HandleUser
      <2>2. toClient' \in Seq(ReplyCodes)
            BY <1>5, OneReply, SMT DEF HandleUser, ReplyCodes
      <2>3. QED BY <1>5, <2>1, <2>2, SMT DEF HandleUser, TypeOK
<1>6. ASSUME HandlePass PROVE SessionInv'
      <2>1. toServer' \in Seq(Commands) /\ hungUp' = hungUp
            BY <1>6, LineRead DEF HandlePass
      <2>2. toClient' \in Seq(ReplyCodes)
            BY <1>6, OneReply, SMT DEF HandlePass, ReplyCodes
      <2>3. QED BY <1>6, <2>1, <2>2, SMT DEF HandlePass, TypeOK
<1>7. ASSUME RefuseStranger PROVE SessionInv'
      <2>1. toServer' \in Seq(Commands) /\ hungUp' = hungUp
            BY <1>7, LineRead DEF RefuseStranger
      <2>2. toClient' \in Seq(ReplyCodes)
            BY <1>7, OneReply, SMT DEF RefuseStranger, ReplyCodes
      <2>3. renameFrom' = "none"
            BY <1>7, SMT DEF RefuseStranger, TypeOK
      <2>4. QED BY <1>7, <2>1, <2>2, <2>3, SMT DEF RefuseStranger, TypeOK
<1>8. QED BY <1>1, <1>2, <1>3, <1>4, <1>5, <1>6, <1>7

\* The commands that set up a transfer keep the invariant.
LEMMA SettingsKeepSessionInv ==
    ASSUME SessionInv,
           HandleType \/ HandleMode \/ HandlePort \/ HandlePasv
    PROVE  SessionInv'
<1> USE DEF SessionInv, PassiveSocketMatchesMode, TransferHasEndpoint,
            OnlyLoggedInClients, RenameFollowsRnfr, LoggedIn, CancelsRename,
            StaysIdle, identity, representation, endpoint, channel
<1>1. ASSUME HandleType PROVE SessionInv'
      <2>1. toServer' \in Seq(Commands) /\ hungUp' = hungUp /\ server = "reading"
            BY <1>1, LineRead DEF HandleType, Serves
      <2>2. toClient' \in Seq(ReplyCodes)
            BY <1>1, OneReply, SMT DEF HandleType, ReplyCodes
      <2>3. QED BY <1>1, <2>1, <2>2, SMT
                DEF HandleType, KnownTypes, Serves, TypeOK
<1>2. ASSUME HandleMode PROVE SessionInv'
      <2>1. toServer' \in Seq(Commands) /\ hungUp' = hungUp /\ server = "reading"
            BY <1>2, LineRead DEF HandleMode, Serves
      <2>2. toClient' \in Seq(ReplyCodes)
            BY <1>2, OneReply, SMT DEF HandleMode, ReplyCodes
      <2>3. QED BY <1>2, <2>1, <2>2, SMT DEF HandleMode, Serves, TypeOK
<1>3. ASSUME HandlePort PROVE SessionInv'
      <2>1. toServer' \in Seq(Commands) /\ hungUp' = hungUp /\ server = "reading"
            BY <1>3, LineRead DEF HandlePort, Serves
      <2>2. toClient' \in Seq(ReplyCodes)
            BY <1>3, OneReply, SMT DEF HandlePort, ReplyCodes
      <2>3. QED BY <1>3, <2>1, <2>2, SMT DEF HandlePort, Serves, TypeOK, ClosesPassiveSocket
<1>4. ASSUME HandlePasv PROVE SessionInv'
      <2>1. toServer' \in Seq(Commands) /\ hungUp' = hungUp /\ server = "reading"
            BY <1>4, LineRead DEF HandlePasv, Serves
      <2>2. toClient' \in Seq(ReplyCodes)
            BY <1>4, OneReply, SMT DEF HandlePasv, ReplyCodes
      <2>3. QED BY <1>4, <2>1, <2>2, SMT DEF HandlePasv, Serves, TypeOK
<1>5. QED BY <1>1, <1>2, <1>3, <1>4

\* The commands about the file system keep the invariant.
LEMMA FileCommandsKeepSessionInv ==
    ASSUME SessionInv,
           \/ HandleDirectoryCommand \/ HandleFileCommand \/ HandleHash
           \/ HandleRnfr \/ HandleRnto
    PROVE  SessionInv'
<1> USE DEF SessionInv, PassiveSocketMatchesMode, TransferHasEndpoint,
            OnlyLoggedInClients, RenameFollowsRnfr, LoggedIn, CancelsRename,
            StaysIdle, identity, representation, endpoint, channel
<1>1. ASSUME NEW name, Answers(name) PROVE SessionInv'
      <2>1. toServer' \in Seq(Commands) /\ hungUp' = hungUp /\ server = "reading"
            BY <1>1, LineRead DEF Answers, Serves
      <2>2. toClient' \in Seq(ReplyCodes)
            BY <1>1, OneReply, SMT DEF Answers, ReplyCodes
      <2>3. QED BY <1>1, <2>1, <2>2, SMT DEF Answers, Serves, TypeOK
<1>2. ASSUME HandleRnfr PROVE SessionInv'
      <2>1. toServer' \in Seq(Commands) /\ hungUp' = hungUp /\ server = "reading"
            BY <1>2, LineRead DEF HandleRnfr, Serves
      <2>2. toClient' \in Seq(ReplyCodes) /\ (renameFrom' = "path" => Last(toClient') = 350)
        <3>1. CASE Reply(<<350>>)
              BY <3>1, OneReply, SMT DEF ReplyCodes
        <3>2. CASE renameFrom' = "none" /\ (Reply(<<501>>) \/ Reply(<<550>>))
              BY <3>2, OneReply, SMT DEF ReplyCodes
        <3>3. QED BY <1>2, <3>1, <3>2 DEF HandleRnfr
      <2>3. QED BY <1>2, <2>1, <2>2, SMT DEF HandleRnfr, Serves, TypeOK
<1>3. ASSUME HandleRnto PROVE SessionInv'
      <2>1. toServer' \in Seq(Commands) /\ hungUp' = hungUp /\ server = "reading"
            BY <1>3, LineRead DEF HandleRnto, Serves
      <2>2. toClient' \in Seq(ReplyCodes)
            BY <1>3, OneReply, SMT DEF HandleRnto, ReplyCodes
      <2>3. QED BY <1>3, <2>1, <2>2, SMT DEF HandleRnto, Serves, TypeOK
<1>4. QED
      BY <1>1, <1>2, <1>3 DEF HandleDirectoryCommand, HandleFileCommand, HandleHash

(* The transfers.                                                           *)

\* What STOR and STOU have replied when the upload is opened.
Openings == {<<>>, <<125>>}

\* Opening an upload either refuses it and changes nothing but the replies, or
\* begins it on a channel that is there.
LEMMA UploadIsOpened ==
    ASSUME SessionInv, NEW opening \in Openings, OpensUpload(opening)
    PROVE  /\ toClient' \in Seq(ReplyCodes)
           /\ UNCHANGED endpoint
           /\ \/ UNCHANGED <<server, serving, activeKnock, data>>
              \/ /\ server' = "receiving" /\ serving' = "STOR"
                 /\ dataMode # "NONE"
                 /\ data' = "none" /\ activeKnock' \in BOOLEAN
<1> USE DEF StaysIdle, endpoint, channel
<1>1. /\ <<>> \in Seq(ReplyCodes) /\ <<125>> \in Seq(ReplyCodes)
      /\ <<150>> \in Seq(ReplyCodes)
      /\ <<425>> \in Seq(ReplyCodes) /\ <<550>> \in Seq(ReplyCodes)
      BY SMT DEF ReplyCodes
<1>2. \A s, t \in Seq(ReplyCodes) : s \o t \in Seq(ReplyCodes)
      BY SMT
<1>3. DEFINE first == Announces(opening)
<1>4. opening \in Seq(ReplyCodes) /\ first \in Seq(ReplyCodes)
      BY <1>1, Zenon DEF Openings, Announces
<1> HIDE DEF first
<1>5. CASE \/ Refuses(opening \o <<425>>) \/ Refuses(opening \o <<550>>)
           \/ Refuses(first \o <<425>>)
      <2>1. /\ opening \o <<425>> \in Seq(ReplyCodes)
            /\ opening \o <<550>> \in Seq(ReplyCodes)
            /\ first \o <<425>> \in Seq(ReplyCodes)
            BY <1>1, <1>2, <1>4
      <2>2. QED BY <1>5, <2>1, SeveralReplies DEF Refuses, SessionInv
<1>6. CASE /\ ChannelOpens
           /\ Reply(first)
           /\ Begins("STOR", "receiving")
           /\ data' = "none"
           /\ activeKnock' = (dataMode = "ACTIVE")
           /\ UNCHANGED endpoint
      <2>1. toClient' \in Seq(ReplyCodes) BY <1>4, <1>6, SeveralReplies DEF SessionInv
      <2>2. dataMode # "NONE" BY <1>6, SMT DEF ChannelOpens
      <2>3. activeKnock' \in BOOLEAN BY <1>6, Zenon
      <2>4. QED BY <1>6, <2>1, <2>2, <2>3 DEF Begins
<1>7. QED BY <1>5, <1>6 DEF OpensUpload, first

\* Beginning to send leaves the channel that was opened as it is.
LEMMA SendingBegins ==
    ASSUME SessionInv, ChannelOpens, NEW command, BeginsSending(command)
    PROVE  /\ toClient' \in Seq(ReplyCodes)
           /\ UNCHANGED <<endpoint, activeKnock>>
           /\ serving' = command /\ dataMode # "NONE"
           /\ \/ server' = "awaitKnock" /\ passiveSocket # "closed"
              \/ server' = "sending"
           /\ data' \in {"none", "flowing"}
<1>1. toClient' \in Seq(ReplyCodes)
      BY OneReply, SMT DEF BeginsSending, ReplyCodes, SessionInv
<1>2. QED BY <1>1, SMT DEF BeginsSending, Begins, ChannelOpens

\* The commands that begin a transfer, or ABOR without one, keep the invariant.
LEMMA TransferCommandsKeepSessionInv ==
    ASSUME SessionInv,
           HandleList \/ HandleRetr \/ HandleStor \/ HandleStou \/ HandleAbor
    PROVE  SessionInv'
<1> USE DEF SessionInv, PassiveSocketMatchesMode, TransferHasEndpoint,
            OnlyLoggedInClients, RenameFollowsRnfr, LoggedIn, CancelsRename,
            StaysIdle, representation, endpoint, channel
<1>1. ASSUME HandleList PROVE SessionInv'
      <2>1. toServer' \in Seq(Commands) /\ hungUp' = hungUp /\ server = "reading"
            BY <1>1, LineRead DEF HandleList, Serves
      <2>2. CASE Refuses(<<550>>) \/ Refuses(<<425>>) \/ Refuses(<<150, 425, 426>>)
        <3>1. /\ <<550>> \in Seq(ReplyCodes) /\ <<425>> \in Seq(ReplyCodes)
              /\ <<150, 425, 426>> \in Seq(ReplyCodes)
              BY SMT DEF ReplyCodes
        <3>2. toClient' \in Seq(ReplyCodes)
              BY <2>2, <3>1, SeveralReplies, ZenonT(40) DEF Refuses
        <3>3. QED BY <1>1, <2>1, <2>2, <3>2, SMT
                  DEF HandleList, Serves, Refuses, TypeOK
      <2>3. CASE ChannelOpens /\ BeginsSending("LIST")
            BY <1>1, <2>1, <2>3, SendingBegins, SMT DEF HandleList, Serves, TypeOK
      <2>4. QED BY <1>1, <2>2, <2>3 DEF HandleList
<1>2. ASSUME HandleRetr PROVE SessionInv'
      <2>1. toServer' \in Seq(Commands) /\ hungUp' = hungUp /\ server = "reading"
            BY <1>2, LineRead DEF HandleRetr, Serves
      <2>2. CASE \/ Refuses(<<501>>) \/ Refuses(<<550>>) \/ Refuses(<<425>>)
                 \/ Refuses(<<150, 451>>)
        <3>1. /\ <<501>> \in Seq(ReplyCodes) /\ <<550>> \in Seq(ReplyCodes)
              /\ <<425>> \in Seq(ReplyCodes) /\ <<150, 451>> \in Seq(ReplyCodes)
              BY SMT DEF ReplyCodes
        <3>2. toClient' \in Seq(ReplyCodes)
              BY <2>2, <3>1, SeveralReplies, ZenonT(40) DEF Refuses
        <3>3. QED BY <1>2, <2>1, <2>2, <3>2, SMT
                  DEF HandleRetr, Serves, Refuses, TypeOK
      <2>3. CASE ChannelOpens /\ BeginsSending("RETR")
            BY <1>2, <2>1, <2>3, SendingBegins, SMT DEF HandleRetr, Serves, TypeOK
      <2>4. QED BY <1>2, <2>2, <2>3 DEF HandleRetr
<1>3. ASSUME NEW opening \in Openings, OpensUpload(opening),
             Serves({"STOR"}) \/ Serves({"STOU"}),
             CancelsRename, UNCHANGED representation
      PROVE  SessionInv'
      <2>1. toServer' \in Seq(Commands) /\ hungUp' = hungUp /\ server = "reading"
            BY <1>3, LineRead DEF Serves
      <2>2. QED BY <1>3, <2>1, UploadIsOpened, SMT DEF Serves, TypeOK
<1>4. ASSUME HandleStor PROVE SessionInv'
      <2>1. toServer' \in Seq(Commands) /\ hungUp' = hungUp /\ server = "reading"
            BY <1>4, LineRead DEF HandleStor, Serves
      <2>2. CASE Refuses(<<501>>)
        <3>1. toClient' \in Seq(ReplyCodes)
              BY <2>2, OneReply, SMT DEF Refuses, ReplyCodes
        <3>2. QED BY <1>4, <2>1, <2>2, <3>1, SMT
                  DEF HandleStor, Serves, Refuses, TypeOK
      <2>3. CASE OpensUpload(<<>>)
            BY <1>3, <1>4, <2>3 DEF HandleStor, Openings
      <2>4. QED BY <1>4, <2>2, <2>3 DEF HandleStor
<1>5. ASSUME HandleStou PROVE SessionInv'
      BY <1>3, <1>5 DEF HandleStou, Openings
<1>6. ASSUME HandleAbor PROVE SessionInv'
      <2>1. toServer' \in Seq(Commands) /\ hungUp' = hungUp /\ server = "reading"
            BY <1>6, LineRead DEF HandleAbor, Serves
      <2>2. <<426, 226>> \in Seq(ReplyCodes) BY SMT DEF ReplyCodes
      <2>3. toClient' \in Seq(ReplyCodes)
            BY <1>6, <2>2, SeveralReplies DEF HandleAbor
      <2>4. QED BY <1>6, <2>1, <2>3, SMT DEF HandleAbor, Serves,
                AborClosesChannel, ClosesPassiveSocket, TypeOK
<1>7. QED BY <1>1, <1>2, <1>4, <1>5, <1>6

\* The end of a transfer leaves what its replies and its channel are.
LEMMA TransferEnds ==
    ASSUME SessionInv, NEW codes \in Seq(ReplyCodes), Ends(codes)
    PROVE  /\ server' = "reading" /\ serving' = "none"
           /\ toClient' \in Seq(ReplyCodes)
           /\ UNCHANGED <<loginState, renameFrom, transferType, transferMode>>
           /\ UNCHANGED <<activeKnock, hungUp>>
BY SeveralReplies DEF Ends, SessionInv, identity, representation

\* Releasing the channel closes the passive socket when the mode is passive.
LEMMA ChannelIsReleased ==
    ASSUME SessionInv, ReleaseChannel
    PROVE  /\ dataMode' \in {"NONE", "PASSIVE", "ACTIVE"}
           /\ activePort' \in {"none", "zero", "ok"}
           /\ passiveSocket' \in {"closed", "open", "knocked"}
           /\ passiveSocket' # "closed" <=> dataMode' = "PASSIVE"
BY SMT DEF SessionInv, TypeOK, PassiveSocketMatchesMode, ReleaseChannel,
       ClosesPassiveSocket, endpoint

\* No rename is pending during a transfer.
LEMMA NoRenameInTransfer ==
    ASSUME SessionInv, serving # "none"
    PROVE  renameFrom = "none"
BY SMT DEF SessionInv, TypeOK, RenameFollowsRnfr

\* What a transfer's end must show beyond the lemmas above.
LEMMA EndKeepsSessionInv ==
    ASSUME SessionInv, NEW codes \in Seq(ReplyCodes), Ends(codes),
           ReleaseChannel \/ UNCHANGED endpoint,
           serving # "none",
           toServer' \in Seq(Commands),
           data' \in {"none", "flowing", "delivered", "dropped"}
    PROVE  SessionInv'
<1>1. /\ dataMode' \in {"NONE", "PASSIVE", "ACTIVE"}
      /\ activePort' \in {"none", "zero", "ok"}
      /\ passiveSocket' \in {"closed", "open", "knocked"}
      /\ passiveSocket' # "closed" <=> dataMode' = "PASSIVE"
      BY ChannelIsReleased, SMT DEF SessionInv, TypeOK,
         PassiveSocketMatchesMode, endpoint
<1>2. renameFrom' = "none"
      BY NoRenameInTransfer, TransferEnds
<1>3. TypeOK'
      BY <1>1, TransferEnds, SMT DEF SessionInv, TypeOK
<1>4. QED BY <1>1, <1>2, <1>3, TransferEnds, SMT DEF SessionInv,
          PassiveSocketMatchesMode, TransferHasEndpoint, OnlyLoggedInClients,
          RenameFollowsRnfr

\* The steps of a transfer keep the invariant.
LEMMA TransferKeepsSessionInv ==
    ASSUME SessionInv, Transfer
    PROVE  SessionInv'
<1>1. /\ <<226>> \in Seq(ReplyCodes) /\ <<425>> \in Seq(ReplyCodes)
      /\ <<426>> \in Seq(ReplyCodes) /\ <<451>> \in Seq(ReplyCodes)
      /\ <<551>> \in Seq(ReplyCodes) /\ <<426, 226>> \in Seq(ReplyCodes)
      BY SMT DEF ReplyCodes
<1>2. /\ toServer \in Seq(Commands)
      /\ data \in {"none", "flowing", "delivered", "dropped"}
      /\ server = "awaitKnock" => serving # "none"
      /\ server = "sending" => serving # "none"
      /\ server = "receiving" => serving # "none"
      BY SMT DEF SessionInv, TypeOK, TransferHasEndpoint
<1>3. TakeAbor => toServer' \in Seq(Commands)
      BY <1>2, SMT DEF TakeAbor
<1>4. CASE KnockArrives
      BY <1>2, <1>4, NoRenameInTransfer, SMT DEF KnockArrives, SessionInv,
         TypeOK, PassiveSocketMatchesMode, TransferHasEndpoint,
         OnlyLoggedInClients, RenameFollowsRnfr, LoggedIn, identity,
         representation
<1>5. CASE KnockButUnreadable
      BY <1>1, <1>2, <1>5, EndKeepsSessionInv, ZenonT(40) DEF KnockButUnreadable
<1>6. CASE KnockTimeout
      BY <1>1, <1>2, <1>6, EndKeepsSessionInv, ZenonT(40) DEF KnockTimeout
<1>7. CASE SendSucceeds
      BY <1>1, <1>2, <1>7, EndKeepsSessionInv, ZenonT(40) DEF SendSucceeds
<1>8. CASE SendGivesUp
      <2>1. data' \in {"none", "flowing", "delivered", "dropped"}
            BY <1>2, <1>8, SMT DEF SendGivesUp
      <2>2. QED BY <1>1, <1>2, <1>8, <2>1, EndKeepsSessionInv, Zenon
                DEF SendGivesUp
<1>9. CASE SendAborted
      <2>1. data' \in {"none", "flowing", "delivered", "dropped"}
            BY <1>2, <1>9, SMT DEF SendAborted
      <2>2. QED BY <1>1, <1>2, <1>3, <1>9, <2>1, EndKeepsSessionInv, Zenon
                DEF SendAborted, AbortReplies
<1>10. CASE Stored
      BY <1>1, <1>2, <1>10, EndKeepsSessionInv, ZenonT(40) DEF Stored
<1>11. CASE ReceiveAborted
      BY <1>1, <1>2, <1>3, <1>11, EndKeepsSessionInv, Zenon
         DEF ReceiveAborted, AbortReplies
<1>12. QED BY <1>4, <1>5, <1>6, <1>7, <1>8, <1>9, <1>10, <1>11 DEF Transfer

\* The end of the control connection and the steps of any client keep the
\* invariant: reading a reply leaves the last one where it is.
LEMMA ClientKeepsSessionInv ==
    ASSUME SessionInv, EndOfInput \/ AnyClient
    PROVE  SessionInv'
<1> USE DEF SessionInv, PassiveSocketMatchesMode, TransferHasEndpoint,
            OnlyLoggedInClients, RenameFollowsRnfr, LoggedIn, identity,
            representation, endpoint, channel
<1>1. CASE EndOfInput
      BY <1>1, SMT DEF EndOfInput, TypeOK
<1>2. CASE ClientSends
      <2>1. toServer' \in Seq(Commands) BY <1>2, SMT DEF ClientSends, TypeOK
      <2>2. QED BY <1>2, <2>1, SMT DEF ClientSends, TypeOK
<1>3. CASE ClientReads
      <2>1. toClient' \in Seq(ReplyCodes) BY <1>3, SMT DEF ClientReads, TypeOK
      <2>2. toClient' # <<>> => Last(toClient') = Last(toClient)
            BY <1>3, SMT DEF ClientReads, TypeOK, Last
      <2>3. QED BY <1>3, <2>1, <2>2, SMT DEF ClientReads, TypeOK
<1>4. CASE ClientHangsUp
      <2>1. hungUp' \in BOOLEAN BY <1>4, Zenon DEF ClientHangsUp
      <2>2. QED BY <1>4, <2>1, SMT DEF ClientHangsUp, TypeOK
<1>5. CASE ClientKnocks
      BY <1>5, SMT DEF ClientKnocks, TypeOK
<1>6. CASE ClientMovesData
      BY <1>6, SMT DEF ClientMovesData, TypeOK
<1>7. QED BY <1>1, <1>2, <1>3, <1>4, <1>5, <1>6 DEF AnyClient

(* The theorems.                                                            *)

\* SessionInv is inductive: it holds in every state of every session.
THEOREM SessionInvariance == Spec => []SessionInv
<1>1. SessionInit => SessionInv BY InitSessionInv
<1>2. SessionInv /\ [Next]_sessionVars => SessionInv'
      <2>1. SUFFICES ASSUME SessionInv, [Next]_sessionVars PROVE SessionInv'
            OBVIOUS
      <2>2. CASE HandleCommand
            BY <2>1, <2>2, FreeCommandsKeepSessionInv, SettingsKeepSessionInv,
               FileCommandsKeepSessionInv, TransferCommandsKeepSessionInv
               DEF HandleCommand
      <2>3. CASE Transfer
            BY <2>1, <2>3, TransferKeepsSessionInv
      <2>4. CASE EndOfInput \/ AnyClient
            BY <2>1, <2>4, ClientKeepsSessionInv
      <2>5. CASE UNCHANGED sessionVars
            BY <2>1, <2>5, SMT DEF sessionVars, SessionInv, TypeOK,
               PassiveSocketMatchesMode, TransferHasEndpoint,
               OnlyLoggedInClients, RenameFollowsRnfr, LoggedIn, identity,
               representation, endpoint, channel
      <2>6. QED BY <2>1, <2>2, <2>3, <2>4, <2>5 DEF Next, Serve
<1>3. QED BY <1>1, <1>2, PTL DEF Spec

\* The server's SessionState stays well formed whatever the client sends.
THEOREM SessionTypeCorrect == Spec => []TypeOK
<1>1. SessionInv => TypeOK BY DEF SessionInv
<1>2. QED BY <1>1, SessionInvariance, PTL

\* m_dataMode and the passive UDPSocket of a session never part.
THEOREM PassiveSocketFollowsMode == Spec => []PassiveSocketMatchesMode
<1>1. SessionInv => PassiveSocketMatchesMode BY DEF SessionInv
<1>2. QED BY <1>1, SessionInvariance, PTL

\* No transfer runs without a data channel.
THEOREM TransfersHaveEndpoints == Spec => []TransferHasEndpoint
<1>1. SessionInv => TransferHasEndpoint BY DEF SessionInv
<1>2. QED BY <1>1, SessionInvariance, PTL

\* The login gate of handle_command lets no stranger transfer or rename.
THEOREM LoginGate == Spec => []OnlyLoggedInClients
<1>1. SessionInv => OnlyLoggedInClients BY DEF SessionInv
<1>2. QED BY <1>1, SessionInvariance, PTL

\* RNTO renames only what the RNFR just before it named.
THEOREM RenameIsAdjacent == Spec => []RenameFollowsRnfr
<1>1. SessionInv => RenameFollowsRnfr BY DEF SessionInv
<1>2. QED BY <1>1, SessionInvariance, PTL
=============================================================================
