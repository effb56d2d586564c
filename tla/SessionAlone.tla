---------------------------- MODULE SessionAlone ----------------------------
(***************************************************************************)
(* A Session with any client at all: one that sends command lines without  *)
(* waiting for replies, knocks when it likes, stops in the middle of a     *)
(* transfer, or leaves without QUIT.  What holds here holds with every     *)
(* client.                                                                 *)
(***************************************************************************)
EXTENDS Session, SequencesExt

CONSTANT MaxPending \* bound: command lines and replies the client lets wait
ASSUME MaxPendingAssumption == MaxPending \in Nat

ClientSends == /\ ~hungUp /\ server # "closed"
               /\ Len(toServer) < MaxPending /\ Len(toClient) < MaxPending
               /\ \E command \in Commands :
                      toServer' = Append(toServer, command)
               /\ UNCHANGED <<server, serving, identity, representation,
                              endpoint, toClient, hungUp, channel>>

ClientReads == /\ ~hungUp /\ toClient # <<>>
               /\ toClient' = Tail(toClient)
               /\ UNCHANGED <<server, serving, identity, representation,
                              endpoint, toServer, hungUp, channel>>

ClientHangsUp == /\ ~hungUp
                 /\ hungUp' = TRUE
                 /\ UNCHANGED <<server, serving, identity, representation,
                                endpoint, toServer, toClient, channel>>

ClientKnocks == /\ ~hungUp /\ passiveSocket = "open"
                /\ passiveSocket' = "knocked"
                /\ UNCHANGED <<server, serving, identity, representation,
                               dataMode, activePort, toServer, toClient,
                               hungUp, channel>>

\* The client's end of the data channel.
ClientMovesData ==
    /\ ~hungUp
    /\ \/ server = "receiving" /\ data = "none" /\ data' = "flowing"
       \/ server = "sending" /\ data = "flowing" /\ data' = "delivered"
       \/ /\ server \in {"awaitKnock", "sending"} /\ data # "delivered"
          /\ data' = "dropped"
    /\ UNCHANGED <<server, serving, identity, representation, endpoint,
                   toServer, toClient, hungUp, activeKnock>>

AnyClient == ClientSends \/ ClientReads \/ ClientHangsUp \/ ClientKnocks
             \/ ClientMovesData

Next == Serve \/ AnyClient
Spec == SessionInit /\ [][Next]_sessionVars

-----------------------------------------------------------------------------
ReplyCodes == {125, 150, 200, 221, 226, 227, 230, 250, 331, 350,
               425, 426, 451, 500, 501, 503, 530, 550, 551}

TypeOK ==
    /\ server \in {"reading", "awaitKnock", "sending", "receiving", "closed"}
    /\ serving \in {"none", "LIST", "RETR", "STOR"}
    /\ loginState \in {"NotLoggedIn", "UsernameAccepted", "LoggedIn"}
    /\ renameFrom \in {"none", "path"}
    /\ transferType \in {"A", "I"} /\ transferMode \in {"S", "B", "C"}
    /\ dataMode \in {"NONE", "PASSIVE", "ACTIVE"}
    /\ activePort \in {"none", "zero", "ok"}
    /\ passiveSocket \in {"closed", "open", "knocked"}
    /\ toServer \in Seq(Commands) /\ toClient \in Seq(ReplyCodes)
    /\ hungUp \in BOOLEAN /\ activeKnock \in BOOLEAN
    /\ data \in {"none", "flowing", "delivered", "dropped"}

\* The passive socket is open exactly when the data mode says so: PASV, PORT,
\* ABOR and the end of each transfer change the two together.
PassiveSocketMatchesMode == passiveSocket # "closed" <=> dataMode = "PASSIVE"

\* A transfer under way has an endpoint, and waits for a knock only on an open
\* passive socket: dataSocket never dangles.
TransferHasEndpoint ==
    /\ serving # "none" <=> server \in {"awaitKnock", "sending", "receiving"}
    /\ serving # "none" => dataMode # "NONE"
    /\ server = "awaitKnock" => passiveSocket # "closed"

\* Transfers are carried out, and renames prepared, only for a client that is
\* logged in, also after a second USER in the same session.
OnlyLoggedInClients == serving # "none" \/ renameFrom = "path" => LoggedIn

\* A rename is pending only as long as the accepted RNFR is the last command
\* answered; a transfer that was begun since has cancelled it.
RenameFollowsRnfr ==
    renameFrom = "path" => /\ serving = "none"
                           /\ toClient # <<>> => Last(toClient) = 350

\* The inductive invariant behind the properties above.
SessionInv == /\ TypeOK
              /\ PassiveSocketMatchesMode
              /\ TransferHasEndpoint
              /\ OnlyLoggedInClients
              /\ RenameFollowsRnfr
=============================================================================
