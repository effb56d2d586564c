----------------------------- MODULE ServerTable -----------------------------
(***************************************************************************)
(* The server's table of sessions (ServerManager.cpp): the main thread     *)
(* accepts a connection, records it and starts a thread for it; the thread *)
(* serves the client, closes the descriptor and takes the record out.      *)
(*                                                                         *)
(* clients_add and clients_remove hold clientsLock, so each is one step,   *)
(* but a session closes its descriptor before it removes the record, and a *)
(* record is found by its descriptor alone.  In between accept may give    *)
(* the same descriptor to the next client.  The address and port a record  *)
(* carries are only printed and are left out.                              *)
(***************************************************************************)
EXTENDS Naturals, FiniteSets

CONSTANTS
    Clients,                \* who may connect, again and again
    MaxClients,             \* MAX_CLIENTS
    MaxDescriptor           \* the descriptors the process may hold, less
                            \* those it keeps for itself

ASSUME ClientsAssumption == IsFiniteSet(Clients)
ASSUME LimitsAssumption == MaxClients \in Nat /\ MaxDescriptor \in Nat

VARIABLES
    running,                \* the process runs
    main,                   \* where server_run is
    incoming,               \* the client it has accepted last
    phase,                  \* how far each client's session is
    socketFd,               \* the descriptor of each client's session
    table,                  \* the descriptor each active record holds, or 0
    overflowed              \* a clients_add has returned -1

vars == <<running, main, incoming, phase, socketFd, table, overflowed>>

Slots == 1 .. MaxClients
Descriptors == 1 .. MaxDescriptor
Inactive == 0

Init == /\ running = TRUE
        /\ main = "accept"
        /\ incoming \in Clients
        /\ phase = [client \in Clients |-> "absent"]
        /\ socketFd = [client \in Clients |-> 0]
        /\ table = [slot \in Slots |-> Inactive]
        /\ overflowed = FALSE

\* A descriptor is open from accept until the session's thread closes it.
Open == {client \in Clients : phase[client] \in {"accepted", "recorded",
                                                 "served"}}

\* Mutant: the process has closed its standard input.
FreeFromZero == (0 .. MaxDescriptor) \ {socketFd[client] : client \in Open}

FreeDescriptors == Descriptors \ {socketFd[client] : client \in Open}

\* The least element, as accept and the loops over the table choose it.
IsFirst(number, numbers) ==
    number \in numbers /\ \A other \in numbers : number =< other

-----------------------------------------------------------------------------
(* The main thread: server_run.                                             *)

\* accept returns the lowest descriptor that is free.  It fails, and is tried
\* again, as long as there is none.
Accept(client) == /\ running /\ main = "accept"
                  /\ phase[client] = "absent"
                  /\ \E fd \in FreeDescriptors :
                         /\ IsFirst(fd, FreeDescriptors)
                         /\ socketFd' = [socketFd EXCEPT ![client] = fd]
                  /\ phase' = [phase EXCEPT ![client] = "accepted"]
                  /\ incoming' = client
                  /\ main' = "add"
                  /\ UNCHANGED <<running, table, overflowed>>

FreeSlots == {slot \in Slots : table[slot] = Inactive}

\* clients_add: the first slot that is not active.  server_run does not look
\* at the result; a client who is not recorded is served like any other.
ClientsAdd == /\ running /\ main = "add"
              /\ \/ \E slot \in FreeSlots :
                        /\ IsFirst(slot, FreeSlots)
                        /\ table' = [table EXCEPT ![slot] = socketFd[incoming]]
                        /\ UNCHANGED overflowed
                 \/ /\ FreeSlots = {}
                    /\ overflowed' = TRUE
                    /\ UNCHANGED table
              /\ phase' = [phase EXCEPT ![incoming] = "recorded"]
              /\ main' = "start"
              /\ UNCHANGED <<running, incoming, socketFd>>

\* pthread_create is taken to succeed.
StartThread == /\ running /\ main = "start"
               /\ phase' = [phase EXCEPT ![incoming] = "served"]
               /\ main' = "accept"
               /\ UNCHANGED <<running, incoming, socketFd, table, overflowed>>

-----------------------------------------------------------------------------
(* The end of handle_client_thread.                                         *)

CloseSocket(client) == /\ running /\ phase[client] = "served"
                       /\ phase' = [phase EXCEPT ![client] = "closed"]
                       /\ UNCHANGED <<running, main, incoming, socketFd, table,
                                      overflowed>>

\* Mutants: a record is found whether it is active for this descriptor or not;
\* the loop goes on after the first match.
SlotsOfAny(fd) == Slots \ FreeSlots
RemovedAll(slots) == slots

SlotsOf(fd) == {slot \in Slots : table[slot] = fd}
Removed(slots) == {slot \in slots : IsFirst(slot, slots)}

\* clients_remove: the first active record with the session's descriptor.
ClientsRemove(client) ==
    /\ running /\ phase[client] = "closed"
    /\ table' = [slot \in Slots |->
                    IF slot \in Removed(SlotsOf(socketFd[client]))
                    THEN Inactive ELSE table[slot]]
    /\ phase' = [phase EXCEPT ![client] = "absent"]
    /\ UNCHANGED <<running, main, incoming, socketFd, overflowed>>

\* SIGINT: server_stop and exit.
Stop == /\ running
        /\ running' = FALSE
        /\ UNCHANGED <<main, incoming, phase, socketFd, table, overflowed>>

Next == \/ \E client \in Clients :
               Accept(client) \/ CloseSocket(client) \/ ClientsRemove(client)
        \/ ClientsAdd \/ StartThread
        \/ Stop

Spec == Init /\ [][Next]_vars

-----------------------------------------------------------------------------
(* Properties.                                                              *)

\* The table holds descriptors, and each session has one as soon as there is a
\* connection; the main thread deals with one client at a time.
TypeOK ==
    /\ running \in BOOLEAN /\ overflowed \in BOOLEAN
    /\ main \in {"accept", "add", "start"}
    /\ incoming \in Clients
    /\ phase \in [Clients -> {"absent", "accepted", "recorded", "served",
                              "closed"}]
    /\ socketFd \in [Clients -> 0 .. MaxDescriptor]
    /\ table \in [Slots -> 0 .. MaxDescriptor]
    /\ \A client \in Clients :
           /\ phase[client] # "absent" => socketFd[client] \in Descriptors
           /\ phase[client] = "accepted" <=>
                  main = "add" /\ client = incoming
           /\ phase[client] = "recorded" <=>
                  main = "start" /\ client = incoming

\* The sessions between clients_add and clients_remove with this descriptor:
\* at most one has it open, the others are about to remove their record.
SessionsOf(fd) ==
    {client \in Clients : /\ phase[client] \in {"recorded", "served", "closed"}
                          /\ socketFd[client] = fd}

\* No record outlives its session: there are never more records of a
\* descriptor than sessions that will still remove one, however descriptors
\* are reused and although a session may remove another one's record.  In
\* particular the table is empty once all sessions have ended.
RecordsHaveSessions ==
    \A fd \in Descriptors :
        Cardinality(SlotsOf(fd)) =< Cardinality(SessionsOf(fd))

\* As long as no client found the table full, every session is listed: none
\* loses its record to a session that had the same descriptor before.
SessionsAreListed ==
    ~overflowed =>
        \A fd \in Descriptors :
            Cardinality(SlotsOf(fd)) >= Cardinality(SessionsOf(fd))
=============================================================================
