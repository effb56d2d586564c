-------------------------- MODULE ServerTableProofs --------------------------
(***************************************************************************)
(* Proofs about ServerTable, for every number of clients, table slots and  *)
(* descriptors.  For each descriptor the proof counts the records that     *)
(* hold it and the sessions that will still remove one: clients_add adds   *)
(* one of each, clients_remove takes one of each away, and no other step   *)
(* changes either set.                                                     *)
(***************************************************************************)
EXTENDS ServerTable, FiniteSetTheorems, WellFoundedInduction, TLAPS

USE LimitsAssumption

\* The sets that are counted are finite.
LEMMA SlotsFinite == IsFiniteSet(Slots)
BY FS_Interval DEF Slots

\* What a record or a session is counted in is finite.
LEMMA CountedFinite ==
    ASSUME NEW fd
    PROVE  IsFiniteSet(SlotsOf(fd)) /\ IsFiniteSet(SessionsOf(fd))
<1>1. SlotsOf(fd) \in SUBSET Slots /\ SessionsOf(fd) \in SUBSET Clients
  BY DEF SlotsOf, SessionsOf
<1> QED
  BY <1>1, SlotsFinite, ClientsAssumption, FS_Subset

\* The loops over the table find a first slot whenever there is one.
LEMMA HasFirst ==
    ASSUME NEW numbers \in SUBSET Nat, numbers # {}
    PROVE  \E number \in numbers : IsFirst(number, numbers)
<1>1. PICK first \in numbers :
          \A other \in numbers : <<other, first>> \notin OpToRel(<, Nat)
  BY WFMin, NatLessThanWellFounded, Zenon
<1>2. \A other \in numbers : ~(other < first)
  BY <1>1, Zenon DEF OpToRel
<1> QED
  BY <1>2 DEF IsFirst

-----------------------------------------------------------------------------
(* Type correctness.                                                        *)

\* The type invariant of the server's table, with what main and the sessions
\* know of each other, holds in every reachable state.
LEMMA TypeInductive ==
    /\ Init => TypeOK
    /\ TypeOK /\ [Next]_vars => TypeOK'
<1>1. Init => TypeOK
  <2> SUFFICES ASSUME Init PROVE TypeOK
    OBVIOUS
  <2>1. 0 \in 0 .. MaxDescriptor
    OBVIOUS
  <2>2. /\ phase \in [Clients -> {"absent"}]
        /\ socketFd \in [Clients -> 0 .. MaxDescriptor]
        /\ table \in [Slots -> 0 .. MaxDescriptor]
    BY <2>1 DEF Init, Inactive
  <2> QED
    BY <2>2 DEF Init, TypeOK
<1>2. TypeOK /\ [Next]_vars => TypeOK'
  <2> SUFFICES ASSUME TypeOK, [Next]_vars
               PROVE  TypeOK'
    OBVIOUS
  <2> USE DEF TypeOK, Descriptors, Slots
  <2>1. ASSUME NEW client \in Clients, Accept(client)
        PROVE  TypeOK'
    <3>1. PICK fd \in FreeDescriptors :
              socketFd' = [socketFd EXCEPT ![client] = fd]
      BY <2>1 DEF Accept
    <3>2. fd \in 1 .. MaxDescriptor
      BY <3>1 DEF FreeDescriptors
    <3> QED
      BY <2>1, <3>1, <3>2 DEF Accept
  <2>2. ASSUME NEW client \in Clients, CloseSocket(client)
        PROVE  TypeOK'
    BY <2>2 DEF CloseSocket
  <2>3. ASSUME NEW client \in Clients, ClientsRemove(client)
        PROVE  TypeOK'
    BY <2>3 DEF ClientsRemove, Inactive
  <2>4. CASE ClientsAdd
    <3>1. table' \in [Slots -> 0 .. MaxDescriptor]
      <4>1. socketFd[incoming] \in 0 .. MaxDescriptor
        OBVIOUS
      <4> QED
        BY <2>4, <4>1 DEF ClientsAdd, FreeSlots
    <3> QED
      BY <2>4, <3>1 DEF ClientsAdd
  <2>5. CASE StartThread
    BY <2>5 DEF StartThread
  <2>6. CASE Stop
    BY <2>6 DEF Stop
  <2>7. CASE UNCHANGED vars
    BY <2>7 DEF vars
  <2> QED
    BY <2>1, <2>2, <2>3, <2>4, <2>5, <2>6, <2>7 DEF Next
<1> QED
  BY <1>1, <1>2

\* For any number of clients, slots and descriptors the table and the phases of
\* the sessions stay well formed.
THEOREM TypeCorrect == Spec => []TypeOK
BY TypeInductive, PTL DEF Spec

-----------------------------------------------------------------------------
(* Records and sessions.                                                    *)

Records(fd) == Cardinality(SlotsOf(fd))
Sessions(fd) == Cardinality(SessionsOf(fd))

\* A step that leaves the records and the sessions of a descriptor as they are.
LEMMA Unconcerned ==
    ASSUME TypeOK, [Next]_vars,
           ~ClientsAdd, \A client \in Clients : ~ClientsRemove(client)
    PROVE  /\ \A fd \in Descriptors : /\ SlotsOf(fd)' = SlotsOf(fd)
                                      /\ SessionsOf(fd)' = SessionsOf(fd)
           /\ overflowed' = overflowed
<1> USE DEF TypeOK, SlotsOf, SessionsOf
<1>1. ASSUME NEW client \in Clients, Accept(client)
      PROVE  /\ table' = table /\ overflowed' = overflowed
             /\ \A fd \in Descriptors : SessionsOf(fd)' = SessionsOf(fd)
  BY <1>1 DEF Accept
<1>2. ASSUME NEW client \in Clients, CloseSocket(client)
      PROVE  /\ table' = table /\ overflowed' = overflowed
             /\ \A fd \in Descriptors : SessionsOf(fd)' = SessionsOf(fd)
  BY <1>2 DEF CloseSocket
<1>3. CASE StartThread
  <2>1. phase[incoming] = "recorded"
    BY <1>3 DEF StartThread
  <2> QED
    BY <1>3, <2>1 DEF StartThread
<1>4. CASE Stop
  BY <1>4 DEF Stop
<1>5. CASE UNCHANGED vars
  BY <1>5 DEF vars
<1> QED
  BY <1>1, <1>2, <1>3, <1>4, <1>5 DEF Next

\* clients_add adds a record and a session of the same descriptor, or none and
\* a session when the table is full.
LEMMA AddCounts ==
    ASSUME TypeOK, ClientsAdd, NEW fd \in Descriptors
    PROVE  /\ overflowed => overflowed'
           /\ \/ /\ Records(fd)' = Records(fd) + 1
                 /\ Sessions(fd)' = Sessions(fd) + 1
              \/ /\ overflowed'
                 /\ Records(fd)' = Records(fd)
                 /\ Sessions(fd)' = Sessions(fd) + 1
              \/ /\ Records(fd)' = Records(fd)
                 /\ Sessions(fd)' = Sessions(fd)
<1> USE DEF Records, Sessions
<1>1. phase[incoming] = "accepted" /\ incoming \notin SessionsOf(fd)
  BY DEF ClientsAdd, TypeOK, SessionsOf
<1>2. SessionsOf(fd)' = IF fd = socketFd[incoming]
                        THEN SessionsOf(fd) \union {incoming}
                        ELSE SessionsOf(fd)
  BY <1>1 DEF ClientsAdd, TypeOK, SessionsOf
<1>3. IsFiniteSet(SessionsOf(fd)) /\ IsFiniteSet(SlotsOf(fd))
  BY CountedFinite
<1>4. Sessions(fd)' = IF fd = socketFd[incoming]
                      THEN Sessions(fd) + 1 ELSE Sessions(fd)
  BY <1>1, <1>2, <1>3, FS_AddElement
<1>5. CASE FreeSlots = {}
  <2>1. table' = table /\ overflowed' = TRUE
    BY <1>5 DEF ClientsAdd
  <2>2. SlotsOf(fd)' = SlotsOf(fd)
    BY <2>1 DEF SlotsOf
  <2> QED
    BY <2>1, <2>2, <1>4
<1>6. CASE FreeSlots # {}
  <2>1. PICK slot \in FreeSlots :
            /\ table' = [table EXCEPT ![slot] = socketFd[incoming]]
            /\ overflowed' = overflowed
    BY <1>6 DEF ClientsAdd
  <2>2. slot \in Slots /\ table[slot] = 0 /\ fd # 0
    BY <2>1 DEF FreeSlots, Inactive, Descriptors
  <2>3. slot \notin SlotsOf(fd)
    BY <2>2 DEF SlotsOf
  <2>4. SlotsOf(fd)' = IF fd = socketFd[incoming]
                       THEN SlotsOf(fd) \union {slot} ELSE SlotsOf(fd)
    BY <2>1, <2>2 DEF SlotsOf, TypeOK
  <2>5. Records(fd)' = IF fd = socketFd[incoming]
                       THEN Records(fd) + 1 ELSE Records(fd)
    BY <2>3, <2>4, <1>3, FS_AddElement
  <2> QED
    BY <2>1, <2>5, <1>4
<1> QED
  BY <1>5, <1>6

\* clients_remove takes one session of its descriptor away and with it one
\* record of the same descriptor, if there is any.
LEMMA RemoveCounts ==
    ASSUME TypeOK, NEW client \in Clients, ClientsRemove(client),
           NEW fd \in Descriptors
    PROVE  \/ /\ fd = socketFd[client]
              /\ Records(fd)' = IF Records(fd) = 0 THEN 0 ELSE Records(fd) - 1
              /\ Sessions(fd)' = Sessions(fd) - 1
           \/ /\ fd # socketFd[client]
              /\ Records(fd)' = Records(fd)
              /\ Sessions(fd)' = Sessions(fd)
<1> USE DEF Records, Sessions
<1>1. IsFiniteSet(SessionsOf(fd)) /\ IsFiniteSet(SlotsOf(fd))
  BY CountedFinite
<1>2. SessionsOf(fd)' = IF fd = socketFd[client]
                        THEN SessionsOf(fd) \ {client} ELSE SessionsOf(fd)
  BY DEF ClientsRemove, TypeOK, SessionsOf
<1>3. fd = socketFd[client] => client \in SessionsOf(fd)
  BY DEF ClientsRemove, SessionsOf
<1>4. Sessions(fd)' = IF fd = socketFd[client]
                      THEN Sessions(fd) - 1 ELSE Sessions(fd)
  BY <1>1, <1>2, <1>3, FS_RemoveElement
<1>5. fd # 0
  BY DEF Descriptors
<1>6. CASE fd # socketFd[client]
  <2>1. SlotsOf(fd)' = SlotsOf(fd)
    BY <1>5, <1>6 DEF ClientsRemove, SlotsOf, Removed, Inactive
  <2> QED
    BY <1>4, <1>6, <2>1
<1>7. CASE fd = socketFd[client] /\ SlotsOf(fd) = {}
  <2>1. SlotsOf(fd)' = {}
    BY <1>5, <1>7 DEF ClientsRemove, SlotsOf, Removed, Inactive
  <2>2. Records(fd) = 0 /\ Records(fd)' = 0
    BY <2>1, <1>7, FS_EmptySet
  <2> QED
    BY <1>4, <1>7, <2>2
<1>8. CASE fd = socketFd[client] /\ SlotsOf(fd) # {}
  <2>1. SlotsOf(fd) \in SUBSET Nat
    BY DEF SlotsOf, Slots
  <2>2. PICK first \in SlotsOf(fd) : IsFirst(first, SlotsOf(fd))
    BY <2>1, <1>8, HasFirst
  <2>3. Removed(SlotsOf(fd)) = {first}
    BY <2>1, <2>2 DEF Removed, IsFirst
  <2>4. SlotsOf(fd)' = SlotsOf(fd) \ {first}
    BY <1>5, <1>8, <2>2, <2>3 DEF ClientsRemove, SlotsOf, Inactive
  <2>5. Records(fd)' = Records(fd) - 1
    BY <1>1, <2>2, <2>4, FS_RemoveElement
  <2>6. Records(fd) # 0
    BY <1>1, <1>8, FS_EmptySet
  <2> QED
    BY <1>4, <1>8, <2>5, <2>6
<1> QED
  BY <1>6, <1>7, <1>8

Counts == RecordsHaveSessions /\ SessionsAreListed

\* Both properties together are inductive.
LEMMA CountsInductive ==
    /\ Init => Counts
    /\ TypeOK /\ Counts /\ [Next]_vars => Counts'
<1> USE DEF Counts
<1>1. Init => Counts
  <2> SUFFICES ASSUME Init PROVE Counts
    OBVIOUS
  <2>1. ASSUME NEW fd \in Descriptors
        PROVE  Records(fd) = 0 /\ Sessions(fd) = 0
    <3>1. SlotsOf(fd) = {} /\ SessionsOf(fd) = {}
      BY DEF Init, SlotsOf, SessionsOf, Inactive, Descriptors
    <3> QED
      BY <3>1, FS_EmptySet DEF Records, Sessions
  <2> QED
    BY <2>1 DEF RecordsHaveSessions, SessionsAreListed, Records, Sessions
<1>2. TypeOK /\ Counts /\ [Next]_vars => Counts'
  <2> SUFFICES ASSUME TypeOK, Counts, [Next]_vars
               PROVE  Counts'
    OBVIOUS
  <2>1. \A fd \in Descriptors :
            /\ Records(fd) \in Nat /\ Sessions(fd) \in Nat
            /\ Records(fd) =< Sessions(fd)
            /\ overflowed \/ Records(fd) >= Sessions(fd)
    BY CountedFinite, FS_CardinalityType
    DEF RecordsHaveSessions, SessionsAreListed, Records, Sessions
  <2> SUFFICES ASSUME NEW fd \in Descriptors
               PROVE  /\ Records(fd)' =< Sessions(fd)'
                      /\ overflowed' \/ Records(fd)' >= Sessions(fd)'
    BY DEF RecordsHaveSessions, SessionsAreListed, Records, Sessions,
           Descriptors
  <2>2. CASE ClientsAdd
    <3>1. /\ overflowed => overflowed'
          /\ \/ /\ Records(fd)' = Records(fd) + 1
                /\ Sessions(fd)' = Sessions(fd) + 1
             \/ /\ overflowed'
                /\ Records(fd)' = Records(fd)
                /\ Sessions(fd)' = Sessions(fd) + 1
             \/ /\ Records(fd)' = Records(fd)
                /\ Sessions(fd)' = Sessions(fd)
      BY <2>2, AddCounts, Zenon
    <3>2. /\ Records(fd) \in Nat /\ Sessions(fd) \in Nat
          /\ Records(fd) =< Sessions(fd)
          /\ overflowed \/ Records(fd) >= Sessions(fd)
      BY <2>1
    <3> QED
      BY <3>1, <3>2
  <2>3. ASSUME NEW client \in Clients, ClientsRemove(client)
        PROVE  /\ Records(fd)' =< Sessions(fd)'
               /\ overflowed' \/ Records(fd)' >= Sessions(fd)'
    <3>1. overflowed' = overflowed
      BY <2>3 DEF ClientsRemove
    <3>2. fd = socketFd[client] => Sessions(fd) # 0
      <4>1. fd = socketFd[client] => client \in SessionsOf(fd)
        BY <2>3 DEF ClientsRemove, SessionsOf
      <4> QED
        BY <4>1, CountedFinite, FS_EmptySet DEF Sessions
    <3> QED
      BY <2>1, <2>3, <3>1, <3>2, RemoveCounts
  <2>4. CASE ~ClientsAdd /\ \A client \in Clients : ~ClientsRemove(client)
    BY <2>1, <2>4, Unconcerned DEF Records, Sessions
  <2> QED
    BY <2>2, <2>3, <2>4
<1> QED
  BY <1>1, <1>2

\* No record outlives its session, for any number of sessions and however
\* their descriptors are reused: clients_remove need not know whose record it
\* takes.
THEOREM NoRecordOutlivesItsSession == Spec => []RecordsHaveSessions
<1>1. Counts => RecordsHaveSessions
  BY DEF Counts
<1> QED
  BY <1>1, TypeInductive, CountsInductive, PTL DEF Spec

\* As long as clients_add has never found the table full, every session
\* between clients_add and clients_remove has a record of its descriptor.
THEOREM EverySessionIsListed == Spec => []SessionsAreListed
<1>1. Counts => SessionsAreListed
  BY DEF Counts
<1> QED
  BY <1>1, TypeInductive, CountsInductive, PTL DEF Spec
=============================================================================
