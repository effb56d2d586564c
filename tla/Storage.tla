------------------------------- MODULE Storage -------------------------------
(***************************************************************************)
(* The server's storage as several sessions see it through PathManager.cpp *)
(* and the upload code of Session.cpp.  Each session has a current         *)
(* directory of its own, all share one tree of directories and files.  A   *)
(* command first asks the file system whether it may do what it was asked  *)
(* and then does it; an upload chooses its path when it begins and writes  *)
(* the file when the last byte has come.  In between other sessions act.   *)
(*                                                                         *)
(* A path is the sequence of its names from the top of the file system.    *)
(* There are no symbolic links, and no name is empty.  Commands that only  *)
(* read the storage (PWD, LIST, NLST, STAT, SIZE, MDTM, HASH), and any     *)
(* that is refused, do no more here than to cancel a rename.               *)
(***************************************************************************)
EXTENDS Naturals, FiniteSets, Sequences, SequencesExt

CONSTANTS
    Session,                \* the sessions
    Root,                   \* rootDirectory
    Outside,                \* the directories and files next to it
    Arguments,              \* the paths a client may name
    UniqueNames,            \* for a name, those STOU tries one after another
    MaxDepth,               \* bound: names in a path
    MaxCommands             \* bound: commands that look at the storage

Up == ".."

ASSUME RootAssumption == Root \in Seq(STRING) /\ Root # <<>>
ASSUME OutsideAssumption ==
    /\ Outside.dirs \subseteq Seq(STRING) /\ Outside.files \subseteq Seq(STRING)
    /\ Outside.dirs \intersect Outside.files = {}
    /\ IsFiniteSet(Outside.files)
    /\ \A path \in Outside.dirs \union Outside.files : ~IsPrefix(Root, path)
    /\ \A path \in Outside.dirs \union Outside.files \union {Root} :
           \A n \in 0 .. Len(path) - 1 : SubSeq(path, 1, n) \in Outside.dirs
ASSUME BoundsAssumption == MaxDepth \in Nat /\ MaxCommands \in Nat
ASSUME ArgumentsAssumption ==
    Arguments \subseteq [absolute : BOOLEAN, names : Seq(STRING)]

VARIABLES
    dirs, files,            \* the paths of the directories and of the files
    current,                \* currentDirectory of each session
    renameFrom,             \* renameFrom of each session: an argument or none
    pending,                \* what each session is about to do
    disturbed,              \* the sessions that another one has got ahead of
    commands                \* commands so far

vars == <<dirs, files, current, renameFrom, pending, disturbed, commands>>

\* A plan that concerns one path only.
PlanFor(op, path) == [op |-> op, from |-> <<>>, to |-> path]
Idle == PlanFor("idle", <<>>)
Plan == [op : {"idle", "remove", "rename", "retrieve", "store", "unique"},
         from : Seq(STRING), to : Seq(STRING)]
Exists(path) == path \in dirs \union files
Parent(path) == Front(path)

-----------------------------------------------------------------------------
(* Names.                                                                   *)

\* lexically_normal: ".." takes the name before it away.
Normal(names) ==
    FoldLeft(LAMBDA path, name : IF name # Up THEN Append(path, name)
                                 ELSE IF path = <<>> THEN path
                                 ELSE Front(path),
             <<>>, names)

\* resolvePath: an absolute path starts at the root of the storage.
Resolve(session, argument) ==
    Normal((IF argument.absolute THEN Root ELSE current[session])
           \o argument.names)

\* Mutant: a path is not compared with the root.
InsideAlways(path) == TRUE

\* isInsideRoot
InsideRoot(path) == IsPrefix(Root, path)

\* Bound: no path is made that has more names.
WithinDepth(path) == path \in Seq(STRING) /\ Len(path) <= MaxDepth

\* What lies strictly below a directory.
Below(path) == {other \in dirs \union files : IsStrictPrefix(path, other)}

-----------------------------------------------------------------------------
(* A session looks before it acts.                                          *)

\* A session that is not in the middle of a command takes the next one.
Free(session) == /\ pending[session] = Idle
                 /\ commands < MaxCommands
                 /\ commands' = commands + 1

\* Mutant: RNFR is remembered until it is used.
KeepsRename(session) == UNCHANGED renameFrom

\* Every command but RNFR leaves no rename pending: RNTO uses it up, the others
\* cancel it.
EndsRename(session) == renameFrom' = [renameFrom EXCEPT ![session] = {}]

\* The session knows the storage as it is now.
Plans(session, plan) ==
    /\ pending' = [pending EXCEPT ![session] = plan]
    /\ disturbed' = disturbed \ {session}

\* The storage changes behind the back of every session with a plan.
Disturbs(session) ==
    disturbed' = disturbed \union
                     {other \in Session \ {session} : pending[other] # Idle}

Init == /\ dirs = Outside.dirs \union {Root}
        /\ files = Outside.files
        /\ current = [session \in Session |-> Root]
        /\ renameFrom = [session \in Session |-> {}]
        /\ pending = [session \in Session |-> Idle]
        /\ disturbed = {}
        /\ commands = 0

\* A command that changes nothing in the storage, or is refused.
OtherCommand(session) ==
    /\ Free(session) /\ EndsRename(session)
    /\ UNCHANGED <<dirs, files, current, pending, disturbed>>

\* CWD and CDUP
ChangeDirectory(session, argument) ==
    LET target == Resolve(session, argument)
    IN  /\ Free(session) /\ EndsRename(session)
        /\ InsideRoot(target) /\ target \in dirs
        /\ current' = [current EXCEPT ![session] = target]
        /\ UNCHANGED <<dirs, files, pending, disturbed>>

\* MKD.  create_directory looks and creates in one call.
CreateDirectory(session, argument) ==
    LET target == Resolve(session, argument)
    IN  /\ Free(session) /\ EndsRename(session)
        /\ InsideRoot(target) /\ ~Exists(target)
        /\ Parent(target) \in dirs /\ WithinDepth(target)
        /\ dirs' = dirs \union {target}
        /\ Disturbs(session)
        /\ UNCHANGED <<files, current, pending>>

\* Mutant: only the root is refused.
RemovableUnlessRoot(session, path) == path # Root

\* RMD refuses the root and the session's current directory.
Removable(session, path) == path # Root /\ path # current[session]

\* RMD and DELE differ in what they look for, not in what they do then; RETR
\* looks for a file like DELE.
LookForDirectory(session, argument) ==
    LET target == Resolve(session, argument)
    IN  /\ Free(session) /\ EndsRename(session)
        /\ InsideRoot(target)
        /\ Removable(session, target) /\ target \in dirs
        /\ Plans(session, PlanFor("remove", target))
        /\ UNCHANGED <<dirs, files, current>>

LookForFile(session, argument, op) ==
    LET target == Resolve(session, argument)
    IN  /\ Free(session) /\ EndsRename(session)
        /\ InsideRoot(target) /\ target \in files
        /\ Plans(session, PlanFor(op, target))
        /\ UNCHANGED <<dirs, files, current>>

\* canRename: neither the root, nor a directory the session is in.
CanRename(session, path) ==
    /\ InsideRoot(path) /\ path # Root
    /\ Exists(path)
    /\ path \in dirs => ~IsPrefix(path, current[session])

\* Mutant: the destination may exist.
DestinationAny(path) == TRUE

DestinationFree(path) == ~Exists(path)

\* RNFR keeps the argument, not the path it stands for at the moment.
RenameFrom(session, argument) ==
    /\ Free(session)
    /\ CanRename(session, Resolve(session, argument))
    /\ renameFrom' = [renameFrom EXCEPT ![session] = {argument}]
    /\ UNCHANGED <<dirs, files, current, pending, disturbed>>

MayRename(session, source, destination) ==
    /\ CanRename(session, source)
    /\ InsideRoot(destination) /\ DestinationFree(destination)
    /\ WithinDepth(destination)
    /\ Parent(destination) \in dirs /\ InsideRoot(Parent(destination))

\* RNTO looks at both paths again; whatever it finds, RNFR is used up.
LookForRename(session, argument) ==
    \E from \in renameFrom[session] :
        LET source      == Resolve(session, from)
            destination == Resolve(session, argument)
        IN  /\ Free(session) /\ EndsRename(session)
            /\ \/ /\ MayRename(session, source, destination)
                  /\ Plans(session, [op |-> "rename", from |-> source,
                                     to |-> destination])
               \/ /\ ~MayRename(session, source, destination)
                  /\ UNCHANGED <<pending, disturbed>>
            /\ UNCHANGED <<dirs, files, current>>

-----------------------------------------------------------------------------
(* Uploads.                                                                 *)

\* Mutant: a file in the way does not matter.
WithAncestorsAnyway(path) ==
    dirs \union {SubSeq(path, 1, n) : n \in 1 .. Len(path) - 1}

\* create_directories: the missing directories above a path, unless a file is
\* in the way.
Ancestors(path) == {SubSeq(path, 1, n) : n \in 1 .. Len(path) - 1}
WithAncestors(path) ==
    IF Ancestors(path) \intersect files = {} THEN dirs \union Ancestors(path)
                                             ELSE dirs

\* receiveFileOverDataChannel up to the transfer.
BeginsUpload(session, op, target) ==
    /\ Free(session) /\ EndsRename(session)
    /\ InsideRoot(target) /\ WithinDepth(target)
    /\ dirs' = WithAncestors(target)
    /\ pending' = [pending EXCEPT ![session] = PlanFor(op, target)]
    /\ disturbed' =
           (disturbed \ {session})
           \union {other \in Session \ {session} :
                      pending[other] # Idle /\ dirs' # dirs}
    /\ UNCHANGED <<files, current>>

\* STOR and APPE
BeginStor(session, argument) ==
    BeginsUpload(session, "store", Resolve(session, argument))

\* generateUniqueFilename: the first name that nothing has.
Named(argument, name) ==
    [argument EXCEPT !.names = Append(Front(@), name)]
Unused(session, argument) ==
    {i \in DOMAIN UniqueNames[Last(argument.names)] :
        ~Exists(Resolve(session,
                        Named(argument, UniqueNames[Last(argument.names)][i])))}
Unique(session, argument, i) ==
    /\ i \in Unused(session, argument)
    /\ \A j \in Unused(session, argument) : i =< j

BeginStou(session, argument) ==
    /\ Last(argument.names) \in DOMAIN UniqueNames
    /\ \E i \in DOMAIN UniqueNames[Last(argument.names)] :
           /\ Unique(session, argument, i)
           /\ BeginsUpload(session, "unique",
                  Resolve(session,
                          Named(argument,
                                UniqueNames[Last(argument.names)][i])))

-----------------------------------------------------------------------------
(* What was planned is done, whatever has happened since.                   *)

Done(session) == /\ pending' = [pending EXCEPT ![session] = Idle]
                 /\ disturbed' = (disturbed \ {session}) \union
                        {other \in Session \ {session} :
                            /\ pending[other] # Idle
                            /\ dirs' # dirs \/ files' # files}
                 /\ UNCHANGED <<current, renameFrom, commands>>

\* fs::remove takes a file or an empty directory.
RemovePath(session) ==
    LET target == pending[session].to
    IN  /\ pending[session].op = "remove"
        /\ \/ /\ target \in files \/ Below(target) = {}
              /\ files' = files \ {target} /\ dirs' = dirs \ {target}
           \/ /\ target \notin files /\ Below(target) # {}
              /\ UNCHANGED <<dirs, files>>
        /\ Done(session)

\* What becomes of a path when from is renamed to `to`.
Moved(path, from, to) ==
    IF IsPrefix(from, path) THEN to \o SubSeq(path, Len(from) + 1, Len(path))
                            ELSE path

\* fs::rename: a file replaces a file, a directory an empty directory.
RenameSucceeds(from, to) ==
    /\ Exists(from) /\ Parent(to) \in dirs /\ ~IsPrefix(from, to)
    /\ \/ from \in files /\ to \notin dirs
       \/ from \in dirs /\ to \notin files /\ Below(to) = {}

Rename(session) ==
    LET from == pending[session].from
        to   == pending[session].to
    IN  /\ pending[session].op = "rename"
        /\ \/ /\ RenameSucceeds(from, to)
              /\ files' = {Moved(path, from, to) : path \in files}
              /\ dirs' = {Moved(path, from, to) : path \in dirs}
           \/ ~RenameSucceeds(from, to) /\ UNCHANGED <<dirs, files>>
        /\ Done(session)

Uploading(session) == pending[session].op \in {"store", "unique"}

\* The file is written if its directory is still there.
WriteFile(session) ==
    LET target == pending[session].to
    IN  /\ Uploading(session)
        /\ files' = IF Parent(target) \in dirs /\ target \notin dirs
                    THEN files \union {target} ELSE files
        /\ UNCHANGED dirs
        /\ Done(session)

\* The transfer fails or is aborted: nothing is written.
AbandonUpload(session) == /\ Uploading(session)
                          /\ UNCHANGED <<dirs, files>>
                          /\ Done(session)

\* RETR makes sure of the directories above the file it has found, so that it
\* may bring back one that another session has just removed.
MakeWay(session) == /\ pending[session].op = "retrieve"
                    /\ dirs' = WithAncestors(pending[session].to)
                    /\ UNCHANGED files
                    /\ Done(session)

Acts(session) == \/ RemovePath(session) \/ Rename(session) \/ MakeWay(session)
                 \/ WriteFile(session) \/ AbandonUpload(session)

Looks(session) ==
    \E argument \in Arguments :
        \/ ChangeDirectory(session, argument)
        \/ CreateDirectory(session, argument)
        \/ LookForDirectory(session, argument)
        \/ \E op \in {"remove", "retrieve"} : LookForFile(session, argument, op)
        \/ RenameFrom(session, argument)
        \/ LookForRename(session, argument)
        \/ BeginStor(session, argument)
        \/ BeginStou(session, argument)

Next == \E session \in Session :
            OtherCommand(session) \/ Looks(session) \/ Acts(session)

Spec == Init /\ [][Next]_vars

-----------------------------------------------------------------------------
(* Properties.                                                              *)

\* Every directory above a directory or file is there, and no path is both.
Tree ==
    /\ dirs \subseteq Seq(STRING) /\ files \subseteq Seq(STRING)
    /\ dirs \intersect files = {}
    /\ \A path \in dirs \union files :
           \A n \in 0 .. Len(path) - 1 : SubSeq(path, 1, n) \in dirs

\* The tree stays a tree, and each session's current directory, there or not,
\* lies inside the root.
TypeOK ==
    /\ Tree
    /\ current \in [Session -> Seq(STRING)]
    /\ \A session \in Session : InsideRoot(current[session])
    /\ renameFrom \in [Session -> SUBSET Arguments]
    /\ \A session \in Session : Cardinality(renameFrom[session]) <= 1
    /\ pending \in [Session -> Plan]
    /\ disturbed \subseteq Session
    /\ commands \in 0 .. MaxCommands

\* Whatever path a client names, and from whatever directory, nothing outside
\* the root is created, removed, written or moved, and the root stays.
OutsideUntouched ==
    [][/\ {path \in dirs' : ~InsideRoot(path)} = Outside.dirs
       /\ {path \in files' : ~InsideRoot(path)} = Outside.files
       /\ Root \in dirs']_vars

\* The current directory of a session never ceases to exist by what the
\* session does itself, unless another session has changed the storage between
\* its look and its act.
OwnStepsKeepCurrent ==
    [][\A session \in Session :
           /\ Acts(session)
           /\ session \notin disturbed
           /\ current[session] \in dirs
           => current[session] \in dirs']_vars

\* RNTO and STOU never cost a file: unless another session has changed the
\* storage in between, a rename leaves as many files as there were, and a
\* finished STOU one more or none at all.
NothingOverwritten ==
    [][\A session \in Session :
           session \notin disturbed =>
               /\ Rename(session) =>
                      Cardinality(files') = Cardinality(files)
               /\ WriteFile(session) /\ pending[session].op = "unique" =>
                      pending[session].to \notin files]_vars

\* RNTO renames what RNFR was told: the path a pending RNFR stands for does not
\* change with the session's current directory.
RenameMeansItsPath ==
    [][\A session \in Session :
           \A from \in renameFrom[session] \intersect renameFrom'[session] :
               Resolve(session, from)' = Resolve(session, from)]_vars

\* The name STOU has told its client is not used for anything else before the
\* file is written.
UniqueNameStaysUnique ==
    \A session \in Session :
        pending[session].op = "unique" => ~Exists(pending[session].to)
=============================================================================
