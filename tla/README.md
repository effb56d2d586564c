# A TLA+ verification of Hybrid-FTP

Hybrid-FTP is an FTP service whose control connection is TCP and whose data
connection is a reliable transport written on top of UDP. This directory holds
TLA+ modules translated from its C++ source, TLC configurations that
model-check them, and proofs checked by TLAPS. Paths below are relative to the
repository's root; `src/…` is the directory of the program.

Contents: 1. the system · 2. the modules and the code they stand for ·
3. the runs · 4. bounds · 5. fairness · 6. the proofs · 7. what the code does
differently from what it says · 8. what is not modelled · 9. the plan.

## 1. The system

| Component | State it keeps | Operations | What is hard | What makes it correct |
|---|---|---|---|---|
| RDT sliding window (`src/rdt/SlidingWindow.*`) | sender: `base`, `nextSeq`, `cwnd_`, `ssthresh_`, `retryRnd`, duplicate-ACK counter; receiver: `expectedSeq_`, the bytes so far, the last peer | `sendData`, `receiveData` | loss, repetition, delay and damage of datagrams; two timers; an abort in the middle; a FIN handshake without a final state; several transfers over one socket | the receiver's bytes are a prefix of the data; success means delivery; retries are bounded; both ends return |
| RDT wrapper (`src/rdt/ReliableTransfer.*`) | configuration only; the stop-and-wait calls, which nothing uses, keep `expectedSeq_` | `sendBuffer`, `receiveBuffer`, `sendFile`, `receiveFile`, `sendPacket`, `receivePacket` | callbacks handed through; the stop-and-wait pair | as above |
| UDP socket and header (`src/rdt/UDPSocket.*`, `CustomUDPHeader.*`) | a descriptor, its receive timeout | `sendTo`, `recvFrom`, `serializeHeader`, `verifyChecksum` | datagrams cut short, damaged or from another sender | a damaged datagram is recognised |
| Server session (`src/server/Session.*`) | `SessionState`: login, rename source, type, mode, data mode, active endpoint, passive socket | one handler per command, three ways to open and several to end a transfer | state that outlives a command; failures between two replies; an ABOR during a transfer | data mode and socket agree; a transfer has an endpoint; login gate; RNFR and RNTO adjacent |
| Client (`src/client/ClientCLI.*`, `main_client.cpp`) | its own type, mode, data mode and active socket; `m_aborted`, `m_abortCommandSent` | the prompt, `handleRetr`, `handleStor`, `handleList`, the signal handler | the number of replies it must read depends on what the server did; a signal at any time | replies paired with commands; same type, mode and endpoint as the server; Ctrl-C ends it |
| Server manager (`src/server/ServerManager.*`, `main_server.cpp`) | listening socket, table of clients | accept loop, `clients_add`, `clients_remove`, `server_stop` | one thread per session; table full; a descriptor reused while it is still in the table | no record outlives its session; the table lists every session that fits |
| Path manager (`src/common/PathManager.*`) | root and current directory of a session; all sessions share the file system | resolve, list, make, remove, rename, unique names | check and use in two steps, by several sessions | nothing outside the root is touched; renames and STOU overwrite nothing; a session does not undermine its own directory |
| Transfer mode codec (`src/common/TransferModeCodec.*`) | none | `encode`, `decode` for MODE S, B, C | block boundaries, run lengths at their limits, streams that were cut | `decode` of `encode` is the identity; a damaged stream is refused |
| Command parser, file handler, hash (`src/common/…`) | none | `parse`, file I/O, SHA-256 | – | – |
| Standalone programs (`src/rdt/FileTransfer*.cpp`) | none | one transfer from the command line | long receiver timeouts | as the sliding window |

How they interact. `main_server` accepts a TCP connection and starts a detached
thread in `handle_client_thread`, which owns one `SessionState` and answers one
line after another. A transfer command opens a UDP socket (`open_data_channel`)
and runs an `RDTSender` or `RDTReceiver` in the same thread; those call a
*cancellation callback* between datagrams, in which the session looks into the
control connection for an `ABOR`. In passive mode the sender must learn the
other side's address, which a *knock*, one bare UDP datagram, brings: the
client knocks before a download, the server before an active upload. The client
runs the other end in its only thread; its callback looks at `m_aborted`, which
a signal handler sets, and then sends `ABOR`. Client and session share no state:
type, mode and data mode exist twice, and only replies keep them together.

Every hazard found in this code is listed, at its line, in `PROJECT.json`
under "hazards", with the properties that watch it or the reason why none does
yet.

## 2. The modules and the code they stand for

    Datagrams ───────► SlidingWindow ───► SlidingWindowProperties ──► MCSlidingWindow
        │                    │ implements         │
        │                    ▼                    ▼
        │              ReliableStream      SlidingWindowProofs
        └──► DatagramsProofs ─────────────────────┘

    Session ──► SessionAlone ──► MCSessionAlone
       │              └────────► SessionProofs
       └──────► FtpControl ────► FtpControlProperties ──► MCFtpControl
                                          └─────────────► FtpControlProofs

    Datagrams, SlidingWindow (as the instance Window)
       └──────► DataSocketReuse ──► MCDataSocketReuse
                       └──────────► DataSocketReuseProofs  (with DatagramsProofs)

    ServerTable ──► MCServerTable          TransferModeCodec ──► MCTransferModeCodec
       └────► ServerTableProofs               └────► TransferModeCodecProofs

    Storage ──► MCStorage
       └────► StorageProofs

`PROJECT.json` "map" gives the lines of each definition. Definitions headed
"Mutant" are deliberately wrong variants of the definition after them; no
specification uses them. They exist to show that a property depends on the
code: with the variant in its place the property fails.

**Datagrams.** One direction of a UDP channel is a bounded queue. `Push` drops
what does not fit, `AfterFault` loses, repeats, delays (past the datagrams
behind it) or damages one datagram. The header is reduced to its kind (the
flags DATA, ACK, FIN, FIN|ACK), its number and the payload; `ok` is the verdict
of `verifyChecksum`, so that a damaged datagram is always detected by code that
looks at the checksum, and only by such code. `windowSize` is a constant of the
receiver. `SegmentCount`, `SegmentOffset` and `SegmentAt` are the cutting of a
buffer into segments at the head of `sendData`.

**SlidingWindow.** `sendData` and `receiveData` in full. `data` is the buffer the
sender was called with, any of `Buffers`; it never changes. A program counter
(`sender`) says where `sendData` is: `top` is the head of its loop, `burst` the
loop that fills the window and the `recvFrom` after it, `fin` and `finwait` the
FIN handshake, `true` and `false` what it returned. Each outcome of a `recvFrom`
is an action: timeout, ignored datagram, new ACK, duplicate ACK, third duplicate,
ACK beyond `nextSeq`. `receiveData` has one wait and needs no further counter.
`cwnd_` and `ssthresh_` are doubles in the code; `cwnd` is the floor of the one,
`ssthresh` the ceiling of the other, and `GrownCwnd` and `HalvedCwnd` give every
integer the code could reach, so that the model admits all its windows (and a few
more). The sentinel `UINT32_MAX` is `NoDataAck`. The callback of either side is
the set `cancelled`, asked exactly where the code asks it.

**ReliableStream.** What the transport promises: the delivered bytes grow by
whole pieces of the data, the receiver returns true only with all of them, the
sender returns true only when they have all been delivered.
`ImplementsReliableStream` is the refinement (`delivered <- outData`, the two
program counters reduced to *running, true, false*).

**Session.** The session's thread. `server` is *reading* between commands,
*awaitKnock*, *sending* or *receiving* in a transfer, *closed* at the end. One
action per command, with the replies in order, and one per way a transfer ends:
success, giving up, no knock, an unreadable knock, an ABOR, a failed write.
The control connection is two FIFO queues, of command lines and of reply codes.
Commands that only ask or change the file system stand for one another (listed
at `Answers`), and the answer of the file system is a free choice. The data
channel is no longer datagram by datagram: it is the promise `ReliableStream`
makes, in the variable `data`. What may go wrong on it is chosen with the
constant `Troubles`. Two things of it are stronger than what `SlidingWindow`
guarantees, and section 7 says when the code breaks them: in `FtpControl` a sender
that is not troubled never gives up on a receiver that has the data, and never stalls.

**SessionAlone.** The session with *any* client: it sends any line of
`Commands` at any time, knocks, moves data, stops reading or leaves.

**FtpControl.** The session with *the* client of `ClientCLI.cpp`. `client` is
the position of its thread: `head` and `prompt` (the loop and `getline`), `await`
(a reply to a plain command), `pasv`, `opening`, `knock`, `transfer`, `aborted`,
`final` (the positions inside `handleRetr`, `handleStor`, `handleList`), `abor`,
`quit`, `gone`. `aborted` and `abortSent` are the two atomics of the signal
handling. The whole of `Session` runs beside it, unchanged. `stray` is what an
earlier transfer has left in the client's active socket: a `fin` that was
repeated after the receiver had returned, a `knock` that came after the client
had stopped waiting for it, or `data` that the server went on sending to a
download which a FIN of an earlier one had ended. Each meets the next transfer:
a download is ended by a FIN, takes DATA for its own first segment (what it then
decodes may be anything) and ignores a knock; an upload takes any of them for
its knock. A signal has an effect of its own at one place only,
`KnockInterrupted`: `handleStor` waits for the knock in a single `recvFrom`, on a
socket with `SO_RCVTIMEO`, which a signal ends with `EINTR` although the handler
is installed with `SA_RESTART`; `UDPSocket::recvFrom` returns -1 and `handleStor`
returns, while the server goes on waiting for data. Every other `recvFrom` is in a loop
that asks the callback next (`TransferAborted`), and the control connection has no
timeout, so that its `recv` is restarted. `leftEarly` observes the client: some command has
returned although a reply of its own was still to come. The code has no such
variable; it lets the properties name exactly the returns (`LeavesEarly` and two
others) after which client and server are out of step.

**DataSocketReuse.** Several transfers over the socket that `PORT` has bound.
Its two ends are those of `SlidingWindow`, whose `data` is `Payloads[transfer]`;
the next transfer starts with fresh locals, and what the last one has left in the
client's socket stands at the head of its queue (`stale` counts it).
The session opens a socket of its own for each transfer, so that whatever is
under way to it is lost with it. An upload first takes one datagram, whatever it
is, for the knock. The network loses datagrams but keeps their order, and no
transfer is aborted, since an abort ends the client.

**ServerTable.** The main thread between `accept`, `clients_add` and
`pthread_create`, and the end of each session's thread, `close` and
`clients_remove`. The table holds one descriptor for each active record. `accept`
returns the lowest free descriptor, so that one is reused as soon as it is
closed, and possibly before the record of its former session is removed.

**TransferModeCodec.** `encode` and `decode` as recursive functions over
positions, one per mode, with the number `Eof` of counts a control byte can hold
(`kEof`, 64 in the code) and the radix of the block count (256) as parameters. A file is encoded in the mode of
one end, may be cut or extended on its way, and is decoded in the mode and type
of the other end.

**Storage.** One tree of directories and files under a root and next to it, and
the operations of `PathManager` and of uploads that change it. A path is a
sequence of names. What the code does between a look at the file system and the
act is the interval in which other sessions run: `Looks` resolves and checks,
`pending` holds what the session is about to do, `Acts` does it with whatever it
then finds. `disturbed` observes the sessions that another one has got ahead
of in this interval; properties that the code can promise only without such a
race say so with it.

## 3. The runs

*Violation* runs each check one sentence found in the repository's own text
(section 7); all other runs pass.

| Run | Question | Answer |
|---|---|---|
| SlidingWindowSafety | Can loss, repetition, delay, damaged ACKs and a failing `sendTo` corrupt a transfer? | No. The bytes delivered are a prefix (`PrefixDelivered`), a FIN cannot end a transfer early although its seqNum is not looked at (`CompleteOnFin`), the window bounds what is in flight (`InFlightWithinWindow`), each rewind is counted (`RetransmissionsAreBounded`), and all of it implements `ReliableStream`. `IndInv`, the invariant the proofs use, holds: every segment and ACK on the network is honest, an ACK is never believed for data not taken, a FIN is only sent after everything was acknowledged. Nobody aborts here: aborts at any time are in SlidingWindowCompletes and in the theorems of section 6, which hold for every network. |
| SlidingWindowCompletes | Does a transfer that meets a couple of faults towards the receiver complete? Do both ends return, also after an ABOR? | Yes, when the round trip stays below the timers (`TransferCompletes`, `SenderReturns`, `AbortStopsReceiver`). No damaged datagram ends the stream (`CompleteOnFin`), and as no FINACK is damaged here, both ends agree on success (`SuccessIsAgreed`); with damaged ones, as in SlidingWindowSafety, the sender may succeed before the receiver does, but never without all of the data delivered, which `ImplementsReliableStream` contains. |
| SlidingWindowStall | *violation* | `sendData` need not return with the sessions' 250 ms receiver timer. |
| SessionAlone | Can any sequence of lines, knocks, failures and a client that leaves bring a session into an inconsistent state? | No: `PassiveSocketMatchesMode`, `TransferHasEndpoint`, `OnlyLoggedInClients`, `RenameFollowsRnfr`. |
| FtpControl | Over a data channel that works, with Ctrl-C at any time: does every command return, with its own reply? | Yes: `FinalReplyIsOwn`, `CommandReturns`. The session is done with a command when its client is (`ServerIdle`), with one exception the property names: an upload interrupted while the client waits for the knock leaves the server receiving, but then the client is at the head of its loop, where ABOR is next, and never at a prompt. |
| FtpControlTroubled | What survives when everything may fail: sockets, knocks, files on either side, senders, and datagrams of one transfer in the next? | Replies stay paired with commands, type, mode and active endpoint agree (`RepliesPaired`, `RepresentationAgreed`, `EndpointAgreed`) unless a command has returned early or ABOR was typed; Ctrl-C ends the client and after it the session (`SignalEndsClient`, `SessionEnds`) unless the server is left in an upload that nobody feeds and no ABOR is next on its connection (`UploadAbandoned`). Section 7 says what happens then. |
| FtpControlAbor | *violation* | An ABOR typed at the prompt leaves client and server with different modes. |
| DataSocketReuse | Can transfers over one socket mix? | Not as long as every sender has succeeded: nothing is left in the socket (`SuccessLeavesNothing`), and streams stay apart (`StreamsAreSeparate`). Both depend on the window of eight a session uses: with 28 segments in flight, three losses make the sender rewind so often that a second FIN is sent to a receiver that is done, and it stays in the socket although the sender has succeeded. A sender whose predecessors have all succeeded, or who has only one, whatever happened to it, is told of a success only when its receiver has exactly its own bytes (`SuccessIsOwnDelivery`); this, unlike the other two, does not depend on the window (section 6). |
| DataSocketReuseStaleFin | *violation* | After a lost FINACK the next `receiveData` returns true with nothing received. |
| ServerTable | Does reuse of descriptors confuse the table? | No: a session may remove another one's record, but then its own stays for the other to remove. No record outlives its session (`RecordsHaveSessions`), and until the table has overflowed every session has one (`SessionsAreListed`). |
| TransferModeCodec | Does every file survive each mode? Is a damaged stream noticed? | Yes (`RoundTrip`, `DamageIsNoticed`), and so is a block stream that is read as a compressed one (`BlocksAreNotCompressed`). A compressed stream read as blocks may pass. |
| Storage | Can paths lead out of the root? Can sessions destroy what they should not, or the tree? | Nothing outside the root is touched whatever races there are (`OutsideUntouched`), and the tree stays a tree (`TypeOK`). A pending rename always means the path it was given for (`RenameMeansItsPath`). If no other session gets in between, a rename or STOU overwrites nothing (`NothingOverwritten`) and a session does not lose its own current directory (`OwnStepsKeepCurrent`). |

Deadlock is not reported in any run: both programs end, and a system whose
client and session have returned has no step left.

## 4. Bounds

| Constant | Value | Why it is enough |
|---|---|---|
| `Buffers`, `MSS` | one buffer, three segments, the last one short, or three of one byte | a first, an inner and a last segment; the second and third can be in flight while the first is lost; bytes differ, so misplaced data shows |
| `InitialCwnd`, `InitialSsthresh`, `MaxWindowSegments`, `AdvertisedWindow` | 1, 2 or 3, 3, 3; in DataSocketReuse 8, 8, 32, 8 | the window grows through slow start into congestion avoidance, reaches its cap, and shrinks to one with more in flight. DataSocketReuse has the code's own values but for the start, where the whole window of 8 is open as it is in the middle of a long transfer |
| `MaxRetransmitRounds` | 1 to 3 (2 and 3 where transfers follow one another) | zero rounds left, one left, and (in the liveness runs) more rounds than `MaxFaults` |
| `BufferCapacity` | 3 to 5 datagrams; 16 in DataSocketReuse | a queue overflows, as a socket buffer does: with the code's retransmissions more datagrams are sent than fit |
| `MaxFaults` | 2; 4 in DataSocketReuse | two faults in one transfer, e.g. a lost segment and the loss of what repairs it; over three transfers, two in each of two of them; losses by overflow are not counted |
| `NoDataAck` | 9 or 99 | any number beyond the segments; the code's own is 2^32 − 1 |
| `MaxPending` (SessionAlone) | 1 | lines and replies waiting while the client sends on; one line may wait while a transfer runs, which is what ABOR needs. The session reads lines strictly one after another |
| `MaxUnread` (FtpControl) | 1 | replies a client has left unread when its user types on; one is enough for every later command to read its predecessor's reply |
| `Commands`, `Lines` | sets in the MC modules | every verb, with every class of argument its handler tells apart, in SessionAlone; in FtpControl one of each kind of plain command, a type and a mode to change and an argument to refuse, all transfers and both endpoints; in FtpControlTroubled, where every trouble may happen, one line of each kind, with STOU for the uploads and the end of the input for QUIT (larger sets that add STOR, QUIT and a typed PASV, 2.5 million states, or a typed ABOR, show the same; they are left out because they take minutes) |
| `Payloads`, `Directions` (DataSocketReuse) | three transfers of 10, 2 and 1 segments, each down or up | the first is longer than a window; what the first leaves can meet the second or, when that is refused its knock, the third; the sizes differ so that a late segment fits the next stream or not |
| `Clients`, `MaxClients`, `MaxDescriptor` | 4, 3, 3 | a table that fills, a client too many, and each descriptor reused while its former session is closing |
| `Eof`, `Radix`, `MaxLength` | 4, 2, 7 | counts up to 3 instead of 63 and blocks up to 3 instead of 65535, so that seven bytes make runs and literals below, at and beyond the limits and three blocks |
| `FileBytes`, `TrailingBytes` | 0, the EOF bit, the escape | the bytes that mean something in a coded stream, and one that does not |
| `Session`, `Arguments`, `MaxDepth`, `MaxCommands` | 2, five paths, 3 names, 6 commands | a relative name, its sibling, the parent, a sibling of the parent and an absolute path; a rename against an upload against a removal takes six commands |

`MaxPending` and `MaxUnread` bound only what the client or user adds; the
session's replies are never held back. `MaxFaults` bounds the network alone.
The theorems of section 6 hold for every value of all these constants.

## 5. Fairness

* *SlidingWindow*: weak fairness of the sender's steps, of its timer, of the
  receiver's steps and of its timer. Both are loops around a `recvFrom` with
  `SO_RCVTIMEO` set, so that each keeps making steps. Nothing is assumed of the
  network and no user is forced to abort. The liveness runs set `PromptNetwork`: a
  timer runs out only when no datagram is under way to a side that still
  reads. Without it each side may time out for ever before any datagram arrives,
  and no protocol of this kind completes. `ReceiverPollsFaster` says that the
  receiver's timer is the shorter of the two, 250 ms against the sender's, as in
  the sessions.
* *FtpControl*: weak fairness of the client's thread, of the session's thread
  and of the Enter a user presses after Ctrl-C. A user never has to type and
  never has to press Ctrl-C. The last is an assumption about the user that the
  code needs: `std::signal` installs the handler with `SA_RESTART`, so that the
  `read` under `getline` is restarted; the handler sets failbit, and `getline`
  returns false when a line comes.

## 6. The proofs

TLAPS checks the following for every value of the constants that satisfies
their ASSUMEs (naturals, positive sizes, the data a sequence of bytes, no more
segments than the sentinel).

**SlidingWindowProofs** (with lemmas about queues and faults in
`DatagramsProofs`). None of the safety properties is inductive alone. Whether the
receiver's bytes stay a prefix depends on what is in the queue (`OnlyHonestData`);
whether the window may slide depends on what the ACKs say (`OnlyHonestAcks`, from
which `AckedIsReceived`); that a FIN is harmless depends on the sender having
been acknowledged before it sent one (`HandshakeAfterData`). `IndInv` is their
conjunction with `TypeOK`, and `Invariance` proves `Spec => []IndInv` with one lemma
for each phase. From it:
`TypeCorrect`, `StreamIntegrity`, `SuccessIsComplete` (both directions of
success mean that the data is complete), `Agreement` (the sender's success
implies the receiver's; assumes that no datagram towards the sender is damaged,
since the code does not check a FINACK), `BoundedRetransmission` (an action
property), `InFlightBounded` (its own induction) and `Refinement` (every step of
the protocol is a step of `ReliableStream` or none).

**DataSocketReuseProofs.** The invariant of one transfer is not enough for several:
the queue of the next one starts with datagrams that say nothing of it. `ReuseInv`
tells three situations apart. A transfer is `Separate` when it has met no datagram of
another one; then what holds is what `SlidingWindowProofs` shows of a lone transfer, and
besides what is needed to know what it leaves: no DATA follows a FIN, a receiver
that has returned leaves FINs only, nothing follows a FINACK. It is `Unanswered` when
it is a download into a socket with leftovers: the receiver takes these first,
answers none of them to the sender it has, and a FIN among them ends it with nothing
received, so that the sender, never acknowledged, cannot succeed. It is `Astray`
when it is an upload that has taken one of them for its knock. `AfterSeparate` shows
that only these can follow a separate transfer, since its leftovers hold no DATA
(`Leftovers`), and that a transfer follows an unanswered one only after a failure.
The third transfer after a failure is where the invariant ends, as
the code's guarantee does: the segments an unanswered sender has sent are DATA
in the socket, and the receiver counts them by their number alone.

The proofs do not go through the actions of `SlidingWindow` one by one:
`SenderEffects` and `ReceiverEffects` reduce them to the few things either end can do
to the variables the invariant speaks of (`SendsSegment`, `Slides`, `SendsFin`,
`TakesFin`, ...), for any window, timers and retransmissions. From `ReuseInvariance`
follow, for any number of transfers and any losses:
`SuccessStaysOwn` (`Spec => []SuccessIsOwnDelivery`); `OwnBytesOnly`, that
the bytes of two transfers never mix, and that a receiver which has been ended by an
old FIN has nothing rather than a part; `SuccessLeavesOnlyFins` and
`UploadLeavesNothing`, what a success can leave behind; and `StreamsStaySeparate`,
that `StreamsAreSeparate` needs no more than `SuccessLeavesNothing`, whatever the
window. That last hypothesis is what remains for TLC: it is true with the window
of eight segments the sessions use and false with one much larger (section 3).

**SessionProofs.** `SessionInv` joins `TypeOK`, `PassiveSocketMatchesMode`,
`TransferHasEndpoint`, `OnlyLoggedInClients` and `RenameFollowsRnfr`. They need
each other: that a transfer keeps the login needs the fact that no command is read during
one, that its end leaves no rename pending needs `RenameFollowsRnfr`, that its release of
the channel keeps mode and socket together needs `PassiveSocketMatchesMode`.
`SessionInvariance` proves it inductive with any client, any set of command
lines and any troubles; five theorems name its parts.

**FtpControlProofs.** What the client may read next depends on what the session
has still to say, and that on what the client has sent. `Position` lists, for each
place the client can be in, where the session may be and what the two queues may
hold: nothing, the one line just sent, or the replies of this one command. From it
`ReplyArrives` reads its own reply, and the settings of both sides change together.
Two things break the correspondence, and the invariant says how: a command that
returns early (`leftEarly`), after which nothing is claimed, and an
interruption, after which the client is `Leaving` and changes no setting any more
(`SettingsStay`). `ControlInv` is `Bookkeeping` (types and the order in which the
signal's flags are set) with `Standing` (`Position`, or its weaker form for a client
that leaves); `ControlInductive` has one lemma for each group of actions. From it:
`ClientTypeCorrect`, `RepliesStayPaired`, `RepresentationStaysAgreed` and
`EndpointStaysAgreed`, for any lines, any troubles and a signal at any time.

`ServerStaysIdle` and `FinalReplyStaysOwn` assume `Untroubled`: no troubles, no typed
ABOR (which is answered twice), no STOU with a name that leads out of the root
(refused after its 125). This is what the run FtpControl has; that run would
violate the two properties otherwise. A signal may still come at any time.
`SmoothSoFar` sharpens `Position` for this case: the data
channel belongs to the command in hand (`Begun`, `NothingLeft`), so that whatever
ends a transfer on one side ends it on the other. A signal breaks this at one place,
the wait for the knock, and `SmoothInv` has a second case for it: `Interrupted`
says that the client is at the head of its loop with the signal seen, the server
is receiving and has neither data nor a line. `KnockIsInterrupted` shows that
the interruption leads there, `InterruptedLeaves` that from there the client
can only send ABOR or QUIT, before which the server can do nothing. `ServerStaysIdle` proves
`ServerIdle` with just this exception.

**ServerTableProofs.** A record is found by its descriptor alone, so no
session owns one. What is invariant is a count: for each descriptor there are
never more records than sessions that still have to call `clients_remove` with
it (`RecordsHaveSessions`), and until the table has overflowed never fewer
(`SessionsAreListed`). `AddCounts` and `RemoveCounts` show that the two handlers
change both counts alike, `Unconcerned` that nothing else changes either;
`CountsInductive` joins them, with `TypeOK` for the descriptors.

**StorageProofs.** `IndInv` is `TypeOK` (among it that the storage is a tree), that
what lies outside the root is exactly what was there at the start (`IsSealed`),
and `PlanInside` for every session: what it is about to do was compared with the
root when it was planned, and neither removes nor moves the root itself. The last
is what carries the result over the gap between a look and its act, in which the
other sessions may do anything. A rename needs the tree: nothing lies below a
file, so that the paths it moves stay apart from each other (`MovedApart`) and
from those that stay (`MovedLandsFree`), and the directories above each are
there afterwards (`AboveMoved`). The proofs do not use how `Resolve` works, only
that every command compares its result with the root: no resolution of "..", right or
wrong, can lead out. From it follow `TypeCorrect` and `RootIsSealed`
(`Spec => OutsideUntouched`). `RenameKeepsMeaning` needs no more
than that: CWD, the only command that changes a current directory, cancels the
rename. The other two action properties need what a session saw when it made its
plan, and `Foresight` keeps it for every session nobody has got ahead of: a
removal or a rename is not about a directory the session is in, the new name of a
rename and the name of a STOU are free, and there are finitely many files
(`OthersLeave` is the reason: a step of another session that changes the storage
disturbs every plan there is). `OwnDirectoryStays` follows, and, since a rename to
a free name maps the files one to one (`MovedOntoFree`), `NoFileIsLost`. That the
files outside the root are finitely many is assumed of the file system.

**TransferModeCodecProofs.** The encoders and decoders recur from a position to a later
one, so what they do to a file of any length needs an induction. The library's
induction theorems over the naturals take a predicate as parameter, which the provers
cannot instantiate; a least counterexample does without. `LeastNumber` draws it from
the well-foundedness of `<`, `FromTheEnd` turns it into an induction over sets of
positions, and `RecursionFromTheEnd` shows that a function which is defined from the
end of a range exists and satisfies its equation. That gives the equations of the five
recursive functions (`BlocksFromEquation`, `CompressedEquation` and so on), after
`AfterBlockTypes`, `LiteralEndTypes` and `RunTypes` have shown that each recurs to
later positions only.

What is proved by induction is about a decoder at a position of a stream that
carries the coded rest of a file from there, whole, broken off, or with more behind:
if exactly that rest has arrived it returns the rest of the file, and otherwise it
refuses (`Faithful`). The last case has to be part of it, since a stream which is cut
in its second block is whole in its first. `BlocksFaithful` and `CompressedFaithful`
show it for the two modes, one lemma for each form a block or a string can have
(`OneBlockFaithful`, `RepeatFaithful`, `LiteralFaithful`, `EndFaithful`), and
`DecodingUndoesEncoding` is the case of the first position. `TransferInv` (the stream is
the coded file, a proper prefix of it, or that and one byte more; the result is what
`Decode` makes of it) carries it to the specification: `EveryFileArrives`,
`DamageStaysNoticed` and `BlocksStayRefused`, for every file, every width of the
counts and every byte that may follow. The only assumption is `ByteAssumption`: that
the counts can hold at least one.

Only model-checked: all liveness properties (fairness and ENABLED are outside
the reach of the prover), and `SuccessLeavesNothing` of `DataSocketReuse`, which is not
true of every window (section 3). Every other invariant and action property of a run
that passes is stated by a theorem. No module with a theorem uses a RECURSIVE operator.

## 7. What the code does differently from what it says

Three disagreements are runs, with a counterexample:

1. **`sendData` may never return** (SlidingWindowStall, `SlidingWindow.cpp:275`).
   After a rewind `nextSeq = base`. The receiver has already taken segments sent
   before the rewind; its cumulative ACK is at or beyond `nextSeq` and is ignored
   as an ACK "never sent". The window of one stays full, so nothing is sent; the
   receiver repeats this ACK every 250 ms, and the sender, whose timeout is 500 ms,
   starts a new `recvFrom` after each of them. No round is counted, no limit is
   reached. What it takes is one timeout of the sender while the receiver is ahead,
   for instance a loss of ACKs for half a second; the model does not measure the two
   timers against each other before that, and its trace shows such timeouts directly.
2. **ABOR at the prompt** (FtpControlAbor, `Session.cpp:1297`). It is answered by
   426 *and* 226, the client reads one. From then on each command reads the reply
   of its predecessor, and MODE B is applied on one side only.
3. **A FIN of an earlier download** (DataSocketReuseStaleFin,
   `SlidingWindow.cpp:409`). The FINACK of a download is lost; the receiver has
   returned, the repeated FIN stays in the client's active socket, and the next
   `receiveData` takes it, although it is neither its number nor its sender, and
   returns true with nothing received. The client reports the reply it then reads,
   and the file is empty.

Smaller ones, met while modelling, without a run:

* `sendData` returns false although everything was acknowledged when the one
  FINACK is lost (`SlidingWindow.cpp:311`): the receiver has left and nobody
  answers the repeated FIN. `SlidingWindow.h:44` promises true.
* A client whose upload failed tells the server nothing (`ClientCLI.cpp:582-595`).
  The server stays in `receiveData`, the next command waits in `recv`, and Ctrl-C
  only sets a flag. This is the exception `UploadAbandoned` of `SignalEndsClient`:
  an upload is abandoned as long as the next line the server would read is another
  than ABOR, or there is none and the client has gone. The same
  return is taken when the server has stored the file and only its FINACK is
  lost; its 226 is then read by the next command.
* Ctrl-C while an active upload waits for its knock (`ClientCLI.cpp:542`) ends that
  wait, and `handleStor` says "Active data handshake failed". `ClientCLI.h:37-38`
  has ABOR and QUIT follow, and they do, from the head of the loop: the ABOR is
  taken by the server's callback and ends the upload it was still waiting for. It is
  answered by 426 and 226, of which the client reads one for ABOR and one for QUIT.
* With three downloads over one socket, the first of which has failed, a late DATA
  segment may be taken by the third, whose sender is then told of its own FINACK:
  `SuccessIsOwnDelivery` asks of the third and later ones that all before them
  have succeeded, for that reason.
* The name a STOU has announced is reserved for nobody: two sessions may be told
  the same one before either has written its file (`PathManager.cpp:733`,
  `UniqueNameStaysUnique` in `Storage` states it and does not hold with two
  sessions).
* A stale datagram is taken for the knock of an upload
  (`ClientCLI.cpp:542-547`); all of the upload then goes to a closed socket.
* After a download that an old FIN has ended (3. above) its sender goes on sending, and
  the next download over the socket takes that DATA for its own.
* `README.md:88` says that ackNum is the next segment expected; the code sends
  the last one taken, `expectedSeq_ - 1` (`SlidingWindow.cpp:333-335`). The
  mutant `CumulativeAckNext` shows that the sender needs the code's version.
* `SlidingWindow.h:18-19` bounds what is in flight by the advertised window; a
  receiver's window is known only after its first ACK, and segments sent under a
  larger one stay in flight. `InFlightWithinWindow` states what does hold.
* `main_client.cpp:94-96` says that `getline` returns at once after a signal; it
  returns when the user presses Enter (section 5). It then leaves without the ABOR
  and QUIT that `ClientCLI.h:37-38` announces (`ClientCLI.cpp:842-853`), and the
  session ends at the end of its input.
* LIST answers 150 before it opens the data channel, and then 425 and 426 if that
  fails. STOU answers 125 and may then refuse with 425 or 550; its client, which
  has read 125, goes on to send.
* A download whose local file cannot be created, or whose data does not decode,
  returns without its final reply (`ClientCLI.cpp:340-354`), and so does an active
  upload whose server could not send its knock and says so with 425
  (`ClientCLI.cpp:541-546`). The next command then reads the reply of the one before,
  as in 2. `SignalEndsClient` shows that Ctrl-C still ends such a client.
* `README.md:156` already says that ABOR does not interrupt LIST's transfer or
  the wait for a knock; the model has this behaviour (`KnockTimeout`, `SendAborted`).

## 8. What is not modelled

* The header's layout and the arithmetic of the 16-bit checksum: two damages
  that cancel are not seen. Sequence numbers do not wrap: a transfer of 2^32
  segments is outside `SequenceSpaceAssumption`.
* Datagrams from a third party. The length of a wait in real time: how long a
  client waits for a knock depends on the timeout the last transfer left in the
  socket; the model lets the knock come late, or not at all, at any time.
* Wording of replies, statistics, logging, hashes, file contents, listings, sizes
  and times. In `Session`, commands of the same effect on `SessionState` are
  represented by one (`Answers`); NLST by LIST, APPE by STOR.
* The client's local checks that fail before anything is sent (no such file, bad
  syntax), and its failure to open a UDP socket.
* Symbolic links inside the storage, and arguments whose last name is empty
  (`STOR a/` creates the directory `a` and then fails to write).
* A failure of `pthread_create`, which the code does not look at: it then detaches
  a thread identifier that was never set. `SIGPIPE` when a reply is sent to a
  client that has left. `clients_print`, which nothing calls.
* `sendPacket` and `receivePacket`, the stop-and-wait calls: nothing in the
  repository calls them. The standalone programs, which run one transfer of
  `SlidingWindow` without a control connection.
* Splitting and upper-casing a command line; OpenSSL; file input and output beyond
  whether it succeeds.
* Loss of the TCP connection other than by the client closing it.

## 9. The plan

Done: the transport with its refinement and proofs; the session with its
proofs; client and session together, with what transfers leave behind and its proofs; several
transfers over one socket with their proofs; the table of sessions with its proofs; the codec with its
proofs; the storage that sessions share with its proofs.

Next, in this order:

1. **Storage**: symbolic links as a function on paths, so that the difference
   between `resolvePath` and `weakly_canonical` can be seen.
