-------------------------- MODULE TransferModeCodec --------------------------
(***************************************************************************)
(* The transfer modes of TransferModeCodec.cpp: a file is encoded by the   *)
(* end that sends it (encode), crosses the data channel, perhaps not       *)
(* whole, and is decoded by the end that receives it (decode), which goes  *)
(* by its own idea of the mode.                                            *)
(*                                                                         *)
(* The widths are parameters: a control byte of MODE C has two class bits  *)
(* above a count below Eof (64 in the code), and the two count bytes of    *)
(* MODE B are digits of base Radix (256 in the code).  A position counts   *)
(* from 1.                                                                 *)
(***************************************************************************)
EXTENDS Integers, Sequences, SequencesExt

CONSTANTS
    Eof,                    \* kEof, the lower of the two class bits
    Radix,
    Blank,                  \* the code of ' '
    FileBytes,              \* the bytes files are made of
    MaxLength,              \* bound: the longest file
    TrailingBytes           \* the bytes a stream may wrongly end with

Byte == 0 .. 4 * Eof - 1
ASSUME ByteAssumption ==
    /\ Eof \in Nat \ {0, 1} /\ Radix \in Nat \ {0, 1}
    /\ MaxLength \in Nat /\ Blank \in Byte
    /\ FileBytes \subseteq Byte /\ TrailingBytes \subseteq Byte

VARIABLES
    stage,                  \* "encode", "transfer" or "done"
    file,                   \* what the sending end read
    sentMode, readMode,     \* the modes of the two ends
    readType,               \* the type of the receiving end
    stream,                 \* the bytes on the data channel
    whole,                  \* whether all of them and no others arrive
    result                  \* what decode returned

vars == <<stage, file, sentMode, readMode, readType, stream, whole, result>>

Escape == 4 * Eof - 1           \* kEscape, 0xff
MaxCount == Eof - 1             \* 63
MaxBlock == Radix * Radix - 1   \* 65535
RepeatClass == 2
LiteralClass == 0

Lesser(a, b) == IF a =< b THEN a ELSE b
HasEof(byte) == (byte \div Eof) % 2 = 1
ClassOf(byte) == byte \div Eof
CountOf(byte) == byte % Eof

-----------------------------------------------------------------------------
(* encode.                                                                  *)

\* Blocks of at most MaxBlock bytes, the last one marked; no data is one
\* empty block.
BlockLength(input, pos) == Lesser(MaxBlock, Len(input) - pos + 1)
IsLast(input, pos) == pos + BlockLength(input, pos) > Len(input)

Block(input, pos) ==
    LET count == BlockLength(input, pos)
    IN  <<IF IsLast(input, pos) THEN Eof ELSE 0, count \div Radix,
          count % Radix>> \o SubSeq(input, pos, pos + count - 1)

BlocksFrom(input) ==
    LET from[pos \in 1 .. Len(input) + 1] ==
            Block(input, pos)
            \o (IF IsLast(input, pos) THEN <<>>
                                      ELSE from[pos + BlockLength(input, pos)])
    IN  from

EncodeBlocks(input) == BlocksFrom(input)[1]

\* How often the byte at pos is repeated, as far as a count can tell.
RunAt(input, pos) ==
    CHOOSE run \in 1 .. MaxCount :
        /\ \A i \in pos .. pos + run - 1 :
               i \in DOMAIN input /\ input[i] = input[pos]
        /\ \/ run = MaxCount
           \/ pos + run \notin DOMAIN input
           \/ input[pos + run] # input[pos]

\* Mutant: a literal takes a whole run even when that exceeds its count.
TakesRun(run, literalCount) == run

\* What a literal still takes of a run that is too short to be repeated.
Take(run, literalCount) == Lesser(run, MaxCount - literalCount)

\* Where the literal that starts at start ends.
LiteralEndFrom(input, start) ==
    LET end[pos \in start .. Len(input) + 1] ==
            IF \/ pos > Len(input) \/ pos - start >= MaxCount
               \/ RunAt(input, pos) >= 3
            THEN pos
            ELSE end[pos + Take(RunAt(input, pos), pos - start)]
    IN  end

LiteralEnd(input, start) == LiteralEndFrom(input, start)[start]

CompressedFrom(input) ==
    LET from[pos \in 1 .. Len(input) + 1] ==
            IF pos > Len(input) THEN <<Escape, Eof>>
            ELSE IF RunAt(input, pos) >= 3
            THEN <<RepeatClass * Eof + RunAt(input, pos), input[pos]>>
                 \o from[pos + RunAt(input, pos)]
            ELSE LET end == LiteralEnd(input, pos)
                 IN  <<end - pos>> \o SubSeq(input, pos, end - 1) \o from[end]
    IN  from

EncodeCompressed(input) == CompressedFrom(input)[1]

Encode(input, mode) == CASE mode = "S" -> input
                         [] mode = "B" -> EncodeBlocks(input)
                         [] mode = "C" -> EncodeCompressed(input)

-----------------------------------------------------------------------------
(* decode.  The output of a stream that is refused is not used.             *)

Refused == [ok |-> FALSE, output |-> <<>>]
Accepted(output) == [ok |-> TRUE, output |-> output]

\* The bytes decoded here, followed by what the rest decodes to.
Then(bytes, rest) == IF rest.ok THEN Accepted(bytes \o rest.output) ELSE rest

\* Mutant: what follows the EOF is not looked at.
AcceptsAny(input, pos) == Accepted(<<>>)

\* The EOF must be the end of the stream.
AtEof(input, pos) == IF pos > Len(input) THEN Accepted(<<>>) ELSE Refused

\* Where the block that starts at pos ends, as its two count bytes have it.
AfterBlock(input, pos) == pos + 3 + input[pos + 1] * Radix + input[pos + 2]

BlocksDecodedFrom(input) ==
    LET from[pos \in 1 .. Len(input) + 1] ==
            IF pos + 2 > Len(input) THEN Refused
            ELSE LET next == AfterBlock(input, pos)
                 IN  IF next > Len(input) + 1 THEN Refused
                     ELSE Then(SubSeq(input, pos + 3, next - 1),
                               IF HasEof(input[pos]) THEN AtEof(input, next)
                                                     ELSE from[next])
    IN  from

DecodeBlocks(input) == BlocksDecodedFrom(input)[1]

\* Mutant: an empty filler is skipped.
AnyCount(control) == TRUE

\* A string of no bytes is invalid, whatever its class.
Counts(control) == CountOf(control) # 0

\* What a filler string stands for.
Filler(type) == IF type = "A" THEN Blank ELSE 0

\* Both 01 and 11 are taken for a filler string.
DecompressedFrom(input, type) ==
    LET from[pos \in 1 .. Len(input) + 1] ==
            IF pos > Len(input) THEN Refused
            ELSE LET control == input[pos]
                     count   == CountOf(control)
                 IN  CASE control = Escape ->
                              IF pos = Len(input) THEN Refused
                              ELSE IF HasEof(input[pos + 1])
                              THEN AtEof(input, pos + 2)
                              ELSE from[pos + 2]
                       [] control # Escape /\ ~Counts(control) -> Refused
                       [] control # Escape /\ Counts(control)
                          /\ ClassOf(control) = LiteralClass ->
                              IF count > Len(input) - pos THEN Refused
                              ELSE Then(SubSeq(input, pos + 1, pos + count),
                                        from[pos + count + 1])
                       [] Counts(control)
                          /\ ClassOf(control) = RepeatClass ->
                              IF pos = Len(input) THEN Refused
                              ELSE Then([i \in 1 .. count |-> input[pos + 1]],
                                        from[pos + 2])
                       [] OTHER ->
                              Then([i \in 1 .. count |-> Filler(type)],
                                   from[pos + 1])
    IN  from

DecodeCompressed(input, type) == DecompressedFrom(input, type)[1]

Decode(input, mode, type) == CASE mode = "S" -> Accepted(input)
                               [] mode = "B" -> DecodeBlocks(input)
                               [] mode = "C" -> DecodeCompressed(input, type)

-----------------------------------------------------------------------------
(* A file on its way.                                                       *)

Modes == {"S", "B", "C"}

Init == /\ stage = "encode"
        /\ file \in BoundedSeq(FileBytes, MaxLength)
        /\ sentMode \in Modes /\ readMode \in Modes
        /\ readType \in {"A", "I"}
        /\ stream = <<>> /\ whole = TRUE /\ result = Refused

SendFile == /\ stage = "encode"
            /\ stage' = "transfer"
            /\ stream' = Encode(file, sentMode)
            /\ UNCHANGED <<file, sentMode, readMode, readType, whole, result>>

\* receiveData has returned too early, or with bytes that are not the file's.
Damage == /\ stage = "transfer" /\ whole
          /\ \/ \E length \in 0 .. Len(stream) - 1 :
                    stream' = SubSeq(stream, 1, length)
             \/ \E byte \in TrailingBytes : stream' = Append(stream, byte)
          /\ whole' = FALSE
          /\ UNCHANGED <<stage, file, sentMode, readMode, readType, result>>

ReceiveFile == /\ stage = "transfer"
               /\ stage' = "done"
               /\ result' = Decode(stream, readMode, readType)
               /\ UNCHANGED <<file, sentMode, readMode, readType, stream,
                              whole>>

Next == SendFile \/ Damage \/ ReceiveFile

Spec == Init /\ [][Next]_vars

-----------------------------------------------------------------------------
(* Properties.                                                              *)

\* Two ends that agree on the mode: a stream that arrives whole decodes to the
\* file, whatever runs and special bytes the file has and wherever they meet
\* the limits of a count.
RoundTrip ==
    stage = "done" /\ whole /\ sentMode = readMode => result = Accepted(file)

\* MODE B and MODE C notice a stream that was cut short, or that goes on after
\* its end; a plain stream cannot.
DamageIsNoticed ==
    stage = "done" /\ ~whole /\ sentMode = readMode /\ readMode # "S"
        => ~result.ok

\* A block stream is never taken for a compressed one, so that ends that
\* disagree in this way always notice.
BlocksAreNotCompressed ==
    stage = "done" /\ sentMode = "B" /\ readMode = "C" /\ whole => ~result.ok
=============================================================================
