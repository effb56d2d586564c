---------------------- MODULE TransferModeCodecProofs ----------------------
(***************************************************************************)
(* Proofs about TransferModeCodec.tla: every file of any length survives   *)
(* every mode, and damage of a coded stream is noticed.                    *)
(***************************************************************************)
EXTENDS TransferModeCodec, SequenceTheorems, WellFoundedInduction,
        NaturalsInduction, TLAPS

-----------------------------------------------------------------------------
(* Induction and recursion over the positions of a sequence, from its end.  *)

\* A set of numbers has a least one.
LEMMA LeastNumber ==
    ASSUME NEW T \in SUBSET Nat, T # {}
    PROVE  \E n \in T : \A m \in T : n =< m
<1>1. IsWellFoundedOn(OpToRel(<, Nat), Nat)
  BY NatLessThanWellFounded
<1>2. PICK n \in T : \A m \in T : ~(<<m, n>> \in OpToRel(<, Nat))
  BY <1>1, WFMin
<1>3. \A m \in T : ~(m < n)
  BY <1>2 DEF OpToRel
<1> QED
  BY <1>3

\* Induction from the end of a range: a set contains every position if it
\* contains each one behind which it contains all.
LEMMA FromTheEnd ==
    ASSUME NEW lo \in Int, NEW hi \in Int, NEW P,
           \A pos \in lo .. hi : (\A q \in pos + 1 .. hi : q \in P) => pos \in P
    PROVE  \A pos \in lo .. hi : pos \in P
<1> DEFINE Bad == {n \in Nat : hi - n \in lo .. hi /\ hi - n \notin P}
<1>1. SUFFICES ASSUME Bad # {} PROVE FALSE
  <2> SUFFICES ASSUME NEW pos \in lo .. hi, pos \notin P PROVE FALSE
    OBVIOUS
  <2>1. hi - pos \in Bad
    OBVIOUS
  <2> QED
    BY <1>1, <2>1
<1>2. PICK n \in Bad : \A m \in Bad : n =< m
  <2>1. Bad \in SUBSET Nat
    OBVIOUS
  <2> QED
    BY <1>1, <2>1, LeastNumber
<1>3. \A q \in hi - n + 1 .. hi : q \in P
  <2> SUFFICES ASSUME NEW q \in hi - n + 1 .. hi, q \notin P PROVE FALSE
    OBVIOUS
  <2>1. hi - q \in Bad /\ hi - q < n
    BY <1>2
  <2> QED
    BY <1>2, <2>1
<1> QED
  BY <1>2, <1>3

\* The steps of a recursion over lo .. hi, with values in T: what Step[pos] makes
\* of a function depends on its values at later positions only.
Steps(lo, hi, T) ==
    {Step \in [lo .. hi -> [[lo .. hi -> T] -> T]] :
        \A pos \in lo .. hi : \A f, g \in [lo .. hi -> T] :
            (\A q \in pos + 1 .. hi : f[q] = g[q]) => Step[pos][f] = Step[pos][g]}

Solutions(Step, lo, hi, T) ==
    {f \in [lo .. hi -> T] : \A pos \in lo .. hi : f[pos] = Step[pos][f]}

\* A recursion from the end has a solution.
LEMMA RecursionFromTheEnd ==
    ASSUME NEW lo \in Int, NEW hi \in Int, NEW T, T # {},
           NEW Step \in Steps(lo, hi, T)
    PROVE  Solutions(Step, lo, hi, T) # {}
<1> USE DEF Steps
<1> DEFINE S == lo .. hi
           Solves(f, first) == \A pos \in S : pos >= first => f[pos] = Step[pos][f]
           P == {pos \in S : \E f \in [S -> T] : Solves(f, pos)}
<1>1. ASSUME NEW pos \in S, \A q \in pos + 1 .. hi : q \in P
      PROVE  pos \in P
  <2>1. PICK f \in [S -> T] : Solves(f, pos + 1)
    <3>1. CASE pos = hi
      <4>1. PICK t \in T : TRUE
        OBVIOUS
      <4>2. [q \in S |-> t] \in [S -> T]
        OBVIOUS
      <4>3. Solves([q \in S |-> t], pos + 1)
        BY <3>1
      <4> QED
        BY <4>2, <4>3
    <3>2. CASE pos # hi
      <4>1. pos + 1 \in pos + 1 .. hi
        BY <3>2
      <4>2. pos + 1 \in P
        BY <1>1, <4>1
      <4> HIDE DEF Solves
      <4> QED
        BY <4>2
    <3> QED
      BY <3>1, <3>2
  <2> DEFINE g == [f EXCEPT ![pos] = Step[pos][f]]
  <2>2. g \in [S -> T] /\ g[pos] = Step[pos][f]
        /\ \A q \in S : q # pos => g[q] = f[q]
    OBVIOUS
  <2> HIDE DEF g
  <2>3. Solves(g, pos)
    <3> SUFFICES ASSUME NEW p \in S, p >= pos PROVE g[p] = Step[p][g]
      OBVIOUS
    <3>1. Step[p][f] = Step[p][g]
      BY <2>2
    <3>2. CASE p = pos
      BY <2>2, <3>1, <3>2
    <3>3. CASE p # pos
      BY <2>1, <2>2, <3>1, <3>3
    <3> QED
      BY <3>2, <3>3
  <2> QED
    BY <2>2, <2>3
<1>2. \A pos \in S : pos \in P
  <2> HIDE DEF P
  <2> QED
    BY <1>1, FromTheEnd
<1>3. CASE lo =< hi
  <2>1. PICK f \in [S -> T] : Solves(f, lo)
    <3> HIDE DEF Solves, P
    <3>1. lo \in P
      BY <1>2, <1>3
    <3> USE DEF P
    <3> QED
      BY <3>1
  <2> QED
    BY <2>1 DEF Solutions
<1>4. CASE lo > hi
  <2>1. PICK t \in T : TRUE
    OBVIOUS
  <2>2. [q \in S |-> t] \in [S -> T]
    OBVIOUS
  <2> QED
    BY <1>4, <2>2 DEF Solutions
<1> QED
  BY <1>3, <1>4
-----------------------------------------------------------------------------
(* MODE B.                                                                  *)

\* What the widths of the counts are.
LEMMA Widths ==
    /\ MaxBlock \in Nat /\ MaxBlock >= 3 /\ MaxCount \in Nat /\ MaxCount >= 1
    /\ Eof \in Nat /\ Eof >= 2 /\ Escape \in Nat /\ Radix \in Nat /\ Radix >= 2
<1>1. Eof \in Nat /\ Eof >= 2 /\ Radix \in Nat /\ Radix >= 2
  BY ByteAssumption
<1>2. Radix * Radix \in Nat /\ Radix * Radix >= 4
  BY <1>1, Z3
<1> QED
  BY <1>1, <1>2 DEF MaxBlock, MaxCount, Escape

\* The two digits of a count give the count.
LEMMA Digits ==
    ASSUME NEW n \in Nat, NEW r \in Nat, r > 0
    PROVE  /\ n \div r \in Nat /\ n % r \in 0 .. r - 1
           /\ (n \div r) * r + (n % r) = n
OBVIOUS

\* A block takes some of the bytes that are left, all of them if it is the last.
LEMMA BlockTypes ==
    ASSUME NEW input \in Seq(Nat), NEW pos \in 1 .. Len(input) + 1
    PROVE  /\ BlockLength(input, pos) \in Nat
           /\ BlockLength(input, pos) =< MaxBlock
           /\ pos + BlockLength(input, pos) =< Len(input) + 1
           /\ ~IsLast(input, pos) => BlockLength(input, pos) > 0
           /\ IsLast(input, pos) => pos + BlockLength(input, pos) = Len(input) + 1
           /\ Block(input, pos) \in Seq(Nat)
<1>1. /\ BlockLength(input, pos) \in Nat
      /\ BlockLength(input, pos) =< MaxBlock
      /\ pos + BlockLength(input, pos) =< Len(input) + 1
      /\ ~IsLast(input, pos) => BlockLength(input, pos) > 0
      /\ IsLast(input, pos) => pos + BlockLength(input, pos) = Len(input) + 1
  BY Widths DEF BlockLength, IsLast, Lesser
<1> DEFINE count == BlockLength(input, pos)
<1>2. SubSeq(input, pos, pos + count - 1) \in Seq(Nat)
  <2>1. \A i \in pos .. pos + count - 1 : input[i] \in Nat
    BY <1>1, ElementOfSeq
  <2> HIDE DEF count
  <2> QED
    BY <1>1, <2>1, SubSeqProperties DEF count
<1>3. count \div Radix \in Nat /\ count % Radix \in Nat
  <2> HIDE DEF count
  <2>1. count \in Nat
    BY <1>1 DEF count
  <2> QED
    BY <2>1, Widths, Digits
<1> HIDE DEF count
<1>4. (IF IsLast(input, pos) THEN Eof ELSE 0) \in Nat
  BY Widths
<1>5. <<IF IsLast(input, pos) THEN Eof ELSE 0, count \div Radix, count % Radix>>
          \in Seq(Nat)
  BY <1>3, <1>4
<1>6. Block(input, pos) \in Seq(Nat)
  BY <1>2, <1>5 DEF Block, count
<1> QED
  BY <1>1, <1>6

\* The recursion that encodes has the solution its definition asks for.
LEMMA BlocksFromEquation ==
    ASSUME NEW input \in Seq(Nat), NEW pos \in 1 .. Len(input) + 1
    PROVE  /\ BlocksFrom(input)[pos] \in Seq(Nat)
           /\ BlocksFrom(input)[pos] = Block(input, pos) \o
                (IF IsLast(input, pos) THEN <<>>
                 ELSE BlocksFrom(input)[pos + BlockLength(input, pos)])
<1> DEFINE S == 1 .. Len(input) + 1
           Body(p, f) == Block(input, p) \o
                (IF IsLast(input, p) THEN <<>> ELSE f[p + BlockLength(input, p)])
           Step == [p \in S |-> [f \in [S -> Seq(Nat)] |-> Body(p, f)]]
<1>1. \A p \in S : ~IsLast(input, p) =>
          p + BlockLength(input, p) \in S /\ p + BlockLength(input, p) > p
  <2> SUFFICES ASSUME NEW p \in S, ~IsLast(input, p)
               PROVE  p + BlockLength(input, p) \in S /\ p + BlockLength(input, p) > p
    OBVIOUS
  <2> DEFINE count == BlockLength(input, p)
  <2>1. count \in Nat /\ p + count =< Len(input) + 1 /\ count > 0
    BY BlockTypes
  <2>2. Len(input) \in Nat
    BY LenProperties
  <2> HIDE DEF count
  <2>3. p + count \in S /\ p + count > p
    BY <2>1, <2>2
  <2> QED
    BY <2>3 DEF count
<1>2. \A p \in S : \A f : (\A q \in p + 1 .. Len(input) + 1 : f[q] \in Seq(Nat))
                           => Body(p, f) \in Seq(Nat)
  <2> SUFFICES ASSUME NEW p \in S, NEW f,
                      \A q \in p + 1 .. Len(input) + 1 : f[q] \in Seq(Nat)
               PROVE Body(p, f) \in Seq(Nat)
    OBVIOUS
  <2>0. \A q \in p + 1 .. Len(input) + 1 : f[q] \in Seq(Nat)
    OBVIOUS
  <2>1. Block(input, p) \in Seq(Nat)
    BY BlockTypes
  <2>2. (IF IsLast(input, p) THEN <<>> ELSE f[p + BlockLength(input, p)]) \in Seq(Nat)
    <3>1. CASE IsLast(input, p)
      <4>1. <<>> \in Seq(Nat)
        OBVIOUS
      <4> QED
        BY <3>1, <4>1
    <3>2. CASE ~IsLast(input, p)
      <4>1. p + BlockLength(input, p) \in p + 1 .. Len(input) + 1
        BY <1>1, <3>2, LenProperties, BlockTypes
      <4> QED
        BY <2>0, <3>2, <4>1
    <3> QED
      BY <3>1, <3>2
  <2> QED
    BY <2>1, <2>2
<1>3. Step \in [S -> [[S -> Seq(Nat)] -> Seq(Nat)]]
  <2>1. ASSUME NEW p \in S, NEW f \in [S -> Seq(Nat)]
        PROVE  Body(p, f) \in Seq(Nat)
    <3>1. \A q \in p + 1 .. Len(input) + 1 : f[q] \in Seq(Nat)
      OBVIOUS
    <3> HIDE DEF Body
    <3> QED
      BY <1>2, <3>1
  <2> HIDE DEF Body
  <2> QED
    BY <2>1
<1>4. \E f : f = [p \in S |-> Body(p, f)]
  <2>1. ASSUME NEW p \in S, NEW f \in [S -> Seq(Nat)],
               NEW g \in [S -> Seq(Nat)],
               \A q \in p + 1 .. Len(input) + 1 : f[q] = g[q]
        PROVE  Step[p][f] = Step[p][g]
    <3>1. Body(p, f) = Body(p, g)
      <4>1. CASE ~IsLast(input, p)
        <5>1. p + BlockLength(input, p) \in p + 1 .. Len(input) + 1
          BY <1>1, <4>1, LenProperties, BlockTypes
        <5> QED
          BY <2>1, <5>1
      <4>2. CASE IsLast(input, p)
        BY <4>2
      <4> QED
        BY <4>1, <4>2
    <3> HIDE DEF Body
    <3> QED
      BY <3>1
  <2>2. Seq(Nat) # {} /\ 1 \in Int /\ Len(input) + 1 \in Int
    BY LenProperties
  <2> HIDE DEF Step
  <2>3. PICK f \in [S -> Seq(Nat)] : \A p \in S : f[p] = Step[p][f]
    <3>1. Step \in Steps(1, Len(input) + 1, Seq(Nat))
      BY <1>3, <2>1 DEF Steps
    <3>2. Solutions(Step, 1, Len(input) + 1, Seq(Nat)) # {}
      BY <2>2, <3>1, RecursionFromTheEnd
    <3> QED
      BY <3>2 DEF Solutions
  <2>4. \A p \in S : f[p] = Body(p, f)
    BY <2>3 DEF Step
  <2> QED
    BY <2>4
<1>5. BlocksFrom(input) = [p \in S |-> Body(p, BlocksFrom(input))]
  <2> DEFINE F == CHOOSE f : f = [p \in S |-> Body(p, f)]
  <2>1. F = [p \in S |-> Body(p, F)]
    <3> HIDE DEF Body, S
    <3> QED
      BY <1>4
  <2>2. BlocksFrom(input) = F
    BY DEF BlocksFrom, Block, BlockLength, IsLast
  <2> QED
    BY <2>1, <2>2
<1>6. \A p \in S : BlocksFrom(input)[p] \in Seq(Nat)
  <2> DEFINE P == {p \in S : BlocksFrom(input)[p] \in Seq(Nat)}
  <2>1. ASSUME NEW p \in S, \A q \in p + 1 .. Len(input) + 1 : q \in P
        PROVE  p \in P
    <3>1. Body(p, BlocksFrom(input)) \in Seq(Nat)
      BY <1>2, <2>1
    <3> HIDE DEF Body
    <3> QED
      BY <1>5, <3>1
  <2>2. Len(input) + 1 \in Int
    BY LenProperties
  <2> HIDE DEF P
  <2>3. \A p \in S : p \in P
    <3> DEFINE n == Len(input) + 1
    <3>1. n \in Int /\ 1 \in Int
      BY <2>2
    <3> HIDE DEF n
    <3>2. \A p \in 1 .. n : p \in P
      BY <2>1, <3>1, FromTheEnd DEF n
    <3> QED
      BY <3>2 DEF n
  <2> QED
    BY <2>3 DEF P
<1>7. BlocksFrom(input)[pos] = Body(pos, BlocksFrom(input))
  <2> HIDE DEF Body
  <2> QED
    BY <1>5
<1> QED
  BY <1>6, <1>7

\* What decode may return.
Results == [ok : BOOLEAN, output : Seq(Nat)]

\* The results of a decoder are composed of results.
LEMMA ResultTypes ==
    /\ Refused \in Results /\ ~Refused.ok
    /\ \A output \in Seq(Nat) : Accepted(output) \in Results
    /\ \A input, pos : AtEof(input, pos) \in Results
    /\ \A bytes \in Seq(Nat), rest \in Results : Then(bytes, rest) \in Results
<1>1. <<>> \in Seq(Nat)
  OBVIOUS
<1>2. Refused \in Results /\ ~Refused.ok
  BY <1>1 DEF Refused, Results
<1>3. \A output \in Seq(Nat) : Accepted(output) \in Results
  BY DEF Accepted, Results
<1>4. \A input, pos : AtEof(input, pos) \in Results
  BY <1>1, <1>2, <1>3 DEF AtEof
<1>5. ASSUME NEW bytes \in Seq(Nat), NEW rest \in Results
      PROVE  Then(bytes, rest) \in Results
  <2>1. bytes \o rest.output \in Seq(Nat)
    BY ConcatProperties DEF Results
  <2> QED
    BY <1>3, <2>1 DEF Then
<1> QED
  BY <1>2, <1>3, <1>4, <1>5

\* The bytes from position m to position n.
LEMMA SomeBytes ==
    ASSUME NEW input \in Seq(Nat), NEW m \in Nat \ {0}, NEW n \in Nat, n =< Len(input)
    PROVE  /\ SubSeq(input, m, n) \in Seq(Nat)
           /\ Len(SubSeq(input, m, n)) = IF m =< n THEN n - m + 1 ELSE 0
           /\ \A i \in 1 .. n - m + 1 : SubSeq(input, m, n)[i] = input[m + i - 1]
<1>1. \A i \in m .. n : input[i] \in Nat
  BY ElementOfSeq
<1> QED
  BY <1>1, SubSeqProperties

\* A block ends behind its header.
LEMMA AfterBlockTypes ==
    ASSUME NEW input \in Seq(Nat), NEW pos \in 1 .. Len(input) + 1,
           pos + 2 =< Len(input)
    PROVE  AfterBlock(input, pos) \in Nat /\ AfterBlock(input, pos) >= pos + 3
<1>1. input[pos + 1] \in Nat /\ input[pos + 2] \in Nat
  <2>1. pos + 1 \in 1 .. Len(input) /\ pos + 2 \in 1 .. Len(input)
    BY LenProperties
  <2> QED
    BY <2>1, ElementOfSeq
<1>2. input[pos + 1] * Radix \in Nat
  BY <1>1, Widths
<1>3. pos \in Nat
  BY LenProperties
<1> DEFINE high == input[pos + 1] * Radix
<1>4. AfterBlock(input, pos) = pos + 3 + high + input[pos + 2]
  BY DEF AfterBlock
<1>5. high \in Nat
  BY <1>2
<1> HIDE DEF high
<1> QED
  BY <1>1, <1>3, <1>4, <1>5

\* The recursion that decodes blocks has the solution its definition asks for.
LEMMA BlocksDecodedEquation ==
    ASSUME NEW input \in Seq(Nat), NEW pos \in 1 .. Len(input) + 1
    PROVE  /\ BlocksDecodedFrom(input)[pos] \in Results
           /\ BlocksDecodedFrom(input)[pos] =
                  IF pos + 2 > Len(input) THEN Refused
                  ELSE IF AfterBlock(input, pos) > Len(input) + 1 THEN Refused
                  ELSE Then(SubSeq(input, pos + 3, AfterBlock(input, pos) - 1),
                            IF HasEof(input[pos])
                            THEN AtEof(input, AfterBlock(input, pos))
                            ELSE BlocksDecodedFrom(input)[AfterBlock(input, pos)])
<1> DEFINE S == 1 .. Len(input) + 1
           End(p) == AfterBlock(input, p)
           Body(p, f) == IF p + 2 > Len(input) THEN Refused
                         ELSE IF End(p) > Len(input) + 1 THEN Refused
                         ELSE Then(SubSeq(input, p + 3, End(p) - 1),
                                   IF HasEof(input[p]) THEN AtEof(input, End(p))
                                                       ELSE f[End(p)])
           Step == [p \in S |-> [f \in [S -> Results] |-> Body(p, f)]]
<1>0. Len(input) \in Nat
  BY LenProperties
<1>1. \A p \in S : p + 2 =< Len(input) /\ End(p) =< Len(input) + 1
                       => End(p) \in p + 1 .. Len(input) + 1
  BY <1>0, AfterBlockTypes
<1>2. ASSUME NEW p \in S, NEW f,
             \A q \in p + 1 .. Len(input) + 1 : f[q] \in Results
      PROVE  Body(p, f) \in Results
  <2>1. CASE p + 2 > Len(input) \/ End(p) > Len(input) + 1
    BY <2>1, ResultTypes
  <2>2. CASE p + 2 =< Len(input) /\ End(p) =< Len(input) + 1
    <3>1. SubSeq(input, p + 3, End(p) - 1) \in Seq(Nat)
      BY <1>0, <2>2, AfterBlockTypes, SomeBytes
    <3>2. (IF HasEof(input[p]) THEN AtEof(input, End(p)) ELSE f[End(p)])
              \in Results
      BY <1>1, <1>2, <2>2, ResultTypes
    <3>3. Body(p, f) = Then(SubSeq(input, p + 3, End(p) - 1),
                            IF HasEof(input[p]) THEN AtEof(input, End(p))
                                                ELSE f[End(p)])
      BY <1>0, <2>2, AfterBlockTypes
    <3> QED
      BY <3>1, <3>2, <3>3, ResultTypes
  <2> QED
    BY <1>0, <2>1, <2>2, AfterBlockTypes
<1>3. \E f : f = [p \in S |-> Body(p, f)]
  <2>1. ASSUME NEW p \in S, NEW f \in [S -> Results]
        PROVE  Body(p, f) \in Results
    <3>1. \A q \in p + 1 .. Len(input) + 1 : f[q] \in Results
      OBVIOUS
    <3> HIDE DEF Body
    <3> QED
      BY <1>2, <3>1
  <2>2. ASSUME NEW p \in S, NEW f \in [S -> Results], NEW g \in [S -> Results],
               \A q \in p + 1 .. Len(input) + 1 : f[q] = g[q]
        PROVE  Body(p, f) = Body(p, g)
    <3>1. CASE p + 2 =< Len(input) /\ End(p) =< Len(input) + 1
      <4>1. f[End(p)] = g[End(p)]
        BY <1>1, <2>2, <3>1
      <4> QED
        BY <4>1
    <3>2. CASE p + 2 > Len(input) \/ End(p) > Len(input) + 1
      BY <3>2
    <3> QED
      BY <1>0, <3>1, <3>2, AfterBlockTypes
  <2>3. Step \in Steps(1, Len(input) + 1, Results)
    <3> HIDE DEF Body
    <3> QED
      BY <2>1, <2>2 DEF Steps
  <2>4. Solutions(Step, 1, Len(input) + 1, Results) # {}
    <3>1. 1 \in Int /\ Len(input) + 1 \in Int /\ Results # {}
      BY <1>0, ResultTypes
    <3> HIDE DEF Step
    <3> QED
      BY <2>3, <3>1, RecursionFromTheEnd
  <2>5. PICK f \in [S -> Results] : \A p \in S : f[p] = Step[p][f]
    <3> HIDE DEF Step
    <3> QED
      BY <2>4 DEF Solutions
  <2>6. f = [p \in S |-> Body(p, f)]
    <3> HIDE DEF Body
    <3> QED
      BY <2>5
  <2> QED
    BY <2>6
<1>4. BlocksDecodedFrom(input) = [p \in S |-> Body(p, BlocksDecodedFrom(input))]
  <2> DEFINE F == CHOOSE f : f = [p \in S |-> Body(p, f)]
  <2>1. F = [p \in S |-> Body(p, F)]
    <3> HIDE DEF Body, S
    <3> QED
      BY <1>3
  <2>2. BlocksDecodedFrom(input) = F
    BY DEF BlocksDecodedFrom
  <2> QED
    BY <2>1, <2>2
<1>5. \A p \in S : BlocksDecodedFrom(input)[p] \in Results
  <2> DEFINE P == {p \in S : BlocksDecodedFrom(input)[p] \in Results}
  <2>1. ASSUME NEW p \in S, \A q \in p + 1 .. Len(input) + 1 : q \in P
        PROVE  p \in P
    <3>1. Body(p, BlocksDecodedFrom(input)) \in Results
      <4> HIDE DEF Body
      <4> QED
        BY <1>2, <2>1
    <3> HIDE DEF Body
    <3> QED
      BY <1>4, <3>1
  <2>2. 1 \in Int /\ Len(input) + 1 \in Int
    BY <1>0
  <2> HIDE DEF P
  <2>3. \A p \in 1 .. Len(input) + 1 : p \in P
    BY <2>1, <2>2, FromTheEnd
  <2> QED
    BY <2>3 DEF P
<1>6. BlocksDecodedFrom(input)[pos] = Body(pos, BlocksDecodedFrom(input))
  <2> HIDE DEF Body
  <2> QED
    BY <1>4
<1> QED
  BY <1>5, <1>6

-----------------------------------------------------------------------------
\* What arrives from position p on is `coded`, as far as it arrives.
Carries(arrived, p, coded) ==
    \A i \in 1 .. Len(coded) : p - 1 + i =< Len(arrived) => arrived[p - 1 + i] = coded[i]

\* It ends where `coded` ends.
EndsWith(arrived, p, coded) == Len(arrived) = p - 1 + Len(coded)

\* The parts of a coded sequence arrive one after the other.
LEMMA CarriesParts ==
    ASSUME NEW arrived \in Seq(Nat), NEW p \in Nat \ {0},
           NEW first \in Seq(Nat), NEW rest \in Seq(Nat),
           Carries(arrived, p, first \o rest)
    PROVE  /\ Carries(arrived, p, first)
           /\ Carries(arrived, p + Len(first), rest)
           /\ EndsWith(arrived, p, first \o rest)
                  <=> EndsWith(arrived, p + Len(first), rest)
<1>1. /\ Len(first \o rest) = Len(first) + Len(rest)
      /\ \A i \in 1 .. Len(first) + Len(rest) :
             (first \o rest)[i] = IF i <= Len(first) THEN first[i] ELSE rest[i - Len(first)]
      /\ Len(first) \in Nat /\ Len(rest) \in Nat /\ Len(arrived) \in Nat
  BY ConcatProperties, LenProperties
<1>2. Carries(arrived, p, first)
  <2> SUFFICES ASSUME NEW i \in 1 .. Len(first), p - 1 + i =< Len(arrived)
               PROVE  arrived[p - 1 + i] = first[i]
    BY DEF Carries
  <2>1. i \in 1 .. Len(first \o rest) /\ i <= Len(first)
    BY <1>1
  <2> QED
    BY <1>1, <2>1 DEF Carries
<1>3. Carries(arrived, p + Len(first), rest)
  <2> SUFFICES ASSUME NEW i \in 1 .. Len(rest), p + Len(first) - 1 + i =< Len(arrived)
               PROVE  arrived[p + Len(first) - 1 + i] = rest[i]
    BY DEF Carries
  <2>1. /\ Len(first) + i \in 1 .. Len(first \o rest)
        /\ p - 1 + (Len(first) + i) = p + Len(first) - 1 + i
    BY <1>1
  <2>2. arrived[p + Len(first) - 1 + i] = (first \o rest)[Len(first) + i]
    BY <2>1 DEF Carries
  <2> DEFINE at == Len(first) + i
  <2>3. /\ at \in 1 .. Len(first) + Len(rest) /\ ~(at <= Len(first))
        /\ at - Len(first) = i
    BY <1>1
  <2> HIDE DEF at
  <2>4. (first \o rest)[at] = rest[i]
    BY <1>1, <2>3
  <2> QED
    BY <2>2, <2>4 DEF at
<1>4. EndsWith(arrived, p, first \o rest) <=> EndsWith(arrived, p + Len(first), rest)
  BY <1>1 DEF EndsWith
<1> QED
  BY <1>2, <1>3, <1>4

\* The bytes from one position to another, then those from there to a third.
LEMMA JoinBytes ==
    ASSUME NEW input \in Seq(Nat), NEW m \in 1 .. Len(input) + 1,
           NEW n \in m .. Len(input) + 1
    PROVE  SubSeq(input, m, n - 1) \o SubSeq(input, n, Len(input))
               = SubSeq(input, m, Len(input))
<1>1. /\ m \in 1 .. Len(input) + 1 /\ n - 1 \in m - 1 .. Len(input)
      /\ Len(input) \in n - 1 .. Len(input) /\ n - 1 + 1 = n
  BY LenProperties
<1> QED
  BY <1>1, ConcatAdjacentSubSeq

\* A block is its header and then its bytes.
LEMMA BlockBytes ==
    ASSUME NEW input \in Seq(Nat), NEW pos \in 1 .. Len(input) + 1
    PROVE  LET count == BlockLength(input, pos)
               block == Block(input, pos)
           IN  /\ Len(block) = 3 + count
               /\ block[1] = IF IsLast(input, pos) THEN Eof ELSE 0
               /\ block[2] = count \div Radix /\ block[3] = count % Radix
               /\ \A i \in 1 .. count : block[3 + i] = input[pos + i - 1]
<1> DEFINE count == BlockLength(input, pos)
           mark == IF IsLast(input, pos) THEN Eof ELSE 0
           header == <<mark, count \div Radix, count % Radix>>
           bytes == SubSeq(input, pos, pos + count - 1)
<1>1. /\ count \in Nat /\ pos \in Nat /\ pos + count =< Len(input) + 1
      /\ Len(input) \in Nat
  BY BlockTypes, LenProperties
<1>2. mark \in Nat
  BY Widths
<1>3. count \div Radix \in Nat /\ count % Radix \in Nat
  <2> HIDE DEF count
  <2> QED
    BY <1>1, Widths, Digits
<1>4. /\ bytes \in Seq(Nat) /\ Len(bytes) = count
      /\ \A i \in 1 .. count : bytes[i] = input[pos + i - 1]
  <2> HIDE DEF count
  <2>1. \A i \in pos .. pos + count - 1 : input[i] \in Nat
    BY <1>1, ElementOfSeq
  <2> QED
    BY <1>1, <2>1, SubSeqProperties
<1> HIDE DEF count, mark
<1>5. header \in Seq(Nat) /\ Len(header) = 3
  BY <1>2, <1>3
<1>6. header[1] = mark /\ header[2] = count \div Radix /\ header[3] = count % Radix
  OBVIOUS
<1> HIDE DEF header, bytes
<1>7. /\ Len(header \o bytes) = 3 + count
      /\ \A i \in 1 .. 3 + count :
             (header \o bytes)[i] = IF i <= 3 THEN header[i] ELSE bytes[i - 3]
  <2>1. /\ Len(header \o bytes) = Len(header) + Len(bytes)
        /\ \A i \in 1 .. Len(header) + Len(bytes) :
               (header \o bytes)[i] = IF i <= Len(header) THEN header[i]
                                       ELSE bytes[i - Len(header)]
    BY <1>4, <1>5, ConcatProperties
  <2>2. Len(header) = 3 /\ Len(bytes) = count
    BY <1>4, <1>5
  <2> QED
    BY <2>1, <2>2
<1>8. Block(input, pos) = header \o bytes
  BY DEF Block, header, bytes, mark, count
<1> DEFINE block == Block(input, pos)
<1>9. /\ Len(block) = 3 + count
      /\ block[1] = mark
      /\ block[2] = count \div Radix /\ block[3] = count % Radix
  BY <1>1, <1>6, <1>7, <1>8
<1>10. ASSUME NEW i \in 1 .. count PROVE block[3 + i] = input[pos + i - 1]
  <2> DEFINE at == 3 + i
  <2>1. at \in 1 .. 3 + count /\ ~(at <= 3) /\ at - 3 = i
    BY <1>1
  <2> HIDE DEF at
  <2>2. (header \o bytes)[at] = bytes[i]
    BY <1>7, <2>1
  <2>3. bytes[i] = input[pos + i - 1]
    BY <1>4
  <2> QED
    BY <1>8, <2>2, <2>3 DEF at
<1> QED
  BY <1>9, <1>10 DEF count, mark

\* Decoding what arrives of an encoded block finds the block's length.
LEMMA BlockArrives ==
    ASSUME NEW input \in Seq(Nat), NEW pos \in 1 .. Len(input) + 1,
           NEW arrived \in Seq(Nat), NEW p \in 1 .. Len(arrived) + 1,
           Carries(arrived, p, Block(input, pos)), p + 2 =< Len(arrived)
    PROVE  /\ HasEof(arrived[p]) <=> IsLast(input, pos)
           /\ AfterBlock(arrived, p) = p + 3 + BlockLength(input, pos)
           /\ AfterBlock(arrived, p) =< Len(arrived) + 1 =>
                  SubSeq(arrived, p + 3, AfterBlock(arrived, p) - 1)
                      = SubSeq(input, pos, pos + BlockLength(input, pos) - 1)
<1> DEFINE count == BlockLength(input, pos)
           block == Block(input, pos)
<1>1. /\ count \in Nat /\ pos \in Nat /\ pos + count =< Len(input) + 1
      /\ Len(input) \in Nat /\ Len(arrived) \in Nat /\ p \in Nat
  BY BlockTypes, LenProperties
<1>2. /\ Len(block) = 3 + count
      /\ block[1] = IF IsLast(input, pos) THEN Eof ELSE 0
      /\ block[2] = count \div Radix /\ block[3] = count % Radix
      /\ \A i \in 1 .. count : block[3 + i] = input[pos + i - 1]
  BY BlockBytes
<1> HIDE DEF count, block
<1>3. \A i \in 1 .. 3 + count : p - 1 + i =< Len(arrived) => arrived[p - 1 + i] = block[i]
  BY <1>2 DEF Carries, block
<1>4. arrived[p] = block[1] /\ arrived[p + 1] = block[2] /\ arrived[p + 2] = block[3]
  <2>1. /\ 1 \in 1 .. 3 + count /\ p - 1 + 1 = p /\ p =< Len(arrived)
        /\ 2 \in 1 .. 3 + count /\ p - 1 + 2 = p + 1 /\ p + 1 =< Len(arrived)
        /\ 3 \in 1 .. 3 + count /\ p - 1 + 3 = p + 2 /\ p + 2 =< Len(arrived)
    BY <1>1
  <2> QED
    BY <1>3, <2>1
<1>5. HasEof(arrived[p]) <=> IsLast(input, pos)
  <2>1. HasEof(Eof) /\ ~HasEof(0)
    <3>1. Eof \div Eof = 1 /\ 0 \div Eof = 0
      BY Widths, Z3
    <3> QED
      BY <3>1 DEF HasEof
  <2> QED
    BY <1>2, <1>4, <2>1
<1>6. AfterBlock(arrived, p) = p + 3 + count
  <2> DEFINE high == (count \div Radix) * Radix
             low == count % Radix
  <2>1. high \in Nat /\ low \in Nat /\ high + low = count
    <3>1. Radix \in Nat /\ Radix > 0
      BY Widths
    <3>2. /\ count \div Radix \in Nat /\ count % Radix \in 0 .. Radix - 1
          /\ (count \div Radix) * Radix + (count % Radix) = count
      BY <1>1, <3>1, Digits
    <3>3. high + low = count /\ low \in Nat
      BY <3>1, <3>2
    <3>4. high \in Nat
      <4> DEFINE digit == count \div Radix
      <4>1. digit \in Nat
        BY <3>2
      <4> HIDE DEF digit
      <4>2. digit * Radix \in Nat
        BY <3>1, <4>1
      <4> QED
        BY <4>2 DEF digit
    <3> QED
      BY <3>3, <3>4
  <2>2. AfterBlock(arrived, p) = p + 3 + high + low
    BY <1>2, <1>4 DEF AfterBlock
  <2> HIDE DEF high, low
  <2> QED
    BY <1>1, <2>1, <2>2
<1>7. ASSUME p + 3 + count =< Len(arrived) + 1
      PROVE  SubSeq(arrived, p + 3, p + 3 + count - 1) = SubSeq(input, pos, pos + count - 1)
  <2> DEFINE got == SubSeq(arrived, p + 3, p + 3 + count - 1)
             sent == SubSeq(input, pos, pos + count - 1)
  <2>1. /\ got \in Seq(Nat) /\ Len(got) = count
        /\ \A i \in 1 .. count : got[i] = arrived[p + 3 + i - 1]
    <3>1. \A i \in p + 3 .. p + 3 + count - 1 : arrived[i] \in Nat
      <4> TAKE i \in p + 3 .. p + 3 + count - 1
      <4>1. i \in 1 .. Len(arrived)
        BY <1>1, <1>7
      <4> QED
        BY <4>1, ElementOfSeq
    <3> QED
      BY <1>1, <3>1, SubSeqProperties
  <2>2. /\ sent \in Seq(Nat) /\ Len(sent) = count
        /\ \A i \in 1 .. count : sent[i] = input[pos + i - 1]
    <3>1. \A i \in pos .. pos + count - 1 : input[i] \in Nat
      <4> TAKE i \in pos .. pos + count - 1
      <4>1. i \in 1 .. Len(input)
        BY <1>1
      <4> QED
        BY <4>1, ElementOfSeq
    <3> QED
      BY <1>1, <3>1, SubSeqProperties
  <2> HIDE DEF got, sent
  <2>3. ASSUME NEW i \in 1 .. count PROVE got[i] = sent[i]
    <3>1. 3 + i \in 1 .. 3 + count /\ p - 1 + (3 + i) = p + 3 + i - 1
          /\ p + 3 + i - 1 =< Len(arrived)
      BY <1>1, <1>7
    <3>2. arrived[p + 3 + i - 1] = block[3 + i]
      BY <1>3, <3>1
    <3> QED
      BY <1>2, <2>1, <2>2, <3>2
  <2>4. got = sent
    BY <2>1, <2>2, <2>3, SeqEqual
  <2> QED
    BY <2>4 DEF got, sent
<1>8. AfterBlock(arrived, p) - 1 = p + 3 + count - 1
  BY <1>1, <1>6
<1>9. AfterBlock(arrived, p) =< Len(arrived) + 1 =>
          SubSeq(arrived, p + 3, AfterBlock(arrived, p) - 1)
              = SubSeq(input, pos, pos + count - 1)
  BY <1>6, <1>7, <1>8
<1> QED
  BY <1>5, <1>6, <1>9 DEF count

\* What a decoder makes of the part of a coded file that starts at pos.
Faithful(decoded, arrived, p, coded, input, pos) ==
    IF EndsWith(arrived, p, coded)
    THEN decoded = Accepted(SubSeq(input, pos, Len(input)))
    ELSE ~decoded.ok

\* If the rest of a file was decoded from the rest of the stream, and refused when
\* that is incomplete, then so is the file.
LEMMA ThenFaithful ==
    ASSUME NEW rest \in Results, NEW input \in Seq(Nat),
           NEW m \in 1 .. Len(input) + 1, NEW n \in m .. Len(input) + 1
    PROVE  /\ rest = Accepted(SubSeq(input, n, Len(input)))
                 => Then(SubSeq(input, m, n - 1), rest)
                        = Accepted(SubSeq(input, m, Len(input)))
           /\ ~rest.ok => ~Then(SubSeq(input, m, n - 1), rest).ok
<1>1. ASSUME rest = Accepted(SubSeq(input, n, Len(input)))
      PROVE  Then(SubSeq(input, m, n - 1), rest)
                 = Accepted(SubSeq(input, m, Len(input)))
  <2>1. rest.ok /\ rest.output = SubSeq(input, n, Len(input))
    BY <1>1 DEF Accepted
  <2>2. SubSeq(input, m, n - 1) \o rest.output = SubSeq(input, m, Len(input))
    BY <2>1, JoinBytes
  <2> QED
    BY <2>1, <2>2 DEF Then
<1> QED
  BY <1>1 DEF Then

\* What decoding a coded part makes of it, wherever in the stream it arrives.
BlocksClaim(input, arrived, x) ==
    \A q \in 1 .. Len(arrived) + 1 :
        Carries(arrived, q, BlocksFrom(input)[x])
            => Faithful(BlocksDecodedFrom(arrived)[q], arrived, q,
                        BlocksFrom(input)[x], input, x)

\* One block more is decoded faithfully if the blocks behind it are.
LEMMA OneBlockFaithful ==
    ASSUME NEW input \in Seq(Nat), NEW arrived \in Seq(Nat),
           NEW x \in 1 .. Len(input) + 1,
           \A y \in x + 1 .. Len(input) + 1 : BlocksClaim(input, arrived, y),
           NEW q \in 1 .. Len(arrived) + 1,
           Carries(arrived, q, BlocksFrom(input)[x])
    PROVE  Faithful(BlocksDecodedFrom(arrived)[q], arrived, q,
                    BlocksFrom(input)[x], input, x)
<1> DEFINE block == Block(input, x)
           count == BlockLength(input, x)
           rest == IF IsLast(input, x) THEN <<>> ELSE BlocksFrom(input)[x + count]
           decoded == BlocksDecodedFrom(arrived)[q]
           end == q + 3 + count
           size == Len(arrived)
<1>0. /\ count \in Nat /\ x + count =< Len(input) + 1
      /\ ~IsLast(input, x) => count > 0
      /\ IsLast(input, x) => x + count = Len(input) + 1
      /\ block \in Seq(Nat) /\ Len(block) = 3 + count
  <2>1. /\ count \in Nat /\ x + count =< Len(input) + 1
        /\ ~IsLast(input, x) => count > 0
        /\ IsLast(input, x) => x + count = Len(input) + 1
        /\ block \in Seq(Nat)
    BY BlockTypes
  <2>2. Len(block) = 3 + count
    BY BlockBytes
  <2> QED
    BY <2>1, <2>2
<1> HIDE DEF count, block
<1>1. /\ count \in Nat /\ x \in Nat \ {0} /\ x + count =< Len(input) + 1
      /\ Len(input) \in Nat /\ size \in Nat /\ q \in Nat \ {0}
      /\ end = q + 3 + count /\ end \in Nat /\ q =< size + 1
  BY <1>0, LenProperties
<1>2. /\ ~IsLast(input, x) => count > 0
      /\ IsLast(input, x) => x + count = Len(input) + 1
      /\ block \in Seq(Nat) /\ Len(block) = 3 + count
  BY <1>0
<1>3. BlocksFrom(input)[x] = block \o rest
  BY BlocksFromEquation DEF count, block
<1>4. rest \in Seq(Nat) /\ Len(rest) \in Nat
  <2>1. CASE IsLast(input, x)
    <3>1. <<>> \in Seq(Nat) /\ Len(<<>>) = 0
      OBVIOUS
    <3> QED
      BY <2>1, <3>1
  <2>2. CASE ~IsLast(input, x)
    <3>1. x + count \in 1 .. Len(input) + 1
      BY <1>1, <1>2, <2>2
    <3> QED
      BY <2>2, <3>1, BlocksFromEquation, LenProperties
  <2> QED
    BY <2>1, <2>2
<1>5. /\ Carries(arrived, q, block)
      /\ Carries(arrived, end, rest)
      /\ EndsWith(arrived, q, block \o rest) <=> EndsWith(arrived, end, rest)
  <2>1. q + Len(block) = end
    BY <1>1, <1>2
  <2> HIDE DEF block, rest, end, count, size
  <2>2. q \in Nat \ {0} /\ block \in Seq(Nat) /\ rest \in Seq(Nat)
        /\ Carries(arrived, q, block \o rest)
    BY <1>1, <1>2, <1>3, <1>4
  <2> QED
    BY <2>1, <2>2, CarriesParts
<1>6. EndsWith(arrived, end, rest) <=> size = end - 1 + Len(rest)
  BY DEF EndsWith
<1> HIDE DEF block, rest, decoded, end, count
<1>7. ASSUME q + 2 =< size
      PROVE  /\ HasEof(arrived[q]) <=> IsLast(input, x)
             /\ AfterBlock(arrived, q) = end
             /\ end =< size + 1 => SubSeq(arrived, q + 3, end - 1)
                                       = SubSeq(input, x, x + count - 1)
  <2>1. Carries(arrived, q, Block(input, x)) /\ q + 2 =< Len(arrived)
    BY <1>5, <1>7 DEF block
  <2>2. /\ HasEof(arrived[q]) <=> IsLast(input, x)
        /\ AfterBlock(arrived, q) = q + 3 + BlockLength(input, x)
        /\ AfterBlock(arrived, q) =< Len(arrived) + 1 =>
               SubSeq(arrived, q + 3, AfterBlock(arrived, q) - 1)
                   = SubSeq(input, x, x + BlockLength(input, x) - 1)
    BY <2>1, BlockArrives
  <2>3. AfterBlock(arrived, q) = end
    BY <2>2 DEF end, count
  <2> QED
    BY <2>2, <2>3 DEF count
<1>8. decoded = IF q + 2 > size THEN Refused
                ELSE IF AfterBlock(arrived, q) > size + 1 THEN Refused
                ELSE Then(SubSeq(arrived, q + 3, AfterBlock(arrived, q) - 1),
                          IF HasEof(arrived[q])
                          THEN AtEof(arrived, AfterBlock(arrived, q))
                          ELSE BlocksDecodedFrom(arrived)[AfterBlock(arrived, q)])
  BY BlocksDecodedEquation DEF decoded
<1>9. AtEof(arrived, end) = IF end > size THEN Accepted(<<>>) ELSE Refused
  BY DEF AtEof
<1> HIDE DEF size
<1>10. IF EndsWith(arrived, end, rest)
       THEN decoded = Accepted(SubSeq(input, x, Len(input)))
       ELSE ~decoded.ok
  <2>1. CASE q + 2 > size \/ end > size + 1
    <3>1. ~EndsWith(arrived, end, rest)
      BY <1>1, <1>4, <1>6, <2>1
    <3>2. CASE q + 2 > size
      BY <1>8, <3>1, <3>2, ResultTypes
    <3>3. CASE ~(q + 2 > size) /\ end > size + 1
      <4>1. q + 2 =< size
        BY <1>1, <3>3
      <4>2. AfterBlock(arrived, q) > size + 1
        BY <1>7, <3>3, <4>1
      <4> QED
        BY <1>8, <3>1, <3>3, <4>2, ResultTypes
    <3> QED
      BY <2>1, <3>2, <3>3
  <2>2. CASE ~(q + 2 > size) /\ ~(end > size + 1)
    <3> DEFINE bytes == SubSeq(input, x, x + count - 1)
               others == IF IsLast(input, x) THEN AtEof(arrived, end)
                                             ELSE BlocksDecodedFrom(arrived)[end]
    <3>1. decoded = Then(bytes, others)
      <4>1. q + 2 =< size /\ end =< size + 1
        BY <1>1, <2>2
      <4> QED
        BY <1>7, <1>8, <2>2, <4>1
    <3>3. end \in 1 .. size + 1
      BY <1>1, <2>2
    <3>4. x + count \in x .. Len(input) + 1
      BY <1>1
    <3>5. bytes \in Seq(Nat)
      <4>1. x \in Nat \ {0} /\ x + count - 1 \in Nat
            /\ x + count - 1 =< Len(input)
        BY <1>1
      <4> QED
        BY <4>1, SomeBytes
    <3>6. others \in Results
      BY <3>3, BlocksDecodedEquation, ResultTypes DEF size
    <3>7. IF EndsWith(arrived, end, rest)
          THEN others = Accepted(SubSeq(input, x + count, Len(input)))
          ELSE ~others.ok
      <4>1. CASE IsLast(input, x)
        <5>1. Len(rest) = 0
          BY <4>1 DEF rest
        <5>2. SubSeq(input, x + count, Len(input)) = <<>>
          <6>1. x + count = Len(input) + 1
            BY <1>2, <4>1
          <6> QED
            BY <1>1, <6>1, SubSeqEmpty
        <5>3. size = end - 1 + Len(rest) <=> end > size
          BY <1>1, <2>2, <5>1
        <5> QED
          BY <1>6, <1>9, <4>1, <5>2, <5>3, ResultTypes
      <4>2. CASE ~IsLast(input, x)
        <5>1. x + count \in x + 1 .. Len(input) + 1
          BY <1>1, <1>2, <4>2
        <5>2. BlocksClaim(input, arrived, x + count)
          BY <5>1
        <5>3. Faithful(BlocksDecodedFrom(arrived)[end], arrived, end,
                       rest, input, x + count)
          BY <1>5, <3>3, <4>2, <5>2 DEF BlocksClaim, rest, size
        <5> QED
          BY <4>2, <5>3 DEF Faithful
      <4> QED
        BY <4>1, <4>2
    <3>8. /\ others = Accepted(SubSeq(input, x + count, Len(input)))
                => Then(bytes, others) = Accepted(SubSeq(input, x, Len(input)))
          /\ ~others.ok => ~Then(bytes, others).ok
      <4> DEFINE next == x + count
      <4>1. others \in Results /\ next \in x .. Len(input) + 1
        BY <3>4, <3>6
      <4> HIDE DEF others, next
      <4>2. /\ others = Accepted(SubSeq(input, next, Len(input)))
                  => Then(SubSeq(input, x, next - 1), others)
                         = Accepted(SubSeq(input, x, Len(input)))
            /\ ~others.ok => ~Then(SubSeq(input, x, next - 1), others).ok
        BY <4>1, ThenFaithful
      <4>3. next - 1 = x + count - 1
        BY <1>1 DEF next
      <4> QED
        BY <4>2, <4>3 DEF next
    <3> QED
      BY <3>1, <3>7, <3>8
  <2> QED
    BY <2>1, <2>2
<1> QED
  BY <1>3, <1>5, <1>10 DEF Faithful, decoded

\* Blocks are decoded to the bytes they were made of if they arrive whole, and
\* refused otherwise.
LEMMA BlocksFaithful ==
    ASSUME NEW input \in Seq(Nat), NEW arrived \in Seq(Nat),
           NEW pos \in 1 .. Len(input) + 1
    PROVE  BlocksClaim(input, arrived, pos)
<1> DEFINE P == {x \in 1 .. Len(input) + 1 : BlocksClaim(input, arrived, x)}
<1>1. ASSUME NEW x \in 1 .. Len(input) + 1,
             \A y \in x + 1 .. Len(input) + 1 : y \in P
      PROVE  x \in P
  <2>1. \A y \in x + 1 .. Len(input) + 1 : BlocksClaim(input, arrived, y)
    BY <1>1
  <2>2. BlocksClaim(input, arrived, x)
    BY <2>1, OneBlockFaithful DEF BlocksClaim
  <2> QED
    BY <2>2
<1>2. 1 \in Int /\ Len(input) + 1 \in Int
  BY LenProperties
<1> HIDE DEF P
<1>3. \A x \in 1 .. Len(input) + 1 : x \in P
  BY <1>1, <1>2, FromTheEnd
<1> QED
  BY <1>3 DEF P

-----------------------------------------------------------------------------
(* MODE C.                                                                  *)

\* Arithmetic of the control bytes: two class bits above a count.
LEMMA Controls ==
    /\ CountOf(0) = 0 /\ CountOf(Eof) = 0 /\ Eof # Escape /\ HasEof(Eof)
    /\ ClassOf(Escape) # RepeatClass
    /\ \A n \in 1 .. MaxCount :
           /\ ClassOf(n) = LiteralClass /\ CountOf(n) = n
           /\ n # Escape /\ Counts(n)
           /\ ClassOf(RepeatClass * Eof + n) = RepeatClass
           /\ CountOf(RepeatClass * Eof + n) = n
           /\ RepeatClass * Eof + n # Escape /\ Counts(RepeatClass * Eof + n)
<1>1. Eof \in Nat /\ Eof >= 2
  BY Widths
<1>2. /\ 0 % Eof = 0 /\ Eof % Eof = 0 /\ Eof \div Eof = 1
      /\ (4 * Eof - 1) \div Eof = 3
  BY <1>1, Z3
<1>3. ASSUME NEW n \in 1 .. Eof - 1
      PROVE  /\ n \div Eof = 0 /\ n % Eof = n
             /\ (2 * Eof + n) \div Eof = 2 /\ (2 * Eof + n) % Eof = n
  BY <1>1, Z3
<1>4. /\ CountOf(0) = 0 /\ CountOf(Eof) = 0 /\ Eof # Escape /\ HasEof(Eof)
      /\ ClassOf(Escape) # RepeatClass
  BY <1>1, <1>2 DEF CountOf, HasEof, Escape, ClassOf, RepeatClass
<1>5. ASSUME NEW n \in 1 .. MaxCount
      PROVE  /\ ClassOf(n) = LiteralClass /\ CountOf(n) = n
             /\ ClassOf(RepeatClass * Eof + n) = RepeatClass
             /\ CountOf(RepeatClass * Eof + n) = n
  BY <1>3 DEF ClassOf, CountOf, LiteralClass, RepeatClass, MaxCount
<1>6. ASSUME NEW n \in 1 .. MaxCount
      PROVE  /\ n # Escape /\ Counts(n)
             /\ RepeatClass * Eof + n # Escape /\ Counts(RepeatClass * Eof + n)
  <2>1. n # Escape /\ RepeatClass * Eof + n # Escape /\ n # 0
    BY <1>1 DEF MaxCount, Escape, RepeatClass
  <2> QED
    BY <1>5, <2>1 DEF Counts
<1> QED
  BY <1>4, <1>5, <1>6

\* There is a run at every position; all its bytes are the same.
LEMMA RunTypes ==
    ASSUME NEW input \in Seq(Nat), NEW pos \in 1 .. Len(input)
    PROVE  /\ RunAt(input, pos) \in 1 .. MaxCount
           /\ pos + RunAt(input, pos) =< Len(input) + 1
           /\ \A i \in pos .. pos + RunAt(input, pos) - 1 : input[i] = input[pos]
<1> DEFINE Stops(n) == \/ n = MaxCount
                       \/ pos + n \notin DOMAIN input
                       \/ input[pos + n] # input[pos]
           Same(n) == \A i \in pos .. pos + n - 1 :
                          i \in DOMAIN input /\ input[i] = input[pos]
           T == {n \in 1 .. MaxCount : Stops(n)}
<1>1. /\ MaxCount \in Nat /\ MaxCount >= 1
      /\ DOMAIN input = 1 .. Len(input) /\ Len(input) \in Nat
  BY Widths, LenProperties
<1>2. PICK n \in T : \A m \in T : n =< m
  <2>1. MaxCount \in T /\ T \in SUBSET Nat
    BY <1>1
  <2> HIDE DEF T
  <2> QED
    BY <2>1, LeastNumber
<1>3. \A m \in 1 .. n - 1 : pos + m \in DOMAIN input /\ input[pos + m] = input[pos]
  <2> SUFFICES ASSUME NEW m \in 1 .. n - 1 PROVE ~Stops(m)
    OBVIOUS
  <2>1. m \in 1 .. MaxCount /\ ~(n =< m)
    BY <1>1
  <2> HIDE DEF Stops
  <2> QED
    BY <1>2, <2>1
<1>4. Same(n)
  <2> SUFFICES ASSUME NEW i \in pos .. pos + n - 1
               PROVE  i \in DOMAIN input /\ input[i] = input[pos]
    OBVIOUS
  <2>1. CASE i = pos
    BY <1>1, <2>1
  <2>2. CASE i # pos
    <3>1. i - pos \in 1 .. n - 1 /\ pos + (i - pos) = i
      BY <1>1, <2>2
    <3> QED
      BY <1>3, <3>1
  <2> QED
    BY <2>1, <2>2
<1> DEFINE run == RunAt(input, pos)
<1>5. run \in 1 .. MaxCount /\ Same(run)
  <2>1. n \in 1 .. MaxCount /\ Same(n) /\ Stops(n)
    BY <1>2, <1>4
  <2>2. run = CHOOSE r \in 1 .. MaxCount : Same(r) /\ Stops(r)
    BY DEF RunAt
  <2> HIDE DEF Same, Stops, run
  <2> QED
    BY <2>1, <2>2
<1> HIDE DEF run
<1>6. pos + run - 1 \in DOMAIN input
  <2>1. pos + run - 1 \in pos .. pos + run - 1
    BY <1>1, <1>5
  <2> QED
    BY <1>5, <2>1
<1> QED
  BY <1>1, <1>5, <1>6 DEF run

\* A literal takes at least one byte, and no more than its count can tell.
LEMMA LiteralEndTypes ==
    ASSUME NEW input \in Seq(Nat), NEW start \in 1 .. Len(input),
           ~(RunAt(input, start) >= 3)
    PROVE  /\ LiteralEnd(input, start) \in start + 1 .. Len(input) + 1
           /\ LiteralEnd(input, start) - start \in 1 .. MaxCount
<1> DEFINE S == start .. Len(input) + 1
           Ends(p) == p > Len(input) \/ p - start >= MaxCount \/ RunAt(input, p) >= 3
           Follows(p) == p + Take(RunAt(input, p), p - start)
           Body(p, f) == IF Ends(p) THEN p ELSE f[Follows(p)]
           Step == [p \in S |-> [f \in [S -> Nat] |-> Body(p, f)]]
<1>0. MaxCount \in Nat /\ MaxCount >= 1 /\ Len(input) \in Nat /\ start \in Nat
      /\ start >= 1 /\ start =< Len(input)
  BY Widths, LenProperties
<1>1. ASSUME NEW p \in S, ~Ends(p)
      PROVE  /\ Follows(p) \in p + 1 .. Len(input) + 1
             /\ Follows(p) - start =< MaxCount
  <2>1. p \in 1 .. Len(input) /\ p - start \in Nat /\ p - start < MaxCount
    BY <1>0, <1>1
  <2>2. /\ RunAt(input, p) \in 1 .. MaxCount
        /\ p + RunAt(input, p) =< Len(input) + 1
    BY <2>1, RunTypes
  <2> QED
    BY <1>0, <2>1, <2>2 DEF Take, Lesser
<1>2. \E f : f = [p \in S |-> Body(p, f)]
  <2>1. ASSUME NEW p \in S, NEW f \in [S -> Nat]
        PROVE  Body(p, f) \in Nat
    <3> HIDE DEF Ends, Follows
    <3>1. CASE Ends(p)
      BY <1>0, <3>1
    <3>2. CASE ~Ends(p)
      <4>1. Follows(p) \in S
        BY <1>0, <1>1, <3>2
      <4> QED
        BY <3>2, <4>1
    <3> QED
      BY <3>1, <3>2
  <2>2. ASSUME NEW p \in S, NEW f \in [S -> Nat], NEW g \in [S -> Nat],
               \A q \in p + 1 .. Len(input) + 1 : f[q] = g[q]
        PROVE  Body(p, f) = Body(p, g)
    <3> HIDE DEF Ends, Follows
    <3> QED
      BY <1>1, <2>2
  <2>3. Step \in Steps(start, Len(input) + 1, Nat)
    <3> HIDE DEF Body
    <3> QED
      BY <2>1, <2>2 DEF Steps
  <2>4. Solutions(Step, start, Len(input) + 1, Nat) # {}
    <3>1. start \in Int /\ Len(input) + 1 \in Int /\ Nat # {}
      BY <1>0
    <3> HIDE DEF Step
    <3> QED
      BY <2>3, <3>1, RecursionFromTheEnd
  <2>5. PICK f \in [S -> Nat] : \A p \in S : f[p] = Step[p][f]
    <3> HIDE DEF Step
    <3> QED
      BY <2>4 DEF Solutions
  <2>6. f = [p \in S |-> Body(p, f)]
    <3> HIDE DEF Body
    <3> QED
      BY <2>5
  <2> QED
    BY <2>6
<1> DEFINE end == LiteralEndFrom(input, start)
<1>3. end = [p \in S |-> Body(p, end)]
  <2> DEFINE F == CHOOSE f : f = [p \in S |-> Body(p, f)]
  <2>1. F = [p \in S |-> Body(p, F)]
    <3> HIDE DEF Body, S
    <3> QED
      BY <1>2
  <2>2. end = F
    BY DEF LiteralEndFrom
  <2> HIDE DEF end
  <2> QED
    BY <2>1, <2>2
<1> HIDE DEF end, Ends, Follows
<1> DEFINE P == {p \in S : p - start =< MaxCount =>
                      end[p] \in p .. Len(input) + 1 /\ end[p] - start =< MaxCount}
<1>4. \A p \in start .. Len(input) + 1 : p \in P
  <2>1. ASSUME NEW p \in S, \A q \in p + 1 .. Len(input) + 1 : q \in P
        PROVE  p \in P
    <3>1. CASE Ends(p)
      <4>1. end[p] = p
        BY <1>3, <3>1
      <4> QED
        BY <1>0, <4>1
    <3>2. CASE ~Ends(p)
      <4>1. end[p] = end[Follows(p)]
        BY <1>3, <3>2
      <4>2. Follows(p) \in p + 1 .. Len(input) + 1 /\ Follows(p) - start =< MaxCount
        BY <1>1, <3>2
      <4>3. /\ end[Follows(p)] \in Follows(p) .. Len(input) + 1
            /\ end[Follows(p)] - start =< MaxCount
        BY <2>1, <4>2
      <4> QED
        BY <1>0, <4>1, <4>2, <4>3
    <3> QED
      BY <3>1, <3>2
  <2>2. start \in Int /\ Len(input) + 1 \in Int
    BY <1>0
  <2> HIDE DEF P
  <2> QED
    BY <2>1, <2>2, FromTheEnd
<1>5. ~Ends(start) /\ start \in S
  BY <1>0 DEF Ends
<1>6. Follows(start) \in start + 1 .. Len(input) + 1 /\ Follows(start) - start =< MaxCount
  BY <1>1, <1>5
<1>7. /\ end[Follows(start)] \in Follows(start) .. Len(input) + 1
      /\ end[Follows(start)] - start =< MaxCount
  <2>1. Follows(start) \in P
    BY <1>0, <1>4, <1>6
  <2> QED
    BY <1>6, <2>1
<1>8. end[start] = end[Follows(start)]
  BY <1>3, <1>5
<1>9. LiteralEnd(input, start) = end[start]
  BY DEF LiteralEnd, end
<1> DEFINE last == LiteralEnd(input, start)
           step == Follows(start)
<1>10. /\ step \in start + 1 .. Len(input) + 1
       /\ last \in step .. Len(input) + 1 /\ last - start =< MaxCount
  BY <1>6, <1>7, <1>8, <1>9
<1> HIDE DEF last, step
<1>11. /\ last \in start + 1 .. Len(input) + 1
       /\ last - start \in 1 .. MaxCount
  BY <1>0, <1>10
<1> QED
  BY <1>11 DEF last

\* The recursion that compresses has the solution its definition asks for.
LEMMA CompressedEquation ==
    ASSUME NEW input \in Seq(Nat), NEW pos \in 1 .. Len(input) + 1
    PROVE  /\ CompressedFrom(input)[pos] \in Seq(Nat)
           /\ CompressedFrom(input)[pos] =
                  IF pos > Len(input) THEN <<Escape, Eof>>
                  ELSE IF RunAt(input, pos) >= 3
                  THEN <<RepeatClass * Eof + RunAt(input, pos), input[pos]>>
                       \o CompressedFrom(input)[pos + RunAt(input, pos)]
                  ELSE <<LiteralEnd(input, pos) - pos>>
                       \o SubSeq(input, pos, LiteralEnd(input, pos) - 1)
                       \o CompressedFrom(input)[LiteralEnd(input, pos)]
<1> DEFINE S == 1 .. Len(input) + 1
           Repeats(p) == RunAt(input, p) >= 3
           Behind(p) == IF Repeats(p) THEN p + RunAt(input, p) ELSE LiteralEnd(input, p)
           String(p) == IF Repeats(p)
                       THEN <<RepeatClass * Eof + RunAt(input, p), input[p]>>
                       ELSE <<LiteralEnd(input, p) - p>>
                            \o SubSeq(input, p, LiteralEnd(input, p) - 1)
           Body(p, f) == IF p > Len(input) THEN <<Escape, Eof>>
                         ELSE String(p) \o f[Behind(p)]
           Step == [p \in S |-> [f \in [S -> Seq(Nat)] |-> Body(p, f)]]
<1>0. Len(input) \in Nat
  BY LenProperties
<1>1. ASSUME NEW p \in 1 .. Len(input)
      PROVE  Behind(p) \in p + 1 .. Len(input) + 1 /\ String(p) \in Seq(Nat)
  <2>1. CASE Repeats(p)
    <3>1. RunAt(input, p) \in 1 .. MaxCount /\ p + RunAt(input, p) =< Len(input) + 1
      BY RunTypes
    <3>2. RepeatClass * Eof + RunAt(input, p) \in Nat
      BY <3>1, Widths DEF RepeatClass
    <3>3. input[p] \in Nat
      BY ElementOfSeq
    <3>4. <<RepeatClass * Eof + RunAt(input, p), input[p]>> \in Seq(Nat)
      BY <3>2, <3>3
    <3>5. String(p) \in Seq(Nat) /\ Behind(p) = p + RunAt(input, p)
      BY <2>1, <3>4
    <3>6. RunAt(input, p) \in Nat \ {0}
      BY <3>1, Widths
    <3>7. p + RunAt(input, p) \in p + 1 .. Len(input) + 1
      <4> DEFINE run == RunAt(input, p)
      <4>1. run \in Nat \ {0} /\ p + run =< Len(input) + 1
        BY <3>1, <3>6
      <4> HIDE DEF run, String, Behind
      <4>2. p + run \in p + 1 .. Len(input) + 1
        BY <1>0, <4>1
      <4> QED
        BY <4>2 DEF run
    <3> QED
      BY <3>5, <3>7
  <2>2. CASE ~Repeats(p)
    <3> DEFINE end == LiteralEnd(input, p)
    <3>1. end \in p + 1 .. Len(input) + 1 /\ end - p \in 1 .. MaxCount
      BY <2>2, LiteralEndTypes
    <3> HIDE DEF end
    <3>2. <<end - p>> \in Seq(Nat)
      BY <3>1
    <3>3. SubSeq(input, p, end - 1) \in Seq(Nat)
      <4>1. p \in Nat \ {0} /\ end - 1 \in Nat /\ end - 1 =< Len(input)
        BY <1>0, <3>1
      <4> QED
        BY <4>1, SomeBytes
    <3>4. <<end - p>> \o SubSeq(input, p, end - 1) \in Seq(Nat)
      BY <3>2, <3>3, ConcatProperties
    <3> QED
      BY <2>2, <3>1, <3>4 DEF end
  <2> QED
    BY <2>1, <2>2
<1> HIDE DEF Behind, String
<1>2. ASSUME NEW p \in S, NEW f,
             \A q \in p + 1 .. Len(input) + 1 : f[q] \in Seq(Nat)
      PROVE  Body(p, f) \in Seq(Nat)
  <2>1. CASE p > Len(input)
    <3>1. <<Escape, Eof>> \in Seq(Nat)
      BY Widths
    <3> QED
      BY <2>1, <3>1
  <2>2. CASE ~(p > Len(input))
    <3>1. p \in 1 .. Len(input)
      BY <1>0, <2>2
    <3>2. Behind(p) \in p + 1 .. Len(input) + 1 /\ String(p) \in Seq(Nat)
      BY <1>1, <3>1
    <3>3. f[Behind(p)] \in Seq(Nat)
      BY <1>2, <3>2
    <3>4. String(p) \o f[Behind(p)] \in Seq(Nat)
      BY <3>2, <3>3, ConcatProperties
    <3> QED
      BY <2>2, <3>4
  <2> QED
    BY <2>1, <2>2
<1>3. \E f : f = [p \in S |-> Body(p, f)]
  <2>1. ASSUME NEW p \in S, NEW f \in [S -> Seq(Nat)]
        PROVE  Body(p, f) \in Seq(Nat)
    <3>1. \A q \in p + 1 .. Len(input) + 1 : f[q] \in Seq(Nat)
      OBVIOUS
    <3> HIDE DEF Body
    <3> QED
      BY <1>2, <3>1
  <2>2. ASSUME NEW p \in S, NEW f \in [S -> Seq(Nat)], NEW g \in [S -> Seq(Nat)],
               \A q \in p + 1 .. Len(input) + 1 : f[q] = g[q]
        PROVE  Body(p, f) = Body(p, g)
    <3>1. CASE p > Len(input)
      BY <3>1
    <3>2. CASE ~(p > Len(input))
      <4>1. p \in 1 .. Len(input)
        BY <1>0, <3>2
      <4>2. f[Behind(p)] = g[Behind(p)]
        BY <1>1, <2>2, <4>1
      <4> QED
        BY <3>2, <4>2
    <3> QED
      BY <3>1, <3>2
  <2>3. Step \in Steps(1, Len(input) + 1, Seq(Nat))
    <3> HIDE DEF Body
    <3> QED
      BY <2>1, <2>2 DEF Steps
  <2>4. Solutions(Step, 1, Len(input) + 1, Seq(Nat)) # {}
    <3>1. 1 \in Int /\ Len(input) + 1 \in Int /\ Seq(Nat) # {}
      BY <1>0
    <3> HIDE DEF Step
    <3> QED
      BY <2>3, <3>1, RecursionFromTheEnd
  <2>5. PICK f \in [S -> Seq(Nat)] : \A p \in S : f[p] = Step[p][f]
    <3> HIDE DEF Step
    <3> QED
      BY <2>4 DEF Solutions
  <2>6. f = [p \in S |-> Body(p, f)]
    <3> HIDE DEF Body
    <3> QED
      BY <2>5
  <2> QED
    BY <2>6
<1> DEFINE Code(p, f) ==
               IF p > Len(input) THEN <<Escape, Eof>>
               ELSE IF RunAt(input, p) >= 3
               THEN <<RepeatClass * Eof + RunAt(input, p), input[p]>>
                    \o f[p + RunAt(input, p)]
               ELSE <<LiteralEnd(input, p) - p>>
                    \o SubSeq(input, p, LiteralEnd(input, p) - 1)
                    \o f[LiteralEnd(input, p)]
<1>4. \A p, f : Body(p, f) = Code(p, f)
  BY DEF Behind, String
<1>5. CompressedFrom(input) = CHOOSE f : f = [p \in S |-> Code(p, f)]
  BY DEF CompressedFrom
<1> HIDE DEF Body, Code
<1>6. \E f : f = [p \in S |-> Code(p, f)]
  BY <1>3, <1>4
<1>7. CompressedFrom(input) = [p \in S |-> Code(p, CompressedFrom(input))]
  <2> HIDE DEF S
  <2> QED
    BY <1>5, <1>6
<1>8. \A p \in S : CompressedFrom(input)[p] \in Seq(Nat)
  <2> DEFINE P == {p \in S : CompressedFrom(input)[p] \in Seq(Nat)}
  <2>1. ASSUME NEW p \in S, \A q \in p + 1 .. Len(input) + 1 : q \in P
        PROVE  p \in P
    <3>1. Body(p, CompressedFrom(input)) \in Seq(Nat)
      BY <1>2, <2>1
    <3> QED
      BY <1>4, <1>7, <3>1
  <2>2. 1 \in Int /\ Len(input) + 1 \in Int
    BY <1>0
  <2> HIDE DEF P
  <2>3. \A p \in 1 .. Len(input) + 1 : p \in P
    BY <2>1, <2>2, FromTheEnd
  <2> QED
    BY <2>3 DEF P
<1>9. CompressedFrom(input)[pos] = Code(pos, CompressedFrom(input))
  BY <1>7
<1> QED
  BY <1>8, <1>9 DEF Code

\* What decompression at pos makes of the results from later positions on.
Decompression(input, type, pos, from) ==
    LET control == input[pos]
        count   == CountOf(control)
    IN  CASE control = Escape ->
                 IF pos = Len(input) THEN Refused
                 ELSE IF HasEof(input[pos + 1])
                 THEN AtEof(input, pos + 2)
                 ELSE from[pos + 2]
          [] control # Escape /\ ~Counts(control) -> Refused
          [] control # Escape /\ Counts(control)
             /\ ClassOf(control) = LiteralClass ->
                 IF count > Len(input) - pos THEN Refused
                 ELSE Then(SubSeq(input, pos + 1, pos + count),
                           from[pos + count + 1])
          [] Counts(control) /\ ClassOf(control) = RepeatClass ->
                 IF pos = Len(input) THEN Refused
                 ELSE Then([i \in 1 .. count |-> input[pos + 1]],
                           from[pos + 2])
          [] OTHER ->
                 Then([i \in 1 .. count |-> Filler(type)], from[pos + 1])

\* Its cases, each of which applies on its own.
DecompressionArms(decoded, control, count, size, input, type, pos, f) ==
    /\ control = Escape => decoded =
           IF pos = size THEN Refused
           ELSE IF HasEof(input[pos + 1]) THEN AtEof(input, pos + 2) ELSE f[pos + 2]
    /\ control # Escape /\ ~Counts(control) => decoded = Refused
    /\ control # Escape /\ Counts(control) /\ ClassOf(control) = LiteralClass
       => decoded = IF count > size - pos THEN Refused
                    ELSE Then(SubSeq(input, pos + 1, pos + count),
                              f[pos + count + 1])
    /\ control # Escape /\ Counts(control) /\ ClassOf(control) = RepeatClass
       => decoded = IF pos = size THEN Refused
                    ELSE Then([i \in 1 .. count |-> input[pos + 1]], f[pos + 2])
    /\ control # Escape /\ Counts(control)
       /\ ClassOf(control) \notin {LiteralClass, RepeatClass}
       => decoded = Then([i \in 1 .. count |-> Filler(type)], f[pos + 1])

\* What it returns is what the case that applies returns.
LEMMA DecompressionCases ==
    ASSUME NEW input, NEW type, NEW pos, NEW f
    PROVE  DecompressionArms(Decompression(input, type, pos, f), input[pos],
                             CountOf(input[pos]), Len(input), input, type, pos, f)
<1>1. ClassOf(Escape) # RepeatClass /\ LiteralClass # RepeatClass
  BY Controls DEF LiteralClass, RepeatClass
<1> QED
  BY <1>1 DEF Decompression, DecompressionArms

\* It looks at later positions only.
LEMMA DecompressionTypes ==
    ASSUME NEW input \in Seq(Nat), NEW type, NEW pos \in 1 .. Len(input), NEW f,
           \A q \in pos + 1 .. Len(input) + 1 : f[q] \in Results
    PROVE  /\ Decompression(input, type, pos, f) \in Results
           /\ \A g : (\A q \in pos + 1 .. Len(input) + 1 : f[q] = g[q])
                  => Decompression(input, type, pos, f)
                         = Decompression(input, type, pos, g)
<1> DEFINE control == input[pos]
           count == CountOf(control)
           size == Len(input)
<1>1. /\ size \in Nat /\ pos \in Nat \ {0} /\ pos =< size /\ control \in Nat
      /\ count \in Nat
  <2>1. control \in Nat /\ Eof \in Nat /\ Eof > 0
    BY ElementOfSeq, Widths
  <2> HIDE DEF control
  <2>2. count \in Nat
    BY <2>1, Digits DEF CountOf
  <2> QED
    BY <2>1, <2>2, LenProperties
<1>2. \A q \in pos + 1 .. size + 1 : f[q] \in Results
  OBVIOUS
<1>3. pos + 1 \in pos + 1 .. size + 1
  BY <1>1
<1>4. pos # size => pos + 2 \in pos + 1 .. size + 1 /\ pos + 1 \in 1 .. size
  BY <1>1
<1>5. ~(count > size - pos) => pos + count + 1 \in pos + 1 .. size + 1
                               /\ pos + count \in Nat /\ pos + count =< size
  <2> HIDE DEF control, count, size
  <2> QED
    BY <1>1
<1>6. Filler(type) \in Nat
  BY ByteAssumption, Widths DEF Filler, Byte
<1>7. \A b \in Nat : [i \in 1 .. count |-> b] \in Seq(Nat)
  BY <1>1
<1>8. pos # size => input[pos + 1] \in Nat
  BY <1>4, ElementOfSeq
<1>9. ~(count > size - pos) => SubSeq(input, pos + 1, pos + count) \in Seq(Nat)
  <2>1. pos + 1 \in Nat \ {0}
    BY <1>1
  <2> HIDE DEF count
  <2> QED
    BY <1>5, <2>1, SomeBytes DEF size
<1>10. DecompressionArms(Decompression(input, type, pos, f), control, count, size,
                        input, type, pos, f)
  BY DecompressionCases
<1> HIDE DEF control, count, size
<1>11. Decompression(input, type, pos, f) \in Results
  <2>1. CASE control = Escape
    <3>1. Decompression(input, type, pos, f) =
              IF pos = size THEN Refused
              ELSE IF HasEof(input[pos + 1]) THEN AtEof(input, pos + 2) ELSE f[pos + 2]
      BY <2>1, <1>10 DEF DecompressionArms
    <3> QED
      BY <1>2, <1>4, <3>1, ResultTypes
  <2>2. CASE control # Escape /\ ~Counts(control)
    <3>1. Decompression(input, type, pos, f) = Refused
      BY <2>2, <1>10 DEF DecompressionArms
    <3> QED
      BY <3>1, ResultTypes
  <2>3. CASE control # Escape /\ Counts(control) /\ ClassOf(control) = LiteralClass
    <3>1. Decompression(input, type, pos, f) =
              IF count > size - pos THEN Refused
              ELSE Then(SubSeq(input, pos + 1, pos + count), f[pos + count + 1])
      BY <2>3, <1>10 DEF DecompressionArms
    <3> QED
      BY <1>2, <1>5, <1>9, <3>1, ResultTypes
  <2>4. CASE control # Escape /\ Counts(control) /\ ClassOf(control) = RepeatClass
    <3>1. Decompression(input, type, pos, f) =
              IF pos = size THEN Refused
              ELSE Then([i \in 1 .. count |-> input[pos + 1]], f[pos + 2])
      BY <2>4, <1>10 DEF DecompressionArms
    <3> QED
      BY <1>2, <1>4, <1>7, <1>8, <3>1, ResultTypes
  <2>5. CASE control # Escape /\ Counts(control)
             /\ ClassOf(control) \notin {LiteralClass, RepeatClass}
    <3>1. Decompression(input, type, pos, f) =
              Then([i \in 1 .. count |-> Filler(type)], f[pos + 1])
      BY <2>5, <1>10 DEF DecompressionArms
    <3> QED
      BY <1>2, <1>3, <1>6, <1>7, <3>1, ResultTypes
  <2> QED
    BY <2>1, <2>2, <2>3, <2>4, <2>5
<1>12. ASSUME NEW g, \A q \in pos + 1 .. size + 1 : f[q] = g[q]
       PROVE  Decompression(input, type, pos, f) = Decompression(input, type, pos, g)
  <2>1. f[pos + 1] = g[pos + 1]
    BY <1>3, <1>12
  <2>2. pos # Len(input) => f[pos + 2] = g[pos + 2]
    BY <1>4, <1>12 DEF size
  <2>3. ~(CountOf(input[pos]) > Len(input) - pos)
            => f[pos + CountOf(input[pos]) + 1] = g[pos + CountOf(input[pos]) + 1]
    BY <1>5, <1>12 DEF size, count, control
  <2> QED
    BY <2>1, <2>2, <2>3 DEF Decompression
<1> QED
  BY <1>11, <1>12 DEF size

\* The recursion that decompresses has the solution its definition asks for.
LEMMA DecompressedEquation ==
    ASSUME NEW input \in Seq(Nat), NEW type, NEW pos \in 1 .. Len(input) + 1
    PROVE  /\ DecompressedFrom(input, type)[pos] \in Results
           /\ DecompressedFrom(input, type)[pos] =
                  IF pos > Len(input) THEN Refused
                  ELSE Decompression(input, type, pos, DecompressedFrom(input, type))
<1> DEFINE S == 1 .. Len(input) + 1
           Body(p, f) == IF p > Len(input) THEN Refused
                         ELSE Decompression(input, type, p, f)
           Step == [p \in S |-> [f \in [S -> Results] |-> Body(p, f)]]
           decoded == DecompressedFrom(input, type)
<1>0. Len(input) \in Nat
  BY LenProperties
<1>1. ASSUME NEW p \in S, ~(p > Len(input)) PROVE p \in 1 .. Len(input)
  BY <1>0, <1>1
<1>2. ASSUME NEW p \in S, NEW f,
             \A q \in p + 1 .. Len(input) + 1 : f[q] \in Results
      PROVE  Body(p, f) \in Results
  BY <1>1, <1>2, DecompressionTypes, ResultTypes
<1>3. \E f : f = [p \in S |-> Body(p, f)]
  <2>1. ASSUME NEW p \in S, NEW f \in [S -> Results]
        PROVE  Body(p, f) \in Results
    <3>1. \A q \in p + 1 .. Len(input) + 1 : f[q] \in Results
      OBVIOUS
    <3> HIDE DEF Body
    <3> QED
      BY <1>2, <3>1
  <2>2. ASSUME NEW p \in S, NEW f \in [S -> Results], NEW g \in [S -> Results],
               \A q \in p + 1 .. Len(input) + 1 : f[q] = g[q]
        PROVE  Body(p, f) = Body(p, g)
    <3>1. \A q \in p + 1 .. Len(input) + 1 : f[q] \in Results
      OBVIOUS
    <3>2. CASE p > Len(input)
      BY <3>2
    <3>3. CASE ~(p > Len(input))
      <4>1. p \in 1 .. Len(input)
        BY <1>1, <3>3
      <4>2. Decompression(input, type, p, f) = Decompression(input, type, p, g)
        BY <2>2, <3>1, <4>1, DecompressionTypes
      <4> QED
        BY <3>3, <4>2
    <3> QED
      BY <3>2, <3>3
  <2>3. Step \in Steps(1, Len(input) + 1, Results)
    <3> HIDE DEF Body
    <3> QED
      BY <2>1, <2>2 DEF Steps
  <2>4. Solutions(Step, 1, Len(input) + 1, Results) # {}
    <3>1. 1 \in Int /\ Len(input) + 1 \in Int /\ Results # {}
      BY <1>0, ResultTypes
    <3> HIDE DEF Step
    <3> QED
      BY <2>3, <3>1, RecursionFromTheEnd
  <2>5. PICK f \in [S -> Results] : \A p \in S : f[p] = Step[p][f]
    <3> HIDE DEF Step
    <3> QED
      BY <2>4 DEF Solutions
  <2>6. f = [p \in S |-> Body(p, f)]
    <3> HIDE DEF Body
    <3> QED
      BY <2>5
  <2> QED
    BY <2>6
<1>4. decoded = CHOOSE f : f = [p \in S |-> Body(p, f)]
  BY DEF DecompressedFrom, Decompression
<1> HIDE DEF Body, decoded
<1>5. decoded = [p \in S |-> Body(p, decoded)]
  <2> HIDE DEF S
  <2> QED
    BY <1>3, <1>4
<1>6. \A p \in S : decoded[p] \in Results
  <2> DEFINE P == {p \in S : decoded[p] \in Results}
  <2>1. ASSUME NEW p \in S, \A q \in p + 1 .. Len(input) + 1 : q \in P
        PROVE  p \in P
    <3>1. Body(p, decoded) \in Results
      BY <1>2, <2>1
    <3> QED
      BY <1>5, <3>1
  <2>2. 1 \in Int /\ Len(input) + 1 \in Int
    BY <1>0
  <2> HIDE DEF P
  <2>3. \A p \in 1 .. Len(input) + 1 : p \in P
    BY <2>1, <2>2, FromTheEnd
  <2> QED
    BY <2>3 DEF P
<1>7. decoded[pos] = Body(pos, decoded)
  BY <1>5
<1> QED
  BY <1>6, <1>7 DEF Body, decoded

\* Bytes that have all arrived are the bytes that were sent.
LEMMA CarriedBytes ==
    ASSUME NEW arrived \in Seq(Nat), NEW p \in Nat \ {0}, NEW bytes \in Seq(Nat),
           Carries(arrived, p, bytes), NEW last \in Nat,
           last = p - 1 + Len(bytes), last =< Len(arrived)
    PROVE  SubSeq(arrived, p, last) = bytes
<1> DEFINE got == SubSeq(arrived, p, last)
           count == Len(bytes)
<1>1. count \in Nat /\ Len(arrived) \in Nat /\ last = p - 1 + count
  BY LenProperties
<1>2. /\ got \in Seq(Nat)
      /\ Len(got) = IF p =< last THEN last - p + 1 ELSE 0
      /\ \A i \in 1 .. last - p + 1 : got[i] = arrived[p + i - 1]
  BY SomeBytes
<1> HIDE DEF got, count
<1>3. Len(got) = count
  BY <1>1, <1>2
<1>4. ASSUME NEW i \in 1 .. count PROVE got[i] = bytes[i]
  <2>1. /\ i \in 1 .. last - p + 1 /\ p - 1 + i =< Len(arrived)
        /\ p + i - 1 = p - 1 + i
    BY <1>1
  <2>2. arrived[p - 1 + i] = bytes[i]
    BY <2>1 DEF Carries, count
  <2> QED
    BY <1>2, <2>1, <2>2
<1> QED
  BY <1>2, <1>3, <1>4, SeqEqual DEF got, count

\* A run is so many times its first byte.
LEMMA RepeatedBytes ==
    ASSUME NEW input \in Seq(Nat), NEW x \in 1 .. Len(input)
    PROVE  [i \in 1 .. RunAt(input, x) |-> input[x]]
               = SubSeq(input, x, x + RunAt(input, x) - 1)
<1> DEFINE byte == input[x]
           run == RunAt(input, x)
<1>1. /\ run \in 1 .. MaxCount /\ x + run =< Len(input) + 1
      /\ \A i \in x .. x + run - 1 : input[i] = byte
      /\ byte \in Nat
  BY RunTypes, ElementOfSeq
<1>2. /\ [i \in 1 .. RunAt(input, x) |-> input[x]] = [i \in 1 .. run |-> byte]
      /\ x + RunAt(input, x) - 1 = x + run - 1
  OBVIOUS
<1> HIDE DEF byte, run
<1> DEFINE made == [i \in 1 .. run |-> byte]
           last == x + run - 1
           sent == SubSeq(input, x, last)
<1>3. /\ run \in Nat /\ run >= 1 /\ x + run =< Len(input) + 1
      /\ \A i \in x .. x + run - 1 : input[i] = byte
      /\ Len(input) \in Nat /\ x \in Nat \ {0} /\ byte \in Nat
  BY <1>1, LenProperties, Widths
<1>4. made \in Seq(Nat) /\ Len(made) = run /\ \A i \in 1 .. run : made[i] = byte
  BY <1>3
<1>5. last \in Nat /\ last =< Len(input) /\ last = x + run - 1
  BY <1>3
<1> HIDE DEF last, made
<1>6. /\ sent \in Seq(Nat) /\ Len(sent) = run
      /\ \A i \in 1 .. run : sent[i] = input[x + i - 1]
  <2>1. /\ sent \in Seq(Nat)
        /\ Len(sent) = IF x =< last THEN last - x + 1 ELSE 0
        /\ \A i \in 1 .. last - x + 1 : sent[i] = input[x + i - 1]
    <3>1. x \in Nat \ {0} /\ last \in Nat /\ last =< Len(input)
      BY <1>3, <1>5
    <3> QED
      BY <3>1, SomeBytes
  <2>2. last - x + 1 = run /\ x =< last
    BY <1>3, <1>5
  <2> HIDE DEF sent
  <2> QED
    BY <2>1, <2>2
<1> HIDE DEF sent
<1>7. \A i \in 1 .. run : made[i] = sent[i]
  <2> SUFFICES ASSUME NEW i \in 1 .. run PROVE made[i] = sent[i]
    OBVIOUS
  <2>1. x + i - 1 \in x .. x + run - 1
    BY <1>3
  <2> QED
    BY <1>3, <1>4, <1>6, <2>1
<1>8. made = sent
  BY <1>4, <1>6, <1>7, SeqEqual
<1> QED
  BY <1>8, <1>2 DEF made, sent, last

\* A part that was decoded, and behind it a part that was decoded faithfully.
LEMMA ComposeFaithful ==
    ASSUME NEW arrived \in Seq(Nat), NEW input \in Seq(Nat),
           NEW first \in Seq(Nat), NEW rest \in Seq(Nat), NEW q \in Nat \ {0},
           NEW m \in 1 .. Len(input) + 1, NEW n \in m .. Len(input) + 1,
           NEW others \in Results, NEW next \in Nat, next = q + Len(first),
           Faithful(others, arrived, next, rest, input, n)
    PROVE  Faithful(Then(SubSeq(input, m, n - 1), others), arrived, q,
                    first \o rest, input, m)
<1>1. EndsWith(arrived, q, first \o rest) <=> EndsWith(arrived, next, rest)
  <2>1. /\ Len(first \o rest) = Len(first) + Len(rest)
        /\ Len(first) \in Nat /\ Len(rest) \in Nat /\ Len(arrived) \in Nat
    BY ConcatProperties, LenProperties
  <2> QED
    BY <2>1 DEF EndsWith
<1>2. /\ others = Accepted(SubSeq(input, n, Len(input)))
           => Then(SubSeq(input, m, n - 1), others)
                  = Accepted(SubSeq(input, m, Len(input)))
      /\ ~others.ok => ~Then(SubSeq(input, m, n - 1), others).ok
  BY ThenFaithful
<1> QED
  BY <1>1, <1>2 DEF Faithful

\* What stops before the end of its first part is refused.
LEMMA CutShort ==
    ASSUME NEW arrived \in Seq(Nat), NEW input \in Seq(Nat),
           NEW first \in Seq(Nat), NEW rest \in Seq(Nat), NEW q \in Nat \ {0},
           Len(arrived) < q - 1 + Len(first), NEW x
    PROVE  Faithful(Refused, arrived, q, first \o rest, input, x)
<1>1. /\ Len(first \o rest) = Len(first) + Len(rest)
      /\ Len(first) \in Nat /\ Len(rest) \in Nat /\ Len(arrived) \in Nat
  BY ConcatProperties, LenProperties
<1>2. ~EndsWith(arrived, q, first \o rest)
  BY <1>1 DEF EndsWith
<1> QED
  BY <1>2, ResultTypes DEF Faithful

\* What decompressing a part makes of it, wherever in the stream it arrives.
CompressedClaim(input, arrived, type, x) ==
    \A q \in 1 .. Len(arrived) + 1 :
        Carries(arrived, q, CompressedFrom(input)[x])
            => Faithful(DecompressedFrom(arrived, type)[q], arrived, q,
                        CompressedFrom(input)[x], input, x)

\* It does so everywhere behind x.
LaterClaims(input, arrived, type, x) ==
    \A y \in x + 1 .. Len(input) + 1 : CompressedClaim(input, arrived, type, y)

\* The string that stands for a run, and the one that stands for a literal.
RepeatString(input, x) == <<RepeatClass * Eof + RunAt(input, x), input[x]>>
LiteralString(input, x) ==
    <<LiteralEnd(input, x) - x>> \o SubSeq(input, x, LiteralEnd(input, x) - 1)

\* The end of the file is told by Escape and Eof.
LEMMA EndFaithful ==
    ASSUME NEW input \in Seq(Nat), NEW arrived \in Seq(Nat), NEW type,
           NEW q \in 1 .. Len(arrived), NEW x, x = Len(input) + 1,
           Carries(arrived, q, <<Escape, Eof>>)
    PROVE  Faithful(DecompressedFrom(arrived, type)[q], arrived, q,
                    <<Escape, Eof>>, input, x)
<1> DEFINE size == Len(arrived)
           f == DecompressedFrom(arrived, type)
           coded == <<Escape, Eof>>
<1>1. /\ size \in Nat /\ q \in Nat \ {0} /\ q =< size /\ q \in 1 .. size + 1
      /\ Len(input) \in Nat
  BY LenProperties
<1>2. Len(coded) = 2 /\ coded[1] = Escape /\ coded[2] = Eof
  OBVIOUS
<1>3. arrived[q] = Escape
  <2>1. 1 \in 1 .. 2 /\ q - 1 + 1 = q
    BY <1>1
  <2> QED
    BY <1>1, <1>2, <2>1 DEF Carries
<1>4. q # size => arrived[q + 1] = Eof
  <2> SUFFICES ASSUME q # size PROVE arrived[q + 1] = Eof
    OBVIOUS
  <2>1. 2 \in 1 .. 2 /\ q - 1 + 2 = q + 1 /\ q + 1 =< size
    BY <1>1
  <2> QED
    BY <1>2, <2>1 DEF Carries
<1>5. EndsWith(arrived, q, coded) <=> size = q + 1
  BY <1>1, <1>2 DEF EndsWith
<1>6. f[q] = Decompression(arrived, type, q, f)
  BY <1>1, DecompressedEquation
<1>7. SubSeq(input, x, Len(input)) = <<>>
  BY <1>1, SubSeqEmpty
<1>8. f[q] = IF q = size THEN Refused
             ELSE IF HasEof(arrived[q + 1]) THEN AtEof(arrived, q + 2) ELSE f[q + 2]
  <2>1. DecompressionArms(Decompression(arrived, type, q, f), arrived[q],
                          CountOf(arrived[q]), Len(arrived), arrived, type, q, f)
    BY DecompressionCases
  <2> HIDE DEF f
  <2> QED
    BY <1>3, <1>6, <2>1 DEF DecompressionArms
<1> HIDE DEF f, coded
<1>9. CASE q = size
  BY <1>1, <1>5, <1>8, <1>9, ResultTypes DEF Faithful, f, coded
<1>10. CASE q # size
  <2>1. f[q] = IF q + 2 > size THEN Accepted(<<>>) ELSE Refused
    BY <1>4, <1>8, <1>10, Controls DEF AtEof
  <2>2. q + 2 > size <=> size = q + 1
    BY <1>1, <1>10
  <2> QED
    BY <1>5, <1>7, <2>1, <2>2, ResultTypes DEF Faithful, f, coded
<1> QED
  BY <1>9, <1>10

\* A run that is repeated.
LEMMA RepeatFaithful ==
    ASSUME NEW input \in Seq(Nat), NEW arrived \in Seq(Nat), NEW type,
           NEW x \in 1 .. Len(input), NEW q \in 1 .. Len(arrived),
           LaterClaims(input, arrived, type, x),
           Carries(arrived, q, RepeatString(input, x)
                                   \o CompressedFrom(input)[x + RunAt(input, x)])
    PROVE  Faithful(DecompressedFrom(arrived, type)[q], arrived, q,
                    RepeatString(input, x)
                        \o CompressedFrom(input)[x + RunAt(input, x)], input, x)
<1> DEFINE run == RunAt(input, x)
           size == Len(arrived)
           f == DecompressedFrom(arrived, type)
           head == RepeatString(input, x)
           rest == CompressedFrom(input)[x + run]
           control == RepeatClass * Eof + run
           byte == input[x]
<1>1. run \in 1 .. MaxCount /\ x + run =< Len(input) + 1
  BY RunTypes
<1>2. run = RunAt(input, x) /\ head = <<control, byte>> /\ byte = input[x]
  BY DEF RepeatString
<1>3. size \in Nat /\ q \in Nat \ {0} /\ q =< size /\ Len(input) \in Nat
      /\ x \in Nat \ {0} /\ x =< Len(input)
  BY LenProperties
<1>4. Carries(arrived, q, head \o rest)
  OBVIOUS
<1> HIDE DEF run, size, head
<1>5. MaxCount \in Nat
  BY Widths
<1>6. /\ size \in Nat /\ q \in Nat \ {0} /\ q =< size /\ Len(input) \in Nat
      /\ x \in Nat \ {0} /\ x =< Len(input)
      /\ run \in Nat \ {0} /\ x + run =< Len(input) + 1
  BY <1>1, <1>5, <1>3
<1>7. x + run \in x + 1 .. Len(input) + 1 /\ x + run \in 1 .. Len(input) + 1
  BY <1>6
<1>8. rest \in Seq(Nat)
  BY <1>7, CompressedEquation
<1> HIDE DEF rest
<1>9. byte \in Nat /\ control \in Nat
  <2>1. byte \in Nat
    BY ElementOfSeq
  <2>2. RepeatClass * Eof \in Nat
    BY Widths DEF RepeatClass
  <2>3. control \in Nat
    <3> DEFINE base == RepeatClass * Eof
    <3>1. base \in Nat /\ control = base + run
      BY <2>2
    <3> HIDE DEF base, control
    <3> QED
      BY <1>6, <3>1
  <2> QED
    BY <2>1, <2>3
<1>10. head \in Seq(Nat) /\ Len(head) = 2 /\ head[1] = control /\ head[2] = byte
  <2> HIDE DEF control, byte
  <2> QED
    BY <1>9, <1>2
<1> HIDE DEF control, byte
<1>11. Carries(arrived, q, head) /\ Carries(arrived, q + 2, rest)
  <2>1. q \in Nat \ {0} /\ head \in Seq(Nat) /\ rest \in Seq(Nat)
        /\ Carries(arrived, q, head \o rest)
    BY <1>6, <1>10, <1>4, <1>8
  <2>2. Carries(arrived, q, head) /\ Carries(arrived, q + Len(head), rest)
    BY <2>1, CarriesParts
  <2> QED
    BY <1>10, <2>2
<1>12. arrived[q] = control
  <2>1. 1 \in 1 .. 2 /\ q - 1 + 1 = q /\ q =< size
    BY <1>6
  <2> QED
    BY <1>10, <1>11, <2>1 DEF Carries, size
<1>13. q # size => arrived[q + 1] = byte
  <2> SUFFICES ASSUME q # size PROVE arrived[q + 1] = byte
    OBVIOUS
  <2>1. 2 \in 1 .. 2 /\ q - 1 + 2 = q + 1 /\ q + 1 =< size
    BY <1>6
  <2> QED
    BY <1>10, <1>11, <2>1 DEF Carries, size
<1>14. /\ control # Escape /\ Counts(control) /\ ClassOf(control) = RepeatClass
      /\ CountOf(control) = run
  BY <1>1, Controls DEF control
<1>15. f[q] = IF q = size THEN Refused
             ELSE Then([i \in 1 .. run |-> arrived[q + 1]], f[q + 2])
  <2>1. DecompressionArms(Decompression(arrived, type, q, f), arrived[q],
                          CountOf(arrived[q]), Len(arrived), arrived, type, q, f)
    BY DecompressionCases
  <2>2. q \in 1 .. Len(arrived) + 1 /\ ~(q > Len(arrived))
    BY <1>6 DEF size
  <2>3. f[q] = Decompression(arrived, type, q, f)
    BY <2>2, DecompressedEquation
  <2> HIDE DEF f
  <2> QED
    BY <1>12, <1>14, <2>1, <2>3 DEF DecompressionArms, size
<1>16. CASE q = size
  <2>1. size < q - 1 + Len(head)
    BY <1>6, <1>10, <1>16
  <2>2. Faithful(Refused, arrived, q, head \o rest, input, x)
    BY <1>6, <1>10, <1>8, <2>1, CutShort DEF size
  <2> QED
    BY <1>15, <1>16, <2>2 DEF head, rest, run
<1>17. CASE q # size
  <2> DEFINE n == x + run
             next == q + 2
             others == f[next]
  <2>1. n \in x + 1 .. Len(input) + 1 /\ next \in 1 .. size + 1 /\ next \in Nat
    BY <1>6, <1>7, <1>17
  <2>2. others \in Results
    BY <2>1, DecompressedEquation DEF size
  <2>3. Faithful(others, arrived, next, rest, input, n)
    <3>1. CompressedClaim(input, arrived, type, n)
      BY <2>1 DEF LaterClaims
    <3> QED
      BY <1>11, <2>1, <3>1 DEF CompressedClaim, size, rest
  <2>4. [i \in 1 .. run |-> byte] = SubSeq(input, x, n - 1)
    <3>1. run \in Nat /\ byte \in Nat /\ byte = input[x] /\ n - 1 = x + run - 1
      BY <1>6, <1>9, <1>2
    <3>2. [i \in 1 .. run |-> byte] = SubSeq(input, x, x + run - 1)
      BY RepeatedBytes DEF byte, run
    <3> HIDE DEF n
    <3> QED
      BY <3>1, <3>2
  <2>5. f[q] = Then(SubSeq(input, x, n - 1), others)
    <3>1. [i \in 1 .. run |-> arrived[q + 1]] = [i \in 1 .. run |-> byte]
      BY <1>13, <1>17
    <3> HIDE DEF f, n
    <3> QED
      BY <1>15, <1>17, <2>4, <3>1
  <2>6. /\ head \in Seq(Nat) /\ q \in Nat \ {0} /\ next \in Nat /\ next = q + Len(head)
        /\ x \in 1 .. Len(input) + 1 /\ n \in x .. Len(input) + 1
    <3>1. head \in Seq(Nat) /\ Len(head) = 2
      BY <1>10
    <3>2. x \in 1 .. Len(input) + 1 /\ n \in x .. Len(input) + 1
      BY <1>6, <1>7
    <3>3. q \in Nat \ {0} /\ next \in Nat /\ next = q + 2
      BY <1>6
    <3> HIDE DEF n, next, others
    <3> QED
      BY <3>1, <3>2, <3>3
  <2> HIDE DEF others, n, next
  <2>7. Faithful(Then(SubSeq(input, x, n - 1), others), arrived, q, head \o rest, input, x)
    BY <1>8, <2>2, <2>3, <2>6, ComposeFaithful
  <2> QED
    BY <2>5, <2>7 DEF head, rest, run
<1> QED
  BY <1>16, <1>17

\* Bytes that are taken literally.
LEMMA LiteralFaithful ==
    ASSUME NEW input \in Seq(Nat), NEW arrived \in Seq(Nat), NEW type,
           NEW x \in 1 .. Len(input), NEW q \in 1 .. Len(arrived),
           ~(RunAt(input, x) >= 3), LaterClaims(input, arrived, type, x),
           Carries(arrived, q, LiteralString(input, x)
                                   \o CompressedFrom(input)[LiteralEnd(input, x)])
    PROVE  Faithful(DecompressedFrom(arrived, type)[q], arrived, q,
                    LiteralString(input, x)
                        \o CompressedFrom(input)[LiteralEnd(input, x)], input, x)
<1> DEFINE end == LiteralEnd(input, x)
           size == Len(arrived)
           f == DecompressedFrom(arrived, type)
           head == LiteralString(input, x)
           rest == CompressedFrom(input)[end]
           count == end - x
           bytes == SubSeq(input, x, end - 1)
           first == <<count>>
<1>1. end \in x + 1 .. Len(input) + 1 /\ count \in 1 .. MaxCount
  BY LiteralEndTypes
<1>2. head = first \o bytes
  BY DEF LiteralString
<1>3. size \in Nat /\ q \in Nat \ {0} /\ q =< size /\ Len(input) \in Nat
      /\ x \in Nat \ {0}
  BY LenProperties
<1>4. Carries(arrived, q, head \o rest)
  OBVIOUS
<1> HIDE DEF end, size, head
<1>5. /\ size \in Nat /\ q \in Nat \ {0} /\ q =< size /\ Len(input) \in Nat
      /\ x \in Nat \ {0} /\ end \in Nat \ {0} /\ x < end /\ end =< Len(input) + 1
      /\ count \in Nat \ {0} /\ end = x + count
  BY <1>1, <1>3
<1>6. end \in 1 .. Len(input) + 1
  BY <1>5
<1>7. rest \in Seq(Nat)
  BY <1>6, CompressedEquation
<1> HIDE DEF rest, count
<1>8. first \in Seq(Nat) /\ Len(first) = 1 /\ first[1] = count
  BY <1>5
<1>9. bytes \in Seq(Nat) /\ Len(bytes) = count
  <2>1. end - 1 \in Nat /\ end - 1 =< Len(input) /\ x =< end - 1
    BY <1>5
  <2>2. bytes \in Seq(Nat) /\ Len(bytes) = IF x =< end - 1 THEN end - 1 - x + 1 ELSE 0
    BY <1>5, <2>1, SomeBytes
  <2>3. end - 1 - x + 1 = count
    BY <1>5
  <2> HIDE DEF bytes
  <2> QED
    BY <2>1, <2>2, <2>3
<1>10. head = first \o bytes
  BY <1>2
<1> HIDE DEF first, bytes
<1>11. head \in Seq(Nat) /\ Len(head) = 1 + count
  <2>1. first \o bytes \in Seq(Nat) /\ Len(first \o bytes) = Len(first) + Len(bytes)
    BY <1>8, <1>9, ConcatProperties
  <2> QED
    BY <1>8, <1>9, <1>10, <2>1
<1> DEFINE next == q + count + 1
<1>12. /\ Carries(arrived, q, first) /\ Carries(arrived, q + 1, bytes)
      /\ Carries(arrived, next, rest)
  <2>1. q \in Nat \ {0} /\ head \in Seq(Nat) /\ rest \in Seq(Nat)
        /\ Carries(arrived, q, head \o rest)
    BY <1>5, <1>11, <1>4, <1>7
  <2>2. Carries(arrived, q, head) /\ Carries(arrived, q + Len(head), rest)
    BY <2>1, CarriesParts
  <2>3. q + Len(head) = next
    BY <1>5, <1>11
  <2>4. first \in Seq(Nat) /\ bytes \in Seq(Nat) /\ Carries(arrived, q, first \o bytes)
    BY <1>8, <1>9, <1>10, <2>2
  <2>5. Carries(arrived, q, first) /\ Carries(arrived, q + Len(first), bytes)
    BY <2>1, <2>4, CarriesParts
  <2> QED
    BY <1>8, <2>2, <2>3, <2>5
<1>13. arrived[q] = count
  <2>1. 1 \in 1 .. 1 /\ q - 1 + 1 = q
    BY <1>5
  <2> QED
    BY <1>5, <1>8, <1>12, <2>1 DEF Carries, size
<1>14. /\ count # Escape /\ Counts(count) /\ ClassOf(count) = LiteralClass
      /\ CountOf(count) = count
  BY <1>1, Controls DEF count
<1>15. f[q] = IF count > size - q THEN Refused
             ELSE Then(SubSeq(arrived, q + 1, q + count), f[next])
  <2>1. DecompressionArms(Decompression(arrived, type, q, f), arrived[q],
                          CountOf(arrived[q]), Len(arrived), arrived, type, q, f)
    BY DecompressionCases
  <2>2. q \in 1 .. Len(arrived) + 1 /\ ~(q > Len(arrived))
    BY <1>5 DEF size
  <2>3. f[q] = Decompression(arrived, type, q, f)
    BY <2>2, DecompressedEquation
  <2> HIDE DEF f
  <2> QED
    BY <1>13, <1>14, <2>1, <2>3 DEF DecompressionArms, size
<1>16. CASE count > size - q
  <2>1. size < q - 1 + Len(head)
    BY <1>5, <1>11, <1>16
  <2>2. Faithful(Refused, arrived, q, head \o rest, input, x)
    BY <1>5, <1>11, <1>7, <2>1, CutShort DEF size
  <2> QED
    BY <1>15, <1>16, <2>2 DEF head, rest, end
<1>17. CASE ~(count > size - q)
  <2> DEFINE others == f[next]
  <2>1. next \in 1 .. size + 1 /\ next \in Nat
    BY <1>5, <1>17
  <2>2. others \in Results
    BY <2>1, DecompressedEquation DEF size
  <2>3. Faithful(others, arrived, next, rest, input, end)
    <3>1. CompressedClaim(input, arrived, type, end)
      BY <1>1 DEF LaterClaims
    <3> QED
      BY <1>12, <2>1, <3>1 DEF CompressedClaim, size, rest
  <2>4. SubSeq(arrived, q + 1, q + count) = bytes
    <3> DEFINE p == q + 1
               last == q + count
    <3>1. p \in Nat \ {0} /\ last \in Nat /\ last = p - 1 + Len(bytes)
          /\ last =< Len(arrived) /\ Carries(arrived, p, bytes)
      <4>1. Len(bytes) = count /\ Carries(arrived, p, bytes)
        BY <1>9, <1>12
      <4>2. p \in Nat \ {0} /\ last \in Nat /\ last = p - 1 + count /\ last =< size
        BY <1>5, <1>17
      <4> QED
        BY <4>1, <4>2 DEF size
    <3> HIDE DEF p, last
    <3>2. SubSeq(arrived, p, last) = bytes
      BY <1>9, <3>1, CarriedBytes
    <3> QED
      BY <3>2 DEF p, last
  <2>5. f[q] = Then(SubSeq(input, x, end - 1), others)
    <3> HIDE DEF f, next
    <3> QED
      BY <1>15, <1>17, <2>4 DEF bytes
  <2>6. /\ head \in Seq(Nat) /\ q \in Nat \ {0} /\ next \in Nat /\ next = q + Len(head)
        /\ x \in 1 .. Len(input) + 1 /\ end \in x .. Len(input) + 1
    <3>1. head \in Seq(Nat) /\ Len(head) = 1 + count
      BY <1>11
    <3>2. x \in 1 .. Len(input) + 1 /\ end \in x .. Len(input) + 1
      BY <1>5
    <3>3. q \in Nat \ {0} /\ next \in Nat /\ next = q + (1 + count)
      BY <1>5
    <3> HIDE DEF next, others
    <3> QED
      BY <3>1, <3>2, <3>3
  <2> HIDE DEF others, next
  <2>7. Faithful(Then(SubSeq(input, x, end - 1), others), arrived, q, head \o rest, input, x)
    BY <1>7, <2>2, <2>3, <2>6, ComposeFaithful
  <2> QED
    BY <2>5, <2>7 DEF head, rest, end
<1> QED
  BY <1>16, <1>17

\* A compressed file is decompressed to the bytes it was made of if it arrives
\* whole, and refused otherwise.
LEMMA CompressedFaithful ==
    ASSUME NEW input \in Seq(Nat), NEW arrived \in Seq(Nat), NEW type,
           NEW pos \in 1 .. Len(input) + 1
    PROVE  CompressedClaim(input, arrived, type, pos)
<1> DEFINE P == {x \in 1 .. Len(input) + 1 : CompressedClaim(input, arrived, type, x)}
<1>0. Len(input) \in Nat /\ Len(arrived) \in Nat
  BY LenProperties
<1>1. ASSUME NEW x \in 1 .. Len(input) + 1,
             \A y \in x + 1 .. Len(input) + 1 : y \in P
      PROVE  x \in P
  <2>1. LaterClaims(input, arrived, type, x)
    BY <1>1 DEF LaterClaims
  <2> HIDE DEF P
  <2>2. ASSUME NEW q \in 1 .. Len(arrived) + 1,
               Carries(arrived, q, CompressedFrom(input)[x])
        PROVE  Faithful(DecompressedFrom(arrived, type)[q], arrived, q,
                        CompressedFrom(input)[x], input, x)
    <3> DEFINE coded == CompressedFrom(input)[x]
               run == RunAt(input, x)
               end == LiteralEnd(input, x)
    <3>0. q \in Nat \ {0}
      BY <1>0
    <3>1. CASE x > Len(input)
      <4>0. x = Len(input) + 1
        BY <1>0, <3>1
      <4>1. coded = <<Escape, Eof>> /\ x = Len(input) + 1
        BY <3>1, <4>0, CompressedEquation
      <4>2. CASE q > Len(arrived)
        <5>1. DecompressedFrom(arrived, type)[q] = Refused
          BY <4>2, DecompressedEquation
        <5>2. ~EndsWith(arrived, q, <<Escape, Eof>>)
          <6>1. Len(<<Escape, Eof>>) = 2
            OBVIOUS
          <6> QED
            BY <1>0, <3>0, <4>2, <6>1 DEF EndsWith
        <5> QED
          BY <4>1, <5>1, <5>2, ResultTypes DEF Faithful
      <4>3. CASE ~(q > Len(arrived))
        <5>1. q \in 1 .. Len(arrived)
          BY <1>0, <4>3
        <5> HIDE DEF coded
        <5>2. Carries(arrived, q, <<Escape, Eof>>)
          BY <2>2, <4>1 DEF coded
        <5>3. Faithful(DecompressedFrom(arrived, type)[q], arrived, q,
                       <<Escape, Eof>>, input, x)
          BY <4>1, <5>1, <5>2, EndFaithful
        <5> QED
          BY <4>1, <5>3 DEF coded
      <4> QED
        BY <4>2, <4>3
    <3>2. CASE ~(x > Len(input))
      <4> DEFINE head == IF run >= 3 THEN <<RepeatClass * Eof + run, input[x]>>
                         ELSE <<end - x>> \o SubSeq(input, x, end - 1)
                 behind == IF run >= 3 THEN x + run ELSE end
                 rest == CompressedFrom(input)[behind]
      <4>1. x \in 1 .. Len(input)
        BY <1>0, <3>2
      <4>2. coded = head \o rest
        BY <3>2, CompressedEquation
      <4>3. behind \in 1 .. Len(input) + 1 /\ head \in Seq(Nat) /\ Len(head) >= 1
        <5>1. CASE run >= 3
          <6>1. run \in 1 .. MaxCount /\ x + run =< Len(input) + 1 /\ input[x] \in Nat
            BY <4>1, RunTypes, ElementOfSeq
          <6>2. behind = x + run
            BY <5>1
          <6> HIDE DEF run, behind
          <6>6. RepeatClass * Eof + run \in Nat
            BY <6>1, Widths DEF RepeatClass
          <6>3. behind \in 1 .. Len(input) + 1
            BY <1>0, <6>1, <6>2, Widths
          <6>4. <<RepeatClass * Eof + run, input[x]>> \in Seq(Nat)
                /\ Len(<<RepeatClass * Eof + run, input[x]>>) = 2
            BY <6>1, <6>6
          <6>5. head = <<RepeatClass * Eof + run, input[x]>>
            BY <5>1
          <6> HIDE DEF head
          <6> QED
            BY <6>3, <6>4, <6>5
        <5>2. CASE ~(run >= 3)
          <6>1. end \in x + 1 .. Len(input) + 1 /\ end - x \in 1 .. MaxCount
            BY <4>1, <5>2, LiteralEndTypes
          <6> HIDE DEF end
          <6>2. <<end - x>> \in Seq(Nat) /\ Len(<<end - x>>) = 1
            BY <6>1, Widths
          <6>3. SubSeq(input, x, end - 1) \in Seq(Nat)
            <7>1. x \in Nat \ {0} /\ end - 1 \in Nat /\ end - 1 =< Len(input)
              BY <1>0, <6>1
            <7> QED
              BY <7>1, SomeBytes
          <6>4. head = <<end - x>> \o SubSeq(input, x, end - 1) /\ behind = end
            BY <5>2
          <6> HIDE DEF head
          <6>5. head \in Seq(Nat) /\ Len(head) = 1 + Len(SubSeq(input, x, end - 1))
            BY <6>2, <6>3, <6>4, ConcatProperties
          <6>6. Len(SubSeq(input, x, end - 1)) \in Nat
            BY <6>3, LenProperties
          <6>7. Len(head) >= 1
            <7> DEFINE taken == Len(SubSeq(input, x, end - 1))
            <7>1. taken \in Nat /\ Len(head) = 1 + taken
              BY <6>5, <6>6
            <7> HIDE DEF taken
            <7> QED
              BY <7>1
          <6>8. end \in 1 .. Len(input) + 1
            BY <1>0, <6>1
          <6> QED
            BY <6>4, <6>5, <6>7, <6>8
        <5> QED
          BY <5>1, <5>2
      <4>4. rest \in Seq(Nat)
        <5> HIDE DEF behind
        <5> QED
          BY <4>3, CompressedEquation
      <4>5. CASE q > Len(arrived)
        <5>1. DecompressedFrom(arrived, type)[q] = Refused
          BY <4>5, DecompressedEquation
        <5> HIDE DEF head, rest, coded
        <5>2. Len(head) \in Nat
          BY <4>3, LenProperties
        <5>3. Len(arrived) < q - 1 + Len(head)
          BY <1>0, <3>0, <4>3, <4>5, <5>2
        <5>4. Faithful(Refused, arrived, q, head \o rest, input, x)
          BY <3>0, <4>3, <4>4, <5>3, CutShort
        <5> QED
          BY <4>2, <5>1, <5>4 DEF coded
      <4>6. CASE ~(q > Len(arrived)) /\ run >= 3
        <5>1. q \in 1 .. Len(arrived)
          BY <1>0, <4>6
        <5>2. coded = RepeatString(input, x)
                          \o CompressedFrom(input)[x + RunAt(input, x)]
          BY <4>2, <4>6 DEF RepeatString
        <5> HIDE DEF coded
        <5>3. Carries(arrived, q, RepeatString(input, x)
                          \o CompressedFrom(input)[x + RunAt(input, x)])
          BY <2>2, <5>2 DEF coded
        <5>4. Faithful(DecompressedFrom(arrived, type)[q], arrived, q,
                       RepeatString(input, x)
                           \o CompressedFrom(input)[x + RunAt(input, x)], input, x)
          BY <2>1, <4>1, <5>1, <5>3, RepeatFaithful
        <5> QED
          BY <5>2, <5>4 DEF coded
      <4>7. CASE ~(q > Len(arrived)) /\ ~(run >= 3)
        <5>1. q \in 1 .. Len(arrived)
          BY <1>0, <4>7
        <5>2. coded = LiteralString(input, x)
                          \o CompressedFrom(input)[LiteralEnd(input, x)]
          BY <4>2, <4>7 DEF LiteralString
        <5> HIDE DEF coded
        <5>3. /\ Carries(arrived, q, LiteralString(input, x)
                             \o CompressedFrom(input)[LiteralEnd(input, x)])
              /\ ~(RunAt(input, x) >= 3)
          BY <2>2, <4>7, <5>2 DEF coded
        <5>4. Faithful(DecompressedFrom(arrived, type)[q], arrived, q,
                       LiteralString(input, x)
                           \o CompressedFrom(input)[LiteralEnd(input, x)], input, x)
          BY <2>1, <4>1, <5>1, <5>3, LiteralFaithful
        <5> QED
          BY <5>2, <5>4 DEF coded
      <4> QED
        BY <4>5, <4>6, <4>7
    <3> QED
      BY <3>1, <3>2
  <2>3. CompressedClaim(input, arrived, type, x)
    BY <2>2 DEF CompressedClaim
  <2> QED
    BY <2>3 DEF P
<1>2. 1 \in Int /\ Len(input) + 1 \in Int
  BY <1>0
<1> HIDE DEF P
<1>3. \A x \in 1 .. Len(input) + 1 : x \in P
  BY <1>1, <1>2, FromTheEnd
<1> QED
  BY <1>3 DEF P

-----------------------------------------------------------------------------
(* The modes.                                                               *)

\* What is sent of a file is a sequence of bytes, and in MODE B and C is not empty.
LEMMA EncodeTypes ==
    ASSUME NEW input \in Seq(Nat), NEW mode \in Modes
    PROVE  Encode(input, mode) \in Seq(Nat)
<1>1. 1 \in 1 .. Len(input) + 1
  BY LenProperties
<1>2. EncodeBlocks(input) \in Seq(Nat) /\ EncodeCompressed(input) \in Seq(Nat)
  BY <1>1, BlocksFromEquation, CompressedEquation DEF EncodeBlocks, EncodeCompressed
<1> QED
  BY <1>2 DEF Encode, Modes

\* A stream that is all there carries itself.
LEMMA WholeCarries ==
    ASSUME NEW coded \in Seq(Nat)
    PROVE  Carries(coded, 1, coded) /\ EndsWith(coded, 1, coded)
<1>1. Len(coded) \in Nat
  BY LenProperties
<1>2. ASSUME NEW i \in 1 .. Len(coded) PROVE coded[1 - 1 + i] = coded[i]
  <2>1. 1 - 1 + i = i
    BY <1>1
  <2> QED
    BY <2>1
<1> QED
  BY <1>1, <1>2 DEF Carries, EndsWith

\* A decoder of MODE B or C returns the file if its stream has arrived whole, and
\* refuses what breaks off before the end or goes on after it.
THEOREM DecodingUndoesEncoding ==
    ASSUME NEW input \in Seq(Nat), NEW arrived \in Seq(Nat), NEW type,
           NEW mode \in {"B", "C"}, Carries(arrived, 1, Encode(input, mode))
    PROVE  IF Len(arrived) = Len(Encode(input, mode))
           THEN Decode(arrived, mode, type) = Accepted(input)
           ELSE ~Decode(arrived, mode, type).ok
<1> DEFINE coded == Encode(input, mode)
<1>1. /\ Len(input) \in Nat /\ Len(arrived) \in Nat /\ 1 \in 1 .. Len(input) + 1
      /\ 1 \in 1 .. Len(arrived) + 1
  BY LenProperties
<1>2. coded \in Seq(Nat)
  BY EncodeTypes DEF Modes
<1>3. EndsWith(arrived, 1, coded) <=> Len(arrived) = Len(coded)
  <2>1. Len(coded) \in Nat
    BY <1>2, LenProperties
  <2> HIDE DEF coded
  <2> QED
    BY <1>1, <2>1 DEF EndsWith
<1>4. SubSeq(input, 1, Len(input)) = input
  BY SubSeqFull
<1>5. Faithful(Decode(arrived, mode, type), arrived, 1, coded, input, 1)
  <2>1. CASE mode = "B"
    <3>1. BlocksClaim(input, arrived, 1)
      BY <1>1, BlocksFaithful
    <3>2. /\ coded = BlocksFrom(input)[1]
          /\ Decode(arrived, mode, type) = BlocksDecodedFrom(arrived)[1]
      BY <2>1 DEF Encode, EncodeBlocks, Decode, DecodeBlocks
    <3>3. Carries(arrived, 1, BlocksFrom(input)[1])
      BY <3>2
    <3> HIDE DEF coded
    <3> QED
      BY <1>1, <3>1, <3>2, <3>3 DEF BlocksClaim
  <2>2. CASE mode = "C"
    <3>1. CompressedClaim(input, arrived, type, 1)
      BY <1>1, CompressedFaithful
    <3>2. /\ coded = CompressedFrom(input)[1]
          /\ Decode(arrived, mode, type) = DecompressedFrom(arrived, type)[1]
      BY <2>2 DEF Encode, EncodeCompressed, Decode, DecodeCompressed
    <3>3. Carries(arrived, 1, CompressedFrom(input)[1])
      BY <3>2
    <3> HIDE DEF coded
    <3> QED
      BY <1>1, <3>1, <3>2, <3>3 DEF CompressedClaim
  <2> QED
    BY <2>1, <2>2
<1> HIDE DEF coded
<1>6. IF Len(arrived) = Len(coded)
      THEN Decode(arrived, mode, type) = Accepted(input)
      ELSE ~Decode(arrived, mode, type).ok
  BY <1>3, <1>4, <1>5 DEF Faithful
<1> QED
  BY <1>6 DEF coded

\* A compressed string never begins as a block does.
LEMMA BlocksRefused ==
    ASSUME NEW input \in Seq(Nat), NEW type
    PROVE  ~Decode(Encode(input, "B"), "C", type).ok
<1> DEFINE block == Block(input, 1)
           rest == IF IsLast(input, 1) THEN <<>>
                   ELSE BlocksFrom(input)[1 + BlockLength(input, 1)]
           coded == BlocksFrom(input)[1]
           f == DecompressedFrom(coded, type)
<1>1. Len(input) \in Nat /\ 1 \in 1 .. Len(input) + 1
  BY LenProperties
<1>2. coded \in Seq(Nat) /\ coded = block \o rest
  BY <1>1, BlocksFromEquation
<1>3. /\ block \in Seq(Nat) /\ Len(block) = 3 + BlockLength(input, 1)
      /\ block[1] \in {0, Eof} /\ BlockLength(input, 1) \in Nat
  <2>1. block \in Seq(Nat) /\ BlockLength(input, 1) \in Nat
    BY <1>1, BlockTypes
  <2>2. Len(block) = 3 + BlockLength(input, 1) /\ block[1] \in {0, Eof}
    BY <1>1, BlockBytes
  <2> QED
    BY <2>1, <2>2
<1>4. rest \in Seq(Nat)
  <2>1. CASE IsLast(input, 1)
    <3>1. <<>> \in Seq(Nat)
      OBVIOUS
    <3> QED
      BY <2>1, <3>1
  <2>2. CASE ~IsLast(input, 1)
    <3>1. 1 + BlockLength(input, 1) \in 1 .. Len(input) + 1
      <4> DEFINE count == BlockLength(input, 1)
      <4>1. count \in Nat /\ 1 + count =< Len(input) + 1
        BY <1>1, BlockTypes
      <4> HIDE DEF count
      <4>2. 1 + count \in 1 .. Len(input) + 1
        BY <1>1, <4>1
      <4> QED
        BY <4>2 DEF count
    <3> QED
      BY <2>2, <3>1, BlocksFromEquation
  <2> QED
    BY <2>1, <2>2
<1> HIDE DEF block, rest, coded
<1>5. Len(coded) \in Nat /\ Len(coded) >= 1 /\ coded[1] = block[1]
  <2>1. /\ Len(block \o rest) = Len(block) + Len(rest)
        /\ \A i \in 1 .. Len(block) + Len(rest) :
               (block \o rest)[i] = IF i <= Len(block) THEN block[i] ELSE rest[i - Len(block)]
        /\ Len(block) \in Nat /\ Len(rest) \in Nat
    BY <1>3, <1>4, ConcatProperties, LenProperties
  <2>2. 1 \in 1 .. Len(block) + Len(rest) /\ 1 <= Len(block)
    BY <1>3, <2>1
  <2> QED
    BY <1>2, <2>1, <2>2
<1>6. coded[1] # Escape /\ ~Counts(coded[1])
  <2>1. /\ 0 # Escape /\ ~Counts(0) /\ Eof # Escape /\ ~Counts(Eof)
    BY Controls, Widths DEF Counts, Escape
  <2> QED
    BY <1>3, <1>5, <2>1
<1>7. f[1] = Refused
  <2>1. DecompressionArms(Decompression(coded, type, 1, f), coded[1],
                          CountOf(coded[1]), Len(coded), coded, type, 1, f)
    BY DecompressionCases
  <2>2. 1 \in 1 .. Len(coded) + 1 /\ ~(1 > Len(coded))
    BY <1>5
  <2>3. f[1] = Decompression(coded, type, 1, f)
    BY <1>2, <2>2, DecompressedEquation
  <2> HIDE DEF f
  <2> QED
    BY <1>6, <2>1, <2>3 DEF DecompressionArms
<1>8. Decode(Encode(input, "B"), "C", type) = f[1]
  BY DEF Decode, Encode, EncodeBlocks, DecodeCompressed, coded
<1> HIDE DEF f
<1> QED
  BY <1>7, <1>8, ResultTypes

-----------------------------------------------------------------------------
(* The transfer.                                                            *)

\* The inductive invariant: what is on the data channel is what was encoded, as
\* far as it goes, and its length tells whether it is whole.
TransferInv ==
    /\ stage \in {"encode", "transfer", "done"}
    /\ file \in Seq(Nat) /\ stream \in Seq(Nat)
    /\ sentMode \in Modes /\ readMode \in Modes /\ whole \in BOOLEAN
    /\ stage = "encode" => whole
    /\ stage # "encode" /\ whole => stream = Encode(file, sentMode)
    /\ stage # "encode" /\ ~whole
           => /\ Carries(stream, 1, Encode(file, sentMode))
              /\ Len(stream) # Len(Encode(file, sentMode))
    /\ stage = "done" => result = Decode(stream, readMode, readType)

\* Files and damage are made of bytes.
LEMMA BytesAreNumbers ==
    /\ TrailingBytes \subseteq Nat
    /\ BoundedSeq(FileBytes, MaxLength) \subseteq Seq(Nat)
<1>1. FileBytes \subseteq Nat /\ TrailingBytes \subseteq Nat
  BY ByteAssumption, Widths DEF Byte
<1>2. ASSUME NEW s \in BoundedSeq(FileBytes, MaxLength) PROVE s \in Seq(Nat)
  <2>1. PICK m \in 0 .. MaxLength : s \in [1 .. m -> FileBytes]
    BY DEF BoundedSeq, SeqOf
  <2>2. m \in Nat
    BY ByteAssumption
  <2>3. s \in [1 .. m -> Nat]
    BY <1>1, <2>1
  <2> QED
    BY <2>2, <2>3
<1> QED
  BY <1>1, <1>2

\* The invariant holds of a file that is not yet encoded.
LEMMA TransferInit == Init => TransferInv
<1> SUFFICES ASSUME Init PROVE TransferInv
  OBVIOUS
<1>1. file \in Seq(Nat) /\ <<>> \in Seq(Nat)
  BY BytesAreNumbers DEF Init
<1> QED
  BY <1>1 DEF Init, TransferInv

\* Sending, damage and receiving preserve it.
LEMMA TransferStep == TransferInv /\ [Next]_vars => TransferInv'
<1> SUFFICES ASSUME TransferInv, [Next]_vars PROVE TransferInv'
  OBVIOUS
<1> DEFINE coded == Encode(file, sentMode)
<1>0. coded \in Seq(Nat)
  BY EncodeTypes DEF TransferInv
<1>1. CASE SendFile
  BY <1>0, <1>1 DEF SendFile, TransferInv
<1>2. CASE Damage
  <2>1. stream = coded /\ ~whole' /\ file' = file /\ sentMode' = sentMode
    BY <1>2 DEF Damage, TransferInv
  <2>2. /\ stream' \in Seq(Nat) /\ Carries(stream', 1, coded)
        /\ Len(stream') # Len(coded)
    <3> HIDE DEF coded
    <3>0. Len(coded) \in Nat
      BY <1>0, LenProperties
    <3>1. ASSUME NEW length \in 0 .. Len(coded) - 1,
                 stream' = SubSeq(coded, 1, length)
          PROVE  /\ stream' \in Seq(Nat) /\ Carries(stream', 1, coded)
                 /\ Len(stream') # Len(coded)
      <4>1. length \in Nat /\ length =< Len(coded) /\ length - 1 + 1 = length
            /\ 1 \in Nat \ {0} /\ length # Len(coded)
        BY <3>0
      <4>2. /\ stream' \in Seq(Nat)
            /\ Len(stream') = IF 1 =< length THEN length - 1 + 1 ELSE 0
            /\ \A i \in 1 .. length - 1 + 1 : stream'[i] = coded[1 + i - 1]
        BY <1>0, <3>1, <4>1, SomeBytes
      <4>3. Len(stream') = length
        BY <4>1, <4>2
      <4>4. ASSUME NEW i \in 1 .. Len(coded), 1 - 1 + i =< Len(stream')
            PROVE  stream'[1 - 1 + i] = coded[i]
        <5>1. i \in 1 .. length - 1 + 1 /\ 1 + i - 1 = i /\ 1 - 1 + i = i
          BY <3>0, <4>1, <4>3, <4>4
        <5> QED
          BY <4>2, <5>1
      <4> QED
        BY <4>1, <4>2, <4>3, <4>4 DEF Carries
    <3>2. ASSUME NEW byte \in TrailingBytes, stream' = Append(coded, byte)
          PROVE  /\ stream' \in Seq(Nat) /\ Carries(stream', 1, coded)
                 /\ Len(stream') # Len(coded)
      <4>1. byte \in Nat
        BY BytesAreNumbers
      <4>2. /\ stream' \in Seq(Nat) /\ Len(stream') = Len(coded) + 1
            /\ \A i \in 1 .. Len(coded) : stream'[i] = coded[i]
        BY <1>0, <3>2, <4>1, AppendProperties
      <4>3. ASSUME NEW i \in 1 .. Len(coded) PROVE stream'[1 - 1 + i] = coded[i]
        <5>1. 1 - 1 + i = i
          BY <3>0
        <5> QED
          BY <4>2, <5>1
      <4> QED
        BY <3>0, <4>2, <4>3 DEF Carries
    <3> QED
      BY <1>2, <2>1, <3>1, <3>2 DEF Damage
  <2> QED
    BY <1>2, <2>1, <2>2 DEF Damage, TransferInv
<1>3. CASE ReceiveFile
  BY <1>3 DEF ReceiveFile, TransferInv
<1>4. CASE UNCHANGED vars
  BY <1>4 DEF vars, TransferInv
<1> QED
  BY <1>1, <1>2, <1>3, <1>4 DEF Next

\* What is decoded is what was encoded, as far as it has arrived.
THEOREM TransferStaysFaithful == Spec => []TransferInv
<1> QED
  BY TransferInit, TransferStep, PTL DEF Spec

\* A stream that arrives whole decodes to the file, of whatever length and bytes
\* and whatever the widths of the counts.
THEOREM EveryFileArrives == Spec => []RoundTrip
<1>1. TransferInv => RoundTrip
  <2> SUFFICES ASSUME TransferInv, stage = "done", whole, sentMode = readMode
               PROVE  result = Accepted(file)
    BY DEF RoundTrip
  <2>1. /\ result = Decode(stream, readMode, readType)
        /\ stream = Encode(file, readMode) /\ file \in Seq(Nat) /\ stream \in Seq(Nat)
        /\ readMode \in Modes
    BY DEF TransferInv
  <2>2. CASE readMode = "S"
    BY <2>1, <2>2 DEF Encode, Decode
  <2>3. CASE readMode \in {"B", "C"}
    <3>1. Carries(stream, 1, Encode(file, readMode))
      BY <2>1, WholeCarries
    <3> QED
      BY <2>1, <2>3, <3>1, DecodingUndoesEncoding
  <2> QED
    BY <2>1, <2>2, <2>3 DEF Modes
<1> QED
  BY <1>1, TransferStaysFaithful, PTL

\* MODE B and MODE C notice every truncation and every trailing byte.
THEOREM DamageStaysNoticed == Spec => []DamageIsNoticed
<1>1. TransferInv => DamageIsNoticed
  <2> SUFFICES ASSUME TransferInv, stage = "done", ~whole, sentMode = readMode,
                      readMode # "S"
               PROVE  ~result.ok
    BY DEF DamageIsNoticed
  <2>1. /\ result = Decode(stream, readMode, readType)
        /\ Carries(stream, 1, Encode(file, readMode))
        /\ Len(stream) # Len(Encode(file, readMode))
        /\ file \in Seq(Nat) /\ stream \in Seq(Nat) /\ readMode \in {"B", "C"}
    BY DEF TransferInv, Modes
  <2> QED
    BY <2>1, DecodingUndoesEncoding
<1> QED
  BY <1>1, TransferStaysFaithful, PTL

\* A stream of blocks is refused by an end that expects a compressed one.
THEOREM BlocksStayRefused == Spec => []BlocksAreNotCompressed
<1>1. TransferInv => BlocksAreNotCompressed
  BY BlocksRefused DEF TransferInv, BlocksAreNotCompressed
<1> QED
  BY <1>1, TransferStaysFaithful, PTL
=============================================================================
