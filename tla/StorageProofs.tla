---------------------------- MODULE StorageProofs ----------------------------
(***************************************************************************)
(* Proofs about Storage.tla: whatever paths the clients name, and however  *)
(* the steps of any number of sessions interleave, the storage stays a     *)
(* tree and nothing outside its root is touched.  The proofs need nothing  *)
(* of how a path is resolved, only that each command compares the result   *)
(* with the root before it plans anything.                                 *)
(***************************************************************************)
EXTENDS Storage, SequenceTheorems, FiniteSetTheorems, TLAPS

Path == Seq(STRING)

-----------------------------------------------------------------------------
(* Paths.                                                                   *)

\* The first n names of a path.
LEMMA Above ==
    ASSUME NEW path \in Path, NEW n \in 0 .. Len(path)
    PROVE  /\ SubSeq(path, 1, n) \in Path
           /\ Len(SubSeq(path, 1, n)) = n
           /\ \A i \in 1 .. n : SubSeq(path, 1, n)[i] = path[i]
<1>1. Len(path) \in Nat
  BY LenProperties DEF Path
<1>2. \A i \in 1 .. n : path[i] \in STRING
  BY <1>1, ElementOfSeq DEF Path
<1> QED
  BY <1>1, <1>2, SubSeqProperties DEF Path

\* A path is a prefix of another one when it has the same names as far as it
\* goes.
LEMMA Prefix ==
    ASSUME NEW s \in Path, NEW t \in Path
    PROVE  IsPrefix(s, t) <=> /\ Len(s) =< Len(t)
                              /\ \A i \in 1 .. Len(s) : s[i] = t[i]
<1>1. Len(s) \in Nat /\ Len(t) \in Nat
  BY LenProperties DEF Path
<1>2. SubSeq(s, 1, Len(s)) = s
  BY SubSeqFull DEF Path
<1>3. ASSUME Len(s) =< Len(t)
      PROVE  s = SubSeq(t, 1, Len(s)) <=> \A i \in 1 .. Len(s) : s[i] = t[i]
  <2>1. Len(s) \in 0 .. Len(t)
    BY <1>1, <1>3
  <2>2. /\ SubSeq(t, 1, Len(s)) \in Path
        /\ Len(SubSeq(t, 1, Len(s))) = Len(s)
        /\ \A i \in 1 .. Len(s) : SubSeq(t, 1, Len(s))[i] = t[i]
    BY <2>1, Above
  <2>3. ASSUME \A i \in 1 .. Len(s) : s[i] = t[i]
        PROVE  s = SubSeq(t, 1, Len(s))
    <3>1. \A i \in 1 .. Len(s) : s[i] = SubSeq(t, 1, Len(s))[i]
      BY <2>2, <2>3
    <3> QED
      BY <2>2, <3>1, SeqEqual DEF Path
  <2> QED
    BY <2>2, <2>3
<1> QED
  BY <1>2, <1>3 DEF IsPrefix

\* A path with as many names as a prefix of it is that prefix.
LEMMA SamePath ==
    ASSUME NEW s \in Path, NEW t \in Path, IsPrefix(s, t), Len(t) =< Len(s)
    PROVE  s = t
<1>1. Len(s) \in Nat /\ Len(t) \in Nat
  BY LenProperties DEF Path
<1>2. Len(s) = Len(t) /\ \A i \in 1 .. Len(s) : s[i] = t[i]
  BY <1>1, Prefix
<1> QED
  BY <1>2, SeqEqual DEF Path

LEMMA PrefixTransitive ==
    ASSUME NEW r \in Path, NEW s \in Path, NEW t \in Path,
           IsPrefix(r, s), IsPrefix(s, t)
    PROVE  IsPrefix(r, t)
<1>1. Len(r) \in Nat /\ Len(s) \in Nat /\ Len(t) \in Nat
  BY LenProperties DEF Path
<1>2. /\ Len(r) =< Len(s) /\ \A i \in 1 .. Len(r) : r[i] = s[i]
      /\ Len(s) =< Len(t) /\ \A i \in 1 .. Len(s) : s[i] = t[i]
  BY Prefix
<1>3. Len(r) =< Len(t) /\ \A i \in 1 .. Len(r) : r[i] = t[i]
  BY <1>1, <1>2
<1> QED
  BY <1>3, Prefix

\* The directory above is a shorter prefix.
LEMMA AboveIsPrefix ==
    ASSUME NEW path \in Path, NEW n \in 0 .. Len(path)
    PROVE  IsPrefix(SubSeq(path, 1, n), path)
<1>1. Len(path) \in Nat
  BY LenProperties DEF Path
<1> DEFINE upper == SubSeq(path, 1, n)
<1>2. /\ upper \in Path /\ Len(upper) = n
      /\ \A i \in 1 .. n : upper[i] = path[i]
  BY Above
<1> HIDE DEF upper
<1>3. IsPrefix(upper, path)
  BY <1>1, <1>2, Prefix
<1> QED
  BY <1>3 DEF upper

\* Of two prefixes of one path the shorter one is a prefix of the other.
LEMMA AboveAbove ==
    ASSUME NEW path \in Path, NEW n \in 0 .. Len(path), NEW m \in 0 .. n
    PROVE  SubSeq(SubSeq(path, 1, n), 1, m) = SubSeq(path, 1, m)
<1>1. Len(path) \in Nat
  BY LenProperties DEF Path
<1> DEFINE upper == SubSeq(path, 1, n)
<1>2. /\ upper \in Path /\ Len(upper) = n
      /\ \A i \in 1 .. n : upper[i] = path[i]
  BY Above
<1>3. m \in 0 .. Len(upper) /\ m \in 0 .. Len(path)
  BY <1>1, <1>2
<1> HIDE DEF upper
<1>4. /\ SubSeq(upper, 1, m) \in Path /\ Len(SubSeq(upper, 1, m)) = m
      /\ \A i \in 1 .. m : SubSeq(upper, 1, m)[i] = upper[i]
  BY <1>2, <1>3, Above
<1>5. /\ SubSeq(path, 1, m) \in Path /\ Len(SubSeq(path, 1, m)) = m
      /\ \A i \in 1 .. m : SubSeq(path, 1, m)[i] = path[i]
  BY <1>3, Above
<1>6. \A i \in 1 .. m : SubSeq(upper, 1, m)[i] = SubSeq(path, 1, m)[i]
  BY <1>2, <1>4, <1>5
<1>7. SubSeq(upper, 1, m) = SubSeq(path, 1, m)
  BY <1>4, <1>5, <1>6, SeqEqual DEF Path
<1> QED
  BY <1>7 DEF upper

\* The names of a path after its first n.
LEMMA Rest ==
    ASSUME NEW path \in Path, NEW n \in 0 .. Len(path)
    PROVE  /\ SubSeq(path, n + 1, Len(path)) \in Path
           /\ Len(SubSeq(path, n + 1, Len(path))) = Len(path) - n
           /\ \A i \in 1 .. Len(path) - n :
                  SubSeq(path, n + 1, Len(path))[i] = path[n + i]
<1>1. Len(path) \in Nat
  BY LenProperties DEF Path
<1>2. \A i \in n + 1 .. Len(path) : path[i] \in STRING
  BY <1>1, ElementOfSeq DEF Path
<1>3. /\ SubSeq(path, n + 1, Len(path)) \in Seq(STRING)
      /\ Len(SubSeq(path, n + 1, Len(path)))
             = IF n + 1 <= Len(path) THEN Len(path) - (n + 1) + 1 ELSE 0
      /\ \A i \in 1 .. Len(path) - (n + 1) + 1 :
             SubSeq(path, n + 1, Len(path))[i] = path[(n + 1) + i - 1]
  BY <1>1, <1>2, SubSeqProperties
<1>4. \A i \in 1 .. Len(path) - n :
          /\ i \in 1 .. Len(path) - (n + 1) + 1
          /\ (n + 1) + i - 1 = n + i
  BY <1>1
<1> QED
  BY <1>1, <1>3, <1>4 DEF Path

-----------------------------------------------------------------------------
(* What a rename makes of the paths.                                        *)

\* Where a path lies that was at or below what has been renamed.
LEMMA MovedGoes ==
    ASSUME NEW path \in Path, NEW from \in Path, NEW to \in Path,
           IsPrefix(from, path)
    PROVE  /\ Moved(path, from, to) \in Path
           /\ Len(Moved(path, from, to)) = Len(to) + (Len(path) - Len(from))
           /\ \A i \in 1 .. Len(to) : Moved(path, from, to)[i] = to[i]
           /\ \A i \in 1 .. Len(path) - Len(from) :
                  Moved(path, from, to)[Len(to) + i] = path[Len(from) + i]
<1>1. Len(path) \in Nat /\ Len(from) \in Nat /\ Len(to) \in Nat
  BY LenProperties DEF Path
<1>2. Len(from) \in 0 .. Len(path)
  BY <1>1 DEF IsPrefix
<1> DEFINE rest == SubSeq(path, Len(from) + 1, Len(path))
<1>3. /\ rest \in Path
      /\ Len(rest) = Len(path) - Len(from)
      /\ \A i \in 1 .. Len(path) - Len(from) : rest[i] = path[Len(from) + i]
  BY <1>2, Rest
<1>4. Moved(path, from, to) = to \o rest
  BY DEF Moved
<1> HIDE DEF rest
<1>5. /\ to \o rest \in Path
      /\ Len(to \o rest) = Len(to) + Len(rest)
      /\ \A i \in 1 .. Len(to) + Len(rest) :
             (to \o rest)[i] = IF i <= Len(to) THEN to[i]
                                              ELSE rest[i - Len(to)]
  BY <1>3, ConcatProperties DEF Path
<1>6. \A i \in 1 .. Len(to) : (to \o rest)[i] = to[i]
  BY <1>1, <1>3, <1>5
<1>7. \A i \in 1 .. Len(rest) :
          /\ Len(to) + i \in 1 .. Len(to) + Len(rest)
          /\ ~(Len(to) + i <= Len(to))
          /\ (Len(to) + i) - Len(to) = i
  BY <1>1, <1>3
<1>8. \A i \in 1 .. Len(rest) : (to \o rest)[Len(to) + i] = rest[i]
  BY <1>5, <1>7
<1> QED
  BY <1>3, <1>4, <1>5, <1>6, <1>8

\* Every other path stays.
LEMMA MovedStays ==
    ASSUME NEW path, NEW from, NEW to, ~IsPrefix(from, path)
    PROVE  Moved(path, from, to) = path
BY DEF Moved

LEMMA MovedIsPath ==
    ASSUME NEW path \in Path, NEW from \in Path, NEW to \in Path
    PROVE  Moved(path, from, to) \in Path
BY MovedGoes, MovedStays

\* What has moved lies at or below the new name.
LEMMA MovedIsBelow ==
    ASSUME NEW path \in Path, NEW from \in Path, NEW to \in Path,
           IsPrefix(from, path)
    PROVE  IsPrefix(to, Moved(path, from, to))
<1> DEFINE moved == Moved(path, from, to)
<1>1. Len(path) \in Nat /\ Len(from) \in Nat /\ Len(to) \in Nat
  BY LenProperties DEF Path
<1>2. /\ moved \in Path
      /\ Len(moved) = Len(to) + (Len(path) - Len(from))
      /\ \A i \in 1 .. Len(to) : moved[i] = to[i]
  BY MovedGoes
<1>3. Len(from) =< Len(path)
  BY DEF IsPrefix
<1> HIDE DEF moved
<1>4. IsPrefix(to, moved)
  BY <1>1, <1>2, <1>3, Prefix
<1> QED
  BY <1>4 DEF moved

\* Only the renamed path itself comes to lie exactly at the new name.
LEMMA MovedToTop ==
    ASSUME NEW path \in Path, NEW from \in Path, NEW to \in Path,
           IsPrefix(from, path), Moved(path, from, to) = to
    PROVE  path = from
<1>1. Len(path) \in Nat /\ Len(from) \in Nat /\ Len(to) \in Nat
  BY LenProperties DEF Path
<1>2. Len(Moved(path, from, to)) = Len(to) + (Len(path) - Len(from))
  BY MovedGoes
<1>3. Len(path) <= Len(from)
  BY <1>1, <1>2
<1> QED
  BY <1>3, SamePath

\* Two paths that move stay apart.
LEMMA MovedApart ==
    ASSUME NEW p \in Path, NEW q \in Path, NEW from \in Path, NEW to \in Path,
           IsPrefix(from, p), IsPrefix(from, q),
           Moved(p, from, to) = Moved(q, from, to)
    PROVE  p = q
<1>1. /\ Len(p) \in Nat /\ Len(q) \in Nat
      /\ Len(from) \in Nat /\ Len(to) \in Nat
  BY LenProperties DEF Path
<1>2. /\ Len(Moved(p, from, to)) = Len(to) + (Len(p) - Len(from))
      /\ \A i \in 1 .. Len(p) - Len(from) :
             Moved(p, from, to)[Len(to) + i] = p[Len(from) + i]
      /\ Len(Moved(q, from, to)) = Len(to) + (Len(q) - Len(from))
      /\ \A i \in 1 .. Len(q) - Len(from) :
             Moved(q, from, to)[Len(to) + i] = q[Len(from) + i]
  <2>1. /\ Len(Moved(p, from, to)) = Len(to) + (Len(p) - Len(from))
        /\ \A i \in 1 .. Len(p) - Len(from) :
               Moved(p, from, to)[Len(to) + i] = p[Len(from) + i]
    BY MovedGoes, ZenonT(40)
  <2>2. /\ Len(Moved(q, from, to)) = Len(to) + (Len(q) - Len(from))
        /\ \A i \in 1 .. Len(q) - Len(from) :
               Moved(q, from, to)[Len(to) + i] = q[Len(from) + i]
    BY MovedGoes, ZenonT(40)
  <2> QED
    BY <2>1, <2>2
<1>3. Len(p) = Len(q)
  BY <1>1, <1>2
<1>4. /\ \A i \in 1 .. Len(from) : from[i] = p[i]
      /\ \A i \in 1 .. Len(from) : from[i] = q[i]
      /\ Len(from) =< Len(p)
  BY Prefix
<1>5. \A i \in 1 .. Len(p) - Len(from) : p[Len(from) + i] = q[Len(from) + i]
  BY <1>2, <1>3
<1>6. ASSUME NEW i \in 1 .. Len(p)
      PROVE  p[i] = q[i]
  <2>1. CASE i <= Len(from)
    BY <1>1, <1>4, <2>1
  <2>2. CASE ~(i <= Len(from))
    <3>1. i - Len(from) \in 1 .. Len(p) - Len(from)
      BY <1>1, <1>4, <2>2
    <3>2. Len(from) + (i - Len(from)) = i
      BY <1>1
    <3> QED
      BY <1>5, <3>1, <3>2
  <2> QED
    BY <2>1, <2>2
<1> QED
  BY <1>3, <1>6, SeqEqual DEF Path

-----------------------------------------------------------------------------
(* Storages.                                                                *)

\* The directories D and the files F are a tree.
IsTree(D, F) ==
    /\ D \subseteq Path /\ F \subseteq Path
    /\ D \intersect F = {}
    /\ \A path \in D \union F :
           \A n \in 0 .. Len(path) - 1 : SubSeq(path, 1, n) \in D

\* What lies outside the root is what has always been there.
IsSealed(D, F) ==
    /\ {path \in D : ~InsideRoot(path)} = Outside.dirs
    /\ {path \in F : ~InsideRoot(path)} = Outside.files
    /\ Root \in D

\* Below a directory everything above a path is there when its parent is.
LEMMA ParentIsEnough ==
    ASSUME NEW D, NEW F, IsTree(D, F), NEW path \in Path, Front(path) \in D
    PROVE  \A n \in 0 .. Len(path) - 1 : SubSeq(path, 1, n) \in D
<1> SUFFICES ASSUME NEW n \in 0 .. Len(path) - 1
             PROVE  SubSeq(path, 1, n) \in D
  OBVIOUS
<1>1. Len(path) \in Nat
  BY LenProperties DEF Path
<1>2. Len(path) - 1 \in 0 .. Len(path) /\ n \in 0 .. Len(path) - 1
  BY <1>1
<1> DEFINE parent == SubSeq(path, 1, Len(path) - 1)
<1>3. parent \in D
  BY DEF Front
<1>4. parent \in Path /\ Len(parent) = Len(path) - 1
  BY <1>2, Above
<1>5. SubSeq(parent, 1, n) = SubSeq(path, 1, n)
  BY <1>2, AboveAbove
<1> HIDE DEF parent
<1>6. CASE n = Len(path) - 1
  BY <1>3, <1>6 DEF parent
<1>7. CASE n # Len(path) - 1
  <2>1. n \in 0 .. Len(parent) - 1
    BY <1>1, <1>4, <1>7
  <2>2. SubSeq(parent, 1, n) \in D
    BY <1>3, <2>1 DEF IsTree
  <2> QED
    BY <1>5, <2>2
<1> QED
  BY <1>6, <1>7

\* Everything above a path of the tree is a directory.
LEMMA AboveIsDirectory ==
    ASSUME NEW D, NEW F, IsTree(D, F), NEW path \in D \union F,
           NEW upper \in Path, IsPrefix(upper, path), upper # path
    PROVE  upper \in D
<1>1. path \in Path
  BY DEF IsTree
<1>2. Len(path) \in Nat /\ Len(upper) \in Nat
  BY <1>1, LenProperties DEF Path
<1>3. Len(upper) <= Len(path) /\ upper = SubSeq(path, 1, Len(upper))
  BY SubSeqFull DEF IsPrefix, Path
<1>4. ~(Len(path) <= Len(upper))
  BY <1>1, SamePath
<1>5. Len(upper) \in 0 .. Len(path) - 1
  BY <1>2, <1>3, <1>4
<1>6. SubSeq(path, 1, Len(upper)) \in D
  BY <1>5 DEF IsTree
<1> QED
  BY <1>3, <1>6

\* The root is a path, and everything above it was always there.
LEMMA RootFacts ==
    /\ Root \in Path
    /\ \A n \in 0 .. Len(Root) - 1 : SubSeq(Root, 1, n) \in Outside.dirs
BY RootAssumption, OutsideAssumption DEF Path

\* A new path in an old directory inside the root.
LEMMA NewPathKeeps ==
    ASSUME NEW D, NEW F, IsTree(D, F), IsSealed(D, F),
           NEW path \in Path, InsideRoot(path), Front(path) \in D
    PROVE  /\ path \notin F => /\ IsTree(D \union {path}, F)
                             /\ IsSealed(D \union {path}, F)
           /\ path \notin D => /\ IsTree(D, F \union {path})
                             /\ IsSealed(D, F \union {path})
<1>1. \A n \in 0 .. Len(path) - 1 : SubSeq(path, 1, n) \in D
  BY ParentIsEnough
<1>2. ASSUME path \notin F
      PROVE  IsTree(D \union {path}, F)
  BY <1>1, <1>2 DEF IsTree
<1>3. ASSUME path \notin D
      PROVE  IsTree(D, F \union {path})
  BY <1>1, <1>3 DEF IsTree
<1>4. /\ IsSealed(D \union {path}, F)
      /\ IsSealed(D, F \union {path})
  BY DEF IsSealed
<1> QED
  BY <1>2, <1>3, <1>4

\* The directories above a path inside the root, where no file is in the way.
LEMMA AncestorsKeep ==
    ASSUME NEW D, NEW F, IsTree(D, F), IsSealed(D, F),
           NEW path \in Path, InsideRoot(path),
           Ancestors(path) \intersect F = {}
    PROVE  /\ IsTree(D \union Ancestors(path), F)
           /\ IsSealed(D \union Ancestors(path), F)
<1>1. Len(path) \in Nat /\ Len(Root) \in Nat /\ Root \in Path
  BY RootFacts, LenProperties DEF Path
<1>2. Outside.dirs \subseteq D
  BY DEF IsSealed
\* Whatever lies above the root was there before.
<1>3. ASSUME NEW n \in 0 .. Len(path), n < Len(Root)
      PROVE  SubSeq(path, 1, n) \in Outside.dirs
  <2>1. Root = SubSeq(path, 1, Len(Root)) /\ Len(Root) \in 0 .. Len(path)
    BY <1>1, SubSeqFull DEF InsideRoot, IsPrefix, Path
  <2>2. n \in 0 .. Len(Root)
    BY <1>1, <1>3
  <2>3. SubSeq(SubSeq(path, 1, Len(Root)), 1, n) = SubSeq(path, 1, n)
    BY <2>1, <2>2, AboveAbove
  <2>4. SubSeq(path, 1, n) = SubSeq(Root, 1, n)
    BY <2>1, <2>3
  <2>5. n \in 0 .. Len(Root) - 1
    BY <1>1, <1>3
  <2> QED
    BY <2>4, <2>5, RootFacts
\* Whatever does not is inside the root.
<1>4. ASSUME NEW n \in 0 .. Len(path), ~(n < Len(Root))
      PROVE  InsideRoot(SubSeq(path, 1, n))
  <2> DEFINE upper == SubSeq(path, 1, n)
  <2>1. /\ upper \in Path /\ Len(upper) = n
        /\ \A i \in 1 .. n : upper[i] = path[i]
    BY Above
  <2>2. \A i \in 1 .. Len(Root) : Root[i] = path[i]
    BY <1>1, Prefix DEF InsideRoot
  <2> HIDE DEF upper
  <2>3. Len(Root) <= Len(upper) /\ \A i \in 1 .. Len(Root) : Root[i] = upper[i]
    BY <1>1, <1>4, <2>1, <2>2
  <2>4. IsPrefix(Root, upper)
    BY <1>1, <2>1, <2>3, Prefix
  <2> QED
    BY <2>4 DEF InsideRoot, upper
<1>5. Ancestors(path) \subseteq Path
  <2> SUFFICES ASSUME NEW n \in 1 .. Len(path) - 1
               PROVE  SubSeq(path, 1, n) \in Path
    BY DEF Ancestors
  <2>1. n \in 0 .. Len(path)
    BY <1>1
  <2> QED
    BY <2>1, Above
<1>6. ASSUME NEW other \in Ancestors(path), NEW m \in 0 .. Len(other) - 1
      PROVE  SubSeq(other, 1, m) \in D \union Ancestors(path)
  <2>1. PICK n \in 1 .. Len(path) - 1 : other = SubSeq(path, 1, n)
    BY DEF Ancestors
  <2>2. n \in 0 .. Len(path)
    BY <1>1
  <2>3. Len(other) = n
    BY <2>1, <2>2, Above
  <2>4. m \in 0 .. n /\ m \in 0 .. Len(path)
    BY <1>1, <2>3
  <2>5. SubSeq(other, 1, m) = SubSeq(path, 1, m)
    BY <2>1, <2>2, <2>4, AboveAbove
  <2>6. CASE m < Len(Root)
    BY <1>2, <1>3, <2>4, <2>5, <2>6
  <2>7. CASE ~(m < Len(Root))
    <3>1. Len(Root) # 0
      BY RootAssumption, <1>1, EmptySeq DEF Path
    <3>2. m \in 1 .. Len(path) - 1
      BY <1>1, <2>3, <2>4, <2>7, <3>1
    <3> QED
      BY <2>5, <3>2 DEF Ancestors
  <2> QED
    BY <2>6, <2>7
<1>7. IsTree(D \union Ancestors(path), F)
  BY <1>5, <1>6 DEF IsTree
<1>8. \A other \in Ancestors(path) :
          ~InsideRoot(other) => other \in Outside.dirs
  <2> SUFFICES ASSUME NEW n \in 1 .. Len(path) - 1,
                      ~InsideRoot(SubSeq(path, 1, n))
               PROVE  SubSeq(path, 1, n) \in Outside.dirs
    BY DEF Ancestors
  <2>1. n \in 0 .. Len(path)
    BY <1>1
  <2> QED
    BY <1>3, <1>4, <2>1
<1>9. IsSealed(D \union Ancestors(path), F)
  BY <1>8 DEF IsSealed
<1> QED
  BY <1>7, <1>9

\* A file, or a directory with nothing below it, goes.
LEMMA RemovalKeeps ==
    ASSUME NEW D, NEW F, IsTree(D, F), IsSealed(D, F),
           NEW path \in Path, InsideRoot(path), path # Root,
           \/ path \in F
           \/ \A other \in D \union F : ~IsStrictPrefix(path, other)
    PROVE  IsTree(D \ {path}, F \ {path}) /\ IsSealed(D \ {path}, F \ {path})
<1>1. ASSUME NEW other \in (D \ {path}) \union (F \ {path}),
             NEW n \in 0 .. Len(other) - 1
      PROVE  SubSeq(other, 1, n) \in D \ {path}
  <2>1. other \in Path /\ SubSeq(other, 1, n) \in D
    BY DEF IsTree
  <2>2. n \in 0 .. Len(other)
    BY <2>1, LenProperties DEF Path
  <2>3. ASSUME SubSeq(other, 1, n) = path
        PROVE  FALSE
    <3>1. path \notin F
      BY <2>1, <2>3 DEF IsTree
    <3>2. IsPrefix(path, other)
      BY <2>1, <2>2, <2>3, AboveIsPrefix
    <3> QED
      BY <3>1, <3>2 DEF IsStrictPrefix
  <2> QED
    BY <2>1, <2>3
<1>2. IsTree(D \ {path}, F \ {path})
  BY <1>1 DEF IsTree
<1>3. IsSealed(D \ {path}, F \ {path})
  BY DEF IsSealed
<1> QED
  BY <1>2, <1>3

\* A renamed path is where fs::rename may put it: a file not on a directory, a
\* directory not on a file nor on a directory that is not empty.
RenameFits(D, F, from, to) ==
    \/ from \in F /\ to \notin D
    \/ /\ from \in D /\ to \notin F
       /\ \A other \in D \union F : ~IsStrictPrefix(to, other)

\* What moves does not land on what stays.
LEMMA MovedLandsFree ==
    ASSUME NEW D, NEW F, IsTree(D, F), NEW from \in Path, NEW to \in Path,
           RenameFits(D, F, from, to),
           NEW gone \in D \union F, IsPrefix(from, gone),
           NEW other \in D \union F, other = Moved(gone, from, to)
    PROVE  gone = from /\ (from \in D <=> other \in D)
<1>1. gone \in Path /\ other \in Path
  BY DEF IsTree
<1>2. IsPrefix(to, other)
  BY <1>1, MovedIsBelow
<1>3. other = to
  <2> SUFFICES ASSUME other # to PROVE FALSE
    OBVIOUS
  <2>1. to \in D
    BY <1>2, AboveIsDirectory
  <2> QED
    BY <1>2, <2>1 DEF RenameFits, IsStrictPrefix
<1>4. gone = from
  BY <1>1, <1>3, MovedToTop
<1> QED
  BY <1>3, <1>4 DEF RenameFits, IsTree

LEMMA MovedAreDisjoint ==
    ASSUME NEW D, NEW F, IsTree(D, F), NEW from \in Path, NEW to \in Path,
           RenameFits(D, F, from, to),
           NEW d \in D, NEW f \in F
    PROVE  Moved(d, from, to) # Moved(f, from, to)
<1> SUFFICES ASSUME Moved(d, from, to) = Moved(f, from, to) PROVE FALSE
  OBVIOUS
<1>1. d \in Path /\ f \in Path /\ d # f /\ d \notin F /\ f \notin D
  BY DEF IsTree
<1>2. CASE IsPrefix(from, d) /\ IsPrefix(from, f)
  BY <1>1, <1>2, MovedApart
<1>3. CASE ~IsPrefix(from, d) /\ ~IsPrefix(from, f)
  BY <1>1, <1>3, MovedStays
<1>4. CASE IsPrefix(from, d) /\ ~IsPrefix(from, f)
  <2>1. f = Moved(d, from, to)
    BY <1>4, MovedStays
  <2>2. d = from /\ (from \in D <=> f \in D)
    BY <1>4, <2>1, MovedLandsFree
  <2> QED
    BY <1>1, <2>2
<1>5. CASE ~IsPrefix(from, d) /\ IsPrefix(from, f)
  <2>1. d = Moved(f, from, to)
    BY <1>5, MovedStays
  <2>2. f = from /\ (from \in D <=> d \in D)
    BY <1>5, <2>1, MovedLandsFree
  <2> QED
    BY <1>1, <2>2
<1> QED
  BY <1>2, <1>3, <1>4, <1>5

\* The directories above a path that has moved: above the new name they are
\* the old ones, below it they have moved along.
LEMMA AboveMoved ==
    ASSUME NEW D, NEW F, IsTree(D, F), NEW from \in Path, NEW to \in Path,
           Front(to) \in D, ~IsPrefix(from, to),
           NEW path \in D \union F, IsPrefix(from, path),
           NEW n \in 0 .. Len(Moved(path, from, to)) - 1
    PROVE  \E upper \in D :
               SubSeq(Moved(path, from, to), 1, n) = Moved(upper, from, to)
<1> DEFINE moved == Moved(path, from, to)
<1>1. path \in Path
  BY DEF IsTree
<1>2. Len(path) \in Nat /\ Len(from) \in Nat /\ Len(to) \in Nat
  BY <1>1, LenProperties DEF Path
<1>3. Len(from) <= Len(path) /\ \A i \in 1 .. Len(from) : from[i] = path[i]
  BY <1>1, Prefix
<1>4. /\ moved \in Path
      /\ Len(moved) = Len(to) + (Len(path) - Len(from))
      /\ \A i \in 1 .. Len(to) : moved[i] = to[i]
      /\ \A i \in 1 .. Len(path) - Len(from) :
             moved[Len(to) + i] = path[Len(from) + i]
  BY <1>1, MovedGoes
<1>5. n \in 0 .. Len(moved) - 1
  OBVIOUS
<1> HIDE DEF moved
<1>6. n \in 0 .. Len(moved) /\ n \in Nat
  BY <1>2, <1>3, <1>4, <1>5
<1>7. /\ SubSeq(moved, 1, n) \in Path /\ Len(SubSeq(moved, 1, n)) = n
      /\ \A i \in 1 .. n : SubSeq(moved, 1, n)[i] = moved[i]
  BY <1>4, <1>6, Above
<1>8. CASE n < Len(to)
  <2>1. n \in 0 .. Len(to) - 1 /\ n \in 0 .. Len(to)
    BY <1>2, <1>6, <1>8
  <2> DEFINE upper == SubSeq(to, 1, n)
  <2>2. upper \in D
    BY <2>1, ParentIsEnough
  <2>3. /\ upper \in Path /\ Len(upper) = n
        /\ \A i \in 1 .. n : upper[i] = to[i]
    BY <2>1, Above
  <2>4. IsPrefix(upper, to)
    BY <2>1, AboveIsPrefix
  <2> HIDE DEF upper
  <2>5. ~IsPrefix(from, upper)
    BY <2>3, <2>4, PrefixTransitive
  <2>6. Moved(upper, from, to) = upper
    BY <2>5, MovedStays
  <2>7. \A i \in 1 .. n : SubSeq(moved, 1, n)[i] = upper[i]
    BY <1>2, <1>4, <1>7, <1>8, <2>1, <2>3
  <2>8. SubSeq(moved, 1, n) = upper
    BY <1>7, <2>3, <2>7, SeqEqual DEF Path
  <2> QED
    BY <2>2, <2>6, <2>8 DEF moved
<1>9. CASE ~(n < Len(to))
  <2> DEFINE m == Len(from) + (n - Len(to))
             upper == SubSeq(path, 1, m)
  <2>1. m \in 0 .. Len(path) - 1 /\ m \in 0 .. Len(path) /\ Len(from) <= m
    BY <1>2, <1>3, <1>4, <1>5, <1>6, <1>9
  <2>2. upper \in D
    BY <2>1 DEF IsTree
  <2>3. /\ upper \in Path /\ Len(upper) = m
        /\ \A i \in 1 .. m : upper[i] = path[i]
    BY <1>1, <2>1, Above
  <2> HIDE DEF upper
  <2>4. \A i \in 1 .. Len(from) : from[i] = upper[i]
    BY <1>2, <1>3, <2>1, <2>3
  <2>5. IsPrefix(from, upper)
    BY <1>2, <2>1, <2>3, <2>4, Prefix
  <2> DEFINE there == Moved(upper, from, to)
  <2>6. /\ there \in Path
        /\ Len(there) = Len(to) + (Len(upper) - Len(from))
        /\ \A i \in 1 .. Len(to) : there[i] = to[i]
        /\ \A i \in 1 .. Len(upper) - Len(from) :
               there[Len(to) + i] = upper[Len(from) + i]
    BY <2>3, <2>5, MovedGoes
  <2> HIDE DEF there
  <2>7. Len(there) = n
    BY <1>2, <1>6, <2>3, <2>6
  <2>8. ASSUME NEW i \in 1 .. n
        PROVE  SubSeq(moved, 1, n)[i] = there[i]
    <3>1. SubSeq(moved, 1, n)[i] = moved[i]
      BY <1>7
    <3>2. CASE i <= Len(to)
      BY <1>2, <1>4, <2>6, <3>1, <3>2
    <3>3. CASE ~(i <= Len(to))
      <4> DEFINE j == i - Len(to)
      <4>1. /\ j \in 1 .. Len(upper) - Len(from)
            /\ j \in 1 .. Len(path) - Len(from)
            /\ Len(from) + j \in 1 .. m
            /\ Len(to) + j = i
        BY <1>2, <1>6, <2>1, <2>3, <3>3
      <4> HIDE DEF j
      <4>2. moved[i] = path[Len(from) + j]
        BY <1>4, <4>1
      <4>3. there[i] = upper[Len(from) + j]
        BY <2>6, <4>1
      <4>4. upper[Len(from) + j] = path[Len(from) + j]
        BY <2>3, <4>1
      <4> QED
        BY <3>1, <4>2, <4>3, <4>4
    <3> QED
      BY <3>2, <3>3
  <2>9. SubSeq(moved, 1, n) = there
    BY <1>7, <2>6, <2>7, <2>8, SeqEqual DEF Path
  <2> QED
    BY <2>2, <2>9 DEF moved, there
<1> QED
  BY <1>8, <1>9

\* A rename within the root leaves a tree, and all outside the root alone.
LEMMA RenameKeeps ==
    ASSUME NEW D, NEW F, IsTree(D, F), IsSealed(D, F),
           NEW from \in Path, NEW to \in Path,
           InsideRoot(from), from # Root, InsideRoot(to),
           Front(to) \in D, ~IsPrefix(from, to), RenameFits(D, F, from, to)
    PROVE  /\ IsTree({Moved(path, from, to) : path \in D},
                     {Moved(path, from, to) : path \in F})
           /\ IsSealed({Moved(path, from, to) : path \in D},
                       {Moved(path, from, to) : path \in F})
<1> DEFINE D1 == {Moved(path, from, to) : path \in D}
           F1 == {Moved(path, from, to) : path \in F}
<1>1. D \subseteq Path /\ F \subseteq Path /\ Root \in Path
  BY RootFacts DEF IsTree
<1>2. D1 \subseteq Path /\ F1 \subseteq Path
  BY <1>1, MovedIsPath
<1>3. D1 \intersect F1 = {}
  BY MovedAreDisjoint
<1>4. ASSUME NEW path \in D \union F,
             NEW n \in 0 .. Len(Moved(path, from, to)) - 1
      PROVE  SubSeq(Moved(path, from, to), 1, n) \in D1
  <2>1. CASE IsPrefix(from, path)
    BY <2>1, AboveMoved
  <2>2. CASE ~IsPrefix(from, path)
    <3>1. Moved(path, from, to) = path /\ path \in Path
      BY <1>1, <2>2, MovedStays
    <3>2. n \in 0 .. Len(path) - 1 /\ n \in 0 .. Len(path)
      BY <3>1, LenProperties DEF Path
    <3> DEFINE upper == SubSeq(path, 1, n)
    <3>3. upper \in D
      BY <3>2 DEF IsTree
    <3>4. IsPrefix(upper, path)
      BY <3>1, <3>2, AboveIsPrefix
    <3> HIDE DEF upper
    <3>5. ~IsPrefix(from, upper)
      BY <1>1, <2>2, <3>1, <3>3, <3>4, PrefixTransitive
    <3>6. Moved(upper, from, to) = upper
      BY <3>5, MovedStays
    <3>7. upper \in D1
      BY <3>3, <3>6
    <3> QED
      BY <3>1, <3>7 DEF upper
  <2> QED
    BY <2>1, <2>2
<1>5. IsTree(D1, F1)
  BY <1>2, <1>3, <1>4 DEF IsTree
\* What moves was inside the root and comes to lie inside it.
<1>6. ASSUME NEW path \in D \union F, IsPrefix(from, path)
      PROVE  InsideRoot(path) /\ InsideRoot(Moved(path, from, to))
  <2>1. path \in Path
    BY <1>1
  <2>2. Moved(path, from, to) \in Path /\ IsPrefix(to, Moved(path, from, to))
    BY <1>6, <2>1, MovedIsPath, MovedIsBelow
  <2>3. IsPrefix(Root, path)
    BY <1>1, <1>6, <2>1, PrefixTransitive DEF InsideRoot
  <2>4. IsPrefix(Root, Moved(path, from, to))
    BY <1>1, <2>2, PrefixTransitive DEF InsideRoot
  <2> QED
    BY <2>3, <2>4 DEF InsideRoot
<1>7. ASSUME NEW path \in D \union F
      PROVE  ~InsideRoot(Moved(path, from, to)) \/ ~InsideRoot(path)
                 => Moved(path, from, to) = path
  BY <1>6, MovedStays
<1>8. /\ {path \in D1 : ~InsideRoot(path)} = {path \in D : ~InsideRoot(path)}
      /\ {path \in F1 : ~InsideRoot(path)} = {path \in F : ~InsideRoot(path)}
  BY <1>7
<1>9. ~IsPrefix(from, Root)
  <2> SUFFICES ASSUME IsPrefix(from, Root) PROVE FALSE
    OBVIOUS
  <2>1. Len(from) <= Len(Root)
    BY DEF IsPrefix
  <2>2. Root = from
    BY <1>1, <2>1, SamePath DEF InsideRoot
  <2> QED
    BY <2>2
<1>10. Root \in D1
  <2>1. Root \in D /\ Moved(Root, from, to) = Root
    BY <1>9, MovedStays DEF IsSealed
  <2> QED
    BY <2>1
<1>11. IsSealed(D1, F1)
  BY <1>8, <1>10 DEF IsSealed
<1> QED
  BY <1>5, <1>11

-----------------------------------------------------------------------------
(* The specification.                                                       *)

\* A plan was compared with the root when it was made.
PlanInside(plan) ==
    /\ plan.op # "idle" => InsideRoot(plan.to)
    /\ plan.op = "remove" => plan.to # Root
    /\ plan.op = "rename" => InsideRoot(plan.from) /\ plan.from # Root

IndInv == /\ TypeOK
          /\ IsSealed(dirs, files)
          /\ \A session \in Session : PlanInside(pending[session])

LEMMA TreeIsTree == /\ Tree <=> IsTree(dirs, files)
                    /\ Tree' <=> IsTree(dirs', files')
BY DEF Tree, IsTree, Path

\* The storage begins as it is outside the root, with the root added.
LEMMA InitKeeps == Init => IndInv
<1> SUFFICES ASSUME Init PROVE IndInv
  OBVIOUS
<1>1. Root \in Path /\ InsideRoot(Root)
  BY RootFacts, LenProperties DEF InsideRoot, IsPrefix, Path
<1>2. \A path \in Outside.dirs \union Outside.files : ~InsideRoot(path)
  BY OutsideAssumption DEF InsideRoot
<1>3. IsSealed(dirs, files)
  BY <1>1, <1>2 DEF Init, IsSealed
<1>4. Root \notin Outside.files
  BY <1>1, <1>2
<1>5. IsTree(dirs, files)
  BY <1>1, <1>4, OutsideAssumption DEF Init, IsTree, Path
<1>6. Idle \in Plan /\ PlanInside(Idle)
  BY EmptySeq DEF Idle, PlanFor, Plan, PlanInside
<1>7. /\ pending \in [Session -> Plan]
      /\ \A session \in Session : PlanInside(pending[session])
  BY <1>6 DEF Init
<1>8. \A session \in Session : Cardinality(renameFrom[session]) <= 1
  BY FS_EmptySet DEF Init
<1>9. commands \in 0 .. MaxCommands
  BY BoundsAssumption DEF Init
<1>10. TypeOK
  BY <1>1, <1>5, <1>7, <1>8, <1>9, TreeIsTree DEF Init, TypeOK, Path
<1> QED
  BY <1>3, <1>7, <1>10 DEF IndInv

LEMMA AncestorsStep ==
    ASSUME IsTree(dirs, files), IsSealed(dirs, files),
           NEW path \in Path, InsideRoot(path)
    PROVE  /\ IsTree(WithAncestors(path), files)
           /\ IsSealed(WithAncestors(path), files)
BY AncestorsKeep DEF WithAncestors

\* What a session does to the storage when it looks.
LEMMA LooksKeepStorage ==
    ASSUME IndInv, NEW session \in Session, Looks(session)
    PROVE  IsTree(dirs', files') /\ IsSealed(dirs', files')
<1>1. IsTree(dirs, files) /\ IsSealed(dirs, files)
  BY TreeIsTree DEF IndInv, TypeOK
<1>2. PICK argument \in Arguments :
          \/ ChangeDirectory(session, argument)
          \/ CreateDirectory(session, argument)
          \/ LookForDirectory(session, argument)
          \/ \E op \in {"remove", "retrieve"} :
                 LookForFile(session, argument, op)
          \/ RenameFrom(session, argument)
          \/ LookForRename(session, argument)
          \/ BeginStor(session, argument)
          \/ BeginStou(session, argument)
  BY DEF Looks
<1>3. CASE dirs' = dirs /\ files' = files
  BY <1>1, <1>3
<1>4. CASE CreateDirectory(session, argument)
  <2> DEFINE target == Resolve(session, argument)
  <2>1. /\ InsideRoot(target) /\ target \in Path
        /\ target \notin files /\ Front(target) \in dirs
        /\ dirs' = dirs \union {target} /\ files' = files
    BY <1>4 DEF CreateDirectory, WithinDepth, Exists, Parent, Path
  <2> HIDE DEF target
  <2> QED
    BY <1>1, <2>1, NewPathKeeps
<1>5. ASSUME NEW op, NEW target, BeginsUpload(session, op, target)
      PROVE  IsTree(dirs', files') /\ IsSealed(dirs', files')
  <2>1. /\ InsideRoot(target) /\ target \in Path
        /\ dirs' = WithAncestors(target) /\ files' = files
    BY <1>5 DEF BeginsUpload, WithinDepth, Path
  <2> QED
    BY <1>1, <2>1, AncestorsStep
<1>6. CASE BeginStor(session, argument) \/ BeginStou(session, argument)
  BY <1>5, <1>6 DEF BeginStor, BeginStou
<1>7. \/ ChangeDirectory(session, argument)
      \/ LookForDirectory(session, argument)
      \/ \E op \in {"remove", "retrieve"} : LookForFile(session, argument, op)
      \/ RenameFrom(session, argument)
      \/ LookForRename(session, argument)
      => dirs' = dirs /\ files' = files
  BY DEF ChangeDirectory, LookForDirectory, LookForFile, RenameFrom,
         LookForRename
<1> QED
  BY <1>2, <1>3, <1>4, <1>6, <1>7

\* What a session does to the storage when it acts.
LEMMA ActsKeepStorage ==
    ASSUME IndInv, NEW session \in Session, Acts(session)
    PROVE  IsTree(dirs', files') /\ IsSealed(dirs', files')
<1>1. IsTree(dirs, files) /\ IsSealed(dirs, files)
  BY TreeIsTree DEF IndInv, TypeOK
<1> DEFINE from == pending[session].from
           to   == pending[session].to
<1>2. from \in Path /\ to \in Path
  BY DEF IndInv, TypeOK, Plan, Path
<1>3. PlanInside(pending[session])
  BY DEF IndInv
<1>4. CASE dirs' = dirs /\ files' = files
  BY <1>1, <1>4
<1>5. CASE RemovePath(session)
  <2>1. InsideRoot(to) /\ to # Root
    BY <1>3, <1>5 DEF RemovePath, PlanInside
  <2>2. CASE /\ to \in files \/ Below(to) = {}
             /\ files' = files \ {to} /\ dirs' = dirs \ {to}
    <3>1. \/ to \in files
          \/ \A other \in dirs \union files : ~IsStrictPrefix(to, other)
      BY <2>2 DEF Below
    <3> HIDE DEF to
    <3> QED
      BY <1>1, <1>2, <2>1, <2>2, <3>1, RemovalKeeps
  <2> QED
    BY <1>4, <1>5, <2>2 DEF RemovePath
<1>6. CASE Rename(session)
  <2>1. InsideRoot(to) /\ InsideRoot(from) /\ from # Root
    BY <1>3, <1>6 DEF Rename, PlanInside
  <2>2. CASE /\ RenameSucceeds(from, to)
             /\ files' = {Moved(path, from, to) : path \in files}
             /\ dirs' = {Moved(path, from, to) : path \in dirs}
    <3>1. /\ Front(to) \in dirs /\ ~IsPrefix(from, to)
          /\ RenameFits(dirs, files, from, to)
      BY <2>2 DEF RenameSucceeds, RenameFits, Parent, Below
    <3> HIDE DEF to, from
    <3> QED
      BY <1>1, <1>2, <2>1, <2>2, <3>1, RenameKeeps
  <2> QED
    BY <1>4, <1>6, <2>2 DEF Rename
<1>7. CASE MakeWay(session)
  <2>1. InsideRoot(to) /\ dirs' = WithAncestors(to) /\ files' = files
    BY <1>3, <1>7 DEF MakeWay, PlanInside
  <2> HIDE DEF to
  <2> QED
    BY <1>1, <1>2, <2>1, AncestorsStep
<1>8. CASE WriteFile(session)
  <2>1. InsideRoot(to) /\ dirs' = dirs
    BY <1>3, <1>8 DEF WriteFile, Uploading, PlanInside
  <2>2. CASE Front(to) \in dirs /\ to \notin dirs
    <3>1. files' = files \union {to}
      BY <1>8, <2>2 DEF WriteFile, Parent
    <3> HIDE DEF to
    <3> QED
      BY <1>1, <1>2, <2>1, <2>2, <3>1, NewPathKeeps
  <2>3. CASE ~(Front(to) \in dirs /\ to \notin dirs)
    BY <1>1, <1>8, <2>1, <2>3 DEF WriteFile, Parent
  <2> QED
    BY <2>2, <2>3
<1>9. CASE AbandonUpload(session)
  BY <1>4, <1>9 DEF AbandonUpload
<1> QED
  BY <1>5, <1>6, <1>7, <1>8, <1>9 DEF Acts

\* What a session keeps of its own.
Sessions ==
    /\ current \in [Session -> Seq(STRING)]
    /\ \A session \in Session : InsideRoot(current[session])
    /\ renameFrom \in [Session -> SUBSET Arguments]
    /\ \A session \in Session : Cardinality(renameFrom[session]) <= 1
    /\ pending \in [Session -> Plan]
    /\ \A session \in Session : PlanInside(pending[session])
    /\ disturbed \subseteq Session
    /\ commands \in 0 .. MaxCommands

LEMMA Parts == /\ IndInv <=> Tree /\ IsSealed(dirs, files) /\ Sessions
               /\ IndInv' <=> Tree' /\ IsSealed(dirs', files') /\ Sessions'
BY DEF IndInv, TypeOK, Sessions, IsSealed, InsideRoot, PlanInside

\* A command gives the session at most a new plan, which is inside the root.
LEMMA CommandKeepsSessions ==
    ASSUME Sessions, NEW session \in Session, NEW plan \in Plan,
           PlanInside(plan),
           commands < MaxCommands, commands' = commands + 1,
           current' = current, disturbed' \subseteq Session,
           \/ pending' = pending
           \/ pending' = [pending EXCEPT ![session] = plan],
           \/ EndsRename(session)
           \/ \E argument \in Arguments :
                  renameFrom' = [renameFrom EXCEPT ![session] = {argument}]
    PROVE  Sessions'
<1>1. commands' \in 0 .. MaxCommands
  BY BoundsAssumption DEF Sessions
<1>2. /\ current' \in [Session -> Seq(STRING)]
      /\ \A other \in Session : InsideRoot(current'[other])
  BY DEF Sessions
<1>3. /\ pending' \in [Session -> Plan]
      /\ \A other \in Session : PlanInside(pending'[other])
  BY DEF Sessions
<1>4. ASSUME NEW told \in SUBSET Arguments, Cardinality(told) <= 1,
             renameFrom' = [renameFrom EXCEPT ![session] = told]
      PROVE  /\ renameFrom' \in [Session -> SUBSET Arguments]
             /\ \A other \in Session : Cardinality(renameFrom'[other]) <= 1
  BY <1>4 DEF Sessions
<1>5. Cardinality({}) <= 1
  <2>1. Cardinality({}) = 0
    BY FS_EmptySet
  <2> QED
    BY <2>1
<1>6. /\ renameFrom' \in [Session -> SUBSET Arguments]
      /\ \A other \in Session : Cardinality(renameFrom'[other]) <= 1
  <2>1. CASE EndsRename(session)
    <3>1. {} \in SUBSET Arguments
      OBVIOUS
    <3> QED
      BY <1>4, <1>5, <2>1, <3>1 DEF EndsRename
  <2>2. ASSUME NEW argument \in Arguments,
               renameFrom' = [renameFrom EXCEPT ![session] = {argument}]
        PROVE  /\ renameFrom' \in [Session -> SUBSET Arguments]
               /\ \A other \in Session : Cardinality(renameFrom'[other]) <= 1
    <3>1. Cardinality({argument}) = 1
      BY FS_Singleton
    <3>2. Cardinality({argument}) <= 1
      BY <3>1
    <3>3. {argument} \in SUBSET Arguments
      OBVIOUS
    <3> QED
      BY <1>4, <2>2, <3>2, <3>3
  <2> QED
    BY <2>1, <2>2
<1> QED
  BY <1>1, <1>2, <1>3, <1>6 DEF Sessions, PlanInside, InsideRoot

\* A plan to do something at one path only.
LEMMA SinglePlan ==
    ASSUME NEW op \in {"remove", "retrieve", "store", "unique"},
           NEW target \in Path, InsideRoot(target),
           op = "remove" => target # Root
    PROVE  PlanFor(op, target) \in Plan /\ PlanInside(PlanFor(op, target))
BY EmptySeq DEF PlanFor, Plan, Path, PlanInside

LEMMA LooksKeepSessions ==
    ASSUME IndInv, NEW session \in Session, Looks(session)
    PROVE  Sessions'
<1>1. Sessions /\ IsTree(dirs, files) /\ IsSealed(dirs, files)
  BY Parts, TreeIsTree
<1>2. PICK argument \in Arguments :
          \/ ChangeDirectory(session, argument)
          \/ CreateDirectory(session, argument)
          \/ LookForDirectory(session, argument)
          \/ \E op \in {"remove", "retrieve"} :
                 LookForFile(session, argument, op)
          \/ RenameFrom(session, argument)
          \/ LookForRename(session, argument)
          \/ BeginStor(session, argument)
          \/ BeginStou(session, argument)
  BY DEF Looks
<1> DEFINE target == Resolve(session, argument)
<1>3. Idle \in Plan /\ PlanInside(Idle) /\ disturbed \subseteq Session
  BY <1>1, EmptySeq DEF Idle, PlanFor, Plan, PlanInside, Sessions
<1>4. CASE ChangeDirectory(session, argument)
  <2>1. /\ InsideRoot(target) /\ target \in dirs
        /\ current' = [current EXCEPT ![session] = target]
        /\ commands < MaxCommands /\ commands' = commands + 1
        /\ renameFrom' = [renameFrom EXCEPT ![session] = {}]
        /\ pending' = pending /\ disturbed' = disturbed
    BY <1>4 DEF ChangeDirectory, Free, EndsRename
  <2>2. target \in Seq(STRING)
    BY <1>1, <2>1 DEF IsTree, Path
  <2> HIDE DEF target
  <2>3. /\ current' \in [Session -> Seq(STRING)]
        /\ \A other \in Session : InsideRoot(current'[other])
    BY <1>1, <2>1, <2>2 DEF Sessions
  <2>4. commands' \in 0 .. MaxCommands
    BY <1>1, <2>1, BoundsAssumption DEF Sessions
  <2>5. /\ renameFrom' \in [Session -> SUBSET Arguments]
        /\ \A other \in Session : Cardinality(renameFrom'[other]) <= 1
    BY <1>1, <2>1, FS_EmptySet DEF Sessions
  <2> QED
    BY <1>1, <2>1, <2>3, <2>4, <2>5 DEF Sessions, PlanInside, InsideRoot
<1>5. CASE CreateDirectory(session, argument)
  <2>1. disturbed' \subseteq Session
    BY <1>3, <1>5 DEF CreateDirectory, Disturbs
  <2> QED
    BY <1>1, <1>3, <1>5, <2>1, CommandKeepsSessions DEF CreateDirectory, Free
<1>6. CASE LookForDirectory(session, argument)
  <2>1. InsideRoot(target) /\ target # Root /\ target \in Path
    BY <1>1, <1>6 DEF LookForDirectory, Removable, IsTree
  <2> DEFINE plan == PlanFor("remove", target)
  <2>2. plan \in Plan /\ PlanInside(plan)
    BY <2>1, SinglePlan
  <2>3. /\ pending' = [pending EXCEPT ![session] = plan]
        /\ disturbed' \subseteq Session
        /\ commands < MaxCommands /\ commands' = commands + 1
        /\ current' = current /\ EndsRename(session)
    BY <1>3, <1>6 DEF LookForDirectory, Plans, Free
  <2> HIDE DEF plan
  <2> QED
    BY <1>1, <2>2, <2>3, CommandKeepsSessions
<1>7. ASSUME NEW op \in {"remove", "retrieve"},
             LookForFile(session, argument, op)
      PROVE  Sessions'
  <2>1. InsideRoot(target) /\ target # Root /\ target \in Path
    BY <1>1, <1>7 DEF LookForFile, IsTree, IsSealed
  <2> DEFINE plan == PlanFor(op, target)
  <2>2. plan \in Plan /\ PlanInside(plan)
    BY <2>1, SinglePlan
  <2>3. /\ pending' = [pending EXCEPT ![session] = plan]
        /\ disturbed' \subseteq Session
        /\ commands < MaxCommands /\ commands' = commands + 1
        /\ current' = current /\ EndsRename(session)
    BY <1>3, <1>7 DEF LookForFile, Plans, Free
  <2> HIDE DEF plan
  <2> QED
    BY <1>1, <2>2, <2>3, CommandKeepsSessions
<1>8. CASE RenameFrom(session, argument)
  BY <1>1, <1>3, <1>8, CommandKeepsSessions DEF RenameFrom, Free
<1>9. CASE LookForRename(session, argument)
  <2>1. PICK from \in renameFrom[session] :
            LET source == Resolve(session, from)
            IN  /\ Free(session) /\ EndsRename(session)
                /\ \/ /\ MayRename(session, source, target)
                      /\ Plans(session, [op |-> "rename", from |-> source,
                                         to |-> target])
                   \/ UNCHANGED <<pending, disturbed>>
                /\ current' = current
    BY <1>9 DEF LookForRename
  <2> DEFINE source == Resolve(session, from)
             plan   == [op |-> "rename", from |-> source, to |-> target]
  <2>2. /\ commands < MaxCommands /\ commands' = commands + 1
        /\ current' = current /\ EndsRename(session)
    BY <2>1 DEF Free
  <2>3. CASE MayRename(session, source, target) /\ Plans(session, plan)
    <3>1. /\ source \in Path /\ target \in Path
          /\ InsideRoot(source) /\ source # Root /\ InsideRoot(target)
      BY <1>1, <2>3
         DEF MayRename, CanRename, Exists, WithinDepth, IsTree, Path
    <3> HIDE DEF source, target
    <3>2. plan \in Plan /\ PlanInside(plan)
      BY <3>1 DEF Plan, PlanInside, Path
    <3>3. /\ pending' = [pending EXCEPT ![session] = plan]
          /\ disturbed' \subseteq Session
      BY <1>3, <2>3 DEF Plans
    <3> HIDE DEF plan
    <3> QED
      BY <1>1, <2>2, <3>2, <3>3, CommandKeepsSessions
  <2>4. CASE UNCHANGED <<pending, disturbed>>
    BY <1>1, <1>3, <2>2, <2>4, CommandKeepsSessions
  <2> QED
    BY <2>1, <2>3, <2>4
<1>10. ASSUME NEW op \in {"store", "unique"}, NEW path,
              BeginsUpload(session, op, path)
       PROVE  Sessions'
  <2>1. InsideRoot(path) /\ path \in Path
    BY <1>10 DEF BeginsUpload, WithinDepth, Path
  <2> DEFINE plan == PlanFor(op, path)
  <2>2. plan \in Plan /\ PlanInside(plan)
    BY <2>1, SinglePlan
  <2>3. /\ pending' = [pending EXCEPT ![session] = plan]
        /\ disturbed' \subseteq Session
        /\ commands < MaxCommands /\ commands' = commands + 1
        /\ current' = current /\ EndsRename(session)
    BY <1>3, <1>10 DEF BeginsUpload, Free
  <2> HIDE DEF plan
  <2> QED
    BY <1>1, <2>2, <2>3, CommandKeepsSessions
<1>11. CASE BeginStor(session, argument) \/ BeginStou(session, argument)
  BY <1>10, <1>11 DEF BeginStor, BeginStou
<1> QED
  BY <1>2, <1>4, <1>5, <1>6, <1>7, <1>8, <1>9, <1>11

LEMMA ActsKeepSessions ==
    ASSUME IndInv, NEW session \in Session, Acts(session)
    PROVE  Sessions'
<1>1. Sessions
  BY Parts
<1>2. Done(session)
  BY DEF Acts, RemovePath, Rename, MakeWay, WriteFile, AbandonUpload
<1>3. Idle \in Plan /\ PlanInside(Idle)
  BY EmptySeq DEF Idle, PlanFor, Plan, PlanInside
<1>4. /\ pending' \in [Session -> Plan]
      /\ \A other \in Session : PlanInside(pending'[other])
  BY <1>1, <1>2, <1>3 DEF Done, Sessions
<1>5. disturbed' \subseteq Session
  BY <1>1, <1>2 DEF Done, Sessions
<1>6. current' = current /\ renameFrom' = renameFrom /\ commands' = commands
  BY <1>2 DEF Done
<1> QED
  BY <1>1, <1>4, <1>5, <1>6 DEF Sessions, PlanInside, InsideRoot

LEMMA Inductive == IndInv /\ [Next]_vars => IndInv'
<1> SUFFICES ASSUME IndInv, [Next]_vars PROVE IndInv'
  OBVIOUS
<1>1. Sessions /\ IsTree(dirs, files) /\ IsSealed(dirs, files)
  BY Parts, TreeIsTree
<1>2. ASSUME NEW session \in Session, Looks(session)
      PROVE  IndInv'
  BY <1>2, LooksKeepStorage, LooksKeepSessions, Parts, TreeIsTree
<1>3. ASSUME NEW session \in Session, Acts(session)
      PROVE  IndInv'
  BY <1>3, ActsKeepStorage, ActsKeepSessions, Parts, TreeIsTree
<1>4. ASSUME NEW session \in Session, OtherCommand(session)
      PROVE  IndInv'
  <2>1. IsTree(dirs', files') /\ IsSealed(dirs', files')
    BY <1>1, <1>4 DEF OtherCommand
  <2>2. Idle \in Plan /\ PlanInside(Idle) /\ disturbed \subseteq Session
    BY <1>1, EmptySeq DEF Idle, PlanFor, Plan, PlanInside, Sessions
  <2>3. Sessions'
    BY <1>1, <1>4, <2>2, CommandKeepsSessions DEF OtherCommand, Free
  <2> QED
    BY <2>1, <2>3, Parts, TreeIsTree
<1>5. CASE UNCHANGED vars
  <2>1. IsTree(dirs', files') /\ IsSealed(dirs', files')
    BY <1>1, <1>5 DEF vars
  <2>2. Sessions'
    BY <1>1, <1>5 DEF vars, Sessions, PlanInside, InsideRoot
  <2> QED
    BY <2>1, <2>2, Parts, TreeIsTree
<1> QED
  BY <1>2, <1>3, <1>4, <1>5 DEF Next

\* For any sessions, root and arguments the storage stays a tree, and every
\* session keeps a current directory inside the root.
THEOREM TypeCorrect == Spec => []TypeOK
<1>1. IndInv => TypeOK
  BY DEF IndInv
<1> QED
  BY <1>1, InitKeeps, Inductive, PTL DEF Spec

\* Whatever paths are named and however the sessions interleave, nothing
\* outside the root changes and the root itself stays.
THEOREM RootIsSealed == Spec => OutsideUntouched
<1>1. ASSUME IndInv', [Next]_vars
      PROVE  [/\ {path \in dirs' : ~InsideRoot(path)} = Outside.dirs
              /\ {path \in files' : ~InsideRoot(path)} = Outside.files
              /\ Root \in dirs']_vars
  BY <1>1, Parts DEF IsSealed
<1> QED
  BY <1>1, InitKeeps, Inductive, PTL DEF Spec, OutsideUntouched

-----------------------------------------------------------------------------
(* What a session that nobody has got ahead of may rely on.                 *)

\* What the session saw when it made its plan.  A plan to remove or rename is
\* not about a directory the session is in, and the new name is free.
PlanHolds(session) ==
    LET plan == pending[session]
    IN  /\ plan.op = "remove" =>
               plan.to \in files \/ plan.to # current[session]
        /\ plan.op = "rename" =>
               /\ plan.from \in files \/ ~IsPrefix(plan.from, current[session])
               /\ ~Exists(plan.to)
        /\ plan.op = "unique" => plan.to \notin files

Foresight == /\ IsFiniteSet(files)
             /\ \A session \in Session \ disturbed : PlanHolds(session)

\* One step of one session.
Steps(session) == OtherCommand(session) \/ Looks(session) \/ Acts(session)

\* A step of one session leaves what another session keeps of its own, and one
\* that changes the storage is ahead of every plan there is.
LEMMA OthersLeave ==
    ASSUME IndInv, NEW actor \in Session, Steps(actor),
           NEW session \in Session, session # actor
    PROVE  /\ current'[session] = current[session]
           /\ renameFrom'[session] = renameFrom[session]
           /\ pending'[session] = pending[session]
           /\ session \notin disturbed' /\ pending[session] # Idle =>
                  session \notin disturbed /\ dirs' = dirs /\ files' = files
<1>1. Sessions
  BY Parts
<1> DEFINE Left == /\ current'[session] = current[session]
                   /\ renameFrom'[session] = renameFrom[session]
                   /\ pending'[session] = pending[session]
                   /\ session \notin disturbed' /\ pending[session] # Idle =>
                          session \notin disturbed /\ dirs' = dirs /\ files' = files
<1>2. ASSUME OtherCommand(actor) PROVE Left
  BY <1>1, <1>2 DEF OtherCommand, EndsRename, Sessions
<1>3. ASSUME Acts(actor) PROVE Left
  <2>1. Done(actor)
    BY <1>3 DEF Acts, RemovePath, Rename, MakeWay, WriteFile, AbandonUpload
  <2> QED
    BY <1>1, <2>1 DEF Done, Sessions
<1>4. ASSUME Looks(actor) PROVE Left
  <2>1. PICK argument \in Arguments :
            \/ ChangeDirectory(actor, argument)
            \/ CreateDirectory(actor, argument)
            \/ LookForDirectory(actor, argument)
            \/ \E op \in {"remove", "retrieve"} :
                   LookForFile(actor, argument, op)
            \/ RenameFrom(actor, argument)
            \/ LookForRename(actor, argument)
            \/ BeginStor(actor, argument)
            \/ BeginStou(actor, argument)
    BY <1>4 DEF Looks
  <2>2. CASE \/ ChangeDirectory(actor, argument)
             \/ CreateDirectory(actor, argument)
             \/ RenameFrom(actor, argument)
    BY <1>1, <2>2
       DEF ChangeDirectory, CreateDirectory, RenameFrom, EndsRename, Disturbs,
           Sessions
  <2>3. CASE \/ LookForDirectory(actor, argument)
             \/ \E op \in {"remove", "retrieve"} :
                    LookForFile(actor, argument, op)
             \/ LookForRename(actor, argument)
    BY <1>1, <2>3
       DEF LookForDirectory, LookForFile, LookForRename, EndsRename, Plans,
           Sessions
  <2>4. ASSUME NEW op, NEW target, BeginsUpload(actor, op, target) PROVE Left
    BY <1>1, <2>4 DEF BeginsUpload, EndsRename, Sessions
  <2>5. CASE BeginStor(actor, argument) \/ BeginStou(actor, argument)
    BY <2>4, <2>5 DEF BeginStor, BeginStou
  <2> QED
    BY <2>1, <2>2, <2>3, <2>5
<1> QED
  BY <1>2, <1>3, <1>4 DEF Steps

\* A session without a plan has nothing to hold.
LEMMA NoPlanHolds ==
    ASSUME NEW session \in Session, pending'[session] = Idle
    PROVE  PlanHolds(session)'
BY DEF PlanHolds, Idle, PlanFor

\* A session's own look finds what its plan needs.
LEMMA LookMakesPlanHold ==
    ASSUME IndInv, NEW session \in Session, Looks(session)
    PROVE  PlanHolds(session)'
<1>1. Sessions
  BY Parts
<1>2. PICK argument \in Arguments :
          \/ ChangeDirectory(session, argument)
          \/ CreateDirectory(session, argument)
          \/ LookForDirectory(session, argument)
          \/ \E op \in {"remove", "retrieve"} :
                 LookForFile(session, argument, op)
          \/ RenameFrom(session, argument)
          \/ LookForRename(session, argument)
          \/ BeginStor(session, argument)
          \/ BeginStou(session, argument)
  BY DEF Looks
<1> DEFINE target == Resolve(session, argument)
<1>3. CASE \/ ChangeDirectory(session, argument)
           \/ CreateDirectory(session, argument)
           \/ RenameFrom(session, argument)
  BY <1>3, NoPlanHolds
     DEF ChangeDirectory, CreateDirectory, RenameFrom, Free
<1>4. CASE LookForDirectory(session, argument)
  <2>1. /\ target # current[session] /\ current' = current
        /\ pending'[session] = PlanFor("remove", target)
    BY <1>1, <1>4 DEF LookForDirectory, Removable, Plans, Sessions
  <2> HIDE DEF target
  <2> QED
    BY <2>1 DEF PlanHolds, PlanFor
<1>5. ASSUME NEW op \in {"remove", "retrieve"},
             LookForFile(session, argument, op)
      PROVE  PlanHolds(session)'
  <2>1. /\ target \in files /\ files' = files
        /\ pending'[session] = PlanFor(op, target)
    BY <1>1, <1>5 DEF LookForFile, Plans, Sessions
  <2> HIDE DEF target
  <2> QED
    BY <2>1 DEF PlanHolds, PlanFor
<1>6. CASE LookForRename(session, argument)
  <2>1. PICK from \in renameFrom[session] :
            LET source == Resolve(session, from)
            IN  /\ Free(session)
                /\ \/ /\ MayRename(session, source, target)
                      /\ Plans(session, [op |-> "rename", from |-> source,
                                         to |-> target])
                   \/ UNCHANGED <<pending, disturbed>>
                /\ UNCHANGED <<dirs, files, current>>
    BY <1>6 DEF LookForRename
  <2> DEFINE source == Resolve(session, from)
             plan   == [op |-> "rename", from |-> source, to |-> target]
  <2>2. CASE MayRename(session, source, target) /\ Plans(session, plan)
    <3>1. /\ pending'[session] = plan
          /\ dirs' = dirs /\ files' = files /\ current' = current
      BY <1>1, <2>1, <2>2 DEF Plans, Sessions
    <3>2. /\ source \in files \/ ~IsPrefix(source, current[session])
          /\ target \notin dirs \union files
      BY <2>2 DEF MayRename, CanRename, DestinationFree, Exists
    <3> HIDE DEF source, target
    <3> QED
      BY <3>1, <3>2 DEF PlanHolds, Exists
  <2>3. CASE UNCHANGED <<pending, disturbed>>
    BY <2>1, <2>3, NoPlanHolds DEF Free
  <2> QED
    BY <2>1, <2>2, <2>3
<1>7. ASSUME NEW op \in {"store", "unique"}, NEW path,
             BeginsUpload(session, op, path),
             op = "unique" => path \notin files
      PROVE  PlanHolds(session)'
  <2>1. /\ pending'[session] = PlanFor(op, path) /\ files' = files
    BY <1>1, <1>7 DEF BeginsUpload, Sessions
  <2> QED
    BY <1>7, <2>1 DEF PlanHolds, PlanFor
<1>8. CASE BeginStor(session, argument)
  BY <1>7, <1>8 DEF BeginStor
<1>9. CASE BeginStou(session, argument)
  BY <1>7, <1>9 DEF BeginStou, Unique, Unused, Exists
<1> QED
  BY <1>2, <1>3, <1>4, <1>5, <1>6, <1>8, <1>9

\* A rename loses nothing when the new name is free.
LEMMA MovedOntoFree ==
    ASSUME NEW D, NEW F, IsTree(D, F), IsFiniteSet(F),
           NEW from \in Path, NEW to \in Path, to \notin D \union F
    PROVE  Cardinality({Moved(path, from, to) : path \in F}) = Cardinality(F)
<1> DEFINE image == {Moved(path, from, to) : path \in F}
           move  == [path \in F |-> Moved(path, from, to)]
<1>1. ASSUME NEW gone \in F, NEW other \in F,
             IsPrefix(from, gone), Moved(gone, from, to) = other
      PROVE  FALSE
  <2>1. gone \in Path /\ other \in Path /\ other # to
    BY DEF IsTree
  <2>2. IsPrefix(to, other)
    BY <1>1, <2>1, MovedIsBelow
  <2> QED
    BY <2>1, <2>2, AboveIsDirectory
<1>2. ASSUME NEW p \in F, NEW q \in F,
             Moved(p, from, to) = Moved(q, from, to)
      PROVE  p = q
  <2>1. p \in Path /\ q \in Path
    BY DEF IsTree
  <2>2. CASE IsPrefix(from, p) /\ IsPrefix(from, q)
    BY <1>2, <2>1, <2>2, MovedApart
  <2>3. CASE ~IsPrefix(from, p) \/ ~IsPrefix(from, q)
    BY <1>1, <1>2, <2>3, MovedStays
  <2> QED
    BY <2>2, <2>3
<1>3. move \in Surjection(F, image)
  BY DEF Surjection
<1>4. move \in Injection(F, image)
  BY <1>2, <1>3 DEF Surjection, Injection, IsInjective
<1> HIDE DEF image, move
<1>5. Cardinality(image) = Cardinality(F)
  BY <1>3, <1>4, FS_Surjection
<1> QED
  BY <1>5 DEF image

\* What is moved is no more than there was.
LEMMA MovedIsFinite ==
    ASSUME NEW F, IsFiniteSet(F), NEW from, NEW to
    PROVE  IsFiniteSet({Moved(path, from, to) : path \in F})
<1> DEFINE image == {Moved(path, from, to) : path \in F}
           move  == [path \in F |-> Moved(path, from, to)]
<1>1. move \in Surjection(F, image)
  BY DEF Surjection
<1> HIDE DEF image, move
<1>2. IsFiniteSet(image)
  BY <1>1, FS_Surjection
<1> QED
  BY <1>2 DEF image

\* Every step leaves finitely many files.
LEMMA FilesStayFinite ==
    ASSUME IsFiniteSet(files), NEW session \in Session, Steps(session)
    PROVE  IsFiniteSet(files')
<1> DEFINE from == pending[session].from
           to   == pending[session].to
<1>1. CASE files' = files
  BY <1>1
<1>2. IsFiniteSet(files \ {to}) /\ IsFiniteSet(files \union {to})
  BY FS_RemoveElement, FS_AddElement
<1>3. IsFiniteSet({Moved(path, from, to) : path \in files})
  <2> HIDE DEF from, to
  <2> QED
    BY MovedIsFinite
<1>4. CASE OtherCommand(session) \/ Looks(session)
  <2>1. files' = files
    BY <1>4
       DEF OtherCommand, Looks, ChangeDirectory, CreateDirectory,
           LookForDirectory, LookForFile, RenameFrom, LookForRename,
           BeginStor, BeginStou, BeginsUpload
  <2> QED
    BY <1>1, <2>1
<1>5. CASE Acts(session)
  BY <1>1, <1>2, <1>3, <1>5
     DEF Acts, RemovePath, Rename, MakeWay, WriteFile, AbandonUpload
<1> QED
  BY <1>4, <1>5 DEF Steps

LEMMA ForesightInit == Init => Foresight
BY OutsideAssumption DEF Init, Foresight, PlanHolds, Idle, PlanFor

LEMMA ForesightKept == IndInv /\ Foresight /\ [Next]_vars => Foresight'
<1> SUFFICES ASSUME IndInv, Foresight, [Next]_vars PROVE Foresight'
  OBVIOUS
<1>1. Sessions
  BY Parts
<1>2. CASE UNCHANGED vars
  BY <1>2 DEF vars, Foresight, PlanHolds, Exists
<1>3. ASSUME NEW actor \in Session, Steps(actor)
      PROVE  Foresight'
  <2>1. IsFiniteSet(files')
    BY <1>3, FilesStayFinite DEF Foresight
  <2>2. ASSUME NEW session \in Session, session \notin disturbed'
        PROVE  PlanHolds(session)'
    <3>1. CASE session # actor /\ pending[session] # Idle
      <4>1. /\ current'[session] = current[session]
            /\ pending'[session] = pending[session]
            /\ session \notin disturbed /\ dirs' = dirs /\ files' = files
        BY <1>3, <2>2, <3>1, OthersLeave
      <4>2. PlanHolds(session)
        BY <4>1 DEF Foresight
      <4> QED
        BY <4>1, <4>2 DEF PlanHolds, Exists
    <3>2. CASE session # actor /\ pending[session] = Idle
      BY <1>3, <3>2, OthersLeave, NoPlanHolds
    <3>3. CASE session = actor /\ Looks(actor)
      BY <3>3, LookMakesPlanHold
    <3>4. CASE session = actor /\ OtherCommand(actor)
      BY <3>4, NoPlanHolds DEF OtherCommand, Free
    <3>5. CASE session = actor /\ Acts(actor)
      <4>1. Done(actor)
        BY <3>5 DEF Acts, RemovePath, Rename, MakeWay, WriteFile, AbandonUpload
      <4>2. pending'[actor] = Idle
        BY <1>1, <4>1 DEF Done, Sessions
      <4> QED
        BY <3>5, <4>2, NoPlanHolds
    <3> QED
      BY <1>3, <3>1, <3>2, <3>3, <3>4, <3>5 DEF Steps
  <2> QED
    BY <2>1, <2>2 DEF Foresight
<1> QED
  BY <1>2, <1>3 DEF Next, Steps

\* A session that acts on a plan which still holds keeps its directory.
LEMMA ActKeepsCurrent ==
    ASSUME IndInv, NEW session \in Session, PlanHolds(session), Acts(session),
           current[session] \in dirs
    PROVE  current[session] \in dirs'
<1> DEFINE from == pending[session].from
           to   == pending[session].to
           here == current[session]
<1>1. IsTree(dirs, files) /\ Sessions
  BY Parts, TreeIsTree
<1>2. from \in Path /\ to \in Path /\ here \in Path
  BY <1>1 DEF Sessions, Plan, Path
<1>3. CASE RemovePath(session)
  <2>1. to \in files \/ to # here
    BY <1>3 DEF RemovePath, PlanHolds
  <2>2. to # here
    BY <1>1, <2>1 DEF IsTree
  <2> QED
    BY <1>3, <2>2 DEF RemovePath
<1>4. CASE Rename(session)
  <2>1. from \in files \/ ~IsPrefix(from, here)
    BY <1>4 DEF Rename, PlanHolds
  <2>2. ~IsPrefix(from, here)
    <3> SUFFICES ASSUME IsPrefix(from, here), from \in files PROVE FALSE
      BY <2>1
    <3>1. from \notin dirs
      BY <1>1 DEF IsTree
    <3> HIDE DEF from, here
    <3> QED
      BY <1>1, <1>2, <3>1, AboveIsDirectory DEF here
  <2>3. here = Moved(here, from, to)
    BY <2>2, MovedStays
  <2>4. CASE dirs' = {Moved(path, from, to) : path \in dirs}
    <3> HIDE DEF from, to
    <3> QED
      BY <2>3, <2>4
  <2> QED
    BY <1>4, <2>4 DEF Rename
<1>5. CASE MakeWay(session) \/ WriteFile(session) \/ AbandonUpload(session)
  BY <1>5 DEF MakeWay, WriteFile, AbandonUpload, WithAncestors
<1> QED
  BY <1>3, <1>4, <1>5 DEF Acts

\* A rename whose plan still holds moves its files and costs none.
LEMMA RenameCostsNoFile ==
    ASSUME IndInv, IsFiniteSet(files),
           NEW session \in Session, PlanHolds(session), Rename(session)
    PROVE  Cardinality(files') = Cardinality(files)
<1> DEFINE from == pending[session].from
           to   == pending[session].to
<1>1. IsTree(dirs, files) /\ Sessions
  BY Parts, TreeIsTree
<1>2. from \in Path /\ to \in Path
  BY <1>1 DEF Sessions, Plan, Path
<1>3. to \notin dirs \union files
  BY DEF Rename, PlanHolds, Exists
<1>4. CASE files' = {Moved(path, from, to) : path \in files}
  <2> HIDE DEF from, to
  <2> QED
    BY <1>1, <1>2, <1>3, <1>4, MovedOntoFree
<1> QED
  BY <1>4 DEF Rename

\* For any sessions and however they interleave, a session never removes or
\* moves away the directory it is in, unless another session has changed the
\* storage between its look and its act.
THEOREM OwnDirectoryStays == Spec => OwnStepsKeepCurrent
<1>1. ASSUME IndInv, Foresight, [Next]_vars
      PROVE  [\A session \in Session :
                 /\ Acts(session)
                 /\ session \notin disturbed
                 /\ current[session] \in dirs
                 => current[session] \in dirs']_vars
  BY <1>1, ActKeepsCurrent DEF Foresight
<1> QED
  BY <1>1, InitKeeps, Inductive, ForesightInit, ForesightKept, PTL
     DEF Spec, OwnStepsKeepCurrent

\* For any storage that holds finitely many files, neither RNTO nor STOU costs
\* one, unless another session has changed the storage in between.
THEOREM NoFileIsLost == Spec => NothingOverwritten
<1>1. ASSUME IndInv, Foresight, [Next]_vars
      PROVE  [\A session \in Session :
                 session \notin disturbed =>
                     /\ Rename(session) =>
                            Cardinality(files') = Cardinality(files)
                     /\ WriteFile(session) /\ pending[session].op = "unique" =>
                            pending[session].to \notin files]_vars
  <2>1. ASSUME NEW session \in Session, session \notin disturbed
        PROVE  /\ Rename(session) =>
                      Cardinality(files') = Cardinality(files)
               /\ pending[session].op = "unique" =>
                      pending[session].to \notin files
    <3>1. PlanHolds(session) /\ IsFiniteSet(files)
      BY <1>1, <2>1 DEF Foresight
    <3>2. pending[session].op = "unique" => pending[session].to \notin files
      BY <3>1 DEF PlanHolds
    <3> QED
      BY <1>1, <3>1, <3>2, RenameCostsNoFile
  <2> QED
    BY <2>1
<1> QED
  BY <1>1, InitKeeps, Inductive, ForesightInit, ForesightKept, PTL
     DEF Spec, NothingOverwritten

\* A pending RNFR stands for the same path until it is used or cancelled.
LEMMA RenameKeepsItsPath ==
    ASSUME IndInv, [Next]_vars, NEW session \in Session,
           NEW from \in renameFrom[session], from \in renameFrom'[session]
    PROVE  current'[session] = current[session]
<1>1. Sessions
  BY Parts
<1>2. CASE UNCHANGED vars
  BY <1>2 DEF vars
<1>3. ASSUME NEW actor \in Session, actor # session, Steps(actor)
      PROVE  current'[session] = current[session]
  BY <1>3, OthersLeave
<1>4. ASSUME Steps(session)
      PROVE  current'[session] = current[session]
  <2>1. CASE \E argument \in Arguments : ChangeDirectory(session, argument)
    BY <1>1, <2>1 DEF ChangeDirectory, EndsRename, Sessions
  <2>2. CASE \/ OtherCommand(session) \/ Acts(session)
             \/ /\ Looks(session)
                /\ ~\E argument \in Arguments :
                       ChangeDirectory(session, argument)
    BY <2>2
       DEF OtherCommand, Looks, CreateDirectory,
           LookForDirectory, LookForFile, RenameFrom, LookForRename, Plans,
           BeginStor, BeginStou, BeginsUpload, Acts, RemovePath, Rename,
           MakeWay, WriteFile, AbandonUpload, Done
  <2> QED
    BY <1>4, <2>1, <2>2 DEF Steps
<1> QED
  BY <1>2, <1>3, <1>4 DEF Next, Steps

\* RNTO renames the path RNFR was told, whatever directory the client changes
\* to: for any arguments, CWD cancels the rename.
THEOREM RenameKeepsMeaning == Spec => RenameMeansItsPath
<1>1. ASSUME IndInv, [Next]_vars
      PROVE  [\A session \in Session :
                 \A from \in renameFrom[session] \intersect renameFrom'[session] :
                     Resolve(session, from)' = Resolve(session, from)]_vars
  BY <1>1, RenameKeepsItsPath DEF Resolve
<1> QED
  BY <1>1, InitKeeps, Inductive, PTL DEF Spec, RenameMeansItsPath
=============================================================================
