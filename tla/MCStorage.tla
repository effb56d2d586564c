------------------------------ MODULE MCStorage ------------------------------
(***************************************************************************)
(* An instance of Storage for TLC.                                         *)
(***************************************************************************)
EXTENDS Storage, TLC

CONSTANTS s1, s2

TwoSessions == {s1, s2}
Symmetry == Permutations(TwoSessions)

StorageRoot == <<"storage">>
\* A directory next to the root that has a name also used inside.
NextToRoot == [dirs |-> {<<>>, <<"a">>}, files |-> {<<"a", "b">>}]

Relative(names) == [absolute |-> FALSE, names |-> names]
Paths == {Relative(<<"a">>), Relative(<<"b">>), Relative(<<"..">>),
          Relative(<<"..", "a">>), [absolute |-> TRUE, names |-> <<"a", "b">>]}

\* "c" is what STOU makes of a name that is taken.
Alternatives == [name \in {"a", "b"} |-> <<name, "c">>]
=============================================================================
