---------------------------- MODULE MCServerTable ----------------------------
(***************************************************************************)
(* Instances of ServerTable for TLC.                                       *)
(***************************************************************************)
EXTENDS ServerTable, TLC

CONSTANTS c1, c2, c3, c4

FourClients == {c1, c2, c3, c4}
Symmetry == Permutations(FourClients)
=============================================================================
