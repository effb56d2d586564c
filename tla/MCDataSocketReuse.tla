------------------------- MODULE MCDataSocketReuse -------------------------
(***************************************************************************)
(* Instances of DataSocketReuse for TLC.                                   *)
(***************************************************************************)
EXTENDS DataSocketReuse

Bytes == {"a", "b", "c", "d"}
\* Three transfers whose first bytes differ.  The first is longer than a window
\* of the code's own size, 8, so that all of it can be in flight or repeated.
ThreePayloads == <<<<"a", "b", "c", "d", "a", "b", "c", "d", "a", "b">>,
                   <<"d", "a">>, <<"b">>>>
TwoPayloads == <<<<"a", "b">>, <<"c", "d">>>>
=============================================================================
