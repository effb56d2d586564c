-------------------------- MODULE MCSlidingWindow --------------------------
(***************************************************************************)
(* Instances of SlidingWindow for TLC.                                     *)
(***************************************************************************)
EXTENDS SlidingWindowProperties

\* Three segments of one byte, the smallest data with a first, an inner and a
\* last segment; the bytes differ, so that misplaced data shows.
ThreeSegments == {<<"a", "b", "c">>}
\* Three segments of two bytes whose last one is short, and no data at all,
\* which is one empty segment.
ShortLastOrNone == {<<"a", "b", "c", "d", "e">>, <<>>}
Bytes == {"a", "b", "c", "d", "e"}
=============================================================================
