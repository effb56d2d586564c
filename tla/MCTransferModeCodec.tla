------------------------ MODULE MCTransferModeCodec ------------------------
(***************************************************************************)
(* An instance of TransferModeCodec for TLC.                               *)
(***************************************************************************)
EXTENDS TransferModeCodec

\* An ordinary byte and two that mean something in a coded stream.
SomeBytes == {0, Eof, Escape}
Trailing == {0, Escape}
=============================================================================
