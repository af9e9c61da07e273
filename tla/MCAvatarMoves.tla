--------------------------- MODULE MCAvatarMoves ---------------------------
(* A small instance of AvatarMoves for TLC.                                 *)
EXTENDS AvatarMoves
=============================================================================
