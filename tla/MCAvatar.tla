------------------------------ MODULE MCAvatar ------------------------------
(* Small instances of Avatar for TLC.                                       *)
EXTENDS Avatar, TLC

Symmetry == Permutations(Things) \cup Permutations(Chests)
=============================================================================
