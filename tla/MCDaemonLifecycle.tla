------------------------- MODULE MCDaemonLifecycle -------------------------
(* Small instances of DaemonLifecycle for TLC.                              *)
EXTENDS DaemonLifecycle, TLC

Symmetry == Permutations(Procs) \cup Permutations(Clients)
=============================================================================
