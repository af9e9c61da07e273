----------------------------- MODULE MCDaemon ------------------------------
(* Small instances of Daemon for TLC.                                       *)
EXTENDS Daemon, TLC

Symmetry == Permutations(Clients)

\* State constraint: behaviours are cut where the daemon is told to stop.
StaysUp == ~notified
=============================================================================
