------------------------------ MODULE Registry ------------------------------
(***************************************************************************)
(* Dot lines (eval_dot, src/src/context.rs): each reads, sets or deletes a  *)
(* path of the registry the frontend keeps.  A path is a sequence of names; *)
(* each line that sets writes another text.                                 *)
(***************************************************************************)
EXTENDS Naturals, SequencesExt

CONSTANTS
    Paths,      \* dot paths, sequences of names
    MaxDots     \* bound: dot lines that write

ASSUME RegistryAssumption == MaxDots \in Nat

VARIABLES
    config,  \* the registry: the value at each path, or Unset
    written, \* history: the dot lines that wrote, [op, path]
    got      \* the last dot line's path and answer

dot_vars == <<config, written, got>>

Unset == <<"none">>

-----------------------------------------------------------------------------
(* A faulty variant of Under: no action uses it.                            *)
OnlyItself(path, p) == p = path

\* The subtree of a path (external: DotRegistry).
Under(path, p) == IsPrefix(path, p)

DotInit ==
    /\ config = [p \in Paths |-> Unset]
    /\ written = <<>> /\ got = Unset

\* eval_dot.  Meta verbs do nothing yet.
Write(op, p) ==
    /\ Len(written) < MaxDots
    /\ written' = Append(written, [op |-> op, path |-> p])
    /\ got' = <<"ok", p, <<"nil">>>>

DotSet(p) ==
    /\ Write("set", p)
    /\ config' = [config EXCEPT ![p] = <<"str", Len(written) + 1>>]

DotDelete(p) ==
    /\ Write("delete", p)
    /\ config' = [q \in Paths |-> IF Under(p, q) THEN Unset ELSE config[q]]

DotGet(p) ==
    LET below == {q \in Paths : Under(p, q) /\ config[q] # Unset} IN
    /\ got' = IF config[p] # Unset THEN <<"ok", p, config[p]>>
              ELSE IF below # {} THEN <<"ok", p, <<"keys", below>>>>
              ELSE <<"err", p, Unset>>
    /\ UNCHANGED <<config, written>>

DotMeta(p) ==
    /\ got' = <<"ok", p, <<"nil">>>>
    /\ UNCHANGED <<config, written>>

DotNext == \E p \in Paths : DotSet(p) \/ DotDelete(p) \/ DotGet(p) \/ DotMeta(p)

DotSpec == DotInit /\ [][DotNext]_dot_vars

-----------------------------------------------------------------------------
(* Properties.                                                              *)

\* The lines that set a path and were not undone: neither it was set again nor
\* it or a path above it was deleted since.
Surviving(p) ==
    {n \in DOMAIN written :
       /\ written[n].op = "set" /\ written[n].path = p
       /\ \A k \in n + 1 .. Len(written) :
             IF written[k].op = "set" THEN written[k].path # p
             ELSE ~IsPrefix(written[k].path, p)}

\* A path reads as what was last set there, unless it or a path above it was
\* deleted since; an error says that nothing is there nor below.  (eval_dot)
DotReadsLastWrite ==
    got # Unset /\ got[3] # <<"nil">> =>
       LET p == got[2]
           below == {q \in Paths : IsPrefix(p, q) /\ Surviving(q) # {}} IN
       \/ \E n \in Surviving(p) : got = <<"ok", p, <<"str", n>>>>
       \/ Surviving(p) = {} /\ below # {} /\ got = <<"ok", p, <<"keys", below>>>>
       \/ below = {} /\ got[1] = "err"
=============================================================================
