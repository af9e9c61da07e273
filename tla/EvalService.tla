---------------------------- MODULE EvalService ----------------------------
(***************************************************************************)
(* What the daemon promises its frontends (the header of                    *)
(* src/src/daemon.rs): evaluations are serialised first come, first served  *)
(* across all connections, and each one streams display output to the      *)
(* client that asked for it, then its one result.  Requests that are no     *)
(* evaluation are answered before or after the evaluations of their client,  *)
(* never inside one.  A client that has left gets no more output, but its   *)
(* evaluations still take their turn.                                       *)
(***************************************************************************)
EXTENDS Naturals, Sequences

CONSTANTS Clients,  \* the connections
          MaxReqs   \* bound: requests per connection

VARIABLES queue,    \* accepted evaluations, [to, id], in order of arrival
          running,  \* the first one is being evaluated
          output,   \* output[c]: what c has been sent, [type, id]
          left      \* clients that no longer take output

vars == <<queue, running, output, left>>

Jobs == [to : Clients, id : 1 .. MaxReqs]

Init ==
    /\ queue = <<>>
    /\ running = FALSE
    /\ output = [c \in Clients |-> <<>>]
    /\ left = {}

\* Output for job j, discarded when its client has left.
Emit(j, type) ==
    output' = IF j.to \in left THEN output
              ELSE [output EXCEPT ![j.to] = Append(@, [type |-> type,
                                                       id |-> j.id])]

\* A client has at most one evaluation in the queue and never reuses an id.
Submit(j) ==
    /\ \A i \in 1 .. Len(queue) : queue[i].to # j.to
    /\ \A i \in 1 .. Len(output[j.to]) : output[j.to][i].id < j.id
    /\ queue' = Append(queue, j)
    /\ UNCHANGED <<running, output, left>>

Begin ==
    /\ ~running /\ queue # <<>>
    /\ running' = TRUE
    /\ UNCHANGED <<queue, output, left>>

Show ==
    /\ running
    /\ Emit(Head(queue), "Display")
    /\ UNCHANGED <<queue, running, left>>

Answer ==
    /\ running
    /\ running' = FALSE
    /\ Emit(Head(queue), "EvalResult")
    /\ queue' = Tail(queue)
    /\ UNCHANGED left

\* Another request of c is answered: c has no evaluation in the queue.
Respond(c) ==
    /\ \A i \in 1 .. Len(queue) : queue[i].to # c
    /\ Emit([to |-> c, id |-> 0], "Other")
    /\ UNCHANGED <<queue, running, left>>

Leave(c) ==
    /\ c \notin left
    /\ left' = left \cup {c}
    /\ UNCHANGED <<queue, running, output>>

Next ==
    \/ \E j \in Jobs : Submit(j)
    \/ Begin
    \/ Show
    \/ Answer
    \/ \E c \in Clients : Respond(c) \/ Leave(c)

Spec == Init /\ [][Next]_vars
=============================================================================
