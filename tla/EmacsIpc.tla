------------------------------ MODULE EmacsIpc ------------------------------
(***************************************************************************)
(* The Emacs client of the daemon (src/emacs/ma-ipc.el).  The process       *)
(* filter decodes whatever bytes have arrived and keeps the frames in a     *)
(* list; a request scans that list for its response until a deadline, and   *)
(* may leave frames behind for the requests that come after it.             *)
(*                                                                          *)
(* A frame on the wire is two parts, its length and its body, and both are  *)
(* represented by the frame.  The daemon answers the requests of a          *)
(* connection in order; when it answers, and whether, is external.          *)
(***************************************************************************)
EXTENDS Naturals, Sequences, FiniteSetsExt, SequencesExt

CONSTANTS
    MaxJobs,      \* requests sent to the daemon
    MaxDisplays,  \* display frames of one evaluation
    MaxConns,     \* connections opened
    MaxEvals,     \* calls of ma-ipc-eval
    None

ASSUME EmacsAssumption ==
    /\ MaxJobs \in Nat /\ MaxDisplays \in Nat
    /\ MaxConns \in Nat /\ MaxEvals \in Nat

VARIABLES
    conn,       \* connections opened so far
    live,       \* process-live-p
    wire,       \* parts the daemon has for this connection, undelivered
    buffer,     \* ma-ipc--buffer
    frames,     \* ma-ipc--frames, newest first between two scans
    next_id,    \* ma-ipc--next-id
    phase,      \* what the running command does, "idle" if there is none
    pending,    \* id of the ma-ipc-eval that is connecting first, or 0
    jobs,       \* requests sent, numbered over all connections
    call,       \* the request the running command waits for
    shown,      \* displays shown by its latest scan
    last,       \* history: the latest response returned, and to what
    taken       \* history: frames removed from the list

client == <<conn, live, wire, buffer>>
command == <<next_id, phase, pending, call>>
history == <<last, taken>>
vars == <<client, frames, command, jobs, shown, history>>

-----------------------------------------------------------------------------
Phases == {"idle", "connect", "scan", "wait"}
Kinds == {"hello-ack", "display", "eval-result", "oversized"}
Frames == [job : 1 .. MaxJobs, kind : Kinds, n : 0 .. MaxDisplays]
Requests == [kind : {"hello", "eval"}, id : 0 .. MaxEvals,
             displays : 0 .. MaxDisplays, big : BOOLEAN, conn : 1 .. MaxConns]
Returns == [job : 1 .. MaxJobs, frame : Frames, shown : Seq(1 .. MaxDisplays)]

Frame(job, kind, n) == [job |-> job, kind |-> kind, n |-> n]

\* The frames the daemon answers request r, the job-th, with.
Answer(r, job) ==
    IF r.kind = "hello" THEN <<Frame(job, "hello-ack", 0)>>
    ELSE Append([n \in 1 .. r.displays |-> Frame(job, "display", n)],
                Frame(job, IF r.big THEN "oversized" ELSE "eval-result", 0))

Parts(fs) == [i \in 1 .. 2 * Len(fs) |-> fs[(i + 1) \div 2]]

Id(f) == jobs[f.job].id

(* Faulty variants of the helpers below: no action uses them.               *)

AnyId(f) == jobs[call].kind = "hello" \/ f.kind = "eval-result"
AsStored(fs) == fs
OneAtMost(b) == IF Len(b) >= 2 /\ b[1].kind # "oversized" THEN 1 ELSE 0
BufferKept == buffer

\* How many frames the filter decodes: the complete ones, up to one whose
\* length is over the limit, which raises an error before it is removed.
Decodable(b) ==
    CHOOSE n \in 0 .. Len(b) \div 2 :
       /\ \A k \in 1 .. n : b[2 * k].kind # "oversized"
       /\ \/ n = Len(b) \div 2
          \/ b[2 * n + 1].kind = "oversized"

\* The predicates of ma-ipc-connect, which accepts any frame, and ma-ipc-eval.
Wanted(f) ==
    \/ jobs[call].kind = "hello"
    \/ f.kind = "eval-result" /\ Id(f) = jobs[call].id

\* pop-response scans the oldest frame first.
OldestFirst(fs) == Reverse(fs)

\* What is left of the undecoded bytes when a process is opened.
Fresh == <<>>

\* The command returns or signals an error.
Idle == phase' = "idle" /\ pending' = 0

Init ==
    /\ conn = 0 /\ live = FALSE /\ wire = <<>> /\ buffer = <<>> /\ frames = <<>>
    /\ next_id = 1 /\ phase = "idle" /\ pending = 0
    /\ jobs = <<>> /\ call = 0 /\ shown = <<>>
    /\ last = None /\ taken = {}

-----------------------------------------------------------------------------
(* Commands.                                                                *)

\* process-send-string, and the answer the daemon will give.
Send(kind, id) ==
    \E d \in 0 .. MaxDisplays, big \in BOOLEAN :
       LET r == [kind |-> kind, id |-> id, displays |-> d, big |-> big,
                 conn |-> conn'] IN
       /\ kind = "hello" => d = 0 /\ ~big
       /\ jobs' = Append(jobs, r)
       /\ wire' = wire \o Parts(Answer(r, Len(jobs) + 1))
       /\ call' = Len(jobs) + 1
       /\ phase' = "scan" /\ shown' = <<>> /\ pending' = 0

Bounded == Len(jobs) + 2 <= MaxJobs

\* ma-ipc-eval takes its id first, and connects if it has to.
Eval ==
    /\ phase = "idle" /\ Bounded /\ next_id <= MaxEvals
    /\ next_id' = next_id + 1
    /\ IF live
       THEN UNCHANGED conn /\ Send("eval", next_id)
       ELSE /\ phase' = "connect" /\ pending' = next_id
            /\ UNCHANGED <<conn, wire, jobs, call, shown>>
    /\ UNCHANGED <<live, buffer, frames, history>>

\* ma-ipc-connect says hello again on a connection it has.
Connect ==
    /\ phase = "idle" /\ Bounded
    /\ IF live
       THEN UNCHANGED conn /\ Send("hello", 0)
       ELSE phase' = "connect" /\ UNCHANGED <<conn, wire, jobs, call, shown, pending>>
    /\ UNCHANGED <<live, buffer, frames, next_id, history>>

Disconnect ==
    /\ phase = "idle"
    /\ live' = FALSE /\ wire' = <<>> /\ buffer' = <<>> /\ frames' = <<>>
    /\ UNCHANGED <<conn, command, jobs, shown, history>>

\* The buffer and the frames are reset whether or not a daemon is reached.
OpenProcess ==
    /\ phase = "connect" /\ conn < MaxConns
    /\ buffer' = Fresh /\ frames' = <<>>
    /\ \/ /\ conn' = conn + 1 /\ live' = TRUE
          /\ jobs' = Append(jobs, [kind |-> "hello", id |-> 0, displays |-> 0,
                                   big |-> FALSE, conn |-> conn'])
          /\ wire' = Parts(<<Frame(Len(jobs'), "hello-ack", 0)>>)
          /\ call' = Len(jobs')
          /\ phase' = "scan" /\ shown' = <<>>
          /\ UNCHANGED pending
       \/ /\ Idle
          /\ UNCHANGED <<conn, live, wire, jobs, call, shown>>
    /\ UNCHANGED <<next_id, history>>

-----------------------------------------------------------------------------
(* ma-ipc--pop-response.                                                    *)

\* A display frame of the evaluation that waits.
Mine(f) ==
    /\ jobs[call].kind = "eval" /\ f.kind = "display"
    /\ Id(f) = jobs[call].id

\* What a pass over the first m frames of q shows.
Displays(q, m) ==
    LET show[i \in 0 .. Len(q)] ==
            IF i = 0 THEN <<>>
            ELSE IF Mine(q[i]) THEN Append(show[i - 1], q[i].n) ELSE show[i - 1]
    IN  show[m]

\* One pass over the frames.  A display of the request is shown every time it
\* is seen, and stays in the list; what is returned leaves it.  A hello that
\* was said for an evaluation is followed by its request, if the process still
\* lives to be sent it.  A pass is one step: an error or a quit in the middle,
\* in the display callback, is left out.  It would leave the list as reversed,
\* and with it the frames of the request it ends, which no later one wants.
Scan ==
    LET q == OldestFirst(frames)
        hits == {i \in DOMAIN q : Wanted(q[i])}
        first == Min(hits) IN
    /\ phase \in {"scan", "wait"}
    /\ IF hits = {}
       THEN /\ phase' = "wait" /\ shown' = Displays(q, Len(q))
            /\ UNCHANGED <<conn, wire, frames, jobs, pending, call, last, taken>>
       ELSE /\ frames' = Reverse(RemoveAt(q, first))
            /\ taken' = taken \cup {q[first]}
            /\ last' = [job |-> call, frame |-> q[first],
                        shown |-> Displays(q, first - 1)]
            /\ UNCHANGED conn
            /\ IF pending # 0 /\ q[first].kind = "hello-ack" /\ live
               THEN Send("eval", pending)
               ELSE Idle /\ UNCHANGED <<wire, jobs, call, shown>>
    /\ UNCHANGED <<live, buffer, next_id>>

\* The deadline passes, or the user quits: frames that came since the latest
\* scan stay unread.
Abandon ==
    /\ phase = "wait"
    /\ Idle
    /\ UNCHANGED <<client, frames, next_id, call, jobs, shown, history>>

-----------------------------------------------------------------------------
(* The daemon's side of the connection.                                     *)

\* ma-ipc--process-filter, called with any part of what the daemon has sent,
\* while a command waits or none runs.
Filter(chunk) ==
    LET bytes == buffer \o SubSeq(wire, 1, chunk)
        n == Decodable(bytes) IN
    /\ live /\ phase \in {"idle", "wait"}
    /\ wire' = SubSeq(wire, chunk + 1, Len(wire))
    /\ frames' = Reverse([i \in 1 .. n |-> bytes[2 * i]]) \o frames
    /\ buffer' = SubSeq(bytes, 2 * n + 1, Len(bytes))
    /\ UNCHANGED <<conn, live, command, jobs, shown, history>>

\* The daemon ends; what Emacs has not read is lost.
Closed ==
    /\ live /\ phase \in {"idle", "wait"}
    /\ live' = FALSE /\ wire' = <<>>
    /\ UNCHANGED <<conn, buffer, frames, command, jobs, shown, history>>

Next ==
    \/ Eval
    \/ Connect
    \/ Disconnect
    \/ OpenProcess
    \/ Scan
    \/ Abandon
    \/ \E chunk \in 1 .. Len(wire) : Filter(chunk)
    \/ Closed

\* accept-process-output calls the filter when there is output, and a waiting
\* command scans every tenth of a second.
Fairness ==
    /\ WF_vars(\E chunk \in 1 .. Len(wire) : Filter(chunk))
    /\ WF_vars(Scan)

Spec == Init /\ [][Next]_vars /\ Fairness

-----------------------------------------------------------------------------
(* Properties.                                                              *)

TypeOK ==
    /\ conn \in 0 .. MaxConns /\ live \in BOOLEAN
    /\ wire \in Seq(Frames) /\ buffer \in Seq(Frames) /\ frames \in Seq(Frames)
    /\ next_id \in 1 .. MaxEvals + 1
    /\ phase \in Phases /\ pending \in 0 .. MaxEvals
    /\ phase = "idle" => pending = 0
    /\ jobs \in Seq(Requests) /\ call \in 0 .. Len(jobs)
    /\ shown \in Seq(1 .. MaxDisplays)
    /\ last \in Returns \cup {None} /\ taken \subseteq Frames

\* What an evaluation returns is its own result, whatever earlier ones that
\* were abandoned, or a lost connection, left behind; and a hello is answered
\* by its acknowledgment when it opens the connection.
\* (ma-ipc-eval, ma-ipc-connect)
AnswersItsOwn ==
    last # None =>
       \/ last.frame.job = last.job
       \/ /\ jobs[last.job].kind = "hello" /\ last.job > 1
          /\ jobs[last.job - 1].conn = jobs[last.job].conn

\* When an evaluation returns, everything it displayed has been shown, in
\* order.  (ma-ipc-eval: the callback receives any streamed display text)
OutputComplete ==
    last # None /\ last.frame.kind = "eval-result" /\ jobs[last.job].kind = "eval" =>
       last.shown = [n \in 1 .. jobs[last.job].displays |-> n]

\* The frames the daemon answers the requests of this connection with, and
\* the order it sends them in.
Due == {f \in Frames : \E j \in DOMAIN jobs :
           jobs[j].conn = conn /\ f \in Range(Answer(jobs[j], j))}

Earlier(f, g) ==
    \/ f.job < g.job
    \/ f.job = g.job /\ f.kind = "display" /\ (g.kind = "display" => f.n < g.n)

\* The frames of a sequence of parts, and those the list and the connection
\* hold, oldest first.
Whole(b) == [i \in 1 .. Len(b) \div 2 |-> b[2 * i]]
Arrived == Reverse(frames) \o Whole(buffer \o wire)

InOrder(q) == \A i, j \in DOMAIN q : i < j => Earlier(q[i], q[j])

\* However the bytes arrive, every frame of the connection is on its way, in
\* the list in order of arrival, or returned to a caller; and what is on its
\* way is still whole frames.
\* (ma-ipc--process-filter, ma-ipc--pop-response)
NothingLost ==
    live =>
       /\ buffer \o wire = Parts(Whole(buffer \o wire))
       /\ InOrder(Arrived)
       /\ Range(Arrived) = Due \ taken

\* A daemon that answers is heard: a waiting command ends if the connection
\* stays up and no frame is over the limit.
Heard ==
    phase \in {"scan", "wait"} ~>
       \/ phase = "idle" \/ ~live
       \/ \E j \in DOMAIN jobs : jobs[j].conn = conn /\ jobs[j].big
=============================================================================
