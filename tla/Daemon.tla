------------------------------- MODULE Daemon -------------------------------
(***************************************************************************)
(* The service loop of the zscheme backend daemon (src/src/daemon.rs) and   *)
(* the actor-call transport its evaluations suspend on                      *)
(* (src/src/context.rs).                                                    *)
(*                                                                          *)
(* Everything in the daemon runs on one thread (a tokio LocalSet): the      *)
(* accept loop, one handler and one writer task per connection, and the     *)
(* reply poll loop.  Tasks switch only at an await, so while an evaluation  *)
(* is computing (pc = "eval") no other task of the daemon moves: that is    *)
(* Yielded below.  Clients and remote actors are other processes and move   *)
(* at any time.                                                             *)
(*                                                                          *)
(* An evaluated program is abstracted to a bounded sequence of the          *)
(* operations the host can observe: a display, a define, an I/O await, an   *)
(* actor call.                                                              *)
(***************************************************************************)
EXTENDS Naturals, Sequences, FiniteSets

CONSTANTS
    Clients,    \* the connections; each opens, sends requests and closes once
    Kinds,      \* the requests clients may send, a subset of AllKinds
    Ops,        \* what an evaluated program may do, a subset of AllOps
    MaxReqs,    \* bound: requests per connection
    MaxTotal,   \* bound: requests of all connections together
    MaxOps,     \* bound: operations per evaluation
    MaxMsgs,    \* bound: actor messages in the whole behaviour
    Main        \* the daemon's main task, as a holder of the endpoint lock

\* "refused": a frame over the limit, or one that does not decode.
AllKinds == {"hello", "ping", "stop", "reset", "dump",
             "shared", "isolated", "dot", "refused"}
AllOps == {"display", "define", "io", "call"}

NoOne == "none"

ASSUME DaemonAssumption ==
    /\ Kinds \subseteq AllKinds
    /\ Ops \subseteq AllOps
    /\ MaxReqs \in Nat /\ MaxTotal \in Nat /\ MaxOps \in Nat /\ MaxMsgs \in Nat
    /\ Main \notin Clients
    /\ NoOne \notin Clients \cup {Main}

VARIABLES
    \* clients and connections
    conn,       \* conn[c]: "no", "up" or "closed", the client's side
    asked,      \* asked[c]: every request c has written; its index is its id
    taken,      \* taken[c]: how many of them the handler has read
    pc,         \* pc[c]: where the handler task of c is
    sent,       \* sent[c]: every frame put on c's channel
    written,    \* written[c]: how many of them the writer has written
    writer,     \* writer[c]: "up", or "dead" once a write has failed
    \* the shared evaluator
    eval_lock,  \* the fair mutex: its head holds it, the rest wait in order
    display_sink, \* the request (display ...) output goes to, or NoSink
    ops,        \* ops[c]: operations the running evaluation of c has done
    env,        \* defines in the shared session environment
    isolated_env, \* isolated_env[c]: defines in c's own environment
    orphan,     \* the running evaluation writes to a dropped environment
    \* actor calls
    endpoint,   \* holder of the endpoint mutex, or NoOne
    msgs,       \* actor messages transmitted so far, numbered from 1
    call,       \* call[c]: message of c's current call, 0 when none
    reply_senders, \* registered reply channels: [id, to]
    inbox,      \* ids the messages waiting in the inbox reply to; 0 for none
    answered,   \* messages the remote actor has replied to
    reply,      \* reply[c]: id the reply in c's oneshot answers, 0 when none
    \* the main task
    notified,   \* stop.notify_one() has been called
    phase,      \* "serving", "closing", "ending", "exited"
    image       \* defines in the session image written at shutdown

cvars == <<conn, asked>>
hvars == <<taken, pc, sent, written, writer>>
evars == <<eval_lock, display_sink, ops, env, isolated_env, orphan>>
avars == <<endpoint, msgs, call, reply_senders, inbox, answered, reply>>
mvars == <<notified, phase, image>>
vars == <<cvars, hvars, evars, avars, mvars>>

-----------------------------------------------------------------------------
(* Requests, frames and jobs.                                               *)

EvalKinds == {"shared", "isolated", "dot"}

NoSink == [to |-> Main, id |-> 0]

\* What the handler puts on the channel for a request of kind k.
Reply(k) == CASE k = "hello" -> "HelloAck"
              [] k = "ping"  -> "Pong"
              [] k = "stop"  -> "Stopping"
              [] k = "reset" -> "ResetDone"
              [] k = "dump"  -> "EnvDump"
              [] OTHER       -> "EvalResult"

ReplyTypes == {"HelloAck", "Pong", "Stopping", "ResetDone", "EnvDump",
               "EvalResult"}
\* id is 0 in frames that carry none; dump is empty in all but EnvDump.
Defs == Clients \X (1 .. MaxReqs) \X (1 .. MaxOps)
Frames == [type : ReplyTypes \cup {"Display"}, id : 0 .. MaxReqs,
           dump : SUBSET Defs]
Frame(t, i) == [type |-> t, id |-> i, dump |-> {}]

HandlerPCs == {"off", "read", "lock", "eval", "io", "want", "open", "send",
               "await", "drain", "done"}
\* The handler holds the evaluation lock and has set the display sink.
Evaluating == {"eval", "io", "want", "open", "send", "await"}

\* No evaluation is between two awaits: another task may be polled.
Yielded == phase # "exited" /\ \A c \in Clients : pc[c] # "eval"

\* tx.send(f): the frame is lost when the writer task has dropped rx.
TxSend(c, f) ==
    sent' = IF writer[c] = "dead" THEN sent
            ELSE [sent EXCEPT ![c] = Append(@, f)]

(* Faulty variants of the helpers below: what a slip in the code would do.  *)
(* No action uses them; substituted for the helper they stand for, each     *)
(* breaks a property.                                                       *)

JobFromZero(c) == [to |-> c, id |-> taken[c] - 1]
ReadsOnWhileQueued(c) == pc[c] \in {"read", "lock"}
GrantedToAny(c) == TRUE
LockLeaked == UNCHANGED eval_lock
SinkLeftSet == UNCHANGED display_sink
IsolationIgnored(c) == FALSE
EndpointHeld(c) == UNCHANGED endpoint
WokenByAnyMessage == reply_senders
WokenByNone == {}
WriterDoneOnlyWhenEmpty(c) == written[c] = Len(sent[c])

\* The handler of c is at the head of its request loop.
AtLoopHead(c) == pc[c] = "read"

\* It reads a request of kind k.
Reads(c, k) ==
    /\ Yielded
    /\ AtLoopHead(c)
    /\ taken[c] < Len(asked[c])
    /\ asked[c][taken[c] + 1] = k
    /\ taken' = [taken EXCEPT ![c] = @ + 1]

\* The request the handler of c is serving: the last one it read.
Job(c) == [to |-> c, id |-> taken[c]]
JobKind(c) == asked[c][taken[c]]

\* The mutex is fair: the lock goes to the first of the queue.
Granted(c) == Head(eval_lock) = c

\* The guard is dropped.
ReleaseLock == eval_lock' = Tail(eval_lock)

ClearSink == display_sink' = NoSink

\* The request asked for the environment of its connection.
InIsolation(c) == JobKind(c) = "isolated"

\* The endpoint guard ends with the block that opens the outbox.
ReleaseEndpoint(c) == endpoint' = NoOne

\* The registered channels a message in the inbox replies to.
Woken == {s \in reply_senders : s.id \in inbox}

\* The writer task has returned, or will once tx is dropped.
WriterDone(c) == writer[c] = "dead" \/ written[c] = Len(sent[c])

Init ==
    /\ conn = [c \in Clients |-> "no"]
    /\ asked = [c \in Clients |-> <<>>]
    /\ taken = [c \in Clients |-> 0]
    /\ pc = [c \in Clients |-> "off"]
    /\ sent = [c \in Clients |-> <<>>]
    /\ written = [c \in Clients |-> 0]
    /\ writer = [c \in Clients |-> "up"]
    /\ eval_lock = <<>>
    /\ display_sink = NoSink
    /\ ops = [c \in Clients |-> 0]
    /\ env = {}
    /\ isolated_env = [c \in Clients |-> {}]
    /\ orphan = FALSE
    /\ endpoint = NoOne
    /\ msgs = 0
    /\ call = [c \in Clients |-> 0]
    /\ reply_senders = {}
    /\ inbox = {}
    /\ answered = {}
    /\ reply = [c \in Clients |-> 0]
    /\ notified = FALSE
    /\ phase = "serving"
    /\ image = {}

-----------------------------------------------------------------------------
(* Clients: other processes.  A client may write a request before the last  *)
(* one is answered (ma-ipc.el does after a timeout) and may go away at any  *)
(* time.                                                                    *)

Connect(c) ==
    /\ conn[c] = "no" /\ phase = "serving"
    /\ conn' = [conn EXCEPT ![c] = "up"]
    /\ UNCHANGED <<asked, hvars, evars, avars, mvars>>

Request(c) ==
    /\ conn[c] = "up" /\ pc[c] # "done" /\ phase # "exited"
    /\ Len(asked[c]) < MaxReqs
    /\ Cardinality({r \in Clients \X (1 .. MaxReqs) :
                      r[2] <= Len(asked[r[1]])}) < MaxTotal
    /\ \E k \in Kinds : asked' = [asked EXCEPT ![c] = Append(@, k)]
    /\ UNCHANGED <<conn, hvars, evars, avars, mvars>>

Disconnect(c) ==
    /\ conn[c] = "up"
    /\ conn' = [conn EXCEPT ![c] = "closed"]
    /\ UNCHANGED <<asked, hvars, evars, avars, mvars>>

-----------------------------------------------------------------------------
(* The accept loop and the connection handlers.                             *)

Accept(c) ==
    /\ Yielded /\ phase = "serving"
    /\ conn[c] # "no" /\ pc[c] = "off"
    /\ pc' = [pc EXCEPT ![c] = "read"]
    /\ UNCHANGED <<cvars, taken, sent, written, writer, evars, avars, mvars>>

HandleHelloOrPing(c) ==
    /\ \E k \in {"hello", "ping"} :
          /\ Reads(c, k)
          /\ TxSend(c, Frame(Reply(k), 0))
    /\ UNCHANGED <<cvars, pc, written, writer, evars, avars, mvars>>

\* Stopping is queued, the main task is notified and the loop is left.
HandleStop(c) ==
    /\ Reads(c, "stop")
    /\ TxSend(c, Frame("Stopping", 0))
    /\ notified' = TRUE
    /\ pc' = [pc EXCEPT ![c] = "drain"]
    /\ UNCHANGED <<cvars, written, writer, evars, avars, phase, image>>

\* The shared environment is replaced without taking the evaluation lock.
\* The evaluator is a library: whether a suspended evaluation goes on in the
\* dropped environment or in the new one is left open.
HandleReset(c) ==
    /\ Reads(c, "reset")
    /\ env' = {}
    /\ orphan' \in IF display_sink = NoSink THEN {orphan} ELSE {orphan, TRUE}
    /\ TxSend(c, Frame("ResetDone", 0))
    /\ UNCHANGED <<cvars, pc, written, writer, eval_lock, display_sink, ops,
                   isolated_env, avars, mvars>>

\* The dump does not take the evaluation lock either.
HandleDumpEnv(c) ==
    /\ Reads(c, "dump")
    /\ TxSend(c, [type |-> "EnvDump", id |-> 0, dump |-> env])
    /\ UNCHANGED <<cvars, pc, written, writer, evars, avars, mvars>>

\* eval_lock.lock().await: the request joins the queue of the fair mutex.
HandleEval(c) ==
    /\ \E k \in EvalKinds : Reads(c, k)
    /\ eval_lock' = Append(eval_lock, c)
    /\ pc' = [pc EXCEPT ![c] = "lock"]
    /\ UNCHANGED <<cvars, sent, written, writer, display_sink, ops, env,
                   isolated_env, orphan, avars, mvars>>

\* The lock is granted: the sink is set and the evaluation starts.
StartEval(c) ==
    /\ Yielded
    /\ pc[c] = "lock" /\ Granted(c)
    /\ display_sink' = Job(c)
    /\ ops' = [ops EXCEPT ![c] = 0]
    /\ orphan' = FALSE
    /\ pc' = [pc EXCEPT ![c] = "eval"]
    /\ UNCHANGED <<cvars, taken, sent, written, writer, eval_lock, env,
                   isolated_env, avars, mvars>>

\* End of the request loop: the end of file, behind everything the client
\* wrote ...
HandlerEnds(c) ==
    /\ Yielded
    /\ AtLoopHead(c) /\ conn[c] = "closed" /\ taken[c] = Len(asked[c])
    /\ pc' = [pc EXCEPT ![c] = "drain"]
    /\ UNCHANGED <<cvars, taken, sent, written, writer, evars, avars, mvars>>

\* ... or an error: a connection that fails, perhaps with requests unread, or
\* a request that read_frame refuses, whose client is still there.  The
\* handler returns at once, and the writer task is left to itself.
RefusedNext(c) ==
    taken[c] < Len(asked[c]) /\ asked[c][taken[c] + 1] = "refused"

HandlerFails(c) ==
    /\ Yielded
    /\ AtLoopHead(c) /\ (conn[c] = "closed" \/ RefusedNext(c))
    /\ pc' = [pc EXCEPT ![c] = "done"]
    /\ UNCHANGED <<cvars, taken, sent, written, writer, evars, avars, mvars>>

\* drop(tx) and writer_task.await: every queued frame is written first.
HandlerDrained(c) ==
    /\ Yielded
    /\ pc[c] = "drain"
    /\ WriterDone(c)
    /\ pc' = [pc EXCEPT ![c] = "done"]
    /\ UNCHANGED <<cvars, taken, sent, written, writer, evars, avars, mvars>>

\* The writer task: one frame at a time; the first failure ends it.
Write(c) ==
    /\ Yielded
    /\ writer[c] = "up" /\ written[c] < Len(sent[c])
    /\ IF conn[c] = "closed"
       THEN /\ writer' = [writer EXCEPT ![c] = "dead"]
            /\ UNCHANGED written
       ELSE /\ written' = [written EXCEPT ![c] = @ + 1]
            /\ UNCHANGED writer
    /\ UNCHANGED <<cvars, taken, pc, sent, evars, avars, mvars>>

-----------------------------------------------------------------------------
(* A running evaluation, between two awaits.  A dot line is answered by the *)
(* host configuration and does none of these operations.                    *)

Step(c, o) ==
    /\ phase # "exited"
    /\ pc[c] = "eval" /\ JobKind(c) # "dot"
    /\ o \in Ops /\ ops[c] < MaxOps
    /\ ops' = [ops EXCEPT ![c] = @ + 1]

\* display_output writes to whatever sink is set.
Display(c) ==
    /\ Step(c, "display")
    /\ display_sink # NoSink
    /\ TxSend(display_sink.to, Frame("Display", display_sink.id))
    /\ UNCHANGED <<cvars, taken, pc, written, writer, eval_lock, display_sink,
                   env, isolated_env, orphan, avars, mvars>>

\* (define ...) in the environment the request selected.
Define(c) ==
    LET d == <<c, taken[c], ops[c] + 1>> IN
    /\ Step(c, "define")
    /\ IF InIsolation(c)
       THEN /\ isolated_env' = [isolated_env EXCEPT ![c] = @ \cup {d}]
            /\ UNCHANGED env
       ELSE /\ env' = IF orphan THEN env ELSE env \cup {d}
            /\ UNCHANGED isolated_env
    /\ UNCHANGED <<cvars, hvars, eval_lock, display_sink, orphan, avars, mvars>>

\* The evaluation awaits something other than an actor (a content fetch).
StartIO(c) ==
    /\ Step(c, "io")
    /\ pc' = [pc EXCEPT ![c] = "io"]
    /\ UNCHANGED <<cvars, taken, sent, written, writer, eval_lock,
                   display_sink, env, isolated_env, orphan, avars, mvars>>

EndIO(c) ==
    /\ Yielded
    /\ pc[c] = "io"
    /\ pc' = [pc EXCEPT ![c] = "eval"]
    /\ UNCHANGED <<cvars, taken, sent, written, writer, evars, avars, mvars>>

\* The outcome, whatever it is, is queued after the sink has been cleared and
\* the lock released.
FinishEval(c) ==
    /\ phase # "exited"
    /\ pc[c] = "eval"
    /\ ClearSink
    /\ ReleaseLock
    /\ TxSend(c, Frame("EvalResult", taken[c]))
    /\ pc' = [pc EXCEPT ![c] = "read"]
    /\ UNCHANGED <<cvars, taken, written, writer, ops, env, isolated_env,
                   orphan, avars, mvars>>

-----------------------------------------------------------------------------
(* Actor calls: send_actor, then register_reply_sender, then the oneshot.   *)

\* send_actor asks for the endpoint lock.
StartCall(c) ==
    /\ Step(c, "call") /\ msgs < MaxMsgs
    /\ pc' = [pc EXCEPT ![c] = "want"]
    /\ UNCHANGED <<cvars, taken, sent, written, writer, eval_lock,
                   display_sink, env, isolated_env, orphan, avars, mvars>>

\* The endpoint lock is held while the outbox is being opened.
LockEndpoint(c) ==
    /\ Yielded
    /\ pc[c] = "want" /\ endpoint = NoOne
    /\ endpoint' = c
    /\ pc' = [pc EXCEPT ![c] = "open"]
    /\ UNCHANGED <<cvars, taken, sent, written, writer, evars, msgs, call,
                   reply_senders, inbox, answered, reply, mvars>>

\* The outbox is open: the lock is released and the message goes out while
\* outbox.send is still being awaited.
OpenOutbox(c) ==
    /\ Yielded
    /\ pc[c] = "open"
    /\ ReleaseEndpoint(c)
    /\ msgs' = msgs + 1
    /\ call' = [call EXCEPT ![c] = msgs + 1]
    /\ pc' = [pc EXCEPT ![c] = "send"]
    /\ UNCHANGED <<cvars, taken, sent, written, writer, evars, reply_senders,
                   inbox, answered, reply, mvars>>

\* Opening or sending fails: the program gets an error and goes on.  A message
\* whose send failed may have been delivered all the same.
CallFails(c) ==
    /\ Yielded
    /\ pc[c] \in {"open", "send"}
    /\ endpoint' = IF pc[c] = "open" THEN NoOne ELSE endpoint
    /\ call' = [call EXCEPT ![c] = 0]
    /\ pc' = [pc EXCEPT ![c] = "eval"]
    /\ UNCHANGED <<cvars, taken, sent, written, writer, evars, msgs,
                   reply_senders, inbox, answered, reply, mvars>>

\* outbox.send returns and, with no await in between, the reply channel is
\* registered under the message's id.
RegisterReplySender(c) ==
    /\ Yielded
    /\ pc[c] = "send"
    /\ reply_senders' = {s \in reply_senders : s.id # call[c]}
                          \cup {[id |-> call[c], to |-> c]}
    /\ pc' = [pc EXCEPT ![c] = "await"]
    /\ UNCHANGED <<cvars, taken, sent, written, writer, evars, endpoint, msgs,
                   call, inbox, answered, reply, mvars>>

\* receiver.await returns with the value the poll loop put there.
CallReturns(c) ==
    /\ Yielded
    /\ pc[c] = "await" /\ reply[c] # 0
    /\ reply' = [reply EXCEPT ![c] = 0]
    /\ call' = [call EXCEPT ![c] = 0]
    /\ pc' = [pc EXCEPT ![c] = "eval"]
    /\ UNCHANGED <<cvars, taken, sent, written, writer, evars, endpoint, msgs,
                   reply_senders, inbox, answered, mvars>>

\* The poll loop drains the whole inbox; messages that reply to nothing or to
\* an id nobody registered are dropped.
PollReplies ==
    /\ Yielded /\ inbox # {}
    /\ reply' = [c \in Clients |->
                   IF \E s \in Woken : s.to = c
                   THEN (CHOOSE s \in Woken : s.to = c).id
                   ELSE reply[c]]
    /\ reply_senders' = reply_senders \ Woken
    /\ inbox' = {}
    /\ UNCHANGED <<cvars, hvars, evars, endpoint, msgs, call, answered, mvars>>

\* A remote actor replies to a message it received: late, more than once, or
\* never.
ActorReplies(m) ==
    /\ phase # "exited" /\ m \in 1 .. msgs
    /\ inbox' = inbox \cup {m}
    /\ answered' = answered \cup {m}
    /\ UNCHANGED <<cvars, hvars, evars, endpoint, msgs, call, reply_senders,
                   reply, mvars>>

\* A remote actor sends a message of its own accord (no reply_to).
ActorSends ==
    /\ phase # "exited" /\ "call" \in Ops
    /\ inbox' = inbox \cup {0}
    /\ UNCHANGED <<cvars, hvars, evars, endpoint, msgs, call, reply_senders,
                   answered, reply, mvars>>

-----------------------------------------------------------------------------
(* The main task: leave the select loop, write the image, close, exit.      *)

\* SIGINT or SIGTERM has the same effect as a Stop request.
Signal ==
    /\ phase = "serving" /\ ~notified
    /\ notified' = TRUE
    /\ UNCHANGED <<cvars, hvars, evars, avars, phase, image>>

\* The socket file is removed and the image written in one go, without the
\* evaluation lock.
Shutdown ==
    /\ Yielded /\ phase = "serving" /\ notified
    /\ phase' = "closing"
    /\ image' = env
    /\ UNCHANGED <<cvars, hvars, evars, avars, notified>>

\* ctx.close(): the endpoint is closed under its lock; other tasks go on.
CloseEndpoint ==
    /\ Yielded /\ phase = "closing" /\ endpoint = NoOne
    /\ phase' = "ending"
    /\ endpoint' = Main
    /\ UNCHANGED <<cvars, hvars, evars, msgs, call, reply_senders, inbox,
                   answered, reply, notified, image>>

\* The LocalSet is dropped with every task still in it.
Exit ==
    /\ Yielded /\ phase = "ending"
    /\ phase' = "exited"
    /\ UNCHANGED <<cvars, hvars, evars, avars, notified, image>>

-----------------------------------------------------------------------------
Handler(c) ==
    \/ Accept(c)
    \/ HandleHelloOrPing(c)
    \/ HandleStop(c)
    \/ HandleReset(c)
    \/ HandleDumpEnv(c)
    \/ HandleEval(c)
    \/ StartEval(c)
    \/ HandlerEnds(c)
    \/ HandlerFails(c)
    \/ HandlerDrained(c)

Evaluation(c) ==
    \/ Display(c)
    \/ Define(c)
    \/ StartIO(c)
    \/ StartCall(c)
    \/ FinishEval(c)

Transport(c) ==
    \/ LockEndpoint(c)
    \/ OpenOutbox(c)
    \/ CallFails(c)
    \/ RegisterReplySender(c)
    \/ CallReturns(c)

MainTask ==
    \/ Shutdown
    \/ CloseEndpoint
    \/ Exit

Next ==
    \/ \E c \in Clients :
          \/ Connect(c)
          \/ Request(c)
          \/ Disconnect(c)
          \/ Handler(c)
          \/ Evaluation(c)
          \/ EndIO(c)
          \/ Transport(c)
          \/ Write(c)
    \/ PollReplies
    \/ \E m \in 1 .. MaxMsgs : ActorReplies(m)
    \/ ActorSends
    \/ Signal
    \/ MainTask

Spec == Init /\ [][Next]_vars

-----------------------------------------------------------------------------
(* Fairness.  tokio polls every ready task, and the operating system runs    *)
(* the process: weak fairness of each task where what it waits for is of the *)
(* daemon's own making, or has come.  A program is a finite sequence of      *)
(* operations.  Nothing is assumed of clients, of the remote actors or of    *)
(* the network, on which an open, a send and an I/O may wait for ever; what  *)
(* a property needs of them is its premise.                                  *)

Resumes(c) == LockEndpoint(c) \/ CallReturns(c)

Fairness ==
    /\ \A c \in Clients :
          /\ WF_vars(Handler(c))
          /\ WF_vars(Evaluation(c))
          /\ WF_vars(Resumes(c))
          /\ WF_vars(Write(c))
    /\ WF_vars(PollReplies)
    /\ WF_vars(MainTask)

FairSpec == Spec /\ Fairness

\* In addition every message an actor receives is replied to.
ActorsReply ==
    \A m \in 1 .. MaxMsgs : WF_vars(m \notin answered /\ ActorReplies(m))

ReplyingSpec == FairSpec /\ ActorsReply

-----------------------------------------------------------------------------
(* Properties.                                                              *)

ClientsType ==
    /\ conn \in [Clients -> {"no", "up", "closed"}]
    /\ asked \in [Clients -> Seq(Kinds)]

HandlersType ==
    /\ taken \in [Clients -> 0 .. MaxReqs]
    /\ pc \in [Clients -> HandlerPCs]
    /\ sent \in [Clients -> Seq(Frames)]
    /\ written \in [Clients -> Nat]
    /\ writer \in [Clients -> {"up", "dead"}]

EvaluatorType ==
    /\ eval_lock \in Seq(Clients)
    /\ display_sink \in [to : Clients, id : 1 .. MaxReqs] \cup {NoSink}
    /\ ops \in [Clients -> 0 .. MaxOps]
    /\ env \subseteq Defs
    /\ isolated_env \in [Clients -> SUBSET Defs]
    /\ orphan \in BOOLEAN

CallsType ==
    /\ endpoint \in Clients \cup {Main, NoOne}
    /\ msgs \in 0 .. MaxMsgs
    /\ call \in [Clients -> 0 .. MaxMsgs]
    /\ reply_senders \subseteq [id : 1 .. MaxMsgs, to : Clients]
    /\ inbox \subseteq 0 .. MaxMsgs
    /\ answered \subseteq 1 .. MaxMsgs
    /\ reply \in [Clients -> 0 .. MaxMsgs]

MainType ==
    /\ notified \in BOOLEAN
    /\ phase \in {"serving", "closing", "ending", "exited"}
    /\ image \subseteq Defs

\* Every variable has its type.
TypeOK ==
    /\ ClientsType
    /\ HandlersType
    /\ EvaluatorType
    /\ CallsType
    /\ MainType

\* Display output goes to the request whose evaluation is running, at every
\* moment and for as long as it runs: the sink is set exactly while some
\* evaluation holds the lock, and names that evaluation's connection and id.
\* (daemon.rs, set_display_sink around the evaluation under eval_lock.)
SinkFollowsLock ==
    /\ \A c \in Clients :
          pc[c] \in Evaluating => /\ Len(eval_lock) > 0 /\ Head(eval_lock) = c
                                 /\ display_sink = Job(c)
    /\ display_sink # NoSink => \E c \in Clients : pc[c] \in Evaluating

\* An actor call gets the reply to its own message, never a late or repeated
\* reply to another call, and no reply channel outlives the call it was
\* registered for.  (context.rs, do_actor_call and poll_replies.)
ReplyRouted ==
    /\ \A c \in Clients : reply[c] # 0 => /\ pc[c] = "await"
                                          /\ reply[c] = call[c]
                                          /\ reply[c] \in answered
    /\ \A s \in reply_senders : /\ pc[s.to] = "await"
                                /\ s.id = call[s.to]
                                /\ reply[s.to] = 0
    /\ Cardinality(reply_senders) <= 1

\* How many of the first p of the frames are responses: Display frames answer
\* no request.
Responses(frames, p) ==
    Cardinality({q \in 1 .. p : frames[q].type # "Display"})

\* How many requests of c have been answered.
Answered(c) == Responses(sent[c], Len(sent[c]))

\* Frame p on the channel of c is in its place: a response is the one to the
\* request of its rank, and a Display frame belongs to the evaluation that is
\* answered next.
FrameInOrder(c, p) ==
    LET k == Responses(sent[c], p) IN
    IF sent[c][p].type = "Display"
    THEN sent[c][p].id = k + 1
    ELSE sent[c][p].type = Reply(asked[c][k]) /\ sent[c][p].id \in {0, k}

\* On every connection the responses come back one per request and in the
\* order of the requests, and Display frames stand exactly before the result
\* of the evaluation that produced them.  The frontends rely on it: they wait
\* for the next frame of the right type.  (daemon.rs, handle_conn.)
ResponsesInOrder ==
    \A c \in Clients :
       /\ Answered(c) <= taken[c]
       /\ \A p \in 1 .. Len(sent[c]) : FrameInOrder(c, p)

\* A dump holds only defines made by shared evaluations that some client
\* asked for before it, and none of those its own connection had completed
\* before a reset it sent earlier.  (daemon.rs, Reset, DumpEnv and the choice
\* of environment in eval_request; README, --isolated and reset.)
DumpsAreSound ==
    \A c \in Clients : \A p \in 1 .. Len(sent[c]) :
       sent[c][p].type = "EnvDump" =>
          \A d \in sent[c][p].dump :
             /\ d[2] <= taken[d[1]] /\ asked[d[1]][d[2]] = "shared"
             /\ \A q \in 1 .. Len(asked[c]) :
                   (asked[c][q] = "reset" /\ d[1] = c /\ d[2] < q)
                      => q > Responses(sent[c], p)

\* No evaluation waits for ever for the network: opening an outbox, sending,
\* a reply, other I/O.  The code has no timeout of its own for any of them.
CallsReturn ==
    \A c \in Clients : []<>(pc[c] \notin {"open", "send", "await", "io"})

\* No outbox is being opened for ever; the library's users have seen this time
\* out (avatar.zscheme:613).
OpensEnd == \A c \in Clients : []<>(pc[c] # "open")

\* One of the first k requests of c is refused.
Refused(c, k) == \E q \in DOMAIN asked[c] : q <= k /\ asked[c][q] = "refused"

\* Every evaluation asked for is answered, unless its client goes away or has
\* sent a request that is refused, or the daemon is stopped, however the
\* requests of the connections interleave and whether calls fail or return:
\* only a call that waits for ever holds the evaluations up.
\* (daemon.rs, handle_conn and eval_lock; context.rs, do_actor_call.)
EvalsAnswered ==
    CallsReturn =>
       \A c \in Clients : \A k \in 1 .. MaxReqs :
          Len(asked[c]) >= k ~> \/ Answered(c) >= k
                              \/ conn[c] = "closed" \/ notified
                              \/ Refused(c, k)

\* "Send an actor message to target#verb(args) and await the reply"
\* (context.rs, do_actor_call): where actors reply, every call returns.
EveryCallReturns ==
    \A c \in Clients : pc[c] = "await" ~> (pc[c] # "await" \/ notified)

\* A call whose reply reaches the inbox after its channel was registered
\* returns: the reply is not lost between the poll loop and the evaluation.
RegisteredCallReturns ==
    \A c \in Clients : \A m \in 1 .. MaxMsgs :
       [id |-> m, to |-> c] \in reply_senders /\ m \in inbox
          ~> (call[c] # m \/ notified)

\* A stopped daemon exits even when evaluations are waiting for sends or
\* replies that never end: only opening an outbox, which holds the endpoint
\* lock, can keep it.  (daemon.rs, run; context.rs, close and send_actor.)
StopCompletes == OpensEnd => (notified ~> phase = "exited")

\* The handler of a client that has gone away, or has sent a request that is
\* refused, ends, in the middle of an evaluation too, unless some call waits
\* for ever.
HandlersEnd ==
    CallsReturn =>
       \A c \in Clients :
          conn[c] = "closed" \/ RefusedNext(c) ~> (pc[c] = "done" \/ notified)

-----------------------------------------------------------------------------
(* The daemon implements a first-come-first-served evaluation service.      *)

\* What of a frame the service is about: the other responses look alike.
View(f) == [type |-> IF f.type \in {"Display", "EvalResult"}
                     THEN f.type ELSE "Other",
            id |-> f.id]

Service == INSTANCE EvalService WITH
    queue <- [i \in 1 .. Len(eval_lock) |-> Job(eval_lock[i])],
    running <- display_sink # NoSink,
    output <- [c \in Clients |->
                 [i \in 1 .. Len(sent[c]) |-> View(sent[c][i])]],
    left <- {c \in Clients : writer[c] = "dead"}

ServiceSpec == Service!Spec
=============================================================================
