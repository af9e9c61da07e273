---------------------------- MODULE Daemon_proofs ----------------------------
(***************************************************************************)
(* Proofs about Daemon, in three parts.                                     *)
(*                                                                          *)
(* First type correctness, that display output follows the evaluation lock, *)
(* and that an actor call gets the reply to its own message.  None of them  *)
(* is inductive alone.  The strengthening DaemonInv says who stands in the  *)
(* queue of the lock (exactly the handlers that wait for it or evaluate,    *)
(* each once), that only its head evaluates, and what the ids of messages   *)
(* in flight can be.                                                        *)
(*                                                                          *)
(* Then what a connection is sent: responses in the order of the requests,  *)
(* with their displays before them, and sound dumps.  Last, that Daemon     *)
(* implements EvalService.                                                  *)
(***************************************************************************)
EXTENDS Daemon, FiniteSetTheorems, TLAPS

\* Request ids are positions in the list of requests.
RequestsInv ==
    \A c \in Clients :
       /\ Len(asked[c]) <= MaxReqs
       /\ taken[c] <= Len(asked[c])
       /\ pc[c] \in Evaluating \cup {"lock"} => taken[c] >= 1

\* The queue of the evaluation lock: the handlers that wait for it or hold it,
\* each once, and only its head evaluates.
LockInv ==
    /\ \A i \in 1 .. Len(eval_lock) :
          pc[eval_lock[i]] \in Evaluating \cup {"lock"}
    /\ \A i, j \in 1 .. Len(eval_lock) :
          eval_lock[i] = eval_lock[j] => i = j
    /\ \A c \in Clients :
          pc[c] \in Evaluating => Len(eval_lock) > 0 /\ eval_lock[1] = c
    /\ \A c \in Clients :
          pc[c] = "lock" => \E i \in 1 .. Len(eval_lock) : eval_lock[i] = c

SinkInv ==
    /\ \A c \in Clients : pc[c] \in Evaluating => display_sink = Job(c)
    /\ display_sink # NoSink => \E c \in Clients : pc[c] \in Evaluating

\* Messages in flight.
CallInv ==
    /\ \A c \in Clients :
          /\ pc[c] \in {"want", "open"} => msgs < MaxMsgs
          /\ pc[c] \in {"send", "await"} => call[c] \in 1 .. msgs
          /\ reply[c] # 0 => /\ pc[c] = "await"
                             /\ reply[c] = call[c]
                             /\ reply[c] \in answered
    /\ \A s \in reply_senders : /\ pc[s.to] = "await"
                                /\ s.id = call[s.to]
                                /\ reply[s.to] = 0
    /\ inbox \subseteq answered \cup {0}

DaemonInv == TypeOK /\ RequestsInv /\ LockInv /\ SinkInv /\ CallInv

-----------------------------------------------------------------------------
(* The initial states.                                                      *)

\* Splitting the invariant keeps the prover's tasks small.
LEMMA InitInv == Init => DaemonInv
<1>. SUFFICES ASSUME Init PROVE DaemonInv
  OBVIOUS
<1>. USE DaemonAssumption DEF Init
<1>1. ClientsType
  BY DEF ClientsType
<1>2. HandlersType
  BY DEF HandlersType, HandlerPCs
<1>3. EvaluatorType
  <2>1. eval_lock \in Seq(Clients)
    OBVIOUS
  <2>2. ops \in [Clients -> 0 .. MaxOps]
    OBVIOUS
  <2>3. env \subseteq Defs /\ isolated_env \in [Clients -> SUBSET Defs]
    OBVIOUS
  <2>4. orphan \in BOOLEAN
    OBVIOUS
  <2>. QED
    BY <2>1, <2>2, <2>3, <2>4 DEF EvaluatorType
<1>4. CallsType
  BY DEF CallsType
<1>5. MainType
  BY DEF MainType
<1>6. RequestsInv
  BY DEF RequestsInv, Evaluating
<1>7. LockInv
  BY DEF LockInv, Evaluating
<1>8. SinkInv
  BY DEF SinkInv, Evaluating
<1>9. CallInv
  BY DEF CallInv
<1>. QED
  BY <1>1, <1>2, <1>3, <1>4, <1>5, <1>6, <1>7, <1>8, <1>9 DEF DaemonInv, TypeOK

-----------------------------------------------------------------------------
(* Type correctness, one group of variables at a time.                      *)

\* A frame put on a channel keeps the channels typed.
LEMMA TxSendType ==
  ASSUME NEW c \in Clients, NEW f \in Frames,
         sent \in [Clients -> Seq(Frames)], TxSend(c, f)
  PROVE  sent' \in [Clients -> Seq(Frames)]
  BY DEF TxSend

\* Reading a request keeps the read positions in range.
LEMMA ReadsType ==
  ASSUME DaemonInv, NEW c \in Clients, NEW k, Reads(c, k)
  PROVE  taken' \in [Clients -> 0 .. MaxReqs]
<1>1. /\ taken \in [Clients -> 0 .. MaxReqs]
      /\ Len(asked[c]) \in Nat /\ Len(asked[c]) <= MaxReqs
  BY DEF DaemonInv, TypeOK, ClientsType, HandlersType, RequestsInv
<1>2. taken[c] + 1 \in 0 .. MaxReqs
  BY <1>1, DaemonAssumption DEF Reads, AtLoopHead
<1>. QED
  BY <1>1, <1>2 DEF Reads, AtLoopHead

\* Connections and requests stay typed: only clients write them.
LEMMA ClientsTypeStep == DaemonInv /\ [Next]_vars => ClientsType'
<1>. SUFFICES ASSUME DaemonInv, [Next]_vars PROVE ClientsType'
  OBVIOUS
<1>. USE DaemonAssumption DEF DaemonInv, TypeOK, ClientsType
<1>1. CASE \E c \in Clients : Accept(c) \/ HandleHelloOrPing(c) \/
      HandleStop(c) \/ HandleReset(c) \/ HandleDumpEnv(c) \/ HandleEval(c) \/
      StartEval(c) \/ HandlerEnds(c) \/ HandlerFails(c) \/ HandlerDrained(c)
  BY <1>1 DEF Accept, HandleHelloOrPing, HandleStop, HandleReset,
     HandleDumpEnv, HandleEval, StartEval, Granted, HandlerEnds, HandlerFails,
     HandlerDrained, cvars, hvars, evars, avars, mvars
<1>2. CASE \E c \in Clients : Display(c) \/ Define(c) \/ StartIO(c) \/
      StartCall(c) \/ FinishEval(c) \/ EndIO(c) \/ LockEndpoint(c) \/
      OpenOutbox(c) \/ CallFails(c) \/ RegisterReplySender(c) \/
      CallReturns(c) \/ Write(c)
  BY <1>2 DEF Display, Define, StartIO, StartCall, FinishEval, ClearSink,
     ReleaseLock, EndIO, LockEndpoint, OpenOutbox, ReleaseEndpoint, CallFails,
     RegisterReplySender, CallReturns, Write, cvars, hvars, evars, avars,
     mvars
<1>3. CASE UNCHANGED vars \/ PollReplies \/ ActorSends \/ Signal \/ Shutdown
      \/ CloseEndpoint \/ Exit \/ (\E m \in 1 .. MaxMsgs : ActorReplies(m))
  BY <1>3 DEF vars, PollReplies, ActorSends, Signal, Shutdown, CloseEndpoint,
      Exit, ActorReplies, cvars, hvars, evars, avars, mvars
<1>4. ASSUME NEW c \in Clients, Connect(c) PROVE ClientsType'
  BY <1>4 DEF Connect, cvars, hvars, evars, avars, mvars
<1>5. ASSUME NEW c \in Clients, Request(c) PROVE ClientsType'
  BY <1>5 DEF Request, cvars, hvars, evars, avars, mvars
<1>6. ASSUME NEW c \in Clients, Disconnect(c) PROVE ClientsType'
  BY <1>6 DEF Disconnect, cvars, hvars, evars, avars, mvars
<1>. QED   BY <1>1, <1>2, <1>3, <1>4, <1>5, <1>6 DEF Next, Handler,
     Evaluation, Transport, MainTask

\* Handlers, channels and writers stay typed: every frame queued is one the
\* protocol has.
LEMMA HandlersTypeStep == DaemonInv /\ [Next]_vars => HandlersType'
<1>. SUFFICES ASSUME DaemonInv, [Next]_vars PROVE HandlersType'
  OBVIOUS
<1>. USE DaemonAssumption DEF DaemonInv, TypeOK, HandlersType, HandlerPCs
<1>1. CASE \E c \in Clients : Connect(c) \/ Request(c) \/ Disconnect(c) \/
      Accept(c) \/ StartEval(c) \/ HandlerEnds(c) \/ HandlerFails(c) \/
      HandlerDrained(c)
  BY <1>1, ZenonT(40) DEF Connect, Request, Disconnect, Accept, StartEval, Granted,
     HandlerEnds, HandlerFails, HandlerDrained, cvars, hvars, evars, avars,
     mvars
<1>2. CASE \E c \in Clients : Define(c) \/ StartIO(c) \/ StartCall(c) \/
      EndIO(c) \/ LockEndpoint(c) \/ OpenOutbox(c) \/ CallFails(c) \/
      RegisterReplySender(c) \/ CallReturns(c)
  BY <1>2, ZenonT(40) DEF Define, StartIO, StartCall, EndIO, LockEndpoint, OpenOutbox,
     ReleaseEndpoint, CallFails, RegisterReplySender, CallReturns, cvars,
     hvars, evars, avars, mvars
<1>3. CASE UNCHANGED vars \/ PollReplies \/ ActorSends \/ Signal \/ Shutdown
      \/ CloseEndpoint \/ Exit \/ (\E m \in 1 .. MaxMsgs : ActorReplies(m))
  BY <1>3 DEF vars, PollReplies, ActorSends, Signal, Shutdown, CloseEndpoint,
      Exit, ActorReplies, cvars, hvars, evars, avars, mvars
<1>4. ASSUME NEW c \in Clients, HandleEval(c) PROVE HandlersType'
  BY <1>4 DEF HandleEval, RequestsInv, Reads, AtLoopHead, cvars, hvars, evars,
     avars, mvars
<1>5. ASSUME NEW c \in Clients, HandleHelloOrPing(c) PROVE HandlersType'
  <2>. PICK k \in {"hello", "ping"} :
         Reads(c, k) /\ TxSend(c, Frame(Reply(k), 0))
    BY <1>5 DEF HandleHelloOrPing
  <2>1. Frame(Reply(k), 0) \in Frames
    BY DEF Frame, Frames, Reply, ReplyTypes
  <2>2. sent' \in [Clients -> Seq(Frames)]
    BY <2>1, TxSendType
  <2>. QED
    BY <1>5, <2>2, ReadsType DEF HandleHelloOrPing
<1>6. ASSUME NEW c \in Clients, HandleStop(c) PROVE HandlersType'
  <2>1. Frame("Stopping", 0) \in Frames
    BY <1>6 DEF HandleStop, Frame, Frames, ReplyTypes
  <2>2. sent' \in [Clients -> Seq(Frames)]
    BY <1>6, <2>1, TxSendType DEF HandleStop
  <2>. QED
    BY <1>6, <2>2, ReadsType DEF HandleStop
<1>7. ASSUME NEW c \in Clients, HandleReset(c) PROVE HandlersType'
  <2>1. Frame("ResetDone", 0) \in Frames
    BY <1>7 DEF HandleReset, Frame, Frames, ReplyTypes
  <2>2. sent' \in [Clients -> Seq(Frames)]
    BY <1>7, <2>1, TxSendType DEF HandleReset
  <2>. QED
    BY <1>7, <2>2, ReadsType DEF HandleReset
<1>8. ASSUME NEW c \in Clients, HandleDumpEnv(c) PROVE HandlersType'
  <2>1. [type |-> "EnvDump", id |-> 0, dump |-> env] \in Frames
    BY DEF EvaluatorType, Frames, ReplyTypes
  <2>2. sent' \in [Clients -> Seq(Frames)]
    BY <1>8, <2>1, TxSendType DEF HandleDumpEnv
  <2>. QED
    BY <1>8, <2>2, ReadsType DEF HandleDumpEnv
<1>9. ASSUME NEW c \in Clients, Display(c) PROVE HandlersType'
  <2>1. display_sink \in [to : Clients, id : 1 .. MaxReqs]
    BY <1>9 DEF Display, EvaluatorType
  <2>2. Frame("Display", display_sink.id) \in Frames
    BY <2>1 DEF Frame, Frames
  <2>3. sent' \in [Clients -> Seq(Frames)]
    BY <1>9, <2>1, <2>2, TxSendType DEF Display
  <2>. QED
    BY <1>9, <2>3 DEF Display, cvars, hvars, evars, avars, mvars
<1>10. ASSUME NEW c \in Clients, FinishEval(c) PROVE HandlersType'
  <2>1. Frame("EvalResult", taken[c]) \in Frames
    BY DEF Frame, Frames, ReplyTypes
  <2>2. sent' \in [Clients -> Seq(Frames)]
    BY <1>10, <2>1, TxSendType DEF FinishEval, ClearSink, ReleaseLock
  <2>. QED
    BY <1>10, <2>2 DEF FinishEval, ClearSink, ReleaseLock, HandlerPCs, cvars,
       hvars, evars, avars, mvars
<1>11. ASSUME NEW c \in Clients, Write(c) PROVE HandlersType'
  <2>1. CASE conn[c] = "closed"
    BY <1>11, <2>1 DEF Write, cvars, hvars, evars, avars, mvars
  <2>2. CASE conn[c] # "closed"
    BY <1>11, <2>2, SMTT(30) DEF Write, cvars, hvars, evars, avars, mvars
  <2>. QED
    BY <2>1, <2>2
<1>. QED   BY <1>1, <1>2, <1>3, <1>4, <1>5, <1>6, <1>7, <1>8, <1>9, <1>10,
     <1>11 DEF Next, Handler, Evaluation, Transport, MainTask

\* The lock, the sink and the environments stay typed.
LEMMA EvaluatorTypeStep == DaemonInv /\ [Next]_vars => EvaluatorType'
<1>. SUFFICES ASSUME DaemonInv, [Next]_vars PROVE EvaluatorType'
  OBVIOUS
<1>. USE DaemonAssumption DEF DaemonInv, TypeOK, EvaluatorType
<1>1. CASE \E c \in Clients : Connect(c) \/ Request(c) \/ Disconnect(c) \/
      Accept(c) \/ HandleHelloOrPing(c) \/ HandleStop(c) \/ HandleDumpEnv(c)
      \/ HandlerEnds(c) \/ HandlerFails(c) \/ HandlerDrained(c)
  BY <1>1 DEF Connect, Request, Disconnect, Accept, HandleHelloOrPing,
      HandleStop, HandleDumpEnv, HandlerEnds, HandlerFails, HandlerDrained,
      cvars, hvars,
      evars, avars, mvars
<1>2. CASE \E c \in Clients : EndIO(c) \/ LockEndpoint(c) \/ OpenOutbox(c) \/
      CallFails(c) \/ RegisterReplySender(c) \/ CallReturns(c) \/ Write(c)
  BY <1>2 DEF EndIO, LockEndpoint, OpenOutbox, ReleaseEndpoint, CallFails,
     RegisterReplySender, CallReturns, Write, cvars, hvars, evars, avars,
     mvars
<1>3. CASE UNCHANGED vars \/ PollReplies \/ ActorSends \/ Signal \/ Shutdown
      \/ CloseEndpoint \/ Exit \/ (\E m \in 1 .. MaxMsgs : ActorReplies(m))
  BY <1>3 DEF vars, PollReplies, ActorSends, Signal, Shutdown, CloseEndpoint,
      Exit, ActorReplies, cvars, hvars, evars, avars, mvars
<1>4. ASSUME NEW c \in Clients, HandleReset(c) PROVE EvaluatorType'
  BY <1>4 DEF HandleReset, cvars, hvars, evars, avars, mvars
<1>5. ASSUME NEW c \in Clients, HandleEval(c) PROVE EvaluatorType'
  BY <1>5 DEF HandleEval, cvars, hvars, evars, avars, mvars
<1>6. ASSUME NEW c \in Clients, StartEval(c) PROVE EvaluatorType'
  <2>1. Job(c) \in [to : Clients, id : 1 .. MaxReqs]
    BY <1>6 DEF StartEval, Granted, RequestsInv, HandlersType, Job
  <2>. QED
    <3>1. ops' \in [Clients -> 0 .. MaxOps]
      BY <1>6 DEF StartEval, Granted
    <3>2. orphan' \in BOOLEAN
      BY <1>6 DEF StartEval, Granted
    <3>3. UNCHANGED <<eval_lock, env, isolated_env>>
      BY <1>6 DEF StartEval, Granted
    <3>4. display_sink' \in [to : Clients, id : 1 .. MaxReqs]
      BY <1>6, <2>1 DEF StartEval, Granted
    <3>. QED
      BY <3>1, <3>2, <3>3, <3>4
<1>7. ASSUME NEW c \in Clients, Display(c) PROVE EvaluatorType'
  BY <1>7 DEF Display, Step, cvars, hvars, evars, avars, mvars
<1>8. ASSUME NEW c \in Clients, Define(c) PROVE EvaluatorType'
  <2>1. <<c, taken[c], ops[c] + 1>> \in Defs
    BY <1>8 DEF Define, Step, RequestsInv, HandlersType, Evaluating, Defs
  <2>. QED
    <3>1. ops' \in [Clients -> 0 .. MaxOps]
      BY <1>8 DEF Define, Step
    <3>2. /\ env' \subseteq Defs
          /\ isolated_env' \in [Clients -> SUBSET Defs]
      <4>1. CASE InIsolation(c)
        <5>1. isolated_env[c] \cup {<<c, taken[c], ops[c] + 1>>}
                \in SUBSET Defs
          BY <2>1
        <5>. QED
          BY <1>8, <4>1, <5>1 DEF Define
      <4>2. CASE ~InIsolation(c)
        BY <1>8, <2>1, <4>2 DEF Define
      <4>. QED
        BY <4>1, <4>2
    <3>3. UNCHANGED <<eval_lock, display_sink, orphan>>
      BY <1>8 DEF Define
    <3>. QED
      BY <3>1, <3>2, <3>3
<1>9. ASSUME NEW c \in Clients, StartIO(c) PROVE EvaluatorType'
  BY <1>9 DEF StartIO, Step, cvars, hvars, evars, avars, mvars
<1>10. ASSUME NEW c \in Clients, StartCall(c) PROVE EvaluatorType'
  BY <1>10 DEF StartCall, Step, cvars, hvars, evars, avars, mvars
<1>11. ASSUME NEW c \in Clients, FinishEval(c) PROVE EvaluatorType'
  <2>1. Len(eval_lock) > 0
    BY <1>11 DEF FinishEval, ClearSink, ReleaseLock, LockInv, Evaluating
  <2>2. Tail(eval_lock) \in Seq(Clients)
    BY <2>1
  <2>. QED
    BY <1>11, <2>2 DEF FinishEval, ClearSink, ReleaseLock, cvars, hvars,
       evars, avars, mvars
<1>. QED   BY <1>1, <1>2, <1>3, <1>4, <1>5, <1>6, <1>7, <1>8, <1>9, <1>10,
     <1>11 DEF Next, Handler, Evaluation, Transport, MainTask

\* Message ids stay within the bound: a call is started only while an id is
\* left, and no other call can take it, because one evaluation runs at a time.
LEMMA CallsTypeStep == DaemonInv /\ [Next]_vars => CallsType'
<1>. SUFFICES ASSUME DaemonInv, [Next]_vars PROVE CallsType'
  OBVIOUS
<1>. USE DaemonAssumption DEF DaemonInv, TypeOK, CallsType
<1>1. CASE \E c \in Clients : Connect(c) \/ Request(c) \/ Disconnect(c) \/
      Accept(c) \/ HandleHelloOrPing(c) \/ HandleStop(c) \/ HandleReset(c) \/
      HandleDumpEnv(c) \/ HandleEval(c) \/ StartEval(c) \/
      HandlerEnds(c) \/ HandlerFails(c) \/
      HandlerDrained(c)
  BY <1>1, ZenonT(40) DEF Connect, Request, Disconnect, Accept, HandleHelloOrPing,
     HandleStop, HandleReset, HandleDumpEnv, HandleEval, StartEval, Granted,
     HandlerEnds, HandlerFails, HandlerDrained, cvars, hvars, evars, avars,
     mvars
<1>2. CASE \E c \in Clients : Display(c) \/ Define(c) \/ StartIO(c) \/
      StartCall(c) \/ FinishEval(c) \/ EndIO(c) \/ Write(c)
  BY <1>2 DEF Display, Define, StartIO, StartCall, FinishEval, ClearSink,
     ReleaseLock, EndIO, Write, cvars, hvars, evars, avars, mvars
<1>3. CASE UNCHANGED vars \/ Signal \/ Shutdown \/ Exit
  BY <1>3 DEF vars, Signal, Shutdown, Exit, cvars, hvars, evars, avars, mvars
<1>4. ASSUME NEW c \in Clients, LockEndpoint(c) PROVE CallsType'
  BY <1>4 DEF LockEndpoint, cvars, hvars, evars, avars, mvars
<1>5. ASSUME NEW c \in Clients, OpenOutbox(c) PROVE CallsType'
  <2>1. msgs + 1 \in 1 .. MaxMsgs
    BY <1>5 DEF OpenOutbox, ReleaseEndpoint, CallInv
  <2>. QED
    BY <1>5, <2>1 DEF OpenOutbox, ReleaseEndpoint, cvars, hvars, evars, avars,
       mvars
<1>6. ASSUME NEW c \in Clients, CallFails(c) PROVE CallsType'
  BY <1>6 DEF CallFails, cvars, hvars, evars, avars, mvars
<1>7. ASSUME NEW c \in Clients, RegisterReplySender(c) PROVE CallsType'
  <2>1. [id |-> call[c], to |-> c] \in [id : 1 .. MaxMsgs, to : Clients]
    BY <1>7 DEF RegisterReplySender, CallInv
  <2>. QED
    BY <1>7, <2>1 DEF RegisterReplySender, cvars, hvars, evars, avars, mvars
<1>8. ASSUME NEW c \in Clients, CallReturns(c) PROVE CallsType'
  BY <1>8 DEF CallReturns, cvars, hvars, evars, avars, mvars
<1>9. CASE PollReplies
  BY <1>9 DEF PollReplies, Woken, cvars, hvars, evars, avars, mvars
<1>10. ASSUME NEW m \in 1 .. MaxMsgs, ActorReplies(m) PROVE CallsType'
  BY <1>10 DEF ActorReplies, cvars, hvars, evars, avars, mvars
<1>11. CASE ActorSends
  BY <1>11 DEF ActorSends, cvars, hvars, evars, avars, mvars
<1>12. CASE CloseEndpoint
  BY <1>12 DEF CloseEndpoint, cvars, hvars, evars, avars, mvars
<1>. QED   BY <1>1, <1>2, <1>3, <1>4, <1>5, <1>6, <1>7, <1>8, <1>9, <1>10,
     <1>11, <1>12 DEF Next, Handler, Evaluation, Transport, MainTask

\* The main task's variables stay typed.
LEMMA MainTypeStep == DaemonInv /\ [Next]_vars => MainType'
<1>. SUFFICES ASSUME DaemonInv, [Next]_vars PROVE MainType'
  OBVIOUS
<1>. USE DaemonAssumption DEF DaemonInv, TypeOK, MainType
<1>1. CASE \E c \in Clients : Connect(c) \/ Request(c) \/ Disconnect(c) \/
      Accept(c) \/ HandleHelloOrPing(c) \/ HandleReset(c) \/ HandleDumpEnv(c)
      \/ HandleEval(c) \/ StartEval(c) \/ HandlerEnds(c) \/
      HandlerFails(c) \/ HandlerDrained(c)
  BY <1>1, ZenonT(40) DEF Connect, Request, Disconnect, Accept, HandleHelloOrPing,
     HandleReset, HandleDumpEnv, HandleEval, StartEval, Granted, HandlerEnds,
     HandlerFails,
     HandlerDrained, cvars, hvars, evars, avars, mvars
<1>2. CASE \E c \in Clients : Display(c) \/ Define(c) \/ StartIO(c) \/
      StartCall(c) \/ FinishEval(c) \/ EndIO(c) \/ LockEndpoint(c) \/
      OpenOutbox(c) \/ CallFails(c) \/ RegisterReplySender(c) \/
      CallReturns(c) \/ Write(c)
  BY <1>2 DEF Display, Define, StartIO, StartCall, FinishEval, ClearSink,
     ReleaseLock, EndIO, LockEndpoint, OpenOutbox, ReleaseEndpoint, CallFails,
     RegisterReplySender, CallReturns, Write, cvars, hvars, evars, avars,
     mvars
<1>3. CASE UNCHANGED vars \/ PollReplies \/ ActorSends \/ (\E m \in 1 ..
      MaxMsgs : ActorReplies(m))
  BY <1>3 DEF vars, PollReplies, ActorSends, ActorReplies, cvars, hvars,
      evars, avars, mvars
<1>4. ASSUME NEW c \in Clients, HandleStop(c) PROVE MainType'
  BY <1>4 DEF HandleStop, cvars, hvars, evars, avars, mvars
<1>5. CASE Signal
  BY <1>5 DEF Signal, cvars, hvars, evars, avars, mvars
<1>6. CASE Shutdown
  BY <1>6 DEF Shutdown, EvaluatorType, cvars, hvars, evars, avars, mvars
<1>7. CASE CloseEndpoint
  BY <1>7 DEF CloseEndpoint, cvars, hvars, evars, avars, mvars
<1>8. CASE Exit
  BY <1>8 DEF Exit, cvars, hvars, evars, avars, mvars
<1>. QED   BY <1>1, <1>2, <1>3, <1>4, <1>5, <1>6, <1>7, <1>8 DEF Next,
     Handler, Evaluation, Transport, MainTask

-----------------------------------------------------------------------------
(* The strengthening.                                                       *)

\* Requests are appended by clients and read in order by handlers.
LEMMA RequestsStep == DaemonInv /\ [Next]_vars => RequestsInv'
<1>. SUFFICES ASSUME DaemonInv, [Next]_vars PROVE RequestsInv'
  OBVIOUS
<1>1. /\ asked \in [Clients -> Seq(Kinds)]
      /\ taken \in [Clients -> 0 .. MaxReqs]
      /\ pc \in [Clients -> HandlerPCs]
  BY DEF DaemonInv, TypeOK, ClientsType, HandlersType
<1>. USE <1>1, DaemonAssumption DEF DaemonInv, RequestsInv, Evaluating, HandlerPCs
<1>2. ASSUME NEW c \in Clients, Request(c) PROVE RequestsInv'
  <2>1. PICK k \in Kinds : asked' = [asked EXCEPT ![c] = Append(@, k)]
    BY <1>2 DEF Request
  <2>2. \A d \in Clients : /\ Len(asked'[d]) <= MaxReqs
                          /\ Len(asked[d]) <= Len(asked'[d])
    BY <1>2, <2>1 DEF Request
  <2>. QED
    BY <1>2, <2>2 DEF Request, cvars, hvars
<1>3. ASSUME NEW c \in Clients, NEW k, Reads(c, k), UNCHANGED asked,
             pc' = [pc EXCEPT ![c] = pc'[c]]
      PROVE  RequestsInv'
  BY <1>3 DEF Reads, AtLoopHead
<1>4. ASSUME NEW c \in Clients,
             \/ HandleHelloOrPing(c) \/ HandleStop(c) \/ HandleReset(c)
             \/ HandleDumpEnv(c) \/ HandleEval(c)
      PROVE  RequestsInv'
  <2>1. PICK k : Reads(c, k)
    BY <1>4 DEF HandleHelloOrPing, HandleStop, HandleReset, HandleDumpEnv,
                HandleEval
  <2>2. UNCHANGED asked /\ pc' = [pc EXCEPT ![c] = pc'[c]]
    BY <1>4 DEF HandleHelloOrPing, HandleStop, HandleReset, HandleDumpEnv,
                HandleEval, cvars
  <2>. QED
    BY <2>1, <2>2, <1>3
<1>5. CASE \E c \in Clients : Connect(c) \/ Disconnect(c) \/ Accept(c) \/
      StartEval(c) \/ HandlerEnds(c) \/ HandlerFails(c) \/
      HandlerDrained(c) \/ EndIO(c) \/
      Write(c)
  BY <1>5 DEF Connect, Disconnect, Accept, StartEval, Granted, HandlerEnds,
      HandlerFails,
     HandlerDrained, EndIO, Write, cvars, hvars, evars, avars, mvars
<1>6. CASE \E c \in Clients : Display(c) \/ Define(c) \/ StartIO(c) \/
      StartCall(c) \/ FinishEval(c) \/ LockEndpoint(c) \/ OpenOutbox(c) \/
      CallFails(c) \/ RegisterReplySender(c) \/ CallReturns(c)
  BY <1>6 DEF Display, Define, StartIO, StartCall, FinishEval, ClearSink,
     ReleaseLock, LockEndpoint, OpenOutbox, ReleaseEndpoint, CallFails,
     RegisterReplySender, CallReturns, Step, cvars, hvars, evars, avars, mvars
<1>7. CASE UNCHANGED vars \/ PollReplies \/ ActorSends \/ Signal \/ Shutdown
      \/ CloseEndpoint \/ Exit \/ (\E m \in 1 .. MaxMsgs : ActorReplies(m))
  BY <1>7 DEF vars, ActorReplies, PollReplies, ActorSends, Signal, Shutdown,
      CloseEndpoint, Exit, cvars, hvars, evars, avars, mvars
<1>. QED
  BY <1>2, <1>4, <1>5, <1>6, <1>7
     DEF Next, Handler, Evaluation, Transport, MainTask

\* A handler that neither enters nor leaves the queue does not disturb it.
LEMMA LockSame ==
  ASSUME TypeOK, LockInv, NEW c \in Clients, NEW x \in HandlerPCs,
         pc' = [pc EXCEPT ![c] = x], eval_lock' = eval_lock,
         \/ pc[c] \in Evaluating /\ x \in Evaluating
         \/ /\ pc[c] \notin Evaluating \cup {"lock"}
            /\ x \notin Evaluating \cup {"lock"}
  PROVE  LockInv'
<1>1. eval_lock \in Seq(Clients) /\ pc \in [Clients -> HandlerPCs]
  BY DEF TypeOK, EvaluatorType, HandlersType
<1>2. \A i \in 1 .. Len(eval_lock) : eval_lock[i] \in Clients
  BY <1>1
<1>3. "lock" \notin Evaluating
  BY DEF Evaluating
<1>. QED
  BY <1>1, <1>2, <1>3 DEF LockInv

\* The head leaves the queue.
LEMMA LockLeave ==
  ASSUME TypeOK, LockInv, NEW c \in Clients, NEW x \in HandlerPCs,
         pc' = [pc EXCEPT ![c] = x], eval_lock' = Tail(eval_lock),
         pc[c] \in Evaluating, x \notin Evaluating \cup {"lock"}
  PROVE  LockInv'
<1>1. eval_lock \in Seq(Clients) /\ pc \in [Clients -> HandlerPCs]
  BY DEF TypeOK, EvaluatorType, HandlersType
<1>2. Len(eval_lock) > 0 /\ eval_lock[1] = c
  BY DEF LockInv
<1>3. /\ eval_lock' \in Seq(Clients)
      /\ Len(eval_lock') = Len(eval_lock) - 1
      /\ \A i \in 1 .. Len(eval_lock') : eval_lock'[i] = eval_lock[i + 1]
  BY <1>1, <1>2
<1>4. \A i \in 1 .. Len(eval_lock) : eval_lock[i] \in Clients
  BY <1>1
<1>5. \A i \in 1 .. Len(eval_lock') : eval_lock'[i] # c
  BY <1>1, <1>2, <1>3 DEF LockInv
<1>6. \A d \in Clients : pc'[d] \notin Evaluating
  BY <1>1, <1>2 DEF LockInv
<1>7. \A i \in 1 .. Len(eval_lock') : pc'[eval_lock'[i]] = pc[eval_lock[i+1]]
  BY <1>1, <1>3, <1>4, <1>5
<1>8. \A i \in 1 .. Len(eval_lock') : i + 1 \in 1 .. Len(eval_lock)
  BY <1>1, <1>2, <1>3
<1>9. ASSUME NEW d \in Clients, pc'[d] = "lock"
      PROVE  \E i \in 1 .. Len(eval_lock') : eval_lock'[i] = d
  <2>1. pc[d] = "lock" /\ d # c
    BY <1>1, <1>9
  <2>2. PICK i \in 1 .. Len(eval_lock) : eval_lock[i] = d
    BY <2>1 DEF LockInv
  <2>3. i - 1 \in 1 .. Len(eval_lock') /\ eval_lock'[i - 1] = d
    BY <1>1, <1>2, <1>3, <2>1, <2>2
  <2>. QED
    BY <2>3
<1>. QED
  BY <1>3, <1>6, <1>7, <1>8, <1>9 DEF LockInv

\* A handler joins the queue at its end.
LEMMA LockJoin ==
  ASSUME TypeOK, LockInv, NEW c \in Clients,
         pc' = [pc EXCEPT ![c] = "lock"], eval_lock' = Append(eval_lock, c),
         pc[c] \notin Evaluating \cup {"lock"}
  PROVE  LockInv'
<1>1. eval_lock \in Seq(Clients) /\ pc \in [Clients -> HandlerPCs]
  BY DEF TypeOK, EvaluatorType, HandlersType
<1>2. /\ Len(eval_lock') = Len(eval_lock) + 1
      /\ \A i \in 1 .. Len(eval_lock) : eval_lock'[i] = eval_lock[i]
      /\ eval_lock'[Len(eval_lock) + 1] = c
  BY <1>1
<1>3. \A i \in 1 .. Len(eval_lock) : eval_lock[i] \in Clients /\ eval_lock[i] # c
  BY <1>1 DEF LockInv
<1>4. "lock" \notin Evaluating
  BY DEF Evaluating
<1>. QED
  BY <1>1, <1>2, <1>3, <1>4 DEF LockInv

\* The head of the queue starts to evaluate: it was the only one that could.
LEMMA LockGrant ==
  ASSUME TypeOK, LockInv, NEW c \in Clients,
         pc' = [pc EXCEPT ![c] = "eval"], eval_lock' = eval_lock,
         pc[c] = "lock", Head(eval_lock) = c
  PROVE  LockInv'
<1>1. eval_lock \in Seq(Clients) /\ pc \in [Clients -> HandlerPCs]
  BY DEF TypeOK, EvaluatorType, HandlersType
<1>2. Len(eval_lock) > 0 /\ eval_lock[1] = c
  BY <1>1 DEF LockInv
<1>3. \A i \in 1 .. Len(eval_lock) : eval_lock[i] \in Clients
  BY <1>1
<1>4. "eval" \in Evaluating /\ "lock" \notin Evaluating
  BY DEF Evaluating
<1>. QED
  BY <1>1, <1>2, <1>3, <1>4 DEF LockInv

\* The queue of the evaluation lock.
LEMMA LockStep == DaemonInv /\ [Next]_vars => LockInv'
<1>. SUFFICES ASSUME DaemonInv, [Next]_vars PROVE LockInv'
  OBVIOUS
<1>. USE DEF DaemonInv
<1>1. CASE UNCHANGED <<pc, eval_lock>>
  BY <1>1 DEF LockInv
<1>2. ASSUME NEW c \in Clients, Accept(c) PROVE LockInv'
  BY <1>2, LockSame DEF Accept, Evaluating, HandlerPCs, cvars, hvars, evars,
      avars, mvars
<1>3. ASSUME NEW c \in Clients, HandleStop(c) PROVE LockInv'
  BY <1>3, LockSame DEF HandleStop, Reads, AtLoopHead, Evaluating, HandlerPCs,
     cvars, hvars, evars, avars, mvars
<1>4. ASSUME NEW c \in Clients, HandlerEnds(c) \/ HandlerFails(c)
      PROVE LockInv'
  BY <1>4, LockSame DEF HandlerEnds, HandlerFails, AtLoopHead, Evaluating,
      HandlerPCs, cvars, hvars,
      evars, avars, mvars
<1>5. ASSUME NEW c \in Clients, HandlerDrained(c) PROVE LockInv'
  BY <1>5, LockSame DEF HandlerDrained, Evaluating, HandlerPCs, cvars, hvars,
      evars, avars, mvars
<1>6. ASSUME NEW c \in Clients, StartIO(c) PROVE LockInv'
  BY <1>6, LockSame DEF StartIO, Step, Evaluating, HandlerPCs, cvars, hvars,
      evars, avars, mvars
<1>7. ASSUME NEW c \in Clients, StartCall(c) PROVE LockInv'
  BY <1>7, LockSame DEF StartCall, Step, Evaluating, HandlerPCs, cvars, hvars,
      evars, avars, mvars
<1>8. ASSUME NEW c \in Clients, EndIO(c) PROVE LockInv'
  BY <1>8, LockSame DEF EndIO, Evaluating, HandlerPCs, cvars, hvars, evars,
      avars, mvars
<1>9. ASSUME NEW c \in Clients, LockEndpoint(c) PROVE LockInv'
  BY <1>9, LockSame DEF LockEndpoint, Evaluating, HandlerPCs, cvars, hvars,
      evars, avars, mvars
<1>10. ASSUME NEW c \in Clients, OpenOutbox(c) PROVE LockInv'
  BY <1>10, LockSame DEF OpenOutbox, ReleaseEndpoint, Evaluating, HandlerPCs,
     cvars, hvars, evars, avars, mvars
<1>11. ASSUME NEW c \in Clients, CallFails(c) PROVE LockInv'
  BY <1>11, LockSame DEF CallFails, Evaluating, HandlerPCs, cvars, hvars,
      evars, avars, mvars
<1>12. ASSUME NEW c \in Clients, RegisterReplySender(c) PROVE LockInv'
  BY <1>12, LockSame DEF RegisterReplySender, Evaluating, HandlerPCs, cvars,
      hvars, evars, avars, mvars
<1>13. ASSUME NEW c \in Clients, CallReturns(c) PROVE LockInv'
  BY <1>13, LockSame DEF CallReturns, Evaluating, HandlerPCs, cvars, hvars,
      evars, avars, mvars
<1>14. ASSUME NEW c \in Clients, HandleEval(c) PROVE LockInv'
  BY <1>14, LockJoin DEF HandleEval, Reads, AtLoopHead, Evaluating
<1>15. ASSUME NEW c \in Clients, StartEval(c) PROVE LockInv'
  BY <1>15, LockGrant DEF StartEval, Granted, evars
<1>16. ASSUME NEW c \in Clients, FinishEval(c) PROVE LockInv'
  BY <1>16, LockLeave DEF FinishEval, ClearSink, ReleaseLock, Evaluating,
     HandlerPCs
<1>17. CASE \E c \in Clients : Connect(c) \/ Request(c) \/ Disconnect(c) \/
      HandleHelloOrPing(c) \/ HandleReset(c) \/ HandleDumpEnv(c) \/ Display(c)
      \/ Define(c) \/ Write(c)
  BY <1>17, <1>1 DEF Connect, Request, Disconnect, HandleHelloOrPing,
      HandleReset, HandleDumpEnv, Display, Define, Write, cvars, hvars, evars,
      avars, mvars
<1>18. CASE UNCHANGED vars \/ PollReplies \/ ActorSends \/ Signal \/ Shutdown
      \/ CloseEndpoint \/ Exit \/ (\E m \in 1 .. MaxMsgs : ActorReplies(m))
  BY <1>18, <1>1 DEF vars, PollReplies, ActorSends, Signal, Shutdown,
      CloseEndpoint, Exit, ActorReplies, cvars, hvars, evars, avars, mvars
<1>. QED   BY <1>2, <1>3, <1>4, <1>5, <1>6, <1>7, <1>8, <1>9, <1>10, <1>11,
     <1>12, <1>13, <1>14, <1>15, <1>16, <1>17, <1>18 DEF Next, Handler,
     Evaluation, Transport, MainTask

\* Steps that start and end no evaluation leave the sink to its owner.
LEMMA SinkSame ==
  ASSUME SinkInv, display_sink' = display_sink,
         \A d \in Clients : pc'[d] \in Evaluating <=> pc[d] \in Evaluating,
         \A d \in Clients : pc[d] \in Evaluating => taken'[d] = taken[d]
  PROVE  SinkInv'
  BY DEF SinkInv, Job

\* The sink is set with the lock held and cleared before it is released.
LEMMA SinkStep == DaemonInv /\ [Next]_vars => SinkInv'
<1>. SUFFICES ASSUME DaemonInv, [Next]_vars PROVE SinkInv'
  OBVIOUS
<1>. USE DEF DaemonInv
<1>1. /\ pc \in [Clients -> HandlerPCs]
      /\ taken \in [Clients -> 0 .. MaxReqs]
  BY DEF TypeOK, HandlersType
<1>2. CASE UNCHANGED <<pc, taken, display_sink>>
  BY <1>2, SinkSame
<1>3. ASSUME NEW c \in Clients, Accept(c) PROVE SinkInv'
  BY <1>1, <1>3, SinkSame DEF Accept, Evaluating, cvars, hvars, evars, avars,
      mvars
<1>4. ASSUME NEW c \in Clients, HandleStop(c) PROVE SinkInv'
  BY <1>1, <1>4, SinkSame DEF HandleStop, Reads, AtLoopHead, Evaluating,
     cvars, hvars, evars, avars, mvars
<1>5. ASSUME NEW c \in Clients, HandleEval(c) PROVE SinkInv'
  BY <1>1, <1>5, SinkSame DEF HandleEval, Reads, AtLoopHead, Evaluating,
     cvars, hvars, evars, avars, mvars
<1>6. ASSUME NEW c \in Clients, HandlerEnds(c) \/ HandlerFails(c)
      PROVE SinkInv'
  BY <1>1, <1>6, SinkSame DEF HandlerEnds, HandlerFails, AtLoopHead,
      Evaluating, cvars, hvars, evars,
      avars, mvars
<1>7. ASSUME NEW c \in Clients, HandlerDrained(c) PROVE SinkInv'
  BY <1>1, <1>7, SinkSame DEF HandlerDrained, Evaluating, cvars, hvars, evars,
      avars, mvars
<1>8. ASSUME NEW c \in Clients, StartIO(c) PROVE SinkInv'
  BY <1>1, <1>8, SinkSame DEF StartIO, Step, Evaluating, cvars, hvars, evars,
      avars, mvars
<1>9. ASSUME NEW c \in Clients, EndIO(c) PROVE SinkInv'
  BY <1>1, <1>9, SinkSame DEF EndIO, Evaluating, cvars, hvars, evars, avars,
      mvars
<1>10. ASSUME NEW c \in Clients, StartCall(c) PROVE SinkInv'
  BY <1>1, <1>10, SinkSame DEF StartCall, Step, Evaluating, cvars, hvars,
      evars, avars, mvars
<1>11. ASSUME NEW c \in Clients, LockEndpoint(c) PROVE SinkInv'
  BY <1>1, <1>11, SinkSame DEF LockEndpoint, Evaluating, cvars, hvars, evars,
      avars, mvars
<1>12. ASSUME NEW c \in Clients, OpenOutbox(c) PROVE SinkInv'
  BY <1>1, <1>12, SinkSame DEF OpenOutbox, ReleaseEndpoint, Evaluating, cvars,
     hvars, evars, avars, mvars
<1>13. ASSUME NEW c \in Clients, CallFails(c) PROVE SinkInv'
  BY <1>1, <1>13, SinkSame DEF CallFails, Evaluating, cvars, hvars, evars,
      avars, mvars
<1>14. ASSUME NEW c \in Clients, RegisterReplySender(c) PROVE SinkInv'
  BY <1>1, <1>14, SinkSame DEF RegisterReplySender, Evaluating, cvars, hvars,
      evars, avars, mvars
<1>15. ASSUME NEW c \in Clients, CallReturns(c) PROVE SinkInv'
  BY <1>1, <1>15, SinkSame DEF CallReturns, Evaluating, cvars, hvars, evars,
      avars, mvars
<1>16. ASSUME NEW c \in Clients, HandleHelloOrPing(c) PROVE SinkInv'
  BY <1>1, <1>16, SinkSame DEF HandleHelloOrPing, Reads, AtLoopHead,
     Evaluating, cvars, hvars, evars, avars, mvars
<1>17. ASSUME NEW c \in Clients, HandleReset(c) PROVE SinkInv'
  BY <1>1, <1>17, SinkSame DEF HandleReset, Reads, AtLoopHead, Evaluating,
     cvars, hvars, evars, avars, mvars
<1>18. ASSUME NEW c \in Clients, HandleDumpEnv(c) PROVE SinkInv'
  BY <1>1, <1>18, SinkSame DEF HandleDumpEnv, Reads, AtLoopHead, Evaluating,
     cvars, hvars, evars, avars, mvars
<1>19. ASSUME NEW c \in Clients, StartEval(c) PROVE SinkInv'
  <2>1. \A d \in Clients : pc[d] \notin Evaluating
    BY <1>19 DEF StartEval, Granted, LockInv, Evaluating, TypeOK,
       EvaluatorType
  <2>2. pc'[c] \in Evaluating /\ \A d \in Clients \ {c} : pc'[d] = pc[d]
    BY <1>1, <1>19 DEF StartEval, Granted, Evaluating
  <2>3. display_sink' = Job(c)'
    BY <1>19 DEF StartEval, Granted, Job
  <2>. QED
    BY <2>1, <2>2, <2>3 DEF SinkInv
<1>20. ASSUME NEW c \in Clients, FinishEval(c) PROVE SinkInv'
  <2>1. \A d \in Clients \ {c} : pc[d] \notin Evaluating
    BY <1>20 DEF FinishEval, ClearSink, ReleaseLock, LockInv, Evaluating
  <2>2. \A d \in Clients : pc'[d] \notin Evaluating
    BY <1>1, <1>20, <2>1 DEF FinishEval, ClearSink, ReleaseLock, Evaluating
  <2>. QED
    BY <1>20, <2>2 DEF FinishEval, ClearSink, ReleaseLock, SinkInv
<1>21. CASE \E c \in Clients : Connect(c) \/ Request(c) \/ Disconnect(c) \/
      Display(c) \/ Define(c) \/ Write(c)
  BY <1>21, <1>2 DEF Connect, Request, Disconnect, Display, Define, Write,
      cvars, hvars, evars, avars, mvars
<1>22. CASE UNCHANGED vars \/ PollReplies \/ ActorSends \/ Signal \/ Shutdown
      \/ CloseEndpoint \/ Exit \/ (\E m \in 1 .. MaxMsgs : ActorReplies(m))
  BY <1>22, <1>2 DEF vars, PollReplies, ActorSends, Signal, Shutdown,
      CloseEndpoint, Exit, ActorReplies, cvars, hvars, evars, avars, mvars
<1>. QED   BY <1>3, <1>4, <1>5, <1>6, <1>7, <1>8, <1>9, <1>10, <1>11, <1>12,
     <1>13, <1>14, <1>15, <1>16, <1>17, <1>18, <1>19, <1>20, <1>21, <1>22 DEF
     Next, Handler, Evaluation, Transport, MainTask

\* Steps of a handler that is not awaiting a reply and does not begin to.
LEMMA CallSame ==
  ASSUME TypeOK, CallInv, NEW c \in Clients, NEW x \in HandlerPCs,
         pc' = [pc EXCEPT ![c] = x],
         pc[c] # "await", x \notin {"send", "await"},
         x \in {"want", "open"} => msgs < MaxMsgs,
         UNCHANGED <<msgs, reply_senders, inbox, answered, reply>>,
         \A d \in Clients \ {c} : call'[d] = call[d]
  PROVE  CallInv'
<1>1. /\ pc \in [Clients -> HandlerPCs]
      /\ reply_senders \subseteq [id : 1 .. MaxMsgs, to : Clients]
  BY DEF TypeOK, HandlersType, CallsType
<1>2. \A s \in reply_senders : s.to \in Clients \ {c}
  BY <1>1 DEF CallInv
<1>3. reply[c] = 0
  BY DEF CallInv
<1>. QED
  BY <1>1, <1>2, <1>3 DEF CallInv

\* Messages in flight, and who gets their replies.
LEMMA CallStep == DaemonInv /\ [Next]_vars => CallInv'
<1>. SUFFICES ASSUME DaemonInv, [Next]_vars PROVE CallInv'
  OBVIOUS
<1>. USE DEF DaemonInv
<1>1. /\ pc \in [Clients -> HandlerPCs]
      /\ msgs \in 0 .. MaxMsgs
      /\ call \in [Clients -> 0 .. MaxMsgs]
      /\ reply \in [Clients -> 0 .. MaxMsgs]
      /\ inbox \subseteq 0 .. MaxMsgs
      /\ reply_senders \subseteq [id : 1 .. MaxMsgs, to : Clients]
  BY DEF TypeOK, HandlersType, CallsType
<1>2. CASE UNCHANGED <<pc, avars>>
  BY <1>2 DEF CallInv, avars
<1>3. ASSUME NEW c \in Clients, Accept(c) PROVE CallInv'
  BY <1>1, <1>3, CallSame DEF Accept, HandlerPCs, avars
<1>4. ASSUME NEW c \in Clients, HandleStop(c) PROVE CallInv'
  BY <1>1, <1>4, CallSame DEF HandleStop, Reads, AtLoopHead, HandlerPCs, avars
<1>5. ASSUME NEW c \in Clients, HandleEval(c) PROVE CallInv'
  BY <1>1, <1>5, CallSame DEF HandleEval, Reads, AtLoopHead, HandlerPCs, avars
<1>6. ASSUME NEW c \in Clients, StartEval(c) PROVE CallInv'
  BY <1>1, <1>6, CallSame DEF StartEval, Granted, HandlerPCs, avars
<1>7. ASSUME NEW c \in Clients, HandlerEnds(c) \/ HandlerFails(c)
      PROVE CallInv'
  BY <1>1, <1>7, CallSame DEF HandlerEnds, HandlerFails, AtLoopHead,
      HandlerPCs, avars
<1>8. ASSUME NEW c \in Clients, HandlerDrained(c) PROVE CallInv'
  BY <1>1, <1>8, CallSame DEF HandlerDrained, HandlerPCs, avars
<1>9. ASSUME NEW c \in Clients, StartIO(c) PROVE CallInv'
  BY <1>1, <1>9, CallSame DEF StartIO, Step, HandlerPCs, avars
<1>10. ASSUME NEW c \in Clients, EndIO(c) PROVE CallInv'
  BY <1>1, <1>10, CallSame DEF EndIO, HandlerPCs, avars
<1>11. ASSUME NEW c \in Clients, StartCall(c) PROVE CallInv'
  BY <1>1, <1>11, CallSame DEF StartCall, Step, HandlerPCs, avars
<1>12. ASSUME NEW c \in Clients, FinishEval(c) PROVE CallInv'
  BY <1>1, <1>12, CallSame DEF FinishEval, ClearSink, ReleaseLock, HandlerPCs,
     avars
<1>13. ASSUME NEW c \in Clients, LockEndpoint(c) PROVE CallInv'
  BY <1>1, <1>13, CallSame DEF LockEndpoint, CallInv, HandlerPCs, avars
<1>14. ASSUME NEW c \in Clients, CallFails(c) PROVE CallInv'
  BY <1>1, <1>14, CallSame DEF CallFails, HandlerPCs, avars
<1>15. ASSUME NEW c \in Clients, OpenOutbox(c) PROVE CallInv'
  <2>1. \A d \in Clients \ {c} : pc[d] \notin Evaluating
    BY <1>15 DEF OpenOutbox, ReleaseEndpoint, LockInv, Evaluating
  <2>2. \A d \in Clients \ {c} : pc'[d] \notin Evaluating
    BY <1>1, <1>15, <2>1 DEF OpenOutbox, ReleaseEndpoint
  <2>3. pc'[c] = "send" /\ call'[c] = msgs' /\ msgs' \in 1 .. MaxMsgs
    BY <1>1, <1>15, DaemonAssumption DEF OpenOutbox, ReleaseEndpoint, CallInv
  <2>4. reply_senders = {}
    BY <1>1, <1>15, <2>1 DEF OpenOutbox, ReleaseEndpoint, CallInv, Evaluating
  <2>5. \A d \in Clients : reply[d] = 0
    BY <1>15, <2>1 DEF OpenOutbox, ReleaseEndpoint, CallInv, Evaluating
  <2>. QED
    BY <1>15, <2>2, <2>3, <2>4, <2>5 DEF OpenOutbox, ReleaseEndpoint, CallInv,
       Evaluating
<1>16. ASSUME NEW c \in Clients, RegisterReplySender(c) PROVE CallInv'
  <2>1. pc[c] = "send" /\ pc' = [pc EXCEPT ![c] = "await"] /\ reply[c] = 0
    BY <1>16 DEF RegisterReplySender, CallInv
  <2>2. \A s \in reply_senders : s.to \in Clients \ {c}
    BY <1>1, <2>1 DEF CallInv
  <2>3. UNCHANGED <<msgs, call, inbox, answered, reply>>
    BY <1>16 DEF RegisterReplySender
  <2>4. \A s \in reply_senders' :
           s \in reply_senders \/ s = [id |-> call[c], to |-> c]
    BY <1>16 DEF RegisterReplySender
  <2>5. \A s \in reply_senders' : /\ pc'[s.to] = "await"
                                 /\ s.id = call[s.to]
                                 /\ reply[s.to] = 0
    BY <1>1, <2>1, <2>2, <2>4 DEF CallInv
  <2>. QED
    BY <1>1, <2>1, <2>3, <2>5 DEF CallInv
<1>17. ASSUME NEW c \in Clients, CallReturns(c) PROVE CallInv'
  <2>1. \A s \in reply_senders : s.to \in Clients \ {c}
    BY <1>1, <1>17 DEF CallReturns, CallInv
  <2>. QED
    BY <1>1, <1>17, <2>1 DEF CallReturns, CallInv
<1>18. CASE PollReplies
  <2>. DEFINE To(c) == CHOOSE s \in Woken : s.to = c
  <2>1. /\ reply' = [c \in Clients |-> IF \E s \in Woken : s.to = c
                                     THEN To(c).id ELSE reply[c]]
        /\ reply_senders' = reply_senders \ Woken
        /\ inbox' = {}
        /\ UNCHANGED <<pc, msgs, call, answered>>
    BY <1>18 DEF PollReplies, hvars
  <2>2. \A s \in reply_senders : /\ s.to \in Clients /\ s.id \in 1 .. MaxMsgs
                                /\ pc[s.to] = "await" /\ s.id = call[s.to]
                                /\ reply[s.to] = 0
    BY <1>1 DEF CallInv
  <2>3. ASSUME NEW c \in Clients, \E s \in Woken : s.to = c
        PROVE  /\ pc[c] = "await" /\ reply'[c] = call[c]
               /\ reply'[c] \in answered
    <3>1. To(c) \in Woken /\ To(c).to = c
      BY <2>3
    <3>2. /\ To(c) \in reply_senders /\ To(c).id \in inbox
          /\ reply'[c] = To(c).id
      BY <2>1, <2>3, <3>1 DEF Woken
    <3>. QED
      BY <2>2, <3>1, <3>2, DaemonAssumption DEF CallInv
  <2>4. ASSUME NEW c \in Clients, ~ \E s \in Woken : s.to = c
        PROVE  reply'[c] = reply[c]
    BY <2>1, <2>4
  <2>5. ASSUME NEW s \in reply_senders \ Woken
        PROVE  reply'[s.to] = 0
    <3>1. ~ \E t \in Woken : t.to = s.to
      BY <2>2 DEF Woken
    <3>. QED
      BY <2>2, <2>4, <3>1
  <2>. QED
    BY <2>1, <2>2, <2>3, <2>4, <2>5 DEF CallInv
<1>19. ASSUME NEW m \in 1 .. MaxMsgs, ActorReplies(m) PROVE CallInv'
  BY <1>19 DEF ActorReplies, CallInv, hvars
<1>20. CASE ActorSends \/ CloseEndpoint
  BY <1>20 DEF ActorSends, CloseEndpoint, CallInv, hvars
<1>21. CASE \E c \in Clients : Connect(c) \/ Request(c) \/ Disconnect(c) \/
      HandleHelloOrPing(c) \/ HandleReset(c) \/ HandleDumpEnv(c) \/ Display(c)
      \/ Define(c) \/ Write(c)
  BY <1>21, <1>2 DEF Connect, Request, Disconnect, HandleHelloOrPing,
      HandleReset, HandleDumpEnv, Display, Define, Write, hvars
<1>22. CASE UNCHANGED vars \/ Signal \/ Shutdown \/ Exit
  BY <1>22, <1>2 DEF vars, Signal, Shutdown, Exit, hvars
<1>. QED   BY <1>3, <1>4, <1>5, <1>6, <1>7, <1>8, <1>9, <1>10, <1>11, <1>12,
     <1>13, <1>14, <1>15, <1>16, <1>17, <1>18, <1>19, <1>20, <1>21, <1>22 DEF
     Next, Handler, Evaluation, Transport, MainTask

-----------------------------------------------------------------------------
(* The theorems.                                                            *)

LEMMA NextInv == DaemonInv /\ [Next]_vars => DaemonInv'
  BY ClientsTypeStep, HandlersTypeStep, EvaluatorTypeStep, CallsTypeStep,
     MainTypeStep, RequestsStep, LockStep, SinkStep, CallStep
     DEF DaemonInv, TypeOK

\* The strengthening holds throughout.
THEOREM DaemonInvariant == Spec => []DaemonInv
  BY InitInv, NextInv, PTL DEF Spec

\* Every variable of the daemon keeps its type: ids and message numbers stay
\* within their bounds and every queued frame is one of the protocol's.
THEOREM TypeCorrect == Spec => []TypeOK
<1>1. DaemonInv => TypeOK
  BY DEF DaemonInv
<1>. QED
  BY <1>1, DaemonInvariant, PTL

\* For any number of connections and requests, display output goes to the one
\* evaluation that holds the lock, for as long as it runs (daemon.rs,
\* eval_request).
THEOREM SinkFollowsLockHolds == Spec => []SinkFollowsLock
<1>1. DaemonInv => SinkFollowsLock
  BY DEF DaemonInv, LockInv, SinkInv, SinkFollowsLock, TypeOK, EvaluatorType
<1>. QED
  BY <1>1, DaemonInvariant, PTL

\* For any number of calls, replies and repeated replies, an actor call gets
\* the reply to its own message and at most one reply channel is registered
\* (context.rs, do_actor_call and poll_replies).
THEOREM ReplyRoutedHolds == Spec => []ReplyRouted
<1>1. ASSUME DaemonInv PROVE Cardinality(reply_senders) <= 1
  <2>1. ASSUME NEW s \in reply_senders, NEW t \in reply_senders PROVE s = t
    <3>1. /\ s \in [id : 1 .. MaxMsgs, to : Clients]
          /\ t \in [id : 1 .. MaxMsgs, to : Clients]
      BY <1>1 DEF DaemonInv, TypeOK, CallsType
    <3>2. s.to = t.to
      BY <1>1, <3>1 DEF DaemonInv, CallInv, LockInv, Evaluating
    <3>3. s.id = t.id
      BY <1>1, <3>2 DEF DaemonInv, CallInv
    <3>. QED
      BY <3>1, <3>2, <3>3
  <2>2. CASE reply_senders = {}
    BY <2>2, FS_EmptySet
  <2>3. CASE reply_senders # {}
    <3>1. PICK s \in reply_senders : TRUE
      BY <2>3
    <3>2. reply_senders = {s}
      BY <2>1, <3>1
    <3>. QED
      BY <3>2, FS_Singleton
  <2>. QED
    BY <2>2, <2>3
<1>2. DaemonInv => ReplyRouted
  BY <1>1 DEF DaemonInv, CallInv, ReplyRouted
<1>. QED
  BY <1>2, DaemonInvariant, PTL

-----------------------------------------------------------------------------
(* What a connection is sent.  Responses come one per request and in order, *)
(* display output stands before the result it belongs to, and a dump holds  *)
(* nothing it should not.                                                   *)
(*                                                                          *)
(* Most steps do not touch what these properties speak of.  OrderCases says *)
(* so once: a step is one of five kinds, named for what it does to the      *)
(* requests and the channel of a connection.                                *)

-----------------------------------------------------------------------------
(* Counting responses.                                                      *)

\* The responses among p frames are at most p.
LEMMA ResponsesType ==
  ASSUME NEW s, NEW p \in Nat
  PROVE  /\ Responses(s, p) \in Nat
         /\ Responses(s, p) <= p
         /\ IsFiniteSet({q \in 1 .. p : s[q].type # "Display"})
<1>1. IsFiniteSet(1 .. p) /\ Cardinality(1 .. p) = p
  BY FS_Interval
<1>2. {q \in 1 .. p : s[q].type # "Display"} \in SUBSET (1 .. p)
  OBVIOUS
<1>. HIDE DEF Responses
<1>3. /\ IsFiniteSet({q \in 1 .. p : s[q].type # "Display"})
      /\ Responses(s, p) <= p
  BY <1>1, <1>2, FS_Subset DEF Responses
<1>. QED
  BY <1>3, FS_CardinalityType DEF Responses

\* More frames hold no fewer responses.
LEMMA ResponsesMonotone ==
  ASSUME NEW s, NEW p \in Nat, NEW q \in Nat, p <= q
  PROVE  Responses(s, p) <= Responses(s, q)
<1>1. {r \in 1 .. p : s[r].type # "Display"}
        \in SUBSET {r \in 1 .. q : s[r].type # "Display"}
  OBVIOUS
<1>. QED
  BY <1>1, ResponsesType, FS_Subset DEF Responses

\* Only the frames counted matter.
LEMMA ResponsesPrefix ==
  ASSUME NEW s, NEW t, NEW p \in Nat, \A q \in 1 .. p : s[q] = t[q]
  PROVE  Responses(s, p) = Responses(t, p)
<1>1. {q \in 1 .. p : s[q].type # "Display"}
        = {q \in 1 .. p : t[q].type # "Display"}
  OBVIOUS
<1>. QED
  BY <1>1 DEF Responses

\* The next frame counts unless it is a Display frame.
LEMMA ResponsesNext ==
  ASSUME NEW s, NEW p \in Nat
  PROVE  Responses(s, p + 1) = IF s[p + 1].type # "Display"
                               THEN Responses(s, p) + 1
                               ELSE Responses(s, p)
<1>. DEFINE R(n) == {q \in 1 .. n : s[q].type # "Display"}
<1>1. CASE s[p + 1].type = "Display"
  <2>1. R(p + 1) = R(p)
    BY <1>1
  <2>. QED
    BY <1>1, <2>1 DEF Responses
<1>2. CASE s[p + 1].type # "Display"
  <2>1. R(p + 1) = R(p) \cup {p + 1}
    BY <1>2
  <2>2. p + 1 \notin R(p)
    OBVIOUS
  <2>3. IsFiniteSet(R(p))
    BY ResponsesType
  <2>. HIDE DEF R
  <2>4. Cardinality(R(p + 1)) = Cardinality(R(p)) + 1
    BY <2>1, <2>2, <2>3, FS_AddElement
  <2>. QED
    BY <1>2, <2>4 DEF Responses, R
<1>. QED
  BY <1>1, <1>2

\* What putting frame f on the channel does to the counts.
LEMMA ResponsesAppend ==
  ASSUME NEW s \in Seq(Frames), NEW f \in Frames
  PROVE  LET n == Len(s)
             t == Append(s, f)
         IN  /\ \A p \in 1 .. n : Responses(t, p) = Responses(s, p)
             /\ Responses(t, Len(t)) = IF f.type # "Display"
                                       THEN Responses(s, n) + 1
                                       ELSE Responses(s, n)
<1>. DEFINE n == Len(s)
            t == Append(s, f)
            S == Frames
<1>. HIDE DEF S
<1>1. /\ n \in Nat /\ Len(t) = n + 1
      /\ \A q \in 1 .. n : t[q] = s[q]
      /\ t[n + 1] = f
  BY DEF S
<1>. HIDE DEF n, t
<1>2. ASSUME NEW p \in 0 .. n PROVE Responses(t, p) = Responses(s, p)
  BY <1>1, ResponsesPrefix
<1>3. Responses(t, n) = Responses(s, n)
  BY <1>1, <1>2
<1>4. Responses(t, Len(t)) = IF f.type # "Display" THEN Responses(s, n) + 1
                                                  ELSE Responses(s, n)
  BY <1>1, <1>3, ResponsesNext
<1>. QED
  BY <1>1, <1>2, <1>4 DEF n, t
\* A response among the frames is counted at its own place.
LEMMA ResponsesPositive ==
  ASSUME NEW s, NEW p \in Nat \ {0}, s[p].type # "Display"
  PROVE  Responses(s, p) >= 1
<1>1. p - 1 \in Nat /\ (p - 1) + 1 = p
  OBVIOUS
<1>2. Responses(s, p) = Responses(s, p - 1) + 1
  BY <1>1, ResponsesNext
<1>3. Responses(s, p - 1) \in Nat
  BY <1>1, ResponsesType
<1>. QED
  BY <1>2, <1>3

-----------------------------------------------------------------------------
(* The kinds of step.                                                       *)

\* The handler of c has read an evaluation and has not answered it.
Busy(c) == pc[c] \in Evaluating \cup {"lock"}

\* Requests already written stay as they are.
Grows == \A c \in Clients :
            /\ Len(asked[c]) <= Len(asked'[c])
            /\ \A i \in 1 .. Len(asked[c]) : asked'[c][i] = asked[c][i]

SameBusy == \A c \in Clients : Busy(c)' <=> Busy(c)

\* Nothing is read and nothing is sent.
Quiet == /\ Grows /\ SameBusy
         /\ UNCHANGED <<taken, sent>>
         /\ \A c \in Clients : writer'[c] = "up" => writer[c] = "up"

\* c's next request is read.
TakesNext(c) == /\ taken[c] < Len(asked[c])
            /\ taken' = [taken EXCEPT ![c] = @ + 1]
            /\ ~Busy(c)
            /\ UNCHANGED <<asked, writer>>

\* It is answered at once, with frame f.
Served(c, f) == /\ TakesNext(c) /\ SameBusy
                /\ f.type = Reply(asked[c][taken[c] + 1]) /\ f.id = 0
                /\ f.type = "EnvDump" => f.dump = env
                /\ TxSend(c, f)

\* It is an evaluation, and waits for the lock.
Queued(c) == /\ TakesNext(c)
             /\ Busy(c)' /\ \A d \in Clients \ {c} : Busy(d)' <=> Busy(d)
             /\ asked[c][taken[c] + 1] \in EvalKinds
             /\ UNCHANGED sent

\* The evaluation of c displays something.
Shown(c) == /\ pc[c] \in Evaluating
            /\ TxSend(c, Frame("Display", taken[c]))
            /\ UNCHANGED <<asked, taken, pc, writer>>

\* The evaluation of c is answered.
Ended(c) == /\ pc[c] \in Evaluating
            /\ ~Busy(c)' /\ \A d \in Clients \ {c} : Busy(d)' <=> Busy(d)
            /\ TxSend(c, Frame("EvalResult", taken[c]))
            /\ UNCHANGED <<asked, taken, writer>>

StepKinds == \/ Quiet
             \/ \E c \in Clients : \/ \E f \in Frames : Served(c, f)
                                   \/ Queued(c)
                                   \/ Shown(c)
                                   \/ Ended(c)

\* A step of one handler that neither begins nor ends an evaluation.
LEMMA QuietHandler ==
  ASSUME pc \in [Clients -> HandlerPCs], NEW c \in Clients, NEW x,
         pc' = [pc EXCEPT ![c] = x],
         pc[c] \in Evaluating \cup {"lock"} <=> x \in Evaluating \cup {"lock"},
         UNCHANGED <<asked, taken, sent, writer>>
  PROVE  Quiet
  BY DEF Quiet, Grows, SameBusy, Busy

LEMMA OrderCases == DaemonInv /\ [Next]_vars => StepKinds
<1>. SUFFICES ASSUME DaemonInv, [Next]_vars PROVE StepKinds
  OBVIOUS
<1>1. /\ pc \in [Clients -> HandlerPCs]
      /\ asked \in [Clients -> Seq(Kinds)]
      /\ writer \in [Clients -> {"up", "dead"}]
  BY DEF DaemonInv, TypeOK, HandlersType, ClientsType
<1>2. ASSUME UNCHANGED <<asked, hvars>> PROVE StepKinds
  BY <1>2 DEF StepKinds, Quiet, Grows, SameBusy, Busy, hvars
<1>3. ASSUME NEW c \in Clients, Request(c) PROVE StepKinds
  <2>1. PICK k \in Kinds : asked' = [asked EXCEPT ![c] = Append(@, k)]
    BY <1>3 DEF Request
  <2>2. Grows
    BY <1>1, <2>1 DEF Grows
  <2>. QED
    BY <1>3, <2>2 DEF Request, StepKinds, Quiet, SameBusy, Busy, hvars
<1>4. ASSUME NEW c \in Clients, Write(c) PROVE StepKinds
  <2>1. UNCHANGED <<asked, taken, pc, sent>>
    BY <1>4 DEF Write, cvars
  <2>2. \A d \in Clients : writer'[d] = "up" => writer[d] = "up"
    BY <1>1, <1>4 DEF Write
  <2>. QED
    BY <2>1, <2>2 DEF StepKinds, Quiet, Grows, SameBusy, Busy
<1>5. ASSUME NEW c \in Clients,
             Accept(c) \/ HandlerEnds(c) \/ HandlerFails(c) \/
             HandlerDrained(c) \/ StartEval(c)
      PROVE  StepKinds
  BY <1>1, <1>5, QuietHandler DEF StepKinds, Accept, HandlerEnds,
      HandlerFails, AtLoopHead,
     HandlerDrained, StartEval, cvars, Evaluating
<1>6. ASSUME NEW c \in Clients, StartIO(c) \/ EndIO(c) \/ StartCall(c)
      PROVE  StepKinds
  BY <1>1, <1>6, QuietHandler DEF StepKinds, StartIO, EndIO, StartCall, Step,
     cvars, Evaluating
<1>7. ASSUME NEW c \in Clients, LockEndpoint(c) \/ OpenOutbox(c) \/
             CallFails(c) \/ RegisterReplySender(c) \/ CallReturns(c)
      PROVE  StepKinds
  BY <1>1, <1>7, QuietHandler DEF StepKinds, LockEndpoint, OpenOutbox,
     CallFails, RegisterReplySender, CallReturns, cvars, Evaluating
<1>8. ASSUME NEW c \in Clients, HandleEval(c) PROVE StepKinds
  <2>1. Queued(c)
    BY <1>1, <1>8 DEF HandleEval, Queued, TakesNext, Reads, AtLoopHead, Busy,
       cvars, Evaluating
  <2>. QED
    BY <2>1 DEF StepKinds
<1>9. ASSUME NEW c \in Clients, NEW f \in Frames, NEW k,
             Reads(c, k), f.type = Reply(k), f.id = 0,
             f.type = "EnvDump" => f.dump = env, TxSend(c, f),
             UNCHANGED <<asked, writer>>,
             pc' = pc \/ pc' = [pc EXCEPT ![c] = "drain"]
      PROVE  StepKinds
  <2>1. TakesNext(c) /\ asked[c][taken[c] + 1] = k /\ pc[c] = "read"
    BY <1>9 DEF TakesNext, Reads, AtLoopHead, Busy, Evaluating
  <2>2. SameBusy
    BY <1>1, <1>9, <2>1 DEF SameBusy, Busy, Evaluating
  <2>3. Served(c, f)
    BY <1>9, <2>1, <2>2 DEF Served
  <2>. QED
    BY <2>3 DEF StepKinds
<1>10. ASSUME NEW c \in Clients, HandleHelloOrPing(c) PROVE StepKinds
  <2>1. PICK k \in {"hello", "ping"} :
          Reads(c, k) /\ TxSend(c, Frame(Reply(k), 0))
    BY <1>10 DEF HandleHelloOrPing
  <2>2. /\ Frame(Reply(k), 0) \in Frames
        /\ Frame(Reply(k), 0).type = Reply(k)
        /\ Frame(Reply(k), 0).id = 0
        /\ Reply(k) # "EnvDump"
    BY DaemonAssumption DEF Frame, Frames, Reply, ReplyTypes
  <2>. QED
    BY <1>1, <1>9, <1>10, <2>1, <2>2 DEF HandleHelloOrPing, cvars
<1>11. ASSUME NEW c \in Clients, HandleStop(c) PROVE StepKinds
  <2>1. Frame("Stopping", 0) \in Frames /\ Reply("stop") = "Stopping"
    BY DaemonAssumption DEF Frame, Frames, Reply, ReplyTypes
  <2>. QED
    BY <1>9, <1>11, <2>1 DEF HandleStop, Frame, cvars
<1>12. ASSUME NEW c \in Clients, HandleReset(c) PROVE StepKinds
  <2>1. Frame("ResetDone", 0) \in Frames /\ Reply("reset") = "ResetDone"
    BY DaemonAssumption DEF Frame, Frames, Reply, ReplyTypes
  <2>. QED
    BY <1>9, <1>12, <2>1 DEF HandleReset, Frame, cvars
<1>13. ASSUME NEW c \in Clients, HandleDumpEnv(c) PROVE StepKinds
  <2>. DEFINE f == [type |-> "EnvDump", id |-> 0, dump |-> env]
  <2>1. f \in Frames /\ Reply("dump") = "EnvDump"
    BY DaemonAssumption DEF DaemonInv, TypeOK, EvaluatorType, Frames, Reply,
       ReplyTypes
  <2>2. Reads(c, "dump") /\ TxSend(c, f) /\ UNCHANGED <<asked, writer, pc>>
    BY <1>13 DEF HandleDumpEnv, cvars
  <2>3. f.type = "EnvDump" /\ f.id = 0 /\ f.dump = env
    OBVIOUS
  <2>. HIDE DEF f
  <2>. QED
    BY <1>9, <2>1, <2>2, <2>3
<1>14. ASSUME NEW c \in Clients, Display(c) PROVE StepKinds
  <2>1. pc[c] \in Evaluating /\ display_sink = Job(c)
    BY <1>14 DEF Display, Step, DaemonInv, SinkInv, Evaluating
  <2>2. TxSend(c, Frame("Display", taken[c]))
    BY <1>14, <2>1 DEF Display, Job
  <2>3. Shown(c)
    BY <1>14, <2>1, <2>2 DEF Display, Shown, cvars
  <2>. QED
    BY <2>3 DEF StepKinds
<1>15. ASSUME NEW c \in Clients, FinishEval(c) PROVE StepKinds
  <2>1. Ended(c)
    BY <1>1, <1>15 DEF FinishEval, Ended, Busy, Evaluating, cvars
  <2>. QED
    BY <2>1 DEF StepKinds
<1>16. ASSUME NEW c \in Clients, Connect(c) \/ Disconnect(c) \/ Define(c)
       PROVE  StepKinds
  BY <1>2, <1>16 DEF Connect, Disconnect, Define, cvars
<1>17. CASE UNCHANGED vars \/ PollReplies \/ ActorSends \/ Signal \/ Shutdown
       \/ CloseEndpoint \/ Exit \/ (\E m \in 1 .. MaxMsgs : ActorReplies(m))
  BY <1>2, <1>17 DEF vars, PollReplies, ActorSends, Signal, Shutdown,
     CloseEndpoint, Exit, ActorReplies, cvars
<1>. QED
  BY <1>3, <1>4, <1>5, <1>6, <1>7, <1>8, <1>10, <1>11, <1>12, <1>13, <1>14,
     <1>15, <1>16, <1>17 DEF Next, Handler, Evaluation, Transport, MainTask
-----------------------------------------------------------------------------
(* The responses are in order.                                              *)

\* Every request read is answered, except one being evaluated; a writer that
\* has failed leaves some out at the end.
CountInv ==
    \A c \in Clients :
       /\ Answered(c) <= taken[c]
       /\ writer[c] = "up" =>
             Answered(c) = IF Busy(c) THEN taken[c] - 1 ELSE taken[c]

\* Only evaluations keep a handler busy.
KindInv == \A c \in Clients : Busy(c) => JobKind(c) \in EvalKinds

\* The frames are in their places, and carry ids of requests read.
FramesInv ==
    \A c \in Clients : \A p \in 1 .. Len(sent[c]) :
       FrameInOrder(c, p) /\ sent[c][p].id <= taken[c]

OrderInv == CountInv /\ KindInv /\ FramesInv

\* Frames already on a channel stay there.
LEMMA SentGrows ==
  ASSUME sent \in [Clients -> Seq(Frames)], NEW c \in Clients,
         NEW f \in Frames, TxSend(c, f)
  PROVE  /\ \A d \in Clients \ {c} : sent'[d] = sent[d]
         /\ sent'[c] = IF writer[c] = "dead" THEN sent[c]
                                             ELSE Append(sent[c], f)
  BY DEF TxSend

\* The number of answered requests is a natural.
LEMMA AnsweredType ==
  ASSUME sent \in [Clients -> Seq(Frames)], NEW c \in Clients
  PROVE  Len(sent[c]) \in Nat /\ Answered(c) \in Nat
<1>. DEFINE S == Frames
<1>1. sent[c] \in Seq(S)
  OBVIOUS
<1>. HIDE DEF S
<1>2. Len(sent[c]) \in Nat
  BY <1>1
<1>. QED
  BY <1>2, ResponsesType DEF Answered

\* How many requests count as answered after frame f went out.
LEMMA AnsweredAfter ==
  ASSUME sent \in [Clients -> Seq(Frames)], NEW c \in Clients,
         NEW f \in Frames, TxSend(c, f)
  PROVE  /\ \A d \in Clients : Answered(d) \in Nat
         /\ \A d \in Clients \ {c} : Answered(d)' = Answered(d)
         /\ Answered(c)' = IF writer[c] # "dead" /\ f.type # "Display"
                           THEN Answered(c) + 1
                           ELSE Answered(c)
<1>1. \A d \in Clients : Answered(d) \in Nat
  BY AnsweredType
<1>2. \A d \in Clients \ {c} : Answered(d)' = Answered(d)
  BY SentGrows DEF Answered
<1>3. CASE writer[c] = "dead"
  BY <1>1, <1>2, <1>3, SentGrows DEF Answered
<1>4. CASE writer[c] # "dead"
  <2>1. sent'[c] = Append(sent[c], f) /\ sent[c] \in Seq(Frames)
    BY <1>4, SentGrows
  <2>2. Responses(sent'[c], Len(sent'[c]))
          = IF f.type # "Display" THEN Responses(sent[c], Len(sent[c])) + 1
                                  ELSE Responses(sent[c], Len(sent[c]))
    BY <2>1, ResponsesAppend
  <2>. QED
    BY <1>1, <1>2, <1>4, <2>2 DEF Answered
<1>. QED
  BY <1>3, <1>4

\* A frame in order stays so while requests are added.
LEMMA OldFrame ==
  ASSUME DaemonInv, OrderInv, Grows,
         NEW c \in Clients, NEW p \in 1 .. Len(sent[c]),
         Len(sent'[c]) >= Len(sent[c]),
         \A q \in 1 .. Len(sent[c]) : sent'[c][q] = sent[c][q],
         taken[c] <= taken'[c], taken'[c] \in Nat
  PROVE  FrameInOrder(c, p)' /\ sent'[c][p].id <= taken'[c]
<1>1. /\ sent[c] \in Seq(Frames) /\ Len(sent[c]) \in Nat
      /\ taken[c] \in Nat /\ taken[c] <= Len(asked[c])
      /\ Len(asked[c]) \in Nat
  <2>. DEFINE S == Frames
  <2>1. sent[c] \in Seq(S) /\ asked[c] \in Seq(Kinds)
    BY DEF DaemonInv, TypeOK, HandlersType, ClientsType
  <2>2. taken[c] \in Nat /\ taken[c] <= Len(asked[c])
    BY DEF DaemonInv, TypeOK, HandlersType, RequestsInv
  <2>. HIDE DEF S
  <2>3. Len(sent[c]) \in Nat /\ Len(asked[c]) \in Nat
    BY <2>1
  <2>. QED
    BY <2>1, <2>2, <2>3 DEF S
<1>. DEFINE k == Responses(sent[c], p)
<1>2. Responses(sent'[c], p) = k
  BY <1>1, ResponsesPrefix, SMTT(30)
<1>3. k \in Nat /\ k <= taken[c]
  <2>1. p \in Nat /\ p <= Len(sent[c])
    BY <1>1
  <2>2. k <= Answered(c) /\ k \in Nat /\ Answered(c) \in Nat
    BY <1>1, <2>1, ResponsesType, ResponsesMonotone DEF Answered
  <2>3. Answered(c) <= taken[c]
    BY DEF OrderInv, CountInv
  <2>. HIDE DEF k
  <2>. QED
    BY <1>1, <2>2, <2>3
<1>4. sent[c][p].type # "Display" => asked'[c][k] = asked[c][k]
  <2>1. ASSUME sent[c][p].type # "Display" PROVE k >= 1
    BY <2>1, ResponsesPositive
  <2>. HIDE DEF k
  <2>. QED
    BY <1>1, <1>3, <2>1 DEF Grows
<1>5. FrameInOrder(c, p) /\ sent[c][p].id <= taken[c]
  BY DEF OrderInv, FramesInv
<1>6. sent'[c][p] = sent[c][p]
  BY <1>1
<1>7. FrameInOrder(c, p)'
  BY <1>2, <1>4, <1>5, <1>6 DEF FrameInOrder
<1>8. sent[c][p].id \in Nat
  <2>. DEFINE S == Frames
  <2>. HIDE DEF S
  <2>1. sent[c][p] \in S
    BY <1>1 DEF S
  <2>. QED
    BY <2>1, DaemonAssumption DEF S, Frames
<1>. QED
  BY <1>1, <1>5, <1>6, <1>7, <1>8

\* A frame that goes out in its turn leaves the channel in order.
LEMMA NewFrame ==
  ASSUME DaemonInv, OrderInv, Grows, NEW c \in Clients, NEW f \in Frames,
         TxSend(c, f), HandlersType',
         \A d \in Clients : taken[d] <= taken'[d],
         f.id <= taken'[c],
         writer[c] # "dead" =>
            IF f.type = "Display"
            THEN f.id = Answered(c) + 1
            ELSE /\ f.type = Reply(asked'[c][Answered(c) + 1])
                 /\ f.id \in {0, Answered(c) + 1}
  PROVE  FramesInv'
<1>1. sent \in [Clients -> Seq(Frames)]
  BY DEF DaemonInv, TypeOK, HandlersType
<1>2. \A d \in Clients : taken'[d] \in Nat
  BY DEF HandlersType
<1>. DEFINE S == Frames
<1>3. ASSUME NEW d \in Clients
      PROVE  /\ Len(sent[d]) \in Nat
             /\ \/ sent'[d] = sent[d]
                \/ d = c /\ writer[c] # "dead" /\ sent'[d] = Append(sent[d], f)
             /\ Len(sent'[d]) >= Len(sent[d])
             /\ \A q \in 1 .. Len(sent[d]) : sent'[d][q] = sent[d][q]
  <2>1. \/ sent'[d] = sent[d]
        \/ d = c /\ writer[c] # "dead" /\ sent'[d] = Append(sent[d], f)
    BY <1>1, SentGrows
  <2>2. sent[d] \in Seq(S) /\ f \in S
    BY <1>1
  <2>. HIDE DEF S
  <2>. QED
    BY <2>1, <2>2
<1>4. ASSUME NEW d \in Clients, NEW p \in 1 .. Len(sent'[d])
      PROVE  FrameInOrder(d, p)' /\ sent'[d][p].id <= taken'[d]
  <2>1. CASE p \in 1 .. Len(sent[d])
    BY <1>2, <1>3, <2>1, OldFrame
  <2>2. CASE p \notin 1 .. Len(sent[d])
    <3>1. d = c /\ writer[c] # "dead" /\ sent'[c] = Append(sent[c], f)
      BY <1>3, <1>4, <2>2
    <3>2. sent[c] \in Seq(S) /\ f \in S
      BY <1>1
    <3>3. /\ p = Len(sent[c]) + 1 /\ p = Len(sent'[c])
          /\ sent'[c][p] = f
      <4>. HIDE DEF S
      <4>. QED
        BY <1>4, <2>2, <3>1, <3>2
    <3>4. Responses(sent'[c], p) = IF f.type # "Display" THEN Answered(c) + 1
                                                       ELSE Answered(c)
      BY <3>1, <3>2, <3>3, ResponsesAppend DEF Answered
    <3>. QED
      BY <3>1, <3>3, <3>4 DEF FrameInOrder
  <2>. QED
    BY <2>1, <2>2
<1>. QED
  BY <1>4 DEF FramesInv

\* The invariant is kept by each kind of step.
LEMMA OrderStep == DaemonInv /\ DaemonInv' /\ OrderInv /\ StepKinds => OrderInv'
<1>. SUFFICES ASSUME DaemonInv, DaemonInv', OrderInv, StepKinds
              PROVE  OrderInv'
  OBVIOUS
<1>1. /\ sent \in [Clients -> Seq(Frames)]
      /\ taken \in [Clients -> 0 .. MaxReqs]
      /\ writer \in [Clients -> {"up", "dead"}]
      /\ HandlersType'
      /\ asked \in [Clients -> Seq(Kinds)]
      /\ \A c \in Clients : taken[c] \in Nat /\ taken[c] <= Len(asked[c])
      /\ \A c \in Clients : Busy(c) => taken[c] >= 1
  BY DEF DaemonInv, TypeOK, HandlersType, ClientsType, RequestsInv, Busy
<1>2. CASE Quiet
  <2>1. \A c \in Clients : Answered(c)' = Answered(c)
    BY <1>2 DEF Quiet, Answered
  <2>2. CountInv'
    BY <1>2, <2>1 DEF Quiet, SameBusy, OrderInv, CountInv
  <2>3. KindInv'
    BY <1>1, <1>2 DEF Quiet, SameBusy, Grows, OrderInv, KindInv, JobKind
  <2>4. ASSUME NEW c \in Clients, NEW p \in 1 .. Len(sent[c])
        PROVE  FrameInOrder(c, p)' /\ sent'[c][p].id <= taken'[c]
    <3>1. Grows /\ sent' = sent /\ taken' = taken
      BY <1>2 DEF Quiet
    <3>2. Len(sent'[c]) >= Len(sent[c])
      BY <1>1, <3>1
    <3>. QED
      BY <1>1, <3>1, <3>2, OldFrame
  <2>5. FramesInv'
    BY <1>2, <2>4 DEF Quiet, FramesInv
  <2>. QED
    BY <2>2, <2>3, <2>5 DEF OrderInv
<1>3. ASSUME NEW c \in Clients, NEW f \in Frames, Served(c, f)
      PROVE  OrderInv'
  <2>1. /\ TxSend(c, f) /\ ~Busy(c) /\ SameBusy
        /\ taken' = [taken EXCEPT ![c] = @ + 1] /\ asked' = asked
        /\ writer' = writer /\ taken[c] < Len(asked[c])
        /\ f.type = Reply(asked[c][taken[c] + 1]) /\ f.id = 0
    BY <1>3 DEF Served, TakesNext
  <2>2. f.type # "Display"
    BY <2>1 DEF Reply
  <2>3. CountInv'
    BY <1>1, <2>1, <2>2, AnsweredAfter DEF SameBusy, OrderInv, CountInv
  <2>4. KindInv'
    BY <1>1, <2>1 DEF SameBusy, OrderInv, KindInv, JobKind
  <2>5. writer[c] # "dead" => Answered(c) = taken[c]
    BY <1>1, <2>1 DEF OrderInv, CountInv
  <2>6. Grows
    BY <1>1, <2>1 DEF Grows
  <2>7. \A d \in Clients : taken[d] <= taken'[d]
    BY <1>1, <2>1
  <2>8. 0 <= taken'[c]
    BY <1>1, <2>1
  <2>9. FramesInv'
    BY <1>1, <2>1, <2>2, <2>5, <2>6, <2>7, <2>8, NewFrame
  <2>. QED
    BY <2>3, <2>4, <2>9 DEF OrderInv
<1>4. ASSUME NEW c \in Clients, Queued(c) PROVE OrderInv'
  <2>1. /\ ~Busy(c) /\ Busy(c)'
        /\ \A d \in Clients \ {c} : Busy(d)' <=> Busy(d)
        /\ taken' = [taken EXCEPT ![c] = @ + 1] /\ asked' = asked
        /\ writer' = writer /\ sent' = sent
        /\ asked[c][taken[c] + 1] \in EvalKinds
    BY <1>4 DEF Queued, TakesNext
  <2>2. \A d \in Clients : Answered(d)' = Answered(d) /\ Answered(d) \in Nat
    BY <1>1, <2>1, AnsweredType DEF Answered
  <2>3. CountInv'
    BY <1>1, <2>1, <2>2 DEF OrderInv, CountInv
  <2>4. KindInv'
    BY <1>1, <2>1 DEF OrderInv, KindInv, JobKind
  <2>5. Grows /\ \A d \in Clients : taken[d] <= taken'[d] /\ taken'[d] \in Nat
    BY <1>1, <2>1 DEF Grows
  <2>6. ASSUME NEW d \in Clients, NEW p \in 1 .. Len(sent[d])
        PROVE  FrameInOrder(d, p)' /\ sent'[d][p].id <= taken'[d]
    BY <1>1, <2>1, <2>5, OldFrame
  <2>7. FramesInv'
    BY <2>1, <2>6 DEF FramesInv
  <2>. QED
    BY <2>3, <2>4, <2>7 DEF OrderInv
<1>5. ASSUME NEW c \in Clients, Shown(c) PROVE OrderInv'
  <2>. DEFINE f == Frame("Display", taken[c])
  <2>1. /\ TxSend(c, f) /\ Busy(c)
        /\ UNCHANGED <<asked, taken, pc, writer>>
    BY <1>5 DEF Shown, Busy
  <2>2. f \in Frames /\ f.type = "Display" /\ f.id = taken[c]
    BY <1>1 DEF Frame, Frames
  <2>. HIDE DEF f
  <2>3. CountInv'
    BY <1>1, <2>1, <2>2, AnsweredAfter DEF OrderInv, CountInv, Busy
  <2>4. KindInv'
    BY <2>1 DEF OrderInv, KindInv, JobKind, Busy
  <2>5. writer[c] # "dead" => taken[c] = Answered(c) + 1
    BY <1>1, <2>1 DEF OrderInv, CountInv
  <2>6. Grows /\ \A d \in Clients : taken[d] <= taken'[d]
    BY <1>1, <2>1 DEF Grows
  <2>7. f.id <= taken'[c] /\ (writer[c] # "dead" => f.id = Answered(c) + 1)
    BY <1>1, <2>1, <2>2, <2>5
  <2>8. FramesInv'
    BY <1>1, <2>1, <2>2, <2>6, <2>7, NewFrame
  <2>. QED
    BY <2>3, <2>4, <2>8 DEF OrderInv
<1>6. ASSUME NEW c \in Clients, Ended(c) PROVE OrderInv'
  <2>. DEFINE f == Frame("EvalResult", taken[c])
  <2>1. /\ TxSend(c, f) /\ Busy(c) /\ ~Busy(c)'
        /\ \A d \in Clients \ {c} : Busy(d)' <=> Busy(d)
        /\ UNCHANGED <<asked, taken, writer>>
    BY <1>6 DEF Ended, Busy
  <2>2. f \in Frames /\ f.type = "EvalResult" /\ f.id = taken[c]
    BY <1>1 DEF Frame, Frames, ReplyTypes
  <2>. HIDE DEF f
  <2>3. CountInv'
    BY <1>1, <2>1, <2>2, AnsweredAfter DEF OrderInv, CountInv
  <2>4. KindInv'
    BY <2>1 DEF OrderInv, KindInv, JobKind
  <2>5. writer[c] # "dead" => taken[c] = Answered(c) + 1
    BY <1>1, <2>1, <2>2, AnsweredAfter DEF OrderInv, CountInv
  <2>6. Reply(asked[c][taken[c]]) = "EvalResult"
    BY <2>1 DEF OrderInv, KindInv, JobKind, Reply, EvalKinds
  <2>7. FramesInv'
    BY <1>1, <2>1, <2>2, <2>5, <2>6, NewFrame DEF Grows
  <2>. QED
    BY <2>3, <2>4, <2>7 DEF OrderInv
<1>. QED
  BY <1>2, <1>3, <1>4, <1>5, <1>6 DEF StepKinds

-----------------------------------------------------------------------------
(* What a dump holds.                                                       *)

\* The shared environment holds defines of shared evaluations whose own
\* connection has read no reset since.
DefinesInv ==
    \A d \in env :
       /\ d[2] <= taken[d[1]] /\ asked[d[1]][d[2]] = "shared"
       /\ \A q \in 1 .. taken[d[1]] :
             asked[d[1]][q] = "reset" => q < d[2]

DumpInv == DefinesInv /\ DumpsAreSound

\* No step takes back a request or a frame.
LEMMA KindsGrow ==
  ASSUME DaemonInv, StepKinds
  PROVE  /\ Grows
         /\ \A c \in Clients : taken[c] <= taken'[c]
<1>1. taken \in [Clients -> 0 .. MaxReqs] /\ asked \in [Clients -> Seq(Kinds)]
  BY DEF DaemonInv, TypeOK, HandlersType, ClientsType
<1>2. CASE Quiet
  BY <1>1, <1>2 DEF Quiet
<1>3. CASE ~Quiet
  <2>1. asked' = asked
    BY <1>3 DEF StepKinds, Served, Queued, Shown, Ended, TakesNext
  <2>2. \A c \in Clients : taken[c] <= taken'[c]
    BY <1>1, <1>3 DEF StepKinds, Served, Queued, Shown, Ended, TakesNext
  <2>. QED
    BY <1>1, <2>1, <2>2 DEF Grows
<1>. QED
  BY <1>2, <1>3

\* How a step changes the shared environment, and that no reset is read while
\* it keeps its defines.
LEMMA EnvCases ==
  ASSUME DaemonInv, [Next]_vars
  PROVE  \/ env' = {}
         \/ \E c \in Clients : Define(c)
         \/ /\ env' = env
            /\ \A c \in Clients :
                  \/ taken'[c] = taken[c]
                  \/ /\ taken'[c] = taken[c] + 1
                     /\ taken[c] < Len(asked[c])
                     /\ asked[c][taken[c] + 1] # "reset"
<1>. DEFINE Goal == \/ env' = {}
                    \/ \E c \in Clients : Define(c)
                    \/ /\ env' = env
                       /\ \A c \in Clients :
                             \/ taken'[c] = taken[c]
                             \/ /\ taken'[c] = taken[c] + 1
                                /\ taken[c] < Len(asked[c])
                                /\ asked[c][taken[c] + 1] # "reset"
<1>1. taken \in [Clients -> 0 .. MaxReqs]
  BY DEF DaemonInv, TypeOK, HandlersType
<1>2. ASSUME env' = env, taken' = taken PROVE Goal
  BY <1>2
<1>3. ASSUME NEW c \in Clients, HandleReset(c) PROVE Goal
  BY <1>3 DEF HandleReset
<1>4. ASSUME NEW c \in Clients,
             HandleHelloOrPing(c) \/ HandleStop(c) \/ HandleDumpEnv(c)
      PROVE  Goal
  BY <1>1, <1>4 DEF HandleHelloOrPing, HandleStop, HandleDumpEnv, Reads,
     AtLoopHead, evars
<1>5. ASSUME NEW c \in Clients, HandleEval(c) PROVE Goal
  BY <1>1, <1>5 DEF HandleEval, Reads, AtLoopHead, EvalKinds
<1>6. ASSUME NEW c \in Clients, Connect(c) \/ Request(c) \/ Disconnect(c) \/
             Accept(c) \/ HandlerEnds(c) \/ HandlerFails(c) \/
             HandlerDrained(c) \/ StartEval(c)
             \/ Write(c)
      PROVE  Goal
  BY <1>2, <1>6 DEF Connect, Request, Disconnect, Accept, HandlerEnds,
      HandlerFails,
     HandlerDrained, StartEval, Write, hvars, evars
<1>7. ASSUME NEW c \in Clients, Display(c) \/ StartIO(c) \/ EndIO(c) \/
             StartCall(c) \/ FinishEval(c) \/ LockEndpoint(c) \/
             OpenOutbox(c) \/ CallFails(c) \/ RegisterReplySender(c) \/
             CallReturns(c)
      PROVE  Goal
  BY <1>2, <1>7 DEF Display, StartIO, EndIO, StartCall, FinishEval,
     LockEndpoint, OpenOutbox, CallFails, RegisterReplySender, CallReturns,
     evars
<1>8. CASE UNCHANGED vars \/ PollReplies \/ ActorSends \/ Signal \/ Shutdown
      \/ CloseEndpoint \/ Exit \/ (\E m \in 1 .. MaxMsgs : ActorReplies(m))
  BY <1>2, <1>8 DEF vars, PollReplies, ActorSends, Signal, Shutdown,
     CloseEndpoint, Exit, ActorReplies, hvars, evars
<1>9. ASSUME NEW c \in Clients, Define(c) PROVE Goal
  BY <1>9
<1>. QED
  BY <1>3, <1>4, <1>5, <1>6, <1>7, <1>8, <1>9 DEF Next, Handler, Evaluation,
     Transport, MainTask

\* A define enters the shared environment for a shared evaluation only, and a
\* reset of its connection is read before it or takes it away.
LEMMA DefinesStep ==
  DaemonInv /\ DaemonInv' /\ OrderInv /\ DefinesInv /\ [Next]_vars
     => DefinesInv'
<1>. SUFFICES ASSUME DaemonInv, DaemonInv', OrderInv, DefinesInv, [Next]_vars
              PROVE  DefinesInv'
  OBVIOUS
<1>1. /\ taken \in [Clients -> 0 .. MaxReqs]
      /\ asked \in [Clients -> Seq(Kinds)]
      /\ \A c \in Clients : taken[c] <= Len(asked[c]) /\ Len(asked[c]) \in Nat
      /\ \A d \in env : d[1] \in Clients /\ d[2] \in 1 .. MaxReqs
  BY SMTT(30) DEF DaemonInv, TypeOK, HandlersType, ClientsType, RequestsInv,
     EvaluatorType, Defs
<1>2. CASE env' = {}
  BY <1>2 DEF DefinesInv
<1>3. ASSUME NEW c \in Clients, Define(c) PROVE DefinesInv'
  <2>. DEFINE e == <<c, taken[c], ops[c] + 1>>
  <2>1. /\ pc[c] = "eval" /\ JobKind(c) # "dot"
        /\ IF InIsolation(c) THEN env' = env ELSE env' \subseteq env \cup {e}
        /\ UNCHANGED <<asked, taken>>
    BY <1>3 DEF Define, Step, cvars, hvars
  <2>2. JobKind(c) \in EvalKinds
    BY <2>1 DEF OrderInv, KindInv, Busy, Evaluating
  <2>3. CASE InIsolation(c)
    BY <2>1, <2>3 DEF DefinesInv
  <2>4. CASE ~InIsolation(c)
    <3>1. asked[c][taken[c]] = "shared"
      BY <2>1, <2>2, <2>4 DEF InIsolation, JobKind, EvalKinds
    <3>2. e[1] = c /\ e[2] = taken[c]
      OBVIOUS
    <3>. HIDE DEF e
    <3>3. ASSUME NEW q \in 1 .. taken[c], asked[c][q] = "reset"
          PROVE  q < taken[c]
      BY <1>1, <3>1, <3>3
    <3>4. ASSUME NEW d \in env'
          PROVE  /\ d[2] <= taken[d[1]] /\ asked[d[1]][d[2]] = "shared"
                 /\ \A q \in 1 .. taken[d[1]] :
                       asked[d[1]][q] = "reset" => q < d[2]
      <4>1. CASE d \in env
        BY <4>1 DEF DefinesInv
      <4>2. CASE d = e
        BY <1>1, <3>1, <3>2, <3>3, <4>2
      <4>. QED
        BY <2>1, <2>4, <3>4, <4>1, <4>2
    <3>. QED
      BY <2>1, <3>4 DEF DefinesInv
  <2>. QED
    BY <2>3, <2>4
<1>4. ASSUME env' = env,
             \A c \in Clients : \/ taken'[c] = taken[c]
                                \/ /\ taken'[c] = taken[c] + 1
                                   /\ taken[c] < Len(asked[c])
                                   /\ asked[c][taken[c] + 1] # "reset"
      PROVE  DefinesInv'
  <2>1. Grows /\ \A c \in Clients : taken[c] <= taken'[c]
    BY OrderCases, KindsGrow
  <2>2. \A c \in Clients : taken'[c] \in Nat
    BY DEF DaemonInv, TypeOK, HandlersType
  <2>3. ASSUME NEW d \in env
        PROVE  d[2] <= taken'[d[1]] /\ asked'[d[1]][d[2]] = "shared"
    <3>1. /\ d[1] \in Clients /\ d[2] \in 1 .. Len(asked[d[1]])
          /\ d[2] <= taken[d[1]] /\ asked[d[1]][d[2]] = "shared"
      BY <1>1 DEF DefinesInv
    <3>2. asked'[d[1]][d[2]] = asked[d[1]][d[2]]
      BY <2>1, <3>1 DEF Grows
    <3>. QED
      BY <1>1, <2>1, <2>2, <3>1, <3>2
  <2>4. ASSUME NEW d \in env, NEW q \in 1 .. taken'[d[1]],
               asked'[d[1]][q] = "reset"
        PROVE  q < d[2]
    <3>1. d[1] \in Clients /\ taken'[d[1]] <= Len(asked'[d[1]])
      BY <1>1 DEF DaemonInv, RequestsInv
    <3>2. CASE q \in 1 .. taken[d[1]]
      <4>1. asked'[d[1]][q] = asked[d[1]][q]
        BY <1>1, <2>1, <3>1, <3>2, SMTT(30) DEF Grows
      <4>. QED
        BY <2>4, <3>2, <4>1 DEF DefinesInv
    <3>3. CASE q \notin 1 .. taken[d[1]]
      <4>1. /\ taken'[d[1]] = taken[d[1]] + 1 /\ q = taken[d[1]] + 1
            /\ asked[d[1]][q] # "reset"
        BY <1>1, <1>4, <2>4, <3>1, <3>3
      <4>2. q \in 1 .. Len(asked[d[1]])
        BY <1>1, <1>4, <3>1, <4>1, SMTT(30)
      <4>. QED
        BY <2>1, <2>4, <3>1, <4>1, <4>2 DEF Grows
    <3>. QED
      BY <3>2, <3>3
  <2>. QED
    BY <1>4, <2>3, <2>4 DEF DefinesInv
<1>. QED
  BY <1>2, <1>3, <1>4, EnvCases

\* Dumps already sent stay sound, and a new one is sound because every request
\* of its connection up to the dump itself has been read.
LEMMA DumpsStep ==
  DaemonInv /\ DaemonInv' /\ OrderInv /\ DumpInv /\ StepKinds
     => DumpsAreSound'
<1>. SUFFICES ASSUME DaemonInv, DaemonInv', OrderInv, DumpInv, StepKinds,
                     NEW c \in Clients, NEW p \in 1 .. Len(sent'[c]),
                     sent'[c][p].type = "EnvDump",
                     NEW d \in sent'[c][p].dump
              PROVE  /\ d[2] <= taken'[d[1]]
                     /\ asked'[d[1]][d[2]] = "shared"
                     /\ \A q \in 1 .. Len(asked'[c]) :
                          (asked'[c][q] = "reset" /\ d[1] = c /\ d[2] < q)
                             => q > Responses(sent'[c], p)
  BY DEF DumpsAreSound
<1>1. /\ taken \in [Clients -> 0 .. MaxReqs]
      /\ asked \in [Clients -> Seq(Kinds)]
      /\ sent \in [Clients -> Seq(Frames)]
      /\ \A e \in Clients : taken[e] <= Len(asked[e]) /\ Len(asked[e]) \in Nat
      /\ \A e \in Clients : taken'[e] \in Nat
  BY DEF DaemonInv, TypeOK, HandlersType, ClientsType, RequestsInv
<1>2. Grows /\ \A e \in Clients : taken[e] <= taken'[e]
  BY KindsGrow
<1>. DEFINE S == Frames
<1>3. ASSUME NEW e, e[1] \in Clients, e[2] \in 1 .. MaxReqs,
             e[2] <= taken[e[1]], asked[e[1]][e[2]] = "shared"
      PROVE  e[2] <= taken'[e[1]] /\ asked'[e[1]][e[2]] = "shared"
  <2>1. e[2] \in 1 .. Len(asked[e[1]])
    BY <1>1, <1>3
  <2>2. asked'[e[1]][e[2]] = asked[e[1]][e[2]]
    BY <1>2, <1>3, <2>1 DEF Grows
  <2>. QED
    BY <1>1, <1>2, <1>3, <2>2, SMTT(30)
<1>4. Len(sent[c]) \in Nat /\ Answered(c) \in Nat
  BY <1>1, AnsweredType
<1>5. CASE p \in 1 .. Len(sent[c]) /\ sent'[c][p] = sent[c][p]
           /\ \A q \in 1 .. p : sent'[c][q] = sent[c][q]
  <2>1. sent[c][p] \in Frames
    <3>1. sent[c] \in Seq(S)
      BY <1>1
    <3>. HIDE DEF S
    <3>2. sent[c][p] \in S
      BY <1>5, <3>1
    <3>. QED
      BY <3>2 DEF S
  <2>2. d[1] \in Clients /\ d[2] \in 1 .. MaxReqs
    BY <1>5, <2>1 DEF Frames, Defs
  <2>3. Responses(sent'[c], p) = Responses(sent[c], p)
    BY <1>4, <1>5, ResponsesPrefix
  <2>4. /\ d[2] <= taken[d[1]] /\ asked[d[1]][d[2]] = "shared"
        /\ \A q \in 1 .. Len(asked[c]) :
              (asked[c][q] = "reset" /\ d[1] = c /\ d[2] < q)
                 => q > Responses(sent[c], p)
    BY <1>5 DEF DumpInv, DumpsAreSound
  <2>5. /\ Responses(sent[c], p) <= taken[c]
        /\ Responses(sent[c], p) \in Nat
    <3>1. p \in Nat /\ p <= Len(sent[c])
      BY <1>4, <1>5
    <3>2. /\ Responses(sent[c], p) <= Answered(c)
          /\ Responses(sent[c], p) \in Nat
      BY <1>4, <3>1, ResponsesMonotone, ResponsesType DEF Answered
    <3>3. Answered(c) <= taken[c]
      BY DEF OrderInv, CountInv
    <3>. QED
      BY <1>1, <1>4, <3>2, <3>3
  <2>6. ASSUME NEW q \in 1 .. Len(asked'[c]), asked'[c][q] = "reset",
               d[1] = c, d[2] < q
        PROVE  q > Responses(sent[c], p)
    <3>1. CASE q \in 1 .. Len(asked[c])
      BY <1>2, <2>4, <2>6, <3>1 DEF Grows
    <3>2. CASE q \notin 1 .. Len(asked[c])
      BY <1>1, <2>5, <2>6, <3>2
    <3>. QED
      BY <3>1, <3>2
  <2>. QED
    BY <1>3, <2>2, <2>3, <2>4, <2>6
<1>6. ASSUME NEW f \in Frames, Served(c, f), writer[c] # "dead",
             p = Len(sent[c]) + 1, f.type = "EnvDump"
      PROVE  /\ d[2] <= taken'[d[1]]
             /\ asked'[d[1]][d[2]] = "shared"
             /\ \A q \in 1 .. Len(asked'[c]) :
                  (asked'[c][q] = "reset" /\ d[1] = c /\ d[2] < q)
                     => q > Responses(sent'[c], p)
  <2>1. /\ sent'[c] = Append(sent[c], f)
        /\ taken' = [taken EXCEPT ![c] = @ + 1]
        /\ taken[c] < Len(asked[c]) /\ ~Busy(c) /\ asked' = asked
        /\ f.dump = env /\ Reply(asked[c][taken[c] + 1]) = "EnvDump"
    BY <1>1, <1>6, SentGrows DEF Served, TakesNext
  <2>2. sent[c] \in Seq(S) /\ f \in S
    BY <1>1, <1>6
  <2>3. sent'[c][p] = f /\ p = Len(sent'[c])
    <3>. HIDE DEF S
    <3>. QED
      BY <1>6, <2>1, <2>2
  <2>4. d \in env /\ d[1] \in Clients /\ d[2] \in 1 .. MaxReqs
    BY <2>1, <2>3 DEF DaemonInv, TypeOK, EvaluatorType, Defs
  <2>5. Responses(sent'[c], p) = taken[c] + 1
    <3>1. Responses(sent'[c], p) = Answered(c) + 1
      BY <1>6, <2>1, <2>2, <2>3, ResponsesAppend DEF Answered
    <3>2. writer[c] = "up"
      BY <1>6 DEF DaemonInv, TypeOK, HandlersType
    <3>. QED
      BY <2>1, <3>1, <3>2 DEF OrderInv, CountInv
  <2>6. asked[c][taken[c] + 1] # "reset"
    BY <2>1 DEF Reply
  <2>7. ASSUME NEW q \in 1 .. Len(asked[c]), asked[c][q] = "reset",
               d[1] = c, d[2] < q
        PROVE  q > taken[c] + 1
    <3>1. q \notin 1 .. taken[c]
      BY <1>1, <2>4, <2>7 DEF DumpInv, DefinesInv
    <3>. QED
      BY <1>1, <2>6, <2>7, <3>1
  <2>. QED
    BY <1>3, <2>1, <2>4, <2>5, <2>7 DEF DumpInv, DefinesInv
<1>7. CASE sent' = sent
  BY <1>4, <1>5, <1>7
<1>8. ASSUME NEW e \in Clients, NEW f \in Frames, TxSend(e, f),
             f.type = "EnvDump" => Served(e, f)
      PROVE  /\ d[2] <= taken'[d[1]]
             /\ asked'[d[1]][d[2]] = "shared"
             /\ \A q \in 1 .. Len(asked'[c]) :
                  (asked'[c][q] = "reset" /\ d[1] = c /\ d[2] < q)
                     => q > Responses(sent'[c], p)
  <2>1. \/ sent'[c] = sent[c]
        \/ e = c /\ writer[c] # "dead" /\ sent'[c] = Append(sent[c], f)
    BY <1>1, <1>8, SentGrows
  <2>2. sent[c] \in Seq(S) /\ f \in S
    BY <1>1
  <2>3. \/ /\ p \in 1 .. Len(sent[c])
           /\ \A q \in 1 .. p : sent'[c][q] = sent[c][q]
        \/ /\ e = c /\ writer[c] # "dead" /\ p = Len(sent[c]) + 1
           /\ sent'[c][p] = f
    <3>. HIDE DEF S
    <3>. QED
      BY <2>1, <2>2, SMTT(30)
  <2>4. CASE p \in 1 .. Len(sent[c]) /\ \A q \in 1 .. p : sent'[c][q] = sent[c][q]
    BY <1>5, <2>4
  <2>. QED
    BY <1>6, <1>8, <2>3, <2>4
<1>9. ASSUME NEW e \in Clients, Shown(e) PROVE sent' = sent \/
             \E f \in Frames : TxSend(e, f) /\ f.type # "EnvDump"
  <2>1. Frame("Display", taken[e]) \in Frames
    BY <1>1 DEF Frame, Frames
  <2>. QED
    BY <1>9, <2>1 DEF Shown, Frame
<1>10. ASSUME NEW e \in Clients, Ended(e) PROVE sent' = sent \/
             \E f \in Frames : TxSend(e, f) /\ f.type # "EnvDump"
  <2>1. Frame("EvalResult", taken[e]) \in Frames
    BY <1>1 DEF Frame, Frames, ReplyTypes
  <2>. QED
    BY <1>10, <2>1 DEF Ended, Frame
<1>11. CASE Quiet \/ \E e \in Clients : Queued(e)
  BY <1>7, <1>11 DEF Quiet, Queued
<1>12. CASE \E e \in Clients : \E f \in Frames : Served(e, f)
  BY <1>8, <1>12 DEF Served
<1>13. CASE \E e \in Clients : Shown(e) \/ Ended(e)
  BY <1>7, <1>8, <1>9, <1>10, <1>13
<1>. QED
  BY <1>11, <1>12, <1>13 DEF StepKinds

-----------------------------------------------------------------------------
(* The theorems.                                                            *)

LEMMA InitOrder == Init => OrderInv /\ DumpInv
<1>. SUFFICES ASSUME Init PROVE OrderInv /\ DumpInv
  OBVIOUS
<1>1. \A c \in Clients : /\ sent[c] = <<>> /\ Len(sent[c]) = 0
                         /\ ~Busy(c) /\ taken[c] = 0
  BY DEF Init, Busy, Evaluating
<1>2. Responses(<<>>, 0) = 0
  <2>1. Responses(<<>>, 0) \in Nat /\ Responses(<<>>, 0) <= 0
    BY ResponsesType
  <2>. QED
    BY <2>1
<1>3. env = {}
  BY DEF Init
<1>4. \A c \in Clients : Answered(c) = 0
  BY <1>1, <1>2 DEF Answered
<1>. QED
  BY <1>1, <1>3, <1>4 DEF OrderInv, CountInv, KindInv, FramesInv, DumpInv,
     DefinesInv, DumpsAreSound

\* Order, and what dumps may hold, throughout.
THEOREM OrderInvariant == Spec => [](OrderInv /\ DumpInv)
<1>1. DaemonInv /\ DaemonInv' /\ OrderInv /\ DumpInv /\ [Next]_vars
         => (OrderInv /\ DumpInv)'
  BY OrderCases, OrderStep, DefinesStep, DumpsStep DEF DumpInv
<1>. QED
  BY <1>1, InitOrder, DaemonInvariant, PTL DEF Spec

\* For any number of connections and requests, responses come one per request
\* and in the order of the requests, display output before the result it
\* belongs to, also when clients do not wait for answers and writers fail
\* (daemon.rs, handle_conn).
THEOREM ResponsesInOrderHolds == Spec => []ResponsesInOrder
<1>1. OrderInv => ResponsesInOrder
  BY DEF OrderInv, CountInv, FramesInv, ResponsesInOrder
<1>. QED
  BY <1>1, OrderInvariant, PTL

\* For any interleaving of evaluations, resets and dumps, a dump holds only
\* defines of shared evaluations, and none its connection had reset
\* (daemon.rs, Reset, DumpEnv, eval_request).
THEOREM DumpsAreSoundHolds == Spec => []DumpsAreSound
<1>1. DumpInv => DumpsAreSound
  BY DEF DumpInv
<1>. QED
  BY <1>1, OrderInvariant, PTL

-----------------------------------------------------------------------------
(* Daemon implements EvalService: every step of the daemon is a step of the *)
(* first-come-first-served service, or changes nothing the service speaks   *)
(* of.                                                                      *)

\* The mapped variables, as the INSTANCE of EvalService has them.
Queue == [i \in 1 .. Len(eval_lock) |-> Job(eval_lock[i])]
Output == [c \in Clients |-> [i \in 1 .. Len(sent[c]) |-> View(sent[c][i])]]
Left == {c \in Clients : writer[c] = "dead"}

Views == [type : {"Display", "EvalResult", "Other"}, id : 0 .. MaxReqs]

-----------------------------------------------------------------------------
(* The mapping of queues and channels.                                      *)

\* Append and Tail, position by position.
LEMMA AppendIs ==
  ASSUME NEW S, NEW q \in Seq(S), NEW x \in S
  PROVE  [i \in 1 .. Len(q) + 1 |-> IF i = Len(q) + 1 THEN x ELSE q[i]]
           = Append(q, x)
<1>. DEFINE r == [i \in 1 .. Len(q) + 1 |->
                    IF i = Len(q) + 1 THEN x ELSE q[i]]
<1>1. Len(q) \in Nat /\ \A i \in 1 .. Len(q) : q[i] \in S
  OBVIOUS
<1>2. \A i \in 1 .. Len(q) + 1 : r[i] = IF i = Len(q) + 1 THEN x ELSE q[i]
  BY <1>1
<1>3. r \in Seq(S) /\ Len(r) = Len(q) + 1
  BY <1>1
<1>. HIDE DEF r
<1>4. r = Append(q, x)
  BY <1>1, <1>2, <1>3
<1>. QED
  BY <1>4 DEF r

LEMMA TailIs ==
  ASSUME NEW S, NEW q \in Seq(S), Len(q) > 0
  PROVE  [i \in 1 .. Len(q) - 1 |-> q[i + 1]] = Tail(q)
<1>. DEFINE r == [i \in 1 .. Len(q) - 1 |-> q[i + 1]]
<1>1. Len(q) \in Nat /\ \A i \in 1 .. Len(q) : q[i] \in S
  OBVIOUS
<1>2. \A i \in 1 .. Len(q) - 1 : r[i] = q[i + 1]
  BY <1>1
<1>3. r \in Seq(S) /\ Len(r) = Len(q) - 1
  BY <1>1
<1>. HIDE DEF r
<1>4. r = Tail(q)
  BY <1>1, <1>2, <1>3
<1>. QED
  BY <1>4 DEF r

\* A frame appended to a channel is appended to the output.
LEMMA ViewAppend ==
  ASSUME NEW s \in Seq(Frames), NEW f \in Frames
  PROVE  LET Seen(t) == [i \in 1 .. Len(t) |-> View(t[i])]
         IN  Seen(Append(s, f)) = Append(Seen(s), View(f))
<1>. DEFINE F == Frames
            t == Append(s, f)
            v == [i \in 1 .. Len(s) |-> View(s[i])]
<1>1. /\ s \in Seq(F) /\ f \in F
      /\ \A g \in F : View(g) \in Views
  BY DEF View, Views, Frames
<1>. DEFINE V == Views
<1>. HIDE DEF F, V
<1>2. \A i \in 1 .. Len(s) : View(s[i]) \in V
  BY <1>1 DEF V
<1>3. v \in Seq(V) /\ Len(v) = Len(s) /\ Len(s) \in Nat
  BY <1>1, <1>2
<1>4. /\ Len(t) = Len(s) + 1 /\ t[Len(s) + 1] = f
      /\ \A i \in 1 .. Len(s) : t[i] = s[i]
  BY <1>1
<1>5. View(f) \in V
  BY <1>1 DEF V
<1>. HIDE DEF t
<1>. DEFINE w == [i \in 1 .. Len(t) |-> View(t[i])]
            x == View(f)
<1>6. \A i \in 1 .. Len(t) : w[i] = IF i = Len(s) + 1 THEN x ELSE v[i]
  BY <1>3, <1>4
<1>7. w \in Seq(V) /\ Len(w) = Len(s) + 1
  <2>1. \A i \in 1 .. Len(t) : View(t[i]) \in V
    BY <1>2, <1>3, <1>4, <1>5
  <2>. QED
    BY <1>3, <1>4, <2>1
<1>. HIDE DEF w, v, x
<1>8. w = Append(v, x)
  BY <1>3, <1>4, <1>5, <1>6, <1>7 DEF x
<1>. QED
  BY <1>8 DEF w, v, x, t

\* A frame put on a channel is output for its client.
LEMMA EmitStep ==
  ASSUME sent \in [Clients -> Seq(Frames)], NEW c \in Clients,
         NEW f \in Frames, TxSend(c, f), NEW type, View(f).type = type
  PROVE  Service!Emit([to |-> c, id |-> f.id], type)
<1>1. CASE writer[c] = "dead"
  BY <1>1 DEF Service!Emit, TxSend
<1>2. CASE writer[c] # "dead"
  <2>1. sent' = [sent EXCEPT ![c] = Append(@, f)]
    BY <1>2 DEF TxSend
  <2>2. [i \in 1 .. Len(sent'[c]) |-> View(sent'[c][i])]
          = Append(Output[c], View(f))
    BY <2>1, ViewAppend DEF Output
  <2>3. View(f) = [type |-> type, id |-> f.id]
    BY DEF View
  <2>4. Output' = [Output EXCEPT ![c] = Append(@, View(f))]
    BY <2>1, <2>2 DEF Output
  <2>. QED
    BY <1>2, <2>3, <2>4 DEF Service!Emit, Output
<1>. QED
  BY <1>1, <1>2

\* The queue is one of jobs with ids in range.
LEMMA QueueType ==
  ASSUME DaemonInv
  PROVE  Queue \in Seq(Service!Jobs) /\ Len(Queue) = Len(eval_lock)
<1>1. /\ taken \in [Clients -> 0 .. MaxReqs]
      /\ eval_lock \in Seq(Clients)
      /\ \A i \in 1 .. Len(eval_lock) : Busy(eval_lock[i])
  BY DEF DaemonInv, TypeOK, HandlersType, EvaluatorType, LockInv, Busy
<1>2. Len(eval_lock) \in Nat
  BY <1>1
<1>3. ASSUME NEW i \in 1 .. Len(eval_lock)
      PROVE  Job(eval_lock[i]) \in Service!Jobs
  <2>1. eval_lock[i] \in Clients /\ Busy(eval_lock[i])
    BY <1>1
  <2>2. taken[eval_lock[i]] >= 1
    BY <2>1 DEF DaemonInv, RequestsInv, Busy
  <2>. QED
    BY <1>1, <2>1, <2>2 DEF Job, Service!Jobs
<1>. DEFINE J == Service!Jobs
<1>. HIDE DEF J
<1>4. Queue \in Seq(J) /\ Len(Queue) = Len(eval_lock)
  BY <1>2, <1>3 DEF J, Queue
<1>. QED
  BY <1>4 DEF J

\* Who waits keeps the id of its request, so a queue left alone stays as it is.
LEMMA QueueSame ==
  ASSUME DaemonInv, eval_lock' = eval_lock,
         \A d \in Clients : Busy(d) => taken'[d] = taken[d]
  PROVE  Queue' = Queue
<1>1. /\ eval_lock \in Seq(Clients)
      /\ \A i \in 1 .. Len(eval_lock) : Busy(eval_lock[i])
  BY DEF DaemonInv, TypeOK, EvaluatorType, LockInv, Busy
<1>2. \A i \in 1 .. Len(eval_lock) : eval_lock[i] \in Clients
  BY <1>1
<1>3. \A i \in 1 .. Len(eval_lock) : Job(eval_lock[i])' = Job(eval_lock[i])
  BY <1>1, <1>2 DEF Job
<1>. QED
  BY <1>3 DEF Queue

\* A step that changes nothing the service is about.
LEMMA Stutter ==
  ASSUME DaemonInv, UNCHANGED <<eval_lock, display_sink, sent, writer>>,
         \A d \in Clients : Busy(d) => taken'[d] = taken[d]
  PROVE  UNCHANGED Service!vars
<1>1. Queue' = Queue
  BY QueueSame
<1>2. UNCHANGED <<display_sink # NoSink, Output, Left>>
  BY DEF Output, Left
<1>. QED
  BY <1>1, <1>2 DEF Service!vars, Queue, Output, Left

\* A request answered at once: its client has nothing in the queue.
LEMMA RespondStep ==
  ASSUME DaemonInv, NEW c \in Clients, NEW f \in Frames, TxSend(c, f),
         f.id = 0, f.type \notin {"Display", "EvalResult"},
         ~Busy(c), taken' = [taken EXCEPT ![c] = @ + 1],
         UNCHANGED <<eval_lock, display_sink, writer>>
  PROVE  Service!Respond(c)
<1>1. Queue' = Queue
  BY QueueSame DEF DaemonInv, TypeOK, HandlersType
<1>2. \A i \in 1 .. Len(Queue) : Queue[i].to # c
  BY DEF Queue, Job, DaemonInv, TypeOK, EvaluatorType, LockInv, Busy
<1>3. Service!Emit([to |-> c, id |-> 0], "Other")
  BY EmitStep DEF View, DaemonInv, TypeOK, HandlersType
<1>. QED
  BY <1>1, <1>2, <1>3 DEF Service!Respond, Queue, Left

\* An evaluation joins the queue with an id its client has not used.
LEMMA SubmitStep ==
  ASSUME DaemonInv, DaemonInv', OrderInv, NEW c \in Clients, HandleEval(c)
  PROVE  \E j \in Service!Jobs : Service!Submit(j)
<1>. DEFINE j == [to |-> c, id |-> taken[c] + 1]
            C == Clients
<1>1. /\ taken' = [taken EXCEPT ![c] = @ + 1] /\ ~Busy(c)
      /\ eval_lock' = Append(eval_lock, c)
      /\ UNCHANGED <<display_sink, sent, writer>>
  BY DEF HandleEval, Reads, AtLoopHead, Busy, Evaluating
<1>2. /\ taken \in [Clients -> 0 .. MaxReqs]
      /\ taken' \in [Clients -> 0 .. MaxReqs]
      /\ eval_lock \in Seq(Clients)
      /\ \A i \in 1 .. Len(eval_lock) : Busy(eval_lock[i])
  BY DEF DaemonInv, TypeOK, HandlersType, EvaluatorType, LockInv, Busy
<1>3. j \in Service!Jobs
  BY <1>1, <1>2 DEF Service!Jobs
<1>4. Len(Queue) = Len(eval_lock) /\ Len(eval_lock) \in Nat
  BY <1>2 DEF Queue
<1>5. \A i \in 1 .. Len(Queue) : Queue[i].to # j.to
  BY <1>1, <1>2, <1>4 DEF Queue, Job
<1>6. \A i \in 1 .. Len(Output[c]) : Output[c][i].id < j.id
  <2>1. Len(sent[c]) \in Nat
    BY AnsweredType DEF DaemonInv, TypeOK, HandlersType
  <2>2. Len(Output[c]) = Len(sent[c])
    BY <2>1 DEF Output
  <2>3. ASSUME NEW i \in 1 .. Len(sent[c]) PROVE Output[c][i].id < j.id
    <3>1. Output[c][i].id = sent[c][i].id
      BY DEF Output, View
    <3>2. sent[c][i].id <= taken[c]
      BY DEF OrderInv, FramesInv
    <3>3. sent[c][i].id \in Nat
      <4>. DEFINE F == Frames
      <4>1. sent[c] \in Seq(F)
        BY DEF DaemonInv, TypeOK, HandlersType
      <4>. HIDE DEF F
      <4>2. sent[c][i] \in F
        BY <4>1
      <4>. QED
        BY <4>2, DaemonAssumption DEF F, Frames
    <3>. QED
      BY <1>2, <3>1, <3>2, <3>3
  <2>. QED
    BY <2>2, <2>3
<1>7. Queue' = Append(Queue, j)
  <2>1. \A i \in 1 .. Len(eval_lock) :
           /\ eval_lock'[i] = eval_lock[i]
           /\ Job(eval_lock[i])' = Job(eval_lock[i])
    BY <1>1, <1>2 DEF Job
  <2>2. /\ Len(eval_lock') = Len(eval_lock) + 1
        /\ eval_lock'[Len(eval_lock) + 1] = c
        /\ Job(c)' = j
    BY <1>1, <1>2 DEF Job
  <2>3. Queue' = [i \in 1 .. Len(eval_lock) + 1 |->
                    IF i = Len(eval_lock) + 1 THEN j ELSE Queue[i]]
    BY <1>4, <2>1, <2>2 DEF Queue, Job
  <2>. QED
    BY <1>3, <1>4, <2>3, QueueType, AppendIs
<1>8. UNCHANGED <<display_sink # NoSink, Output, Left>>
  BY <1>1 DEF Output, Left
<1>9. Service!Submit(j)
  BY <1>5, <1>6, <1>7, <1>8 DEF Service!Submit, Queue, Output, Left
<1>. QED
  BY <1>3, <1>9

\* The first of the queue begins when the lock is granted to it.
LEMMA BeginStep ==
  ASSUME DaemonInv, NEW c \in Clients, StartEval(c)
  PROVE  Service!Begin
<1>1. /\ eval_lock \in Seq(Clients)
      /\ \A i \in 1 .. Len(eval_lock) : Busy(eval_lock[i])
      /\ pc[c] = "lock" /\ Head(eval_lock) = c
      /\ display_sink' = Job(c)
      /\ UNCHANGED <<taken, eval_lock, sent, writer>>
  BY DEF DaemonInv, TypeOK, EvaluatorType, LockInv, Busy, StartEval, Granted
<1>2. Len(eval_lock) > 0 /\ eval_lock[1] = c
  <2>1. \E i \in 1 .. Len(eval_lock) : eval_lock[i] = c
    BY <1>1 DEF DaemonInv, LockInv
  <2>. QED
    BY <1>1, <2>1
<1>3. \A d \in Clients : pc[d] \notin Evaluating
  BY <1>1, <1>2 DEF DaemonInv, LockInv, Evaluating
<1>4. display_sink = NoSink
  BY <1>3 DEF DaemonInv, SinkInv
<1>5. display_sink' # NoSink
  BY <1>1, DaemonAssumption DEF Job, NoSink
<1>6. Queue # <<>>
  BY <1>1, <1>2 DEF Queue
<1>7. Queue' = Queue
  BY <1>1, QueueSame
<1>8. UNCHANGED <<Output, Left>>
  BY <1>1 DEF Output, Left
<1>. QED
  BY <1>4, <1>5, <1>6, <1>7, <1>8 DEF Service!Begin, Queue, Output, Left

\* The head of the queue is the evaluation that runs.
LEMMA HeadOfQueue ==
  ASSUME DaemonInv, NEW c \in Clients, pc[c] \in Evaluating
  PROVE  /\ eval_lock \in Seq(Clients) /\ Len(eval_lock) > 0
         /\ eval_lock[1] = c
         /\ Queue # <<>> /\ Head(Queue) = [to |-> c, id |-> taken[c]]
         /\ display_sink = Job(c) /\ display_sink # NoSink
<1>1. /\ eval_lock \in Seq(Clients) /\ Len(eval_lock) > 0
      /\ eval_lock[1] = c /\ display_sink = Job(c)
  BY DEF DaemonInv, TypeOK, EvaluatorType, LockInv, SinkInv
<1>2. Len(Queue) = Len(eval_lock) /\ Len(eval_lock) \in Nat
  BY <1>1 DEF Queue
<1>3. Queue[1] = Job(c)
  BY <1>1, <1>2 DEF Queue
<1>4. Head(Queue) = Queue[1] /\ Queue # <<>>
  BY <1>1, <1>2 DEF Queue
<1>5. display_sink # NoSink
  BY <1>1, DaemonAssumption DEF Job, NoSink
<1>. QED
  BY <1>1, <1>3, <1>4, <1>5 DEF Job

\* Display output belongs to it.
LEMMA ShowStep ==
  ASSUME DaemonInv, NEW c \in Clients, Display(c)
  PROVE  Service!Show
<1>. DEFINE f == Frame("Display", taken[c])
<1>1. /\ pc[c] \in Evaluating
      /\ UNCHANGED <<taken, eval_lock, display_sink, writer>>
  BY DEF Display, Step, Evaluating
<1>2. display_sink = Job(c) /\ Head(Queue) = [to |-> c, id |-> taken[c]]
      /\ display_sink # NoSink
  BY <1>1, HeadOfQueue
<1>3. TxSend(c, f)
  BY <1>2 DEF Display, Job
<1>4. f \in Frames /\ View(f).type = "Display" /\ f.id = taken[c]
  BY DEF Frame, Frames, View, DaemonInv, TypeOK, HandlersType
<1>. HIDE DEF f
<1>5. Service!Emit(Head(Queue), "Display")
  BY <1>2, <1>3, <1>4, EmitStep DEF DaemonInv, TypeOK, HandlersType
<1>6. Queue' = Queue
  BY <1>1, QueueSame
<1>. QED
  BY <1>1, <1>2, <1>5, <1>6 DEF Service!Show, Queue, Left

\* Its answer goes out and it leaves the queue.
LEMMA AnswerStep ==
  ASSUME DaemonInv, NEW c \in Clients, FinishEval(c)
  PROVE  Service!Answer
<1>. DEFINE f == Frame("EvalResult", taken[c])
<1>1. /\ pc[c] \in Evaluating /\ TxSend(c, f)
      /\ eval_lock' = Tail(eval_lock) /\ display_sink' = NoSink
      /\ UNCHANGED <<taken, writer>>
  BY DEF FinishEval, ClearSink, ReleaseLock, Evaluating
<1>2. /\ eval_lock \in Seq(Clients) /\ Len(eval_lock) > 0
      /\ Queue # <<>> /\ Head(Queue) = [to |-> c, id |-> taken[c]]
      /\ display_sink # NoSink
  BY <1>1, HeadOfQueue
<1>3. f \in Frames /\ View(f).type = "EvalResult" /\ f.id = taken[c]
  BY DEF Frame, Frames, ReplyTypes, View, DaemonInv, TypeOK, HandlersType
<1>. HIDE DEF f
<1>4. Service!Emit(Head(Queue), "EvalResult")
  BY <1>1, <1>2, <1>3, EmitStep DEF DaemonInv, TypeOK, HandlersType
<1>5. Queue' = Tail(Queue)
  <2>1. /\ Len(Queue) = Len(eval_lock) /\ Len(eval_lock) \in Nat
        /\ \A i \in 1 .. Len(eval_lock) : Queue[i] = Job(eval_lock[i])
    BY <1>2 DEF Queue
  <2>2. /\ Len(Tail(eval_lock)) = Len(eval_lock) - 1
        /\ \A i \in 1 .. Len(eval_lock) - 1 :
              Tail(eval_lock)[i] = eval_lock[i + 1]
    BY <1>2
  <2>3. \A d : Job(d)' = Job(d)
    BY <1>1 DEF Job
  <2>4. Queue' = [i \in 1 .. Len(Queue) - 1 |-> Queue[i + 1]]
    BY <1>1, <1>2, <2>1, <2>2, <2>3 DEF Queue
  <2>5. Tail(Queue) = [i \in 1 .. Len(Queue) - 1 |-> Queue[i + 1]]
    BY <1>2, QueueType, TailIs
  <2>. QED
    BY <2>4, <2>5
<1>6. Left' = Left
  BY <1>1 DEF Left
<1>. QED
  BY <1>1, <1>2, <1>4, <1>5, <1>6 DEF Service!Answer, Queue, Left

-----------------------------------------------------------------------------
(* Every step, and the theorem.                                             *)

LEMMA ServiceStep ==
  DaemonInv /\ DaemonInv' /\ OrderInv /\ [Next]_vars
     => [Service!Next]_(Service!vars)
<1>. SUFFICES ASSUME DaemonInv, DaemonInv', OrderInv, [Next]_vars
              PROVE  [Service!Next]_(Service!vars)
  OBVIOUS
<1>. DEFINE Goal == [Service!Next]_(Service!vars)
<1>1. ASSUME UNCHANGED <<eval_lock, display_sink, sent, writer, taken>>
      PROVE  Goal
  BY <1>1, Stutter
<1>2. ASSUME NEW c \in Clients, Connect(c) \/ Request(c) \/ Disconnect(c) \/
             Accept(c) \/ HandlerEnds(c) \/ HandlerFails(c) \/
             HandlerDrained(c)
      PROVE  Goal
  BY <1>1, <1>2 DEF Connect, Request, Disconnect, Accept, HandlerEnds,
      HandlerFails,
     HandlerDrained, hvars, evars
<1>3. ASSUME NEW c \in Clients, Define(c) \/ StartIO(c) \/ EndIO(c) \/
             StartCall(c) \/ LockEndpoint(c) \/ OpenOutbox(c) \/ CallFails(c)
             \/ RegisterReplySender(c) \/ CallReturns(c)
      PROVE  Goal
  BY <1>1, <1>3 DEF Define, StartIO, EndIO, StartCall, LockEndpoint,
     OpenOutbox, CallFails, RegisterReplySender, CallReturns, hvars, evars
<1>4. CASE UNCHANGED vars \/ PollReplies \/ ActorSends \/ Signal \/ Shutdown
      \/ CloseEndpoint \/ Exit \/ (\E m \in 1 .. MaxMsgs : ActorReplies(m))
  BY <1>1, <1>4 DEF vars, PollReplies, ActorSends, Signal, Shutdown,
     CloseEndpoint, Exit, ActorReplies, hvars, evars
<1>5. ASSUME NEW c \in Clients, NEW f \in Frames, NEW k, Reads(c, k),
             TxSend(c, f), f.id = 0, f.type \notin {"Display", "EvalResult"},
             UNCHANGED <<eval_lock, display_sink, writer>>
      PROVE  Goal
  <2>1. ~Busy(c) /\ taken' = [taken EXCEPT ![c] = @ + 1]
    BY <1>5 DEF Reads, AtLoopHead, Busy, Evaluating
  <2>2. Service!Respond(c)
    BY <1>5, <2>1, RespondStep
  <2>. QED
    BY <2>2 DEF Service!Next
<1>6. ASSUME NEW c \in Clients, HandleHelloOrPing(c) PROVE Goal
  <2>1. PICK k \in {"hello", "ping"} :
          Reads(c, k) /\ TxSend(c, Frame(Reply(k), 0))
    BY <1>6 DEF HandleHelloOrPing
  <2>2. /\ Frame(Reply(k), 0) \in Frames /\ Frame(Reply(k), 0).id = 0
        /\ Frame(Reply(k), 0).type \notin {"Display", "EvalResult"}
    BY DaemonAssumption DEF Frame, Frames, Reply, ReplyTypes
  <2>3. UNCHANGED <<eval_lock, display_sink, writer>>
    BY <1>6 DEF HandleHelloOrPing, evars
  <2>. QED
    BY <1>5, <2>1, <2>2, <2>3
<1>7. ASSUME NEW c \in Clients, HandleStop(c) PROVE Goal
  <2>1. Frame("Stopping", 0) \in Frames
    BY DaemonAssumption DEF Frame, Frames, ReplyTypes
  <2>. QED
    BY <1>5, <1>7, <2>1 DEF HandleStop, Frame, evars
<1>8. ASSUME NEW c \in Clients, HandleReset(c) PROVE Goal
  <2>1. Frame("ResetDone", 0) \in Frames
    BY DaemonAssumption DEF Frame, Frames, ReplyTypes
  <2>. QED
    BY <1>5, <1>8, <2>1 DEF HandleReset, Frame
<1>9. ASSUME NEW c \in Clients, HandleDumpEnv(c) PROVE Goal
  <2>. DEFINE f == [type |-> "EnvDump", id |-> 0, dump |-> env]
  <2>1. f \in Frames /\ f.id = 0 /\ f.type = "EnvDump"
    BY DaemonAssumption DEF DaemonInv, TypeOK, EvaluatorType, Frames,
       ReplyTypes
  <2>2. Reads(c, "dump") /\ TxSend(c, f)
        /\ UNCHANGED <<eval_lock, display_sink, writer>>
    BY <1>9 DEF HandleDumpEnv, evars
  <2>. HIDE DEF f
  <2>. QED
    BY <1>5, <2>1, <2>2
<1>10. ASSUME NEW c \in Clients, HandleEval(c) PROVE Goal
  BY <1>10, SubmitStep DEF Service!Next
<1>11. ASSUME NEW c \in Clients, StartEval(c) PROVE Goal
  BY <1>11, BeginStep DEF Service!Next
<1>12. ASSUME NEW c \in Clients, Display(c) PROVE Goal
  BY <1>12, ShowStep DEF Service!Next
<1>13. ASSUME NEW c \in Clients, FinishEval(c) PROVE Goal
  BY <1>13, AnswerStep DEF Service!Next
<1>14. ASSUME NEW c \in Clients, Write(c) PROVE Goal
  <2>1. UNCHANGED <<eval_lock, display_sink, sent, taken>>
    BY <1>14 DEF Write, evars
  <2>2. CASE conn[c] = "closed"
    <3>1. Queue' = Queue
      BY <2>1, QueueSame
    <3>2. /\ writer[c] = "up" /\ writer' = [writer EXCEPT ![c] = "dead"]
          /\ writer \in [Clients -> {"up", "dead"}]
      BY <1>14, <2>2 DEF Write, DaemonInv, TypeOK, HandlersType
    <3>3. c \notin Left /\ Left' = Left \cup {c}
      BY <3>2 DEF Left
    <3>4. UNCHANGED <<display_sink # NoSink, Output>>
      BY <2>1 DEF Output
    <3>5. Service!Leave(c)
      BY <3>1, <3>3, <3>4 DEF Service!Leave, Queue, Left, Output
    <3>. QED
      BY <3>5 DEF Service!Next
  <2>3. CASE conn[c] # "closed"
    BY <1>1, <1>14, <2>1, <2>3 DEF Write
  <2>. QED
    BY <2>2, <2>3
<1>. QED
  BY <1>2, <1>3, <1>4, <1>6, <1>7, <1>8, <1>9, <1>10, <1>11, <1>12, <1>13,
     <1>14 DEF Next, Handler, Evaluation, Transport, MainTask

\* For any number of connections, requests, operations and messages, and for
\* any disconnections, the daemon is a first-come-first-served evaluation
\* service (daemon.rs, eval_request under eval_lock).
THEOREM ImplementsService == Spec => ServiceSpec
<1>1. Init => Service!Init
  BY DEF Init, Service!Init
<1>2. DaemonInv /\ DaemonInv' /\ OrderInv /\ [Next]_vars
         => [Service!Next]_(Service!vars)
  BY ServiceStep
<1>. QED
  BY <1>1, <1>2, DaemonInvariant, OrderInvariant, PTL
     DEF Spec, ServiceSpec, Service!Spec
=============================================================================
