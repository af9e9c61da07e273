--------------------------- MODULE Frontend_proofs ---------------------------
(***************************************************************************)
(* Proofs about Frontend, for any lines, scripts and bounds: an answer is   *)
(* the evaluation's own, the prompt stands on a line of its own, the loop   *)
(* submits whole expressions and nothing typed is lost.                     *)
(***************************************************************************)
EXTENDS Frontend, SequenceTheorems, WellFoundedInduction, TLAPS

-----------------------------------------------------------------------------
(* Typing of the connection.                                                *)

Whats == {"display"} \cup Outcomes
FrameTypes == {"Display", "EvalResult", "Other"}
AnyFrames == [type : FrameTypes, id : Nat]

\* The client has read what was sent, and the daemon evaluates what it took.
StreamTyped ==
    /\ next_id \in Nat
    /\ shown \in Seq([what : Whats, id : Int])
    /\ requests \in Seq(Nat)
    /\ read \in Nat
    /\ queue \in Seq([to : {Me}, id : Nat])
    /\ running \in BOOLEAN /\ (running => queue # <<>>)
    /\ output \in [{Me} -> Seq(AnyFrames)]
    /\ read <= Len(output[Me])
    /\ midline \in BOOLEAN /\ dangling_output \in BOOLEAN
    /\ (pc = "local" => backend = "local")

\* What the daemon sends is added behind what it has sent.
Grows ==
    /\ Len(output[Me]) <= Len(output'[Me])
    /\ \A i \in 1 .. Len(output[Me]) : output'[Me][i] = output[Me][i]

LEMMA EmitGrows ==
  ASSUME StreamTyped, NEW j \in [to : {Me}, id : Nat],
         NEW type \in FrameTypes, Service!Emit(j, type)
  PROVE  output' \in [{Me} -> Seq(AnyFrames)] /\ Grows
<1>1. CASE output' = output
  BY <1>1 DEF StreamTyped, Grows
<1>2. CASE output' = [output EXCEPT ![j.to] =
                        Append(@, [type |-> type, id |-> j.id])]
  <2> DEFINE f == [type |-> type, id |-> j.id]
  <2>1. f \in AnyFrames
    BY DEF AnyFrames
  <2>2. output[Me] \in Seq(AnyFrames)
    BY DEF StreamTyped
  <2>3. output'[Me] = Append(output[Me], f)
    BY <1>2 DEF StreamTyped
  <2>4. output' = [c \in {Me} |-> Append(output[c], f)]
    BY <1>2 DEF StreamTyped
  <2>5. Append(output[Me], f) \in Seq(AnyFrames)
    BY <2>1, <2>2
  <2>6. output' \in [{Me} -> Seq(AnyFrames)]
    BY <2>4, <2>5
  <2>7. Grows
    BY <2>2, <2>3 DEF Grows
  <2> QED
    BY <2>6, <2>7
<1> QED
  BY <1>1, <1>2 DEF Service!Emit

\* A step of the daemon, or the loss of the connection.
LEMMA DaemonStep ==
  ASSUME StreamTyped, Daemon \/ Loses
  PROVE  StreamTyped' /\ Grows
<1>0. UNCHANGED <<backend, pc, next_id, shown, midline, dangling_output>>
  BY DEF Daemon, Loses, client
<1>1. CASE Take
  <2>1. /\ requests # <<>> /\ requests' = Tail(requests)
        /\ queue' = Append(queue, [to |-> Me, id |-> Head(requests)])
        /\ UNCHANGED <<running, output, read>>
    BY <1>1 DEF Take, Service!Submit
  <2>2. Head(requests) \in Nat /\ requests' \in Seq(Nat)
    BY <2>1 DEF StreamTyped
  <2>3. queue' \in Seq([to : {Me}, id : Nat]) /\ queue' # <<>>
    BY <2>1, <2>2, SMTT(30) DEF StreamTyped
  <2> QED
    BY <1>0, <2>1, <2>2, <2>3 DEF StreamTyped, Grows
<1>2. CASE Show \/ Answer
  <2>1. running /\ queue # <<>>
    BY <1>2 DEF Show, Answer, Service!Show, Service!Answer, StreamTyped
  <2>2. /\ Head(queue) \in [to : {Me}, id : Nat]
        /\ Tail(queue) \in Seq([to : {Me}, id : Nat])
    <3> DEFINE S == [to : {Me}, id : Nat]
    <3>1. queue \in Seq(S) /\ queue # <<>>
      BY <2>1 DEF StreamTyped
    <3> HIDE DEF S
    <3>2. Head(queue) \in S /\ Tail(queue) \in Seq(S)
      BY <3>1
    <3> QED
      BY <3>2 DEF S
  <2>3. \E type \in FrameTypes : Service!Emit(Head(queue), type)
    BY <1>2 DEF Show, Answer, Service!Show, Service!Answer, FrameTypes
  <2>4. output' \in [{Me} -> Seq(AnyFrames)] /\ Grows
    BY <2>2, <2>3, EmitGrows
  <2>5. UNCHANGED <<requests, read>>
    BY <1>2 DEF Show, Answer, stream
  <2>6. /\ queue' = queue \/ queue' = Tail(queue)
        /\ (running' = running /\ queue' = queue) \/ running' = FALSE
    BY <1>2 DEF Show, Answer, Service!Show, Service!Answer
  <2>7. /\ queue' \in Seq([to : {Me}, id : Nat])
        /\ running' \in BOOLEAN /\ (running' => queue' # <<>>)
    <3>1. CASE running' = running /\ queue' = queue
      BY <2>1, <3>1 DEF StreamTyped
    <3>2. CASE running' = FALSE
      BY <2>2, <2>6, <3>2 DEF StreamTyped
    <3> QED
      BY <2>6, <3>1, <3>2
  <2> QED
    BY <1>0, <2>4, <2>5, <2>7 DEF StreamTyped, Grows
<1>3. CASE Begin \/ Loses
  <2>1. UNCHANGED <<requests, read, queue, output>>
    BY <1>3 DEF Begin, Loses, Close, Service!Begin, Service!Leave,
      stream, daemon
  <2>2. running' = running \/ (running' = TRUE /\ queue # <<>>)
    BY <1>3 DEF Begin, Loses, Close, Service!Begin, Service!Leave,
      daemon
  <2>3. running' \in BOOLEAN /\ (running' => queue' # <<>>)
    <3>1. CASE running' = running
      BY <2>1, <3>1 DEF StreamTyped
    <3>2. CASE running' = TRUE /\ queue # <<>>
      BY <2>1, <3>2
    <3> QED
      BY <2>2, <3>1, <3>2
  <2> QED
    BY <1>0, <2>1, <2>3 DEF StreamTyped, Grows
<1>4. CASE Reply
  <2>1. /\ requests # <<>> /\ requests' = Tail(requests)
        /\ UNCHANGED <<queue, running, read>>
        /\ Service!Emit([to |-> Me, id |-> 0], "Other")
    BY <1>4 DEF Reply, Service!Respond
  <2>2. requests' \in Seq(Nat)
    BY <2>1 DEF StreamTyped
  <2>3. output' \in [{Me} -> Seq(AnyFrames)] /\ Grows
    BY <2>1, EmitGrows DEF FrameTypes
  <2> QED
    BY <1>0, <2>1, <2>2, <2>3 DEF StreamTyped, Grows
<1> QED
  BY <1>1, <1>2, <1>3, <1>4 DEF Daemon

-----------------------------------------------------------------------------
(* Answers.                                                                 *)

AnswerInv == StreamTyped /\ AnswersItsOwn

LEMMA InitAnswerInv == Init => AnswerInv
<1> SUFFICES ASSUME Init PROVE AnswerInv
  OBVIOUS
<1>1. /\ next_id = 1 /\ shown = <<>> /\ requests = <<>> /\ read = 0
      /\ queue = <<>> /\ running = FALSE /\ ended = {}
      /\ midline = FALSE /\ dangling_output = FALSE /\ pc # "local"
      /\ output = [c \in {Me} |-> <<>>]
  BY DEF Init, Service!Init
<1>2. /\ shown \in Seq([what : Whats, id : Int]) /\ requests \in Seq(Nat)
      /\ queue \in Seq([to : {Me}, id : Nat])
  BY <1>1
<1>3. output \in [{Me} -> Seq(AnyFrames)] /\ read <= Len(output[Me])
  <2>1. <<>> \in Seq(AnyFrames)
    OBVIOUS
  <2> QED
    BY <1>1, <2>1
<1>4. StreamTyped
  BY <1>1, <1>2, <1>3 DEF StreamTyped
<1>5. AnswersItsOwn
  BY <1>1 DEF AnswersItsOwn
<1> QED
  BY <1>4, <1>5 DEF AnswerInv

\* Something of evaluation id is added to what it has shown.
LEMMA AppendShows ==
  ASSUME shown \in Seq([what : Whats, id : Int]), NEW what \in Whats,
         NEW id \in Int, shown' = Append(shown, [what |-> what, id |-> id]),
         \A i \in 1 .. Len(shown) : shown[i].id = id
  PROVE  /\ shown' \in Seq([what : Whats, id : Int])
         /\ \A i \in 1 .. Len(shown') : shown'[i].id = id
<1> DEFINE S == [what : Whats, id : Int]
           e == [what |-> what, id |-> id]
<1>1. e \in S /\ e.id = id
  OBVIOUS
<1>2. shown \in Seq(S) /\ shown' = Append(shown, e)
  OBVIOUS
<1> HIDE DEF S, e
<1>3. /\ shown' \in Seq(S) /\ Len(shown') = Len(shown) + 1
      /\ \A i \in 1 .. Len(shown) : shown'[i] = shown[i]
      /\ shown'[Len(shown) + 1] = e
  BY <1>1, <1>2
<1>4. ASSUME NEW i \in 1 .. Len(shown') PROVE shown'[i].id = id
  <2>1. CASE i <= Len(shown)
    BY <1>2, <1>3, <2>1
  <2>2. CASE i = Len(shown) + 1
    BY <1>1, <1>3, <2>2
  <2> QED
    BY <1>2, <1>3, <2>1, <2>2
<1> QED
  BY <1>3, <1>4 DEF S

\* The outcome that ends evaluation id is added to what it has shown.
LEMMA FinishShows ==
  ASSUME StreamTyped, NEW what \in Outcomes, NEW id \in Int,
         Finish(what, id), \A i \in 1 .. Len(shown) : shown[i].id = id
  PROVE  /\ shown' \in Seq([what : Whats, id : Int])
         /\ \A i \in 1 .. Len(shown') : shown'[i].id = id
         /\ midline' \in BOOLEAN /\ dangling_output' \in BOOLEAN
<1>1. shown \in Seq([what : Whats, id : Int])
  BY DEF StreamTyped
<1>2. what \in Whats
  BY DEF Whats
<1>m. midline' \in BOOLEAN /\ dangling_output' \in BOOLEAN
  BY DEF Finish
<1>3. CASE ~Printed(what)
  <2>1. shown' = shown
    BY <1>3 DEF Finish
  <2> QED
    BY <1>1, <2>1, <1>m
<1>4. CASE Printed(what)
  <2>1. shown' = Append(shown, [what |-> what, id |-> id])
    BY <1>4 DEF Finish
  <2>2. /\ shown' \in Seq([what : Whats, id : Int])
        /\ \A i \in 1 .. Len(shown') : shown'[i].id = id
    BY <1>1, <1>2, <2>1, AppendShows
  <2> QED
    BY <2>2, <1>m
<1> QED
  BY <1>3, <1>4

LEMMA AnswerInvStep == AnswerInv /\ [Next]_vars => AnswerInv'
<1> SUFFICES ASSUME AnswerInv, [Next]_vars PROVE AnswerInv'
  OBVIOUS
<1>t. StreamTyped /\ Current \in Int
  BY DEF AnswerInv, StreamTyped, Current
<1>f. Frames \in Seq(AnyFrames) /\ read <= Len(Frames)
  BY <1>t DEF StreamTyped, Frames
<1>1. ASSUME UNCHANGED <<backend, client, requests, read, daemon>>,
             pc' # "local" \/ pc' = pc
      PROVE AnswerInv'
  BY <1>1 DEF AnswerInv, StreamTyped, AnswersItsOwn, Current, Frames, client,
    daemon
<1>2. CASE User
  BY <1>1, <1>2 DEF User, Quit, Note, Continue, Complete, Collected, CtrlC,
    Eof, stream
<1>3. CASE Daemon \/ Loses
  <2>1. StreamTyped' /\ Grows
    BY <1>3, <1>t, DaemonStep
  <2>2. UNCHANGED <<backend, client, read>>
    BY <1>3 DEF Daemon, Loses, Take, Reply, Show, Begin, Answer, Close,
      stream
  <2>3. read \in Nat /\ read <= Len(output[Me]) /\ Len(output[Me]) \in Nat
    BY <1>t DEF StreamTyped
  <2>4. \A i \in 1 .. read : output'[Me][i] = output[Me][i]
    BY <2>1, <2>3 DEF Grows
  <2> QED
    BY <2>1, <2>2, <2>4 DEF AnswerInv, AnswersItsOwn, Current, client, Frames
\* The evaluation ends without an answer of its own.
<1>4. ASSUME NEW what \in Outcomes, NEW id \in Int, Finish(what, id),
             id = Current, read' \in Nat, read <= read', read' <= Len(Frames),
             UNCHANGED <<backend, next_id, requests, daemon>>, pc' # "local",
             \/ ended' = ended
             \/ /\ ended' = ended \cup {Current}
                /\ backend = "daemon" =>
                     \E i \in 1 .. read' :
                        Frames[i] = [type |-> "EvalResult", id |-> Current]
      PROVE AnswerInv'
  <2>1. /\ shown' \in Seq([what : Whats, id : Int])
        /\ \A i \in 1 .. Len(shown') : shown'[i].id = Current
        /\ midline' \in BOOLEAN /\ dangling_output' \in BOOLEAN
    BY <1>4, <1>t, FinishShows DEF AnswerInv, AnswersItsOwn
  <2>2. StreamTyped'
    BY <1>4, <2>1, <1>t DEF StreamTyped, Frames, daemon
  <2>3. Current' = Current /\ Frames' = Frames /\ 1 .. read \subseteq 1 .. read'
    BY <1>4, <1>t DEF Current, Frames, daemon, StreamTyped
  <2> QED
    BY <1>4, <2>1, <2>2, <2>3 DEF AnswerInv, AnswersItsOwn
<1>5. CASE LocalEval \/ WriteRequest
  <2>1. /\ next_id' = next_id + 1 /\ shown' = <<>>
        /\ UNCHANGED <<backend, midline, ended, read, daemon>>
        /\ dangling_output' \in BOOLEAN
        /\ (pc' = "local" => backend = "local")
    BY <1>5, <1>t DEF LocalEval, WriteRequest, stream, StreamTyped
  <2>2. requests' = requests \/ requests' = Append(requests, next_id)
    BY <1>5 DEF LocalEval, WriteRequest, stream
  <2>3. requests' \in Seq(Nat)
    <3>1. requests \in Seq(Nat) /\ next_id \in Nat
      BY <1>t DEF StreamTyped
    <3>2. Append(requests, next_id) \in Seq(Nat)
      BY <3>1
    <3> QED
      BY <2>2, <3>1, <3>2
  <2>4. next_id' \in Nat /\ shown' \in Seq([what : Whats, id : Int])
    BY <2>1, <1>t DEF StreamTyped
  <2>5. StreamTyped'
    BY <2>1, <2>3, <2>4, <1>t DEF StreamTyped, daemon
  <2> QED
    BY <2>1, <2>5 DEF AnswerInv, AnswersItsOwn, Frames, daemon
<1>6. CASE WriteFails
  <2>1. shown' = <<[what |-> "error", id |-> next_id]>>
        /\ next_id' = next_id + 1
    BY <1>6 DEF WriteFails
  <2>2. shown' \in Seq([what : Whats, id : Int])
        /\ \A i \in 1 .. Len(shown') : shown'[i].id = Current'
    BY <2>1, <1>t DEF Whats, Outcomes, Current, StreamTyped
  <2>3. /\ next_id' \in Nat /\ midline' = FALSE /\ dangling_output' = FALSE
        /\ pc' # "local"
        /\ UNCHANGED <<backend, ended, requests, read, daemon>>
    BY <1>6, <1>t DEF WriteFails, StreamTyped, stream
  <2>4. StreamTyped'
    BY <2>2, <2>3, <1>t DEF StreamTyped, daemon
  <2> QED
    BY <2>2, <2>3, <2>4 DEF AnswerInv, AnswersItsOwn, Frames, daemon
\* A display of the evaluation's own is shown.
<1>7. ASSUME shown' = Append(shown, [what |-> "display", id |-> Current]),
             midline' \in BOOLEAN, dangling_output' \in BOOLEAN,
             read' \in Nat, read <= read', read' <= Len(Frames),
             UNCHANGED <<backend, pc, next_id, ended, requests, daemon>>
      PROVE AnswerInv'
  <2>1. "display" \in Whats /\ shown \in Seq([what : Whats, id : Int])
        /\ \A i \in 1 .. Len(shown) : shown[i].id = Current
    BY <1>t DEF Whats, StreamTyped, AnswerInv, AnswersItsOwn
  <2>2. /\ shown' \in Seq([what : Whats, id : Int])
        /\ \A i \in 1 .. Len(shown') : shown'[i].id = Current
    BY <1>7, <2>1, <1>t, AppendShows
  <2>3. Current' = Current /\ Frames' = Frames /\ 1 .. read \subseteq 1 .. read'
    BY <1>7, <1>t DEF Current, Frames, daemon, StreamTyped
  <2> QED
    BY <1>7, <2>2, <2>3, <1>t DEF AnswerInv, StreamTyped, AnswersItsOwn, daemon,
      Frames
<1>8. CASE LocalDisplay
  <2>1. midline' \in BOOLEAN
    BY <1>8, <1>t DEF LocalDisplay, Cursor, StreamTyped
  <2> QED
    BY <1>7, <1>8, <2>1, <1>t, <1>f DEF LocalDisplay, stream, StreamTyped
<1>9. CASE LocalFinish
  <2>1. backend = "local" /\ read \in Nat
    BY <1>9, <1>t DEF LocalFinish, StreamTyped
  <2>2. PICK what \in Outcomes : Finish(what, Current)
    BY <1>9 DEF LocalFinish
  <2>3. pc' # "local"
    BY <2>2 DEF Finish
  <2>4. /\ UNCHANGED <<backend, next_id, requests, read, daemon>>
        /\ ended' = ended \cup {Current}
    BY <1>9 DEF LocalFinish, stream
  <2> QED
    BY <1>4, <2>1, <2>2, <2>3, <2>4, <1>t, <1>f
<1>10. CASE ReadDisplay
  <2>1. NextFrame.id = Current /\ read + 1 <= Len(Frames)
    BY <1>10, <1>t, <1>f DEF ReadDisplay, Reading, IsMine, StreamTyped
  <2>2. midline' \in BOOLEAN /\ dangling_output' \in BOOLEAN
    BY <1>10, <1>t DEF ReadDisplay, Cursor, Dangling, StreamTyped
  <2> QED
    BY <1>7, <1>10, <2>1, <2>2, <1>t DEF ReadDisplay, StreamTyped
<1>11. CASE ReadResult
  <2>1. /\ NextFrame.id = Current /\ NextFrame.type = "EvalResult"
        /\ read + 1 <= Len(Frames) /\ read + 1 \in Nat
    BY <1>11, <1>t, <1>f DEF ReadResult, Reading, IsMine, StreamTyped
  <2>2. NextFrame \in AnyFrames /\ NextFrame = Frames[read + 1]
    <3>1. read + 1 \in 1 .. Len(Frames)
      BY <2>1, <1>f, <1>t DEF StreamTyped
    <3> HIDE DEF AnyFrames
    <3> QED
      BY <3>1, <1>f DEF NextFrame
  <2>3. Frames[read + 1] = [type |-> "EvalResult", id |-> Current]
    BY <2>1, <2>2 DEF AnyFrames
  <2>4. PICK what \in Outcomes : Finish(what, NextFrame.id)
    BY <1>11 DEF ReadResult
  <2>5. pc' # "local"
    BY <2>4 DEF Finish
  <2>6. /\ UNCHANGED <<backend, next_id, requests, daemon>>
        /\ read' = read + 1 /\ ended' = ended \cup {Current}
    BY <1>11 DEF ReadResult
  <2> QED
    BY <1>4, <2>1, <2>3, <2>4, <2>5, <2>6, <1>t DEF StreamTyped
<1>12. CASE ReadOther
  <2>1. /\ read' = read + 1
        /\ UNCHANGED <<backend, pc, client, requests, daemon>>
    BY <1>12 DEF ReadOther
  <2>2. read + 1 <= Len(Frames)
    BY <1>12, <1>t, <1>f DEF ReadOther, Reading, StreamTyped
  <2>3. StreamTyped'
    BY <2>1, <2>2, <1>t DEF StreamTyped, Frames, client, daemon
  <2>4. Current' = Current /\ Frames' = Frames /\ 1 .. read \subseteq 1 .. read'
    BY <2>1, <1>t DEF Current, Frames, client, daemon, StreamTyped
  <2> QED
    BY <2>1, <2>3, <2>4 DEF AnswerInv, AnswersItsOwn, client
<1>13. CASE ReadTooLarge \/ ReadJunk \/ JunkFills \/ ReadFails
  <2>1. /\ Finish("error", Current) /\ "error" \in Outcomes
        /\ UNCHANGED <<backend, next_id, requests, ended, daemon>>
    BY <1>13 DEF ReadTooLarge, ReadJunk, JunkFills, ReadFails, IpcError,
      Outcomes
  <2>2. read' \in Nat /\ read <= read' /\ read' <= Len(Frames)
    BY <1>13, <1>t, <1>f DEF ReadTooLarge, ReadJunk, JunkFills, ReadFails,
      Reading, StreamTyped
  <2>3. pc' # "local"
    BY <2>1 DEF Finish
  <2> QED
    BY <1>4, <2>1, <2>2, <2>3, <1>t
<1>14. CASE JunkBlocks \/ NoReply \/ UNCHANGED vars
  BY <1>1, <1>14 DEF JunkBlocks, NoReply, Ended, vars, stream
<1>15. CASE AskDaemon \/ ReadReply
  <2>1. UNCHANGED <<backend, client, daemon>> /\ pc' # "local"
    BY <1>15 DEF AskDaemon, ReadReply, Ended
  <2>2. requests' \in Seq(Nat)
    <3>1. requests \in Seq(Nat) /\ 0 \in Nat
      BY <1>t DEF StreamTyped
    <3>2. Append(requests, 0) \in Seq(Nat)
      BY <3>1
    <3> QED
      BY <1>15, <3>1, <3>2 DEF AskDaemon, ReadReply
  <2>3. read' \in Nat /\ read <= read' /\ read' <= Len(Frames)
    BY <1>15, <1>t, <1>f DEF AskDaemon, ReadReply, StreamTyped
  <2>4. StreamTyped'
    BY <2>1, <2>2, <2>3, <1>t DEF StreamTyped, Frames, client, daemon
  <2>5. Current' = Current /\ Frames' = Frames /\ 1 .. read \subseteq 1 .. read'
    BY <2>1, <2>3, <1>t DEF Current, Frames, client, daemon, StreamTyped
  <2> QED
    BY <2>1, <2>4, <2>5 DEF AnswerInv, AnswersItsOwn, client
<1> QED
  BY <1>2, <1>3, <1>5, <1>6, <1>8, <1>9, <1>10, <1>11, <1>12, <1>13, <1>14,
    <1>15
    DEF Next, Evaluation, Client

\* What an evaluation prints is its own, and one that ended in an outcome of
\* the daemon's has read its own result, for any number of evaluations given
\* up before it and whatever the connection did.  (DaemonClient::eval)
THEOREM AnswersAreOwn == Spec => []AnswersItsOwn
<1>1. Spec => []AnswerInv
  BY InitAnswerInv, AnswerInvStep, PTL DEF Spec
<1>2. AnswerInv => AnswersItsOwn
  BY DEF AnswerInv
<1> QED
  BY <1>1, <1>2, PTL
-----------------------------------------------------------------------------
(* The prompt.                                                              *)

\* Before a frame of this evaluation is read the cursor is at a line's start;
\* while frames are read dangling_output knows where it is.
PromptInv ==
    backend = "daemon" =>
       /\ pc \in {"prompt", "eval"} => ~midline
       /\ mode = "repl" /\ pc \in {"read", "blocked"} /\ midline
             => dangling_output
       /\ pc # "local"

LEMMA PromptInvStep == PromptInv /\ [Next]_vars => PromptInv'
<1> SUFFICES ASSUME PromptInv, [Next]_vars PROVE PromptInv'
  OBVIOUS
<1>1. CASE User
  <2>1. /\ UNCHANGED <<mode, backend, midline, dangling_output>>
        /\ pc = "prompt"
        /\ pc' \in {"prompt", "eval", "ok"}
    BY <1>1 DEF User, Quit, Note, Continue, Complete, Collected, Type, CtrlC,
      Eof, client
  <2> QED
    BY <2>1 DEF PromptInv
<1>2. CASE Evaluation
  BY <1>2 DEF Evaluation, LocalEval, LocalDisplay, LocalFinish, PromptInv
<1>3. CASE Daemon \/ Loses \/ UNCHANGED vars
  BY <1>3 DEF Daemon, Loses, client, vars, PromptInv
\* An evaluation ends.
<1>4. ASSUME UNCHANGED <<mode, backend>>, pc \in {"read", "blocked"},
             NEW what \in Outcomes, NEW id, Finish(what, id)
      PROVE PromptInv'
  BY <1>4 DEF Finish, PromptInv
<1>5. CASE WriteRequest \/ WriteFails
  BY <1>5 DEF WriteRequest, WriteFails, PromptInv
<1>6. CASE ReadDisplay
  BY <1>6 DEF ReadDisplay, Reading, Cursor, Dangling, Texts, PromptInv
<1>7. CASE ReadResult
  BY <1>4, <1>7 DEF ReadResult, Reading
<1>8. CASE ReadOther \/ JunkBlocks \/ AskDaemon \/ ReadReply \/ NoReply
  BY <1>8 DEF ReadOther, JunkBlocks, AskDaemon, ReadReply, NoReply, Ended,
    Reading, client, PromptInv
<1>9. CASE ReadTooLarge \/ ReadJunk \/ JunkFills \/ ReadFails
  BY <1>4, <1>9 DEF ReadTooLarge, ReadJunk, JunkFills, ReadFails, Reading,
    IpcError, Outcomes
<1> QED
  BY <1>1, <1>2, <1>3, <1>5, <1>6, <1>7, <1>8, <1>9 DEF Next, Client

\* The prompt of a front end never stands behind an evaluation's output,
\* however the evaluation ended.  (ClientEval::eval)
THEOREM PromptAlone == Spec => []PromptOnItsOwnLine
<1>1. Init => PromptInv
  BY DEF Init, PromptInv
<1>2. PromptInv => PromptOnItsOwnLine
  BY DEF PromptInv, PromptOnItsOwnLine
<1> QED
  BY <1>1, <1>2, PromptInvStep, PTL DEF Spec

-----------------------------------------------------------------------------
(* What is submitted.  The loop is followed as a relation of what was typed, *)
(* the buffer, the count and the submissions, first without the variables.   *)
(* Counting parentheses comes first: the count is a recursive function, and  *)
(* what holds of it is shown at the least number where it could fail.        *)

\* A nonempty set of numbers has a least one.
LEMMA LeastNumber ==
  ASSUME NEW T \in SUBSET Nat, T # {}
  PROVE  \E x \in T : \A y \in T : x <= y
<1>1. PICK x \in T : \A y \in T : ~ (<<y, x>> \in OpToRel(<, Nat))
  BY NatLessThanWellFounded, WFMin, Zenon
<1>2. x \in T /\ \A y \in T : ~ (y < x)
  BY <1>1, Zenon DEF OpToRel
<1>3. \A y \in T : y \in Nat /\ x \in Nat
  BY <1>2
<1>. QED
  BY <1>2, <1>3

\* The count is taken line by line.
LEMMA OpenedIs ==
  ASSUME NEW lines, Len(lines) \in Nat
  PROVE  /\ Opened(lines, 0) = 0
         /\ \A m \in 1 .. Len(lines) :
               Opened(lines, m) = Opened(lines, m - 1) + lines[m].parens
<1> DEFINE G(f, i) == IF i = 0 THEN 0 ELSE f[i - 1] + lines[i].parens
           Counts(f, m) == f = [i \in 0 .. m |-> G(f, i)]
           T == {m \in Nat : ~ \E f : Counts(f, m)}
<1>1. T = {}
  <2> SUFFICES ASSUME T # {}
               PROVE  FALSE
    OBVIOUS
  <2>1. PICK m \in T : \A y \in T : m <= y
    BY LeastNumber
  <2>2. m \in Nat
    OBVIOUS
  <2>3. ASSUME m = 0
        PROVE  FALSE
    <3> DEFINE f == [i \in 0 .. 0 |-> 0]
    <3>1. f = [i \in 0 .. 0 |-> G(f, i)]
      OBVIOUS
    <3> QED
      BY <2>3, <3>1
  <2>4. ASSUME m # 0
        PROVE  FALSE
    <3>1. m - 1 \in Nat /\ ~ (m <= m - 1)
      BY <2>2, <2>4
    <3>2. PICK f : Counts(f, m - 1)
      BY <2>1, <3>1
    <3> DEFINE g == [i \in 0 .. m |-> IF i < m THEN f[i] ELSE G(f, m)]
    <3>3. \A i \in 0 .. m - 1 : i \in 0 .. m /\ i < m /\ f[i] = G(f, i)
      <4>1. f = [i \in 0 .. m - 1 |-> G(f, i)]
        BY <3>2
      <4>2. \A i \in 0 .. m - 1 : i \in 0 .. m /\ i < m
        BY <2>2
      <4> HIDE DEF G
      <4> QED
        BY <4>1, <4>2
    <3>4. \A i \in 0 .. m - 1 : g[i] = f[i]
      BY <3>3
    <3>5. \A i \in 0 .. m : g[i] = G(g, i)
      <4> SUFFICES ASSUME NEW i \in 0 .. m
                   PROVE  g[i] = G(g, i)
        OBVIOUS
      <4>1. i = 0 \/ i - 1 \in 0 .. m - 1
        BY <2>2
      <4>2. G(g, i) = G(f, i)
        BY <3>4, <4>1
      <4>3. i \in 0 .. m - 1 \/ i = m
        BY <2>2
      <4>4. g[i] = G(f, i)
        <5>1. ASSUME i \in 0 .. m - 1
              PROVE  g[i] = G(f, i)
          BY <3>3, <3>4, <5>1
        <5>2. ASSUME i = m
              PROVE  g[i] = G(f, i)
          BY <2>2, <5>2
        <5> QED
          BY <4>3, <5>1, <5>2
      <4> QED
        BY <4>2, <4>4
    <3>6. g = [i \in 0 .. m |-> G(g, i)]
      <4> HIDE DEF G
      <4> QED
        BY <3>5
    <3> QED
      BY <3>6
  <2> QED
    BY <2>3, <2>4
<1> DEFINE open == CHOOSE f : Counts(f, Len(lines))
<1>2. \E f : Counts(f, Len(lines))
  BY <1>1
<1>3. Counts(open, Len(lines))
  BY <1>2
<1>4. \A m : Opened(lines, m) = open[m]
  BY DEF Opened
<1>5. \A i \in 0 .. Len(lines) : open[i] = G(open, i)
  <2> HIDE DEF G, open
  <2> QED
    BY <1>3
<1> HIDE DEF open
<1>6. 0 \in 0 .. Len(lines) /\ \A m \in 1 .. Len(lines) : m \in 0 .. Len(lines) /\ m # 0
  OBVIOUS
<1> QED
  BY <1>4, <1>5, <1>6

\* Lines that agree up to the n-th have the same count there.
LEMMA OpenedAgrees ==
  ASSUME NEW k, NEW l, Len(k) \in Nat, Len(l) \in Nat, NEW n \in Nat,
         n <= Len(k), n <= Len(l), \A i \in 1 .. n : k[i].parens = l[i].parens
  PROVE  Opened(k, n) = Opened(l, n)
<1> DEFINE T == {m \in Nat : m <= n /\ Opened(k, m) # Opened(l, m)}
<1>1. ASSUME T # {}
      PROVE  FALSE
  <2>1. PICK m \in T : \A y \in T : m <= y
    BY <1>1, LeastNumber
  <2>2. m \in Nat /\ m <= n /\ Opened(k, m) # Opened(l, m)
    OBVIOUS
  <2>3. m # 0
    BY <2>2, OpenedIs
  <2>4. /\ m - 1 \in Nat /\ m - 1 <= n /\ ~ (m <= m - 1) /\ m \in 1 .. n
        /\ m \in 1 .. Len(k) /\ m \in 1 .. Len(l)
    BY <2>2, <2>3
  <2>5. Opened(k, m - 1) = Opened(l, m - 1)
    BY <2>1, <2>4
  <2> QED
    BY <2>2, <2>4, <2>5, OpenedIs
<1> QED
  BY <1>1

LEMMA OpenedInt ==
  ASSUME NEW k, Len(k) \in Nat, \A i \in 1 .. Len(k) : k[i].parens \in Int,
         NEW n \in 0 .. Len(k)
  PROVE  Opened(k, n) \in Int
<1> DEFINE T == {m \in Nat : m <= Len(k) /\ Opened(k, m) \notin Int}
<1>1. ASSUME T # {}
      PROVE  FALSE
  <2>1. PICK m \in T : \A y \in T : m <= y
    BY <1>1, LeastNumber
  <2>2. m \in Nat /\ m <= Len(k) /\ Opened(k, m) \notin Int
    OBVIOUS
  <2>3. m # 0
    BY <2>2, OpenedIs
  <2>4. m - 1 \in Nat /\ m - 1 <= Len(k) /\ ~ (m <= m - 1) /\ m \in 1 .. Len(k)
    BY <2>2, <2>3
  <2>5. Opened(k, m - 1) \in Int
    BY <2>1, <2>4
  <2> QED
    BY <2>2, <2>4, <2>5, OpenedIs, SMTT(30)
<1> QED
  BY <1>1

-----------------------------------------------------------------------------
(* The loop, as a relation of what was typed, the buffer, the count and what *)
(* was submitted.                                                           *)

Typed == Lines \cup {Interrupt}

SourceOf(ty, s) == [i \in DOMAIN s |-> ty[s[i]]]
OpenOf(ty, s, n) == Opened(SourceOf(ty, s), n) > 0
StretchOf(ty, s) ==
    /\ \A i \in 1 .. Len(s) : s[i] = s[1] + i - 1 /\ ty[s[i]] # Interrupt
    /\ ty[s[1]].form \notin {"note", "quit"}
InSub(sub, p) == \E k \in 1 .. Len(sub) : \E i \in 1 .. Len(sub[k]) : sub[k][i] = p

\* What waits in the buffer is open, up to the last line.
Waits(ty, buf, d) ==
    /\ buf = <<>> => d = 0
    /\ buf # <<>> =>
          /\ buf[1] >= 1 /\ buf[Len(buf)] = Len(ty)
          /\ StretchOf(ty, buf) /\ d = Opened(SourceOf(ty, buf), Len(buf))
          /\ \A n \in 1 .. Len(buf) : OpenOf(ty, buf, n)

\* A submission is one expression, from before what waits.
Expression(ty, buf, s) ==
    /\ s \in Seq(Nat) /\ s # <<>>
    /\ \A i \in 1 .. Len(s) : s[i] \in 1 .. Len(ty) /\ (buf # <<>> => s[i] < buf[1])
    /\ StretchOf(ty, s)
    /\ \A n \in 1 .. Len(s) - 1 : OpenOf(ty, s, n)
    /\ ~ OpenOf(ty, s, Len(s))

Completed(ty, buf, sub) ==
    /\ \A k \in 1 .. Len(sub) : Expression(ty, buf, sub[k])
    /\ \A k \in 1 .. Len(sub) : k > 1 => Last(sub[k - 1]) < Head(sub[k])

\* An interrupt took position p back.
Cut(ty, sub, p) ==
    \E q \in p + 1 .. Len(ty) : \E b \in 1 .. p :
       /\ ty[q] = Interrupt
       /\ LET s == [i \in 1 .. q - b |-> b + i - 1] IN
          /\ StretchOf(ty, s)
          /\ \A n \in 1 .. Len(s) : OpenOf(ty, s, n)
          /\ \A r \in b .. q : ~ InSub(sub, r)

Accounted(ty, buf, sub, at, p) ==
    \/ InSub(sub, p)
    \/ \E i \in 1 .. Len(buf) : buf[i] = p
    \/ Cut(ty, sub, p)
    \/ ty[p] = Interrupt \/ ty[p].form \in {"blank", "note"}
    \/ ty[p].form = "quit" /\ p = Len(ty) /\ at = "ok" /\ buf = <<>>

Loop(ty, buf, d, sub, at) ==
    /\ ty \in Seq(Typed) /\ buf \in Seq(Nat) /\ d \in Int /\ sub \in Seq(Seq(Nat))
    /\ Waits(ty, buf, d) /\ Completed(ty, buf, sub)
    /\ \A p \in 1 .. Len(ty) : Accounted(ty, buf, sub, at, p)

LoopInv == mode = "repl" => Loop(typed, buffer, depth, submitted, pc)

LEMMA LineIs ==
  /\ \A l \in Lines : l \in Typed /\ l # Interrupt /\ l.form \in Forms
                      /\ (l.form = "blank" => l.parens = 0)
  /\ Interrupt \in Typed /\ Interrupt.parens \in Int
  /\ \A l \in Typed : l.parens \in Int
<1>1. \A l \in Lines : l.form \in Forms /\ l.parens \in Int
  BY FrontendAssumption
<1>2. Interrupt.form \notin Forms /\ Interrupt.parens \in Int
  BY DEF Interrupt, Forms
<1> QED
  BY <1>1, <1>2, FrontendAssumption DEF Typed

LEMMA TypedAppend ==
  ASSUME NEW ty \in Seq(Typed), NEW l \in Typed
  PROVE  /\ Append(ty, l) \in Seq(Typed) /\ Len(Append(ty, l)) = Len(ty) + 1
         /\ Append(ty, l)[Len(ty) + 1] = l
         /\ \A i \in 1 .. Len(ty) : Append(ty, l)[i] = ty[i]
<1> DEFINE S == Typed
<1>1. ty \in Seq(S) /\ l \in S
  OBVIOUS
<1> HIDE DEF S
<1>2. /\ Append(ty, l) \in Seq(S) /\ Len(Append(ty, l)) = Len(ty) + 1
      /\ Append(ty, l)[Len(ty) + 1] = l
      /\ \A i \in 1 .. Len(ty) : Append(ty, l)[i] = ty[i]
  BY <1>1
<1> QED
  BY <1>2 DEF S

LEMMA PositionAppend ==
  ASSUME NEW b \in Seq(Nat), NEW n \in Nat
  PROVE  /\ Append(b, n) \in Seq(Nat) /\ Len(Append(b, n)) = Len(b) + 1
         /\ Append(b, n)[Len(Append(b, n))] = n /\ Append(b, n) # <<>>
         /\ DOMAIN Append(b, n) = 1 .. Len(Append(b, n))
         /\ \A i \in 1 .. Len(b) : Append(b, n)[i] = b[i]
<1> DEFINE s == Append(b, n)
<1>1. s \in Seq(Nat) /\ Len(s) = Len(b) + 1 /\ s[Len(b) + 1] = n
      /\ \A i \in 1 .. Len(b) : s[i] = b[i]
  OBVIOUS
<1> HIDE DEF s
<1>2. Len(b) \in Nat
  OBVIOUS
<1>3. s[Len(s)] = n /\ s # <<>>
  BY <1>1, <1>2
<1>4. DOMAIN s = 1 .. Len(s)
  BY <1>1
<1>. QED
  BY <1>1, <1>3, <1>4 DEF s

\* More typing does not change what stands.
LEMMA StretchKept ==
  ASSUME NEW ty \in Seq(Typed), NEW l \in Typed, NEW s, Len(s) \in Nat,
         DOMAIN s = 1 .. Len(s), s # <<>>, Len(s) >= 1,
         \A i \in 1 .. Len(s) : s[i] \in 1 .. Len(ty)
  PROVE  /\ StretchOf(Append(ty, l), s) <=> StretchOf(ty, s)
         /\ \A n : OpenOf(Append(ty, l), s, n) <=> OpenOf(ty, s, n)
<1> DEFINE t == Append(ty, l)
<1>1. \A i \in 1 .. Len(ty) : t[i] = ty[i]
  BY TypedAppend
<1> HIDE DEF t
<1>2. \A i \in 1 .. Len(s) : t[s[i]] = ty[s[i]]
  BY <1>1
<1>3. SourceOf(t, s) = SourceOf(ty, s)
  BY <1>2 DEF SourceOf
<1>4. 1 \in 1 .. Len(s)
  OBVIOUS
<1>5. StretchOf(t, s) <=> StretchOf(ty, s)
  BY <1>2, <1>4 DEF StretchOf
<1> QED
  BY <1>3, <1>5 DEF OpenOf, t

\* A line is collected behind the others.
LEMMA CollectedIs ==
  ASSUME NEW ty \in Seq(Typed), NEW buf \in Seq(Nat), NEW d \in Int, Waits(ty, buf, d),
         NEW l \in Lines, buf = <<>> => l.form \notin {"note", "quit"}
  PROVE  LET t == Append(ty, l)
             s == Append(buf, Len(ty) + 1) IN
         /\ s \in Seq(Nat) /\ s # <<>> /\ Len(s) = Len(buf) + 1 /\ s[Len(s)] = Len(t)
         /\ s[1] = (IF buf = <<>> THEN Len(ty) + 1 ELSE buf[1]) /\ s[1] >= 1
         /\ \A i \in 1 .. Len(buf) : s[i] = buf[i]
         /\ StretchOf(t, s) /\ Opened(SourceOf(t, s), Len(s)) = d + l.parens
         /\ \A n \in 1 .. Len(buf) : OpenOf(t, s, n)
<1> DEFINE t == Append(ty, l)
           s == Append(buf, Len(ty) + 1)
           S == Typed
           k == SourceOf(t, s)
<1>1. /\ t \in Seq(S) /\ Len(t) = Len(ty) + 1 /\ t[Len(ty) + 1] = l
      /\ \A i \in 1 .. Len(ty) : t[i] = ty[i]
  BY LineIs, TypedAppend
<1>2. Len(ty) \in Nat /\ Len(buf) \in Nat /\ DOMAIN buf = 1 .. Len(buf)
  OBVIOUS
<1> HIDE DEF t, S
<1>3. /\ s \in Seq(Nat) /\ Len(s) = Len(buf) + 1 /\ s[Len(s)] = Len(ty) + 1
      /\ s # <<>> /\ DOMAIN s = 1 .. Len(s)
      /\ \A i \in 1 .. Len(buf) : s[i] = buf[i]
  BY <1>2, PositionAppend, Len(ty) + 1 \in Nat, SMTT(30)
<1> HIDE DEF s
<1>4. /\ Len(k) = Len(s) /\ \A i \in 1 .. Len(s) : k[i] = t[s[i]]
  BY <1>2, <1>3 DEF SourceOf
<1>5. ASSUME buf # <<>>
      PROVE  /\ Len(buf) >= 1 /\ s[1] = buf[1] /\ buf[1] >= 1 /\ buf[Len(buf)] = Len(ty)
             /\ \A i \in 1 .. Len(buf) : buf[i] \in 1 .. Len(ty) /\ buf[i] = buf[1] + i - 1
             /\ StretchOf(t, buf)
  <2>1. Len(buf) >= 1
    BY <1>2, <1>5
  <2>2. /\ buf[1] >= 1 /\ buf[Len(buf)] = Len(ty) /\ StretchOf(ty, buf)
    BY <1>5 DEF Waits
  <2>3. \A i \in 1 .. Len(buf) : buf[i] = buf[1] + i - 1 /\ buf[i] \in Nat
    BY <2>2, SMTT(30) DEF StretchOf
  <2>4. Len(buf) \in 1 .. Len(buf) /\ 1 \in 1 .. Len(buf)
    BY <1>2, <2>1
  <2>5. Len(ty) = buf[1] + Len(buf) - 1 /\ buf[1] \in Nat
    BY <2>2, <2>3, <2>4
  <2>6. \A i \in 1 .. Len(buf) : buf[i] \in 1 .. Len(ty)
    BY <1>2, <2>2, <2>3, <2>5
  <2>7. StretchOf(t, buf)
    BY <1>2, <1>5, <2>1, <2>2, <2>6, LineIs, StretchKept DEF t
  <2> QED
    BY <1>3, <2>1, <2>2, <2>3, <2>4, <2>6, <2>7
<1>6. \A i \in 1 .. Len(s) : i \in 1 .. Len(buf) \/ i = Len(buf) + 1
  BY <1>2, <1>3
<1>7. l # Interrupt /\ l.parens \in Int
  BY LineIs
<1>8. s[1] = (IF buf = <<>> THEN Len(ty) + 1 ELSE buf[1]) /\ s[1] >= 1
  <2>1. ASSUME buf = <<>>
        PROVE  s[1] = Len(ty) + 1
    BY <1>2, <1>3, <2>1
  <2> QED
    BY <1>2, <1>5, <2>1
<1>9. StretchOf(t, s)
  <2>1. ASSUME buf = <<>>
        PROVE  StretchOf(t, s)
    <3>1. Len(s) = 1 /\ s[1] = Len(ty) + 1
      BY <1>2, <1>3, <2>1
    <3>2. \A i \in 1 .. Len(s) : i = 1
      BY <3>1
    <3> QED
      BY <1>1, <1>2, <1>7, <2>1, <3>1, <3>2 DEF StretchOf
  <2>2. ASSUME buf # <<>>
        PROVE  StretchOf(t, s)
    <3>1. \A i \in 1 .. Len(buf) : s[i] = s[1] + i - 1 /\ t[s[i]] # Interrupt
      BY <1>3, <1>5, <2>2 DEF StretchOf
    <3>2. s[Len(buf) + 1] = s[1] + (Len(buf) + 1) - 1
      <4>1. Len(ty) = buf[1] + Len(buf) - 1 /\ buf[1] \in Nat
        <5>1. Len(buf) \in 1 .. Len(buf) /\ 1 \in 1 .. Len(buf)
          BY <1>2, <1>5, <2>2
        <5> QED
          BY <1>5, <2>2, <5>1, SMTT(30)
      <4> QED
        BY <1>2, <1>3, <1>5, <2>2, <4>1
    <3>3. t[s[Len(buf) + 1]] # Interrupt
      BY <1>1, <1>3, <1>7
    <3>4. t[s[1]].form \notin {"note", "quit"}
      BY <1>5, <2>2 DEF StretchOf
    <3> QED
      BY <1>6, <3>1, <3>2, <3>3, <3>4 DEF StretchOf
  <2> QED
    BY <2>1, <2>2
<1>10. \A n \in 0 .. Len(buf) : Opened(k, n) = Opened(SourceOf(ty, buf), n)
  <2> SUFFICES ASSUME NEW n \in 0 .. Len(buf)
               PROVE  Opened(k, n) = Opened(SourceOf(ty, buf), n)
    OBVIOUS
  <2> DEFINE o == SourceOf(ty, buf)
  <2>1. Len(o) = Len(buf) /\ \A i \in 1 .. Len(buf) : o[i] = ty[buf[i]]
    BY <1>2 DEF SourceOf
  <2> HIDE DEF o
  <2>2. \A i \in 1 .. n : k[i] = o[i]
    <3> SUFFICES ASSUME NEW i \in 1 .. n
                 PROVE  k[i] = o[i]
      OBVIOUS
    <3>1. i \in 1 .. Len(buf) /\ i \in 1 .. Len(s) /\ buf # <<>>
      BY <1>2, <1>3
    <3>2. k[i] = t[buf[i]]
      BY <1>3, <1>4, <3>1
    <3> QED
      BY <1>1, <1>5, <2>1, <3>1, <3>2
  <2>3. n \in Nat /\ n <= Len(k) /\ n <= Len(o) /\ Len(k) \in Nat /\ Len(o) \in Nat
    BY <1>2, <1>3, <1>4, <2>1
  <2> HIDE DEF k
  <2> QED
    BY <2>2, <2>3, OpenedAgrees DEF o
<1>11. Opened(SourceOf(ty, buf), Len(buf)) = d
  <2>1. ASSUME buf = <<>>
        PROVE  Opened(SourceOf(ty, buf), Len(buf)) = d
    <3>1. Len(SourceOf(ty, buf)) = 0 /\ Len(buf) = 0
      BY <2>1 DEF SourceOf
    <3>2. Opened(SourceOf(ty, buf), 0) = 0
      BY <3>1, OpenedIs
    <3> QED
      BY <2>1, <3>1, <3>2 DEF Waits
  <2> QED
    BY <2>1 DEF Waits
<1>12. Opened(k, Len(s)) = d + l.parens
  <2>1. Len(s) \in 1 .. Len(k) /\ Len(s) - 1 = Len(buf) /\ Len(k) \in Nat
        /\ Len(buf) \in 0 .. Len(buf) /\ Len(s) \in 1 .. Len(s)
    BY <1>2, <1>3, <1>4
  <2>2. k[Len(s)] = l
    BY <1>1, <1>3, <1>4, <2>1
  <2> HIDE DEF k
  <2>3. Opened(k, Len(s)) = Opened(k, Len(s) - 1) + k[Len(s)].parens
    BY <2>1, OpenedIs
  <2> QED
    BY <1>10, <1>11, <2>1, <2>2, <2>3
<1>13. \A n \in 1 .. Len(buf) : OpenOf(t, s, n)
  <2> SUFFICES ASSUME NEW n \in 1 .. Len(buf)
               PROVE  OpenOf(t, s, n)
    OBVIOUS
  <2>1. buf # <<>> /\ n \in 0 .. Len(buf)
    BY <1>2
  <2>2. OpenOf(ty, buf, n)
    BY <2>1 DEF Waits
  <2> QED
    BY <1>10, <2>1, <2>2 DEF OpenOf
<1> QED
  BY <1>1, <1>3, <1>8, <1>9, <1>12, <1>13 DEF t, s

-----------------------------------------------------------------------------
(* What was typed earlier keeps its account.                                *)

LEMMA CutKept ==
  ASSUME NEW ty \in Seq(Typed), NEW l \in Typed, NEW sub, NEW sub2, NEW p \in 1 .. Len(ty),
         Cut(ty, sub, p),
         \A q \in 1 .. Len(ty) : \A r \in 1 .. q :
            ty[q] = Interrupt /\ InSub(sub2, r) => InSub(sub, r)
  PROVE  Cut(Append(ty, l), sub2, p)
<1> DEFINE t == Append(ty, l)
           Sub(b, q) == [i \in 1 .. q - b |-> b + i - 1]
<1>1. Len(t) = Len(ty) + 1 /\ \A i \in 1 .. Len(ty) : t[i] = ty[i]
  BY TypedAppend
<1>2. PICK q \in p + 1 .. Len(ty), b \in 1 .. p :
         /\ ty[q] = Interrupt
         /\ StretchOf(ty, Sub(b, q))
         /\ \A n \in 1 .. Len(Sub(b, q)) : OpenOf(ty, Sub(b, q), n)
         /\ \A r \in b .. q : ~ InSub(sub, r)
  BY DEF Cut
<1> DEFINE s == Sub(b, q)
<1>3. /\ Len(s) = q - b /\ Len(s) \in Nat /\ Len(s) >= 1 /\ s # <<>>
      /\ DOMAIN s = 1 .. Len(s) /\ \A i \in 1 .. Len(s) : s[i] = b + i - 1
  <2>1. q - b \in Nat /\ q - b >= 1
    OBVIOUS
  <2>2. Len(s) = q - b /\ DOMAIN s = 1 .. q - b
    BY <2>1
  <2>3. \A i \in 1 .. q - b : s[i] = b + i - 1
    OBVIOUS
  <2> HIDE DEF s
  <2> QED
    BY <2>1, <2>2, <2>3
<1>4. q \in 1 .. Len(ty) /\ q \in p + 1 .. Len(t) /\ Len(ty) \in Nat
  BY <1>1
<1>5. \A i \in 1 .. Len(s) : s[i] \in 1 .. Len(ty)
  <2> HIDE DEF s
  <2> QED
    BY <1>3, <1>4
<1>6. StretchOf(t, s) /\ \A n \in 1 .. Len(s) : OpenOf(t, s, n)
  <2>1. StretchOf(ty, s) /\ \A n \in 1 .. Len(s) : OpenOf(ty, s, n)
    BY <1>2
  <2> HIDE DEF s
  <2> QED
    BY <1>3, <1>5, <2>1, StretchKept
<1>7. \A r \in b .. q : ~ InSub(sub2, r)
  <2> SUFFICES ASSUME NEW r \in b .. q, InSub(sub2, r)
               PROVE  FALSE
    OBVIOUS
  <2>1. r \in 1 .. q
    OBVIOUS
  <2> QED
    BY <1>2, <1>4, <2>1
<1>8. t[q] = Interrupt
  BY <1>1, <1>2, <1>4
<1> HIDE DEF t
<1>9. Cut(t, sub2, p)
  BY <1>4, <1>6, <1>7, <1>8 DEF Cut
<1> QED
  BY <1>9 DEF t

LEMMA LineKept ==
  ASSUME NEW ty \in Seq(Typed), NEW l \in Typed, NEW buf, NEW sub, NEW buf2, NEW sub2,
         NEW at, NEW p \in 1 .. Len(ty), Accounted(ty, buf, sub, "prompt", p),
         InSub(sub, p) => InSub(sub2, p),
         \A q \in 1 .. Len(ty) : \A r \in 1 .. q :
            ty[q] = Interrupt /\ InSub(sub2, r) => InSub(sub, r),
         (\E i \in 1 .. Len(buf) : buf[i] = p) =>
            Accounted(Append(ty, l), buf2, sub2, at, p)
  PROVE  Accounted(Append(ty, l), buf2, sub2, at, p)
<1>1. Append(ty, l)[p] = ty[p]
  BY TypedAppend
<1>2. Cut(ty, sub, p) => Cut(Append(ty, l), sub2, p)
  BY CutKept
<1> QED
  BY <1>1, <1>2 DEF Accounted

LEMMA CompletedKept ==
  ASSUME NEW ty \in Seq(Typed), NEW l \in Typed, NEW buf, NEW sub, NEW buf2,
         Completed(ty, buf, sub),
         buf2 # <<>> => buf2[1] = (IF buf = <<>> THEN Len(ty) + 1 ELSE buf[1])
  PROVE  Completed(Append(ty, l), buf2, sub)
<1> SUFFICES ASSUME NEW k \in 1 .. Len(sub)
             PROVE  Expression(Append(ty, l), buf2, sub[k])
  BY DEF Completed
<1> DEFINE t == Append(ty, l)
           s == sub[k]
<1>1. Expression(ty, buf, s)
  BY DEF Completed
<1>2. Len(t) = Len(ty) + 1 /\ Len(ty) \in Nat
  BY TypedAppend
<1> HIDE DEF s
<1>3. s \in Seq(Nat) /\ s # <<>> /\ \A i \in 1 .. Len(s) : s[i] \in 1 .. Len(ty)
  BY <1>1 DEF Expression
<1>4. Len(s) \in Nat /\ Len(s) >= 1 /\ DOMAIN s = 1 .. Len(s)
  BY <1>3
<1>5. (StretchOf(t, s) <=> StretchOf(ty, s)) /\ \A n : OpenOf(t, s, n) <=> OpenOf(ty, s, n)
  BY <1>3, <1>4, StretchKept
<1> HIDE DEF t
<1>6. \A i \in 1 .. Len(s) : s[i] \in 1 .. Len(t) /\ (buf2 # <<>> => s[i] < buf2[1])
  <2> SUFFICES ASSUME NEW i \in 1 .. Len(s)
               PROVE  s[i] \in 1 .. Len(t) /\ (buf2 # <<>> => s[i] < buf2[1])
    OBVIOUS
  <2>1. s[i] \in 1 .. Len(ty) /\ (buf # <<>> => s[i] < buf[1])
    BY <1>1 DEF Expression
  <2>2. s[i] \in 1 .. Len(t) /\ s[i] < Len(ty) + 1
    BY <1>2, <2>1
  <2> QED
    BY <2>1, <2>2
<1>7. Expression(t, buf2, s)
  BY <1>1, <1>3, <1>5, <1>6 DEF Expression
<1> QED
  BY <1>7 DEF s, t

\* Nothing that waits was submitted.
LEMMA WaitingIsNew ==
  ASSUME NEW ty, NEW buf, NEW sub, Completed(ty, buf, sub), buf # <<>>, buf[1] \in Nat,
         Len(ty) \in Nat
  PROVE  \A r \in Nat : r >= buf[1] => ~ InSub(sub, r)
<1> SUFFICES ASSUME NEW r \in Nat, r >= buf[1], NEW k \in 1 .. Len(sub),
                    NEW i \in 1 .. Len(sub[k]), sub[k][i] = r
             PROVE  FALSE
  BY DEF InSub
<1>1. sub[k][i] < buf[1]
  BY DEF Completed, Expression
<1> QED
  BY <1>1

\* The buffer is the end of what was typed.
LEMMA BufferIs ==
  ASSUME NEW ty \in Seq(Typed), NEW buf \in Seq(Nat), NEW d, Waits(ty, buf, d), buf # <<>>
  PROVE  /\ buf[1] \in 1 .. Len(ty) /\ Len(buf) = Len(ty) + 1 - buf[1]
         /\ Len(buf) \in Nat /\ Len(buf) >= 1 /\ Len(ty) \in Nat
         /\ \A i \in 1 .. Len(buf) : buf[i] = buf[1] + i - 1 /\ buf[i] \in 1 .. Len(ty)
                                     /\ ty[buf[i]] # Interrupt
<1>1. Len(buf) \in Nat /\ Len(ty) \in Nat
  OBVIOUS
<1>2. Len(buf) >= 1
  BY <1>1
<1>3. buf[1] >= 1 /\ buf[Len(buf)] = Len(ty) /\ StretchOf(ty, buf)
  BY DEF Waits
<1>4. \A i \in 1 .. Len(buf) : /\ buf[i] = buf[1] + i - 1 /\ buf[i] \in Nat
                               /\ ty[buf[i]] # Interrupt
  BY <1>3, SMTT(30) DEF StretchOf
<1>5. 1 \in 1 .. Len(buf) /\ Len(buf) \in 1 .. Len(buf)
  BY <1>1, <1>2
<1>6. buf[1] \in Nat /\ Len(ty) = buf[1] + Len(buf) - 1
  BY <1>3, <1>4, <1>5
<1>7. \A i \in 1 .. Len(buf) : buf[i] \in 1 .. Len(ty)
  <2> SUFFICES ASSUME NEW i \in 1 .. Len(buf)
               PROVE  buf[i] \in 1 .. Len(ty)
    OBVIOUS
  <2>1. buf[i] = buf[1] + i - 1
    BY <1>4
  <2> QED
    BY <1>1, <1>3, <1>6, <2>1
<1>8. buf[1] \in 1 .. Len(ty) /\ Len(buf) = Len(ty) + 1 - buf[1]
  <2> DEFINE p == buf[1]
             l == Len(buf)
             n == Len(ty)
  <2>1. p \in Nat /\ n = p + l - 1 /\ l \in Nat /\ n \in Nat /\ l >= 1 /\ p >= 1
    BY <1>1, <1>2, <1>3, <1>6
  <2> HIDE DEF p, l, n
  <2>2. p \in 1 .. n /\ l = n + 1 - p
    BY <2>1
  <2> QED
    BY <2>2 DEF p, l, n
<1> QED
  BY <1>1, <1>2, <1>4, <1>7, <1>8, Zenon

-----------------------------------------------------------------------------
(* The steps of the loop.                                                   *)

Starts(buf, l) == buf = <<>> /\ l.form \in {"note", "quit"}

LEMMA LoopContinue ==
  ASSUME NEW ty, NEW buf, NEW d, NEW sub, Loop(ty, buf, d, sub, "prompt"),
         NEW l \in Lines, ~ Starts(buf, l), d + l.parens > 0
  PROVE  Loop(Append(ty, l), Append(buf, Len(ty) + 1), d + l.parens, sub, "prompt")
<1> DEFINE t == Append(ty, l)
           s == Append(buf, Len(ty) + 1)
<1>1. /\ ty \in Seq(Typed) /\ buf \in Seq(Nat) /\ d \in Int /\ sub \in Seq(Seq(Nat))
      /\ Waits(ty, buf, d) /\ Completed(ty, buf, sub)
      /\ \A p \in 1 .. Len(ty) : Accounted(ty, buf, sub, "prompt", p)
  BY DEF Loop
<1>2. l \in Typed /\ l.parens \in Int
  BY LineIs
<1>3. t \in Seq(Typed) /\ Len(t) = Len(ty) + 1 /\ Len(ty) \in Nat /\ Len(buf) \in Nat
  BY <1>1, <1>2, TypedAppend
<1>4. /\ s \in Seq(Nat) /\ s # <<>> /\ Len(s) = Len(buf) + 1 /\ s[Len(s)] = Len(t)
      /\ s[1] = (IF buf = <<>> THEN Len(ty) + 1 ELSE buf[1]) /\ s[1] >= 1
      /\ \A i \in 1 .. Len(buf) : s[i] = buf[i]
      /\ StretchOf(t, s) /\ Opened(SourceOf(t, s), Len(s)) = d + l.parens
      /\ \A n \in 1 .. Len(buf) : OpenOf(t, s, n)
  BY <1>1, CollectedIs DEF Starts
<1>5. Completed(t, s, sub)
  BY <1>1, <1>2, <1>4, CompletedKept
<1> HIDE DEF s
<1>6. Waits(t, s, d + l.parens)
  <2>1. \A n \in 1 .. Len(s) : OpenOf(t, s, n)
    <3> SUFFICES ASSUME NEW n \in 1 .. Len(s)
                 PROVE  OpenOf(t, s, n)
      OBVIOUS
    <3>1. n \in 1 .. Len(buf) \/ n = Len(s)
      BY <1>3, <1>4
    <3>2. OpenOf(t, s, Len(s))
      BY <1>4 DEF OpenOf
    <3> QED
      BY <1>4, <3>1, <3>2
  <2> HIDE DEF t
  <2> QED
    BY <1>4, <2>1 DEF Waits
<1>7. \A p \in 1 .. Len(t) : Accounted(t, s, sub, "prompt", p)
  <2> SUFFICES ASSUME NEW p \in 1 .. Len(t)
               PROVE  Accounted(t, s, sub, "prompt", p)
    OBVIOUS
  <2>1. ASSUME p = Len(t)
        PROVE  Accounted(t, s, sub, "prompt", p)
    <3>1. Len(s) \in 1 .. Len(s)
      BY <1>3, <1>4
    <3> QED
      BY <1>4, <2>1, <3>1 DEF Accounted
  <2>2. ASSUME p \in 1 .. Len(ty)
        PROVE  Accounted(t, s, sub, "prompt", p)
    <3>1. (\E i \in 1 .. Len(buf) : buf[i] = p) => Accounted(t, s, sub, "prompt", p)
      <4> SUFFICES ASSUME NEW i \in 1 .. Len(buf), buf[i] = p
                   PROVE  Accounted(t, s, sub, "prompt", p)
        OBVIOUS
      <4>1. i \in 1 .. Len(s) /\ s[i] = p
        BY <1>3, <1>4
      <4> QED
        BY <4>1 DEF Accounted
    <3>2. Accounted(ty, buf, sub, "prompt", p)
      BY <1>1, <2>2
    <3> QED
      BY <1>1, <1>2, <2>2, <3>1, <3>2, LineKept
  <2> QED
    BY <1>3, <2>1, <2>2
<1>8. d + l.parens \in Int
  BY <1>1, <1>2
<1> HIDE DEF t
<1>9. Loop(t, s, d + l.parens, sub, "prompt")
  BY <1>1, <1>3, <1>4, <1>5, <1>6, <1>7, <1>8 DEF Loop
<1> QED
  BY <1>9 DEF s, t

\* The expression is complete: it is submitted.
LEMMA LoopSubmit ==
  ASSUME NEW ty, NEW buf, NEW d, NEW sub, Loop(ty, buf, d, sub, "prompt"),
         NEW l \in Lines, ~ Starts(buf, l), ~ (d + l.parens > 0), NEW at
  PROVE  Loop(Append(ty, l), <<>>, 0, Append(sub, Append(buf, Len(ty) + 1)), at)
<1> DEFINE t == Append(ty, l)
           s == Append(buf, Len(ty) + 1)
           subs == Append(sub, s)
<1>1. /\ ty \in Seq(Typed) /\ buf \in Seq(Nat) /\ d \in Int /\ sub \in Seq(Seq(Nat))
      /\ Waits(ty, buf, d) /\ Completed(ty, buf, sub)
      /\ \A p \in 1 .. Len(ty) : Accounted(ty, buf, sub, "prompt", p)
  BY DEF Loop
<1>2. l \in Typed /\ l.parens \in Int /\ l # Interrupt
  BY LineIs
<1>3. /\ t \in Seq(Typed) /\ Len(t) = Len(ty) + 1 /\ Len(ty) \in Nat /\ Len(buf) \in Nat
      /\ t[Len(ty) + 1] = l /\ \A i \in 1 .. Len(ty) : t[i] = ty[i]
  BY <1>1, <1>2, TypedAppend
<1>4. /\ s \in Seq(Nat) /\ s # <<>> /\ Len(s) = Len(buf) + 1 /\ s[Len(s)] = Len(t)
      /\ s[1] = (IF buf = <<>> THEN Len(ty) + 1 ELSE buf[1]) /\ s[1] >= 1
      /\ \A i \in 1 .. Len(buf) : s[i] = buf[i]
      /\ StretchOf(t, s) /\ Opened(SourceOf(t, s), Len(s)) = d + l.parens
      /\ \A n \in 1 .. Len(buf) : OpenOf(t, s, n)
  BY <1>1, CollectedIs DEF Starts
<1>5. Completed(t, s, sub)
  BY <1>1, <1>2, <1>4, CompletedKept
<1> HIDE DEF s, t
<1>6. /\ Len(subs) = Len(sub) + 1 /\ subs[Len(sub) + 1] = s /\ subs \in Seq(Seq(Nat))
      /\ Len(sub) \in Nat /\ \A k \in 1 .. Len(sub) : subs[k] = sub[k] /\ sub[k] \in Seq(Nat)
  BY <1>1, <1>4
<1> HIDE DEF subs
<1>7. \A i \in 1 .. Len(s) : s[i] \in 1 .. Len(t)
  <2>1. \A i \in 1 .. Len(s) : s[i] = s[1] + i - 1
    BY <1>4 DEF StretchOf
  <2>2. 1 \in 1 .. Len(s) /\ Len(s) \in 1 .. Len(s)
    BY <1>3, <1>4
  <2>3. Len(t) = s[1] + Len(s) - 1 /\ s[1] \in Nat /\ Len(s) \in Nat
    BY <1>4, <2>1, <2>2
  <2> SUFFICES ASSUME NEW i \in 1 .. Len(s)
               PROVE  s[i] \in 1 .. Len(t)
    OBVIOUS
  <2>4. s[i] = s[1] + i - 1
    BY <2>1
  <2> QED
    BY <1>4, <2>3, <2>4, SMTT(30)
<1>8. Expression(t, <<>>, s)
  <2>1. \A n \in 1 .. Len(s) - 1 : OpenOf(t, s, n)
    BY <1>3, <1>4
  <2>2. ~ OpenOf(t, s, Len(s))
    BY <1>4 DEF OpenOf
  <2> QED
    BY <1>4, <1>7, <2>1, <2>2 DEF Expression
<1>9. Completed(t, <<>>, subs)
  <2>1. \A k \in 1 .. Len(subs) : k \in 1 .. Len(sub) \/ k = Len(sub) + 1
    BY <1>6
  <2>2. \A k \in 1 .. Len(sub) : Expression(t, <<>>, sub[k])
    BY <1>5 DEF Completed, Expression
  <2>3. \A k \in 1 .. Len(subs) : Expression(t, <<>>, subs[k])
    BY <1>6, <1>8, <2>1, <2>2
  <2>4. ASSUME NEW k \in 1 .. Len(subs), k > 1
        PROVE  Last(subs[k - 1]) < Head(subs[k])
    <3>1. ASSUME k \in 1 .. Len(sub)
          PROVE  Last(subs[k - 1]) < Head(subs[k])
      <4>1. k - 1 \in 1 .. Len(sub)
        BY <1>6, <2>4, <3>1
      <4> QED
        BY <1>5, <1>6, <2>4, <3>1, <4>1 DEF Completed
    <3>2. ASSUME k = Len(sub) + 1
          PROVE  Last(subs[k - 1]) < Head(subs[k])
      <4> DEFINE e == sub[Len(sub)]
      <4>1. k - 1 = Len(sub) /\ Len(sub) \in 1 .. Len(sub)
        BY <1>6, <2>4, <3>2
      <4>2. subs[k - 1] = e /\ subs[k] = s /\ Expression(t, s, e)
        BY <1>5, <1>6, <3>2, <4>1 DEF Completed
      <4> HIDE DEF e
      <4>3. e \in Seq(Nat) /\ e # <<>> /\ \A i \in 1 .. Len(e) : e[i] < s[1]
        BY <1>4, <4>2 DEF Expression
      <4>4. Len(e) \in 1 .. Len(e)
        BY <4>3
      <4>5. e[Len(e)] < s[1]
        BY <4>3, <4>4
      <4> QED
        BY <4>2, <4>5 DEF Last, Head
    <3> QED
      BY <2>1, <3>1, <3>2
  <2> QED
    BY <2>3, <2>4 DEF Completed
<1>10. \A p : InSub(sub, p) => InSub(subs, p)
  <2> SUFFICES ASSUME NEW p, NEW k \in 1 .. Len(sub), \E i \in 1 .. Len(sub[k]) : sub[k][i] = p
               PROVE  InSub(subs, p)
    BY DEF InSub
  <2>1. k \in 1 .. Len(subs) /\ subs[k] = sub[k]
    BY <1>6
  <2> QED
    BY <2>1 DEF InSub
<1>11. \A i \in 1 .. Len(s) : InSub(subs, s[i])
  <2>1. Len(sub) + 1 \in 1 .. Len(subs)
    BY <1>6
  <2> QED
    BY <1>6, <2>1 DEF InSub
<1>12. \A q \in 1 .. Len(ty) : \A r \in 1 .. q :
          ty[q] = Interrupt /\ InSub(subs, r) => InSub(sub, r)
  <2> SUFFICES ASSUME NEW q \in 1 .. Len(ty), NEW r \in 1 .. q, ty[q] = Interrupt,
                      InSub(subs, r), ~ InSub(sub, r)
               PROVE  FALSE
    OBVIOUS
  <2>1. PICK k \in 1 .. Len(subs) : \E i \in 1 .. Len(subs[k]) : subs[k][i] = r
    BY DEF InSub
  <2>2. k = Len(sub) + 1
    <3>1. k \in 1 .. Len(sub) \/ k = Len(sub) + 1
      BY <1>6
    <3>2. ASSUME k \in 1 .. Len(sub)
          PROVE  FALSE
      BY <1>6, <2>1, <3>2 DEF InSub
    <3> QED
      BY <3>1, <3>2
  <2>3. PICK i \in 1 .. Len(s) : s[i] = r
    BY <1>6, <2>1, <2>2
  <2>4. s[i] = s[1] + i - 1
    BY <1>4 DEF StretchOf
  <2>5. r <= Len(ty) /\ r \in Nat
    BY <1>3
  <2>6. ASSUME buf = <<>>
        PROVE  FALSE
    BY <1>3, <1>4, <2>3, <2>4, <2>5, <2>6
  <2>7. ASSUME buf # <<>>
        PROVE  FALSE
    <3>1. /\ buf[1] \in 1 .. Len(ty) /\ Len(buf) = Len(ty) + 1 - buf[1]
          /\ \A j \in 1 .. Len(buf) : buf[j] = buf[1] + j - 1 /\ ty[buf[j]] # Interrupt
      BY <1>1, <2>7, BufferIs
    <3>2. q >= buf[1]
      <4> DEFINE p == buf[1]
      <4>1. p \in Nat /\ s[1] = p
        BY <1>4, <2>7, <3>1, SMTT(30)
      <4>2. r = s[1] + i - 1
        BY <2>3, <2>4
      <4> HIDE DEF p
      <4>3. q >= p
        BY <4>1, <4>2
      <4> QED
        BY <4>3 DEF p
    <3>3. PICK b \in 1 .. Len(ty) : b = buf[1]
      BY <3>1
    <3>4. PICK j \in Nat : j = q - b + 1
      BY <3>2, <3>3
    <3>5. j \in 1 .. Len(buf)
      <4>1. Len(buf) = Len(ty) + 1 - b /\ q >= b /\ q <= Len(ty)
        BY <1>3, <3>1, <3>2, <3>3
      <4>2. q \in Nat /\ b \in Nat
        OBVIOUS
      <4> QED
        BY <1>3, <3>4, <4>1, <4>2
    <3>6. buf[j] = b + j - 1
      BY <3>1, <3>3, <3>5
    <3>7. buf[j] = q
      BY <3>4, <3>6
    <3> QED
      BY <3>1, <3>5, <3>7
  <2> QED
    BY <2>6, <2>7
<1>13. \A p \in 1 .. Len(t) : Accounted(t, <<>>, subs, at, p)
  <2> SUFFICES ASSUME NEW p \in 1 .. Len(t)
               PROVE  Accounted(t, <<>>, subs, at, p)
    OBVIOUS
  <2>1. ASSUME p = Len(t)
        PROVE  Accounted(t, <<>>, subs, at, p)
    <3>1. Len(s) \in 1 .. Len(s)
      BY <1>3, <1>4
    <3> QED
      BY <1>4, <1>11, <2>1, <3>1 DEF Accounted
  <2>2. ASSUME p \in 1 .. Len(ty)
        PROVE  Accounted(t, <<>>, subs, at, p)
    <3>1. (\E i \in 1 .. Len(buf) : buf[i] = p) => Accounted(t, <<>>, subs, at, p)
      <4> SUFFICES ASSUME NEW i \in 1 .. Len(buf), buf[i] = p
                   PROVE  Accounted(t, <<>>, subs, at, p)
        OBVIOUS
      <4>1. i \in 1 .. Len(s) /\ s[i] = p
        BY <1>3, <1>4
      <4> QED
        BY <1>11, <4>1 DEF Accounted
    <3>2. Accounted(ty, buf, sub, "prompt", p)
      BY <1>1, <2>2
    <3> QED
      BY <1>1, <1>2, <1>10, <1>12, <2>2, <3>1, <3>2, LineKept DEF t
  <2> QED
    BY <1>3, <2>1, <2>2
<1>14. Waits(t, <<>>, 0)
  BY DEF Waits
<1>15. Loop(t, <<>>, 0, subs, at)
  BY <1>3, <1>6, <1>9, <1>13, <1>14 DEF Loop
<1> QED
  BY <1>15 DEF s, t, subs

\* No expression is open and the line is no part of one.
LEMMA LoopSkip ==
  ASSUME NEW ty, NEW d, NEW sub, Loop(ty, <<>>, d, sub, "prompt"),
         NEW l \in Lines, NEW at,
         l.form \in {"blank", "note"} \/ (l.form = "quit" /\ at = "ok")
  PROVE  Loop(Append(ty, l), <<>>, 0, sub, at)
<1> DEFINE t == Append(ty, l)
<1>1. /\ ty \in Seq(Typed) /\ d \in Int /\ sub \in Seq(Seq(Nat))
      /\ Completed(ty, <<>>, sub)
      /\ \A p \in 1 .. Len(ty) : Accounted(ty, <<>>, sub, "prompt", p)
  BY DEF Loop
<1>2. l \in Typed
  BY LineIs
<1>3. /\ t \in Seq(Typed) /\ Len(t) = Len(ty) + 1 /\ Len(ty) \in Nat
      /\ t[Len(ty) + 1] = l
  BY <1>1, <1>2, TypedAppend
<1>4. Completed(t, <<>>, sub)
  BY <1>1, <1>2, CompletedKept
<1> HIDE DEF t
<1>5. Waits(t, <<>>, 0)
  BY DEF Waits
<1>6. \A p \in 1 .. Len(t) : Accounted(t, <<>>, sub, at, p)
  <2> SUFFICES ASSUME NEW p \in 1 .. Len(t)
               PROVE  Accounted(t, <<>>, sub, at, p)
    OBVIOUS
  <2>1. ASSUME p = Len(t)
        PROVE  Accounted(t, <<>>, sub, at, p)
    BY <1>3, <2>1 DEF Accounted
  <2>2. ASSUME p \in 1 .. Len(ty)
        PROVE  Accounted(t, <<>>, sub, at, p)
    <3>1. Accounted(ty, <<>>, sub, "prompt", p)
      BY <1>1, <2>2
    <3>2. ~ \E i \in 1 .. Len(<<>>) : <<>>[i] = p
      OBVIOUS
    <3> QED
      BY <1>1, <1>2, <2>2, <3>1, <3>2, LineKept DEF t
  <2> QED
    BY <1>3, <2>1, <2>2
<1>7. Loop(t, <<>>, 0, sub, at)
  BY <1>1, <1>3, <1>4, <1>5, <1>6 DEF Loop
<1> QED
  BY <1>7 DEF t

\* An interrupt takes back what waits.
LEMMA LoopCut ==
  ASSUME NEW ty, NEW buf, NEW d, NEW sub, Loop(ty, buf, d, sub, "prompt")
  PROVE  Loop(Append(ty, Interrupt), <<>>, 0, sub, "prompt")
<1> DEFINE t == Append(ty, Interrupt)
<1>1. /\ ty \in Seq(Typed) /\ buf \in Seq(Nat) /\ d \in Int /\ sub \in Seq(Seq(Nat))
      /\ Waits(ty, buf, d) /\ Completed(ty, buf, sub)
      /\ \A p \in 1 .. Len(ty) : Accounted(ty, buf, sub, "prompt", p)
  BY DEF Loop
<1>2. Interrupt \in Typed
  BY LineIs
<1>3. /\ t \in Seq(Typed) /\ Len(t) = Len(ty) + 1 /\ Len(ty) \in Nat
      /\ t[Len(ty) + 1] = Interrupt
  BY <1>1, <1>2, TypedAppend
<1>4. Completed(t, <<>>, sub)
  BY <1>1, <1>2, CompletedKept
<1> HIDE DEF t
<1>5. Waits(t, <<>>, 0)
  BY DEF Waits
<1>6. ASSUME NEW p \in 1 .. Len(ty), \E i \in 1 .. Len(buf) : buf[i] = p
      PROVE  Cut(t, sub, p)
  <2>1. buf # <<>>
    BY <1>6
  <2>2. /\ buf[1] \in 1 .. Len(ty) /\ Len(buf) = Len(ty) + 1 - buf[1]
        /\ Len(buf) \in Nat /\ Len(buf) >= 1
        /\ \A i \in 1 .. Len(buf) : buf[i] = buf[1] + i - 1 /\ buf[i] \in 1 .. Len(ty)
    BY <1>1, <2>1, BufferIs
  <2>3. PICK b \in Nat : b = buf[1]
    BY <2>2
  <2> DEFINE q == Len(ty) + 1
             s == [i \in 1 .. q - b |-> b + i - 1]
  <2>4. s = buf
    <3>0. DOMAIN buf = 1 .. Len(buf)
      BY <1>1
    <3>1. q - b = Len(buf) /\ DOMAIN buf = 1 .. Len(buf)
      BY <2>2, <2>3, <3>0
    <3>2. buf = [i \in 1 .. Len(buf) |-> buf[i]]
      BY <1>1
    <3>3. \A i \in 1 .. Len(buf) : buf[i] = b + i - 1
      BY <2>2, <2>3
    <3> QED
      BY <3>1, <3>2, <3>3
  <2>5. StretchOf(ty, buf) /\ \A n \in 1 .. Len(buf) : OpenOf(ty, buf, n)
    BY <1>1, <2>1 DEF Waits
  <2>6. StretchOf(t, buf) /\ \A n \in 1 .. Len(buf) : OpenOf(t, buf, n)
    <3>1. DOMAIN buf = 1 .. Len(buf)
      BY <1>1
    <3> QED
      BY <1>1, <1>2, <2>1, <2>2, <2>5, <3>1, StretchKept DEF t
  <2>7. \A r \in b .. q : ~ InSub(sub, r)
    <3>1. \A r \in Nat : r >= buf[1] => ~ InSub(sub, r)
      <4>1. buf[1] \in Nat
        BY <2>2
      <4> QED
        BY <1>1, <1>3, <2>1, <4>1, WaitingIsNew
    <3> QED
      BY <2>3, <3>1
  <2>8. q \in p + 1 .. Len(t) /\ b \in 1 .. p
    <3>1. PICK i \in 1 .. Len(buf) : buf[i] = p
      BY <1>6
    <3>2. p = b + i - 1
      BY <2>2, <2>3, <3>1
    <3>3. i \in Nat /\ i >= 1 /\ b >= 1 /\ b \in Nat
      BY <2>2, <2>3
    <3>4. q \in p + 1 .. Len(t)
      BY <1>3
    <3> QED
      BY <3>2, <3>3, <3>4
  <2>9. t[q] = Interrupt
    BY <1>3
  <2>10. StretchOf(t, s) /\ \A n \in 1 .. Len(s) : OpenOf(t, s, n)
    <3> HIDE DEF s
    <3> QED
      BY <2>4, <2>6
  <2> HIDE DEF q
  <2> QED
    BY <2>7, <2>8, <2>9, <2>10 DEF Cut
<1>7. \A p \in 1 .. Len(t) : Accounted(t, <<>>, sub, "prompt", p)
  <2> SUFFICES ASSUME NEW p \in 1 .. Len(t)
               PROVE  Accounted(t, <<>>, sub, "prompt", p)
    OBVIOUS
  <2>1. ASSUME p = Len(t)
        PROVE  Accounted(t, <<>>, sub, "prompt", p)
    BY <1>3, <2>1 DEF Accounted
  <2>2. ASSUME p \in 1 .. Len(ty)
        PROVE  Accounted(t, <<>>, sub, "prompt", p)
    <3>1. Accounted(ty, buf, sub, "prompt", p)
      BY <1>1, <2>2
    <3>2. (\E i \in 1 .. Len(buf) : buf[i] = p) => Accounted(t, <<>>, sub, "prompt", p)
      BY <1>6, <2>2 DEF Accounted
    <3> QED
      BY <1>1, <1>2, <2>2, <3>1, <3>2, LineKept DEF t
  <2> QED
    BY <1>3, <2>1, <2>2
<1>8. Loop(t, <<>>, 0, sub, "prompt")
  BY <1>1, <1>3, <1>4, <1>5, <1>7 DEF Loop
<1> QED
  BY <1>8 DEF t

\* Only the quit word's place in the account depends on where the loop is.
LEMMA LoopAt ==
  ASSUME NEW ty, NEW buf, NEW d, NEW sub, NEW at, at # "ok", NEW at2,
         Loop(ty, buf, d, sub, at)
  PROVE  Loop(ty, buf, d, sub, at2)
BY DEF Loop, Accounted

-----------------------------------------------------------------------------
(* The invariant.                                                           *)

\* Only blank lines trim to nothing.
LEMMA TrimIs ==
  ASSUME NEW lines \in Seq(Typed), Trim(lines) = <<>>
  PROVE  \A i \in 1 .. Len(lines) : lines[i].form = "blank"
<1> DEFINE full == {i \in DOMAIN lines : lines[i].form # "blank"}
<1>1. ASSUME full # {}
      PROVE  FALSE
  <2>1. DOMAIN lines = 1 .. Len(lines) /\ Len(lines) \in Nat
    OBVIOUS
  <2>2. full \in SUBSET Nat /\ \A i \in full : i \in 1 .. Len(lines)
    BY <2>1
  <2> HIDE DEF full
  <2>3. \E x \in full : \A y \in full : x <= y
    BY <1>1, <2>2, LeastNumber
  <2>4. \E x \in full : \A y \in full : x >= y
    <3> DEFINE T == {Len(lines) - x : x \in full}
    <3>1. T \in SUBSET Nat /\ T # {}
      <4>1. \A x \in full : Len(lines) - x \in Nat
        BY <2>1, <2>2
      <4> QED
        BY <1>1, <4>1
    <3>2. PICK u \in T : \A y \in T : u <= y
      BY <3>1, LeastNumber
    <3>3. PICK x \in full : u = Len(lines) - x
      OBVIOUS
    <3>4. \A y \in full : Len(lines) - x <= Len(lines) - y
      BY <3>2, <3>3
    <3>5. \A y \in full : x >= y
      BY <2>1, <2>2, <3>4
    <3> QED
      BY <3>5
  <2>5. Min(full) \in full /\ \A y \in full : Min(full) <= y
    BY <2>3 DEF Min
  <2>6. Max(full) \in full
    BY <2>4 DEF Max
  <2>7. PICK a \in 1 .. Len(lines) : a = Min(full)
    BY <2>2, <2>5
  <2>8. PICK z \in 1 .. Len(lines) : z = Max(full)
    BY <2>2, <2>6
  <2>9. a <= z
    BY <2>5, <2>6, <2>7, <2>8
  <2>10. Trim(lines) = SubSeq(lines, a, z)
    BY <1>1, <2>7, <2>8 DEF Trim, full
  <2>11. Len(SubSeq(lines, a, z)) = z - a + 1
    <3> DEFINE S == Typed
    <3>1. lines \in Seq(S)
      OBVIOUS
    <3> HIDE DEF S
    <3> QED
      BY <2>1, <2>9, <3>1, SubSeqProperties
  <2> QED
    BY <2>9, <2>10, <2>11
<1> QED
  BY <1>1

\* Where nothing but blank lines is collected, nothing waits.
LEMMA LoopBlank ==
  ASSUME NEW ty, NEW buf, NEW d, NEW sub, Loop(ty, buf, d, sub, "prompt"),
         NEW l \in Lines, ~ Starts(buf, l),
         Trim(SourceOf(Append(ty, l), Append(buf, Len(ty) + 1))) = <<>>
  PROVE  Loop(Append(ty, l), <<>>, 0, sub, "prompt")
<1> DEFINE t == Append(ty, l)
           s == Append(buf, Len(ty) + 1)
           k == SourceOf(t, s)
<1>1. /\ ty \in Seq(Typed) /\ buf \in Seq(Nat) /\ d \in Int
      /\ Waits(ty, buf, d) /\ Completed(ty, buf, sub)
  BY DEF Loop
<1>2. l \in Typed
  BY LineIs
<1>3. /\ t \in Seq(Typed) /\ Len(t) = Len(ty) + 1 /\ Len(ty) \in Nat /\ Len(buf) \in Nat
      /\ t[Len(ty) + 1] = l /\ \A i \in 1 .. Len(ty) : t[i] = ty[i]
  BY <1>1, <1>2, TypedAppend
<1>4. /\ s \in Seq(Nat) /\ Len(s) = Len(buf) + 1 /\ s[Len(s)] = Len(t)
      /\ s[1] = (IF buf = <<>> THEN Len(ty) + 1 ELSE buf[1])
      /\ \A i \in 1 .. Len(buf) : s[i] = buf[i]
  BY <1>1, CollectedIs DEF Starts
<1> HIDE DEF s, t
<1>5. Len(k) = Len(s) /\ DOMAIN s = 1 .. Len(s) /\ \A i \in 1 .. Len(s) : k[i] = t[s[i]]
  BY <1>4 DEF SourceOf
<1>6. \A i \in 1 .. Len(s) : s[i] \in 1 .. Len(t)
  <2> SUFFICES ASSUME NEW i \in 1 .. Len(s)
               PROVE  s[i] \in 1 .. Len(t)
    OBVIOUS
  <2>1. ASSUME i \in 1 .. Len(buf)
        PROVE  s[i] \in 1 .. Len(t)
    <3>1. buf # <<>>
      BY <2>1
    <3>2. buf[i] \in 1 .. Len(ty)
      BY <1>1, <2>1, <3>1, BufferIs
    <3> QED
      BY <1>3, <1>4, <2>1, <3>2
  <2>2. ASSUME i = Len(s)
        PROVE  s[i] \in 1 .. Len(t)
    BY <1>3, <1>4, <2>2
  <2> QED
    BY <1>3, <1>4, <2>1, <2>2
<1>7. k \in Seq(Typed)
  <2>1. k = [i \in 1 .. Len(s) |-> t[s[i]]] /\ Len(s) \in Nat
    BY <1>3, <1>4, <1>5 DEF SourceOf
  <2>2. \A i \in 1 .. Len(s) : t[s[i]] \in Typed
    <3> DEFINE S == Typed
    <3>1. t \in Seq(S)
      BY <1>3
    <3> HIDE DEF S
    <3>2. \A i \in 1 .. Len(s) : t[s[i]] \in S
      BY <1>6, <3>1
    <3> QED
      BY <3>2 DEF S
  <2> HIDE DEF k
  <2> QED
    BY <2>1, <2>2
<1>8. \A i \in 1 .. Len(s) : t[s[i]].form = "blank"
  <2> HIDE DEF k
  <2> QED
    <3>1. Trim(k) = <<>>
      BY DEF k, s, t
    <3> QED
      BY <1>5, <1>7, <3>1, TrimIs
<1>9. ASSUME buf # <<>>
      PROVE  FALSE
  <2>1. /\ Len(buf) >= 1 /\ buf[1] \in 1 .. Len(ty)
        /\ \A i \in 1 .. Len(buf) : ty[buf[i]] # Interrupt
    BY <1>1, <1>9, BufferIs
  <2>2. ty[buf[1]].form = "blank"
    BY <1>3, <1>4, <1>8, <1>9, <2>1
  <2>3. ty[buf[1]] \in Lines
    <3> DEFINE S == Typed
    <3>1. ty \in Seq(S)
      BY <1>1
    <3> HIDE DEF S
    <3>2. ty[buf[1]] \in S
      BY <2>1, <3>1
    <3>3. 1 \in 1 .. Len(buf)
      BY <1>3, <2>1
    <3> QED
      BY <2>1, <3>2, <3>3 DEF S, Typed
  <2>4. ty[buf[1]].parens = 0
    BY <2>2, <2>3, LineIs
  <2> DEFINE o == SourceOf(ty, buf)
  <2>5. Len(o) = Len(buf) /\ o[1] = ty[buf[1]]
    <3>1. DOMAIN buf = 1 .. Len(buf) /\ 1 \in DOMAIN buf
      BY <1>1, <1>3, <2>1
    <3> QED
      BY <1>3, <3>1 DEF SourceOf
  <2>6. OpenOf(ty, buf, 1)
    <3>1. 1 \in 1 .. Len(buf)
      BY <1>3, <2>1
    <3> QED
      BY <1>1, <1>9, <3>1 DEF Waits
  <2>7. Opened(o, 1) > 0
    BY <2>6 DEF OpenOf
  <2> HIDE DEF o
  <2>8. Opened(o, 0) = 0 /\ Opened(o, 1) = Opened(o, 1 - 1) + o[1].parens
    BY <1>3, <2>1, <2>5, OpenedIs
  <2> QED
    BY <2>4, <2>5, <2>7, <2>8
<1>10. l.form = "blank"
  <2>1. buf = <<>>
    BY <1>9
  <2>2. Len(s) = 1 /\ s[1] = Len(ty) + 1
    BY <1>4, <2>1
  <2> QED
    BY <1>3, <1>8, <2>2
<1> QED
  <2>1. Loop(ty, <<>>, d, sub, "prompt")
    BY <1>9
  <2>2. l.form \in {"blank", "note"} \/ (l.form = "quit" /\ "prompt" = "ok")
    BY <1>10
  <2> QED
    BY <1>10, <2>1, <2>2, LoopSkip

LEMMA LoopInitial ==
  Init => LoopInv
<1> SUFFICES ASSUME Init, mode = "repl"
             PROVE  Loop(typed, buffer, depth, submitted, pc)
  BY DEF LoopInv
<1>1. typed = <<>> /\ buffer = <<>> /\ depth = 0 /\ submitted = <<>>
  BY DEF Init
<1>2. Loop(<<>>, <<>>, 0, <<>>, pc)
  BY DEF Loop, Waits, Completed
<1> QED
  BY <1>1, <1>2

LEMMA LoopKept ==
  ASSUME LoopInv, UNCHANGED <<mode, loop>>, pc' = pc \/ pc # "ok"
  PROVE  LoopInv'
<1> SUFFICES ASSUME mode = "repl"
             PROVE  Loop(typed, buffer, depth, submitted, pc')
  BY DEF LoopInv, loop
<1>1. Loop(typed, buffer, depth, submitted, pc)
  BY DEF LoopInv
<1> QED
  BY <1>1, LoopAt

LEMMA LoopStep ==
  LoopInv /\ [Next]_vars => LoopInv'
<1> SUFFICES ASSUME LoopInv, [Next]_vars
             PROVE  LoopInv'
  OBVIOUS
<1>1. ASSUME NEW l \in Lines, Quit(l)
      PROVE  LoopInv'
  <2> SUFFICES ASSUME mode = "repl"
               PROVE  LoopInv'
    BY <1>1 DEF LoopInv, Quit
  <2>1. /\ Loop(typed, buffer, depth, submitted, "prompt") /\ buffer = <<>>
        /\ typed' = Append(typed, l) /\ UNCHANGED <<buffer, depth, submitted>>
        /\ pc' = "ok" /\ l.form = "quit"
    BY <1>1 DEF LoopInv, Quit, AtStart, Type
  <2>2. Loop(typed', <<>>, 0, submitted, "ok")
    BY <2>1, LoopSkip
  <2>3. depth = 0
    BY <2>1 DEF Loop, Waits
  <2> QED
    BY <2>1, <2>2, <2>3 DEF LoopInv
<1>2. ASSUME NEW l \in Lines, Note(l)
      PROVE  LoopInv'
  <2> SUFFICES ASSUME mode = "repl"
               PROVE  LoopInv'
    BY <1>2 DEF LoopInv, Note
  <2>1. /\ Loop(typed, buffer, depth, submitted, "prompt") /\ buffer = <<>>
        /\ typed' = Append(typed, l) /\ UNCHANGED <<buffer, depth, submitted>>
        /\ pc' = "prompt" /\ l.form = "note"
    BY <1>2 DEF LoopInv, Note, AtStart, Type
  <2>2. Loop(typed, <<>>, depth, submitted, "prompt")
    BY <2>1
  <2>4. Loop(Append(typed, l), <<>>, 0, submitted, "prompt")
    <3>1. l.form \in {"blank", "note"} \/ (l.form = "quit" /\ "prompt" = "ok")
      BY <2>1
    <3> QED
      BY <2>2, <3>1, LoopSkip
  <2>3. depth = 0
    BY <2>1 DEF Loop, Waits
  <2> QED
    BY <2>1, <2>3, <2>4 DEF LoopInv
<1>3. ASSUME NEW l \in Lines, Continue(l)
      PROVE  LoopInv'
  <2> SUFFICES ASSUME mode = "repl"
               PROVE  LoopInv'
    BY <1>3 DEF LoopInv, Continue, Collected
  <2>1. /\ Loop(typed, buffer, depth, submitted, "prompt") /\ ~ Starts(buffer, l)
        /\ typed' = Append(typed, l) /\ buffer' = Append(buffer, Len(typed) + 1)
        /\ depth' = depth + l.parens /\ submitted' = submitted /\ pc' = "prompt"
    BY <1>3 DEF LoopInv, Continue, Collected, AtStart, Starts, Type, Counted
  <2>2. depth + l.parens > 0
    <3>1. depth \in Int /\ l.parens \in Int
      BY <2>1, LineIs DEF Loop
    <3> QED
      BY <1>3, <3>1 DEF Continue, Closed, Counted
  <2>3. Loop(typed', buffer', depth', submitted, "prompt")
    BY <2>1, <2>2, LoopContinue
  <2> QED
    BY <2>1, <2>3 DEF LoopInv
<1>4. ASSUME NEW l \in Lines, Complete(l)
      PROVE  LoopInv'
  <2> SUFFICES ASSUME mode = "repl"
               PROVE  LoopInv'
    BY <1>4 DEF LoopInv, Complete, Collected
  <2> DEFINE source == Append(buffer, Len(typed) + 1)
             lines == [i \in DOMAIN source |-> typed'[source[i]]]
  <2>1. /\ Loop(typed, buffer, depth, submitted, "prompt") /\ ~ Starts(buffer, l)
        /\ typed' = Append(typed, l) /\ buffer' = <<>> /\ depth' = 0
    BY <1>4 DEF LoopInv, Complete, Collected, AtStart, Starts, Type, AfterClose
  <2>2. lines = SourceOf(Append(typed, l), source)
    BY <2>1 DEF SourceOf
  <2>3. ASSUME Trim(lines) = <<>>
        PROVE  LoopInv'
    <3>1. UNCHANGED <<pc, submitted>> /\ pc = "prompt"
      BY <1>4, <2>3 DEF Complete, Collected, Type
    <3>2. Loop(typed', <<>>, 0, submitted, "prompt")
      BY <2>1, <2>2, <2>3, LoopBlank
    <3> QED
      BY <2>1, <3>1, <3>2 DEF LoopInv
  <2>4. ASSUME Trim(lines) # <<>>
        PROVE  LoopInv'
    <3>1. submitted' = Append(submitted, source) /\ pc' = "eval"
      BY <1>4, <2>4 DEF Complete
    <3>2. ~ (depth + l.parens > 0)
      <4>1. depth \in Int /\ l.parens \in Int
        BY <2>1, LineIs DEF Loop
      <4> QED
        BY <1>4, <4>1 DEF Complete, Closed, Counted
    <3>3. Loop(typed', <<>>, 0, submitted', "eval")
      BY <2>1, <3>1, <3>2, LoopSubmit
    <3> QED
      BY <2>1, <3>1, <3>3 DEF LoopInv
  <2> QED
    BY <2>3, <2>4
<1>5. ASSUME CtrlC
      PROVE  LoopInv'
  <2> SUFFICES ASSUME mode = "repl"
               PROVE  LoopInv'
    BY <1>5 DEF LoopInv, CtrlC
  <2>1. /\ Loop(typed, buffer, depth, submitted, "prompt")
        /\ typed' = Append(typed, Interrupt) /\ buffer' = <<>> /\ depth' = 0
        /\ submitted' = submitted /\ pc' = "prompt"
    BY <1>5 DEF LoopInv, CtrlC, AfterInterrupt
  <2>2. Loop(typed', <<>>, 0, submitted, "prompt")
    BY <2>1, LoopCut
  <2> QED
    BY <2>1, <2>2 DEF LoopInv
<1>6. ASSUME Eof
      PROVE  LoopInv'
  <2> SUFFICES ASSUME mode = "repl"
               PROVE  LoopInv'
    BY <1>6 DEF LoopInv, Eof
  <2>1. /\ Loop(typed, buffer, depth, submitted, "prompt")
        /\ UNCHANGED <<typed, buffer, depth, submitted>>
    BY <1>6 DEF LoopInv, Eof
  <2> QED
    BY <2>1, LoopAt DEF LoopInv
<1>7. ASSUME Evaluation
      PROVE  UNCHANGED <<mode, loop>> /\ pc # "ok"
  BY <1>7 DEF Evaluation, LocalEval, LocalDisplay, LocalFinish
<1>8. ASSUME Client
      PROVE  UNCHANGED <<mode, loop>> /\ pc # "ok"
  BY <1>8 DEF Client, WriteRequest, WriteFails, ReadDisplay, ReadResult, ReadOther,
              ReadTooLarge, ReadJunk, JunkBlocks, JunkFills, ReadFails, Reading,
              AskDaemon, ReadReply, NoReply
<1>9. ASSUME Daemon \/ Loses
      PROVE  UNCHANGED <<mode, loop>> /\ pc' = pc
  BY <1>9 DEF Daemon, Loses
<1>10. ASSUME UNCHANGED vars
       PROVE  UNCHANGED <<mode, loop>> /\ pc' = pc
  BY <1>10 DEF vars
<1> QED
  BY <1>1, <1>2, <1>3, <1>4, <1>5, <1>6, <1>7, <1>8, <1>9, <1>10, LoopKept DEF Next, User

\* The loop's buffer, its count and what it has submitted fit what was typed:
\* what waits is the open end of it, each submission is one whole expression
\* from before, and every line has its place.  (run_repl)
THEOREM LoopInvariant ==
  Spec => []LoopInv
<1> QED
  BY LoopInitial, LoopStep, PTL DEF Spec

\* What is submitted is exactly one expression's lines, complete after the last
\* of them and after none before it, and what waits is open all along, whatever
\* is typed and interrupted before.  (run_repl, with the resets of its count)
THEOREM SubmitsWholeExpressionsHolds ==
  Spec => []SubmitsWholeExpressions
<1>1. LoopInv => SubmitsWholeExpressions
  <2> SUFFICES ASSUME LoopInv, mode = "repl"
               PROVE  SubmitsWholeExpressions
    BY DEF SubmitsWholeExpressions
  <2>1. /\ Waits(typed, buffer, depth) /\ Completed(typed, buffer, submitted)
    BY DEF LoopInv, Loop
  <2>2. \A s : /\ StretchOf(typed, s) <=> Stretch(s)
               /\ \A n : OpenOf(typed, s, n) <=> OpenAfter(s, n)
    BY DEF StretchOf, Stretch, OpenOf, OpenAfter, SourceOf, Source
  <2>3. ASSUME NEW k \in 1 .. Len(submitted)
        PROVE  /\ Stretch(submitted[k])
               /\ \A n \in 1 .. Len(submitted[k]) - 1 : OpenAfter(submitted[k], n)
               /\ ~ OpenAfter(submitted[k], Len(submitted[k]))
               /\ k > 1 => Last(submitted[k - 1]) < Head(submitted[k])
    <3>1. Expression(typed, buffer, submitted[k])
      BY <2>1 DEF Completed
    <3>2. k > 1 => Last(submitted[k - 1]) < Head(submitted[k])
      BY <2>1 DEF Completed
    <3> QED
      BY <2>2, <3>1, <3>2 DEF Expression
  <2>4. buffer # <<>> => /\ Stretch(buffer)
                         /\ \A n \in 1 .. Len(buffer) : OpenAfter(buffer, n)
    BY <2>1, <2>2 DEF Waits
  <2> QED
    BY <2>3, <2>4 DEF SubmitsWholeExpressions
<1> QED
  BY <1>1, LoopInvariant, PTL

\* Every line typed is submitted, waits, was taken back by an interrupt in the
\* same open expression, or is no part of one.  (run_repl, with the reset of
\* buffer and depth)
THEOREM NothingTypedIsLostHolds ==
  Spec => []NothingTypedIsLost
<1>1. LoopInv => NothingTypedIsLost
  <2> SUFFICES ASSUME LoopInv, mode = "repl", NEW p \in Positions
               PROVE  Accounted(typed, buffer, submitted, pc, p)
                         => \/ InSubmission(p)
                            \/ \E i \in 1 .. Len(buffer) : buffer[i] = p
                            \/ Interrupted(p)
                            \/ typed[p] = Interrupt \/ typed[p].form \in {"blank", "note"}
                            \/ /\ typed[p].form = "quit" /\ p = Len(typed) /\ pc = "ok"
                               /\ buffer = <<>>
    BY DEF NothingTypedIsLost, LoopInv, Loop, Positions
  <2>1. \A s : /\ StretchOf(typed, s) <=> Stretch(s)
               /\ \A n : OpenOf(typed, s, n) <=> OpenAfter(s, n)
    BY DEF StretchOf, Stretch, OpenOf, OpenAfter, SourceOf, Source
  <2>2. \A r : InSub(submitted, r) <=> InSubmission(r)
    BY DEF InSub, InSubmission
  <2>3. Cut(typed, submitted, p) <=> Interrupted(p)
    BY <2>1, <2>2 DEF Cut, Interrupted
  <2> QED
    BY <2>2, <2>3 DEF Accounted
<1> QED
  BY <1>1, LoopInvariant, PTL

=============================================================================
