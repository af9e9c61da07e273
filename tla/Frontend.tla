------------------------------ MODULE Frontend ------------------------------
(***************************************************************************)
(* The zscheme front end: the read-eval-print loop (repl.rs), scripts       *)
(* (executor.rs), the commands reset, save and stop, and the client they    *)
(* submit source through (client.rs, read_frame of ipc.rs).                 *)
(*                                                                          *)
(* The loop collects lines until their parentheses balance and hands the    *)
(* source to an evaluator, in this process or behind the connection.  The   *)
(* daemon is EvalService, what Daemon implements; between it and this       *)
(* process stand the requests not yet taken and the frames not yet read.    *)
(*                                                                          *)
(* A line is what the loop distinguishes of it: its form and its balance of *)
(* parentheses.  Source is a sequence of positions in what was typed.       *)
(***************************************************************************)
EXTENDS Integers, Sequences, FiniteSetsExt, SequencesExt

CONSTANTS
    Me,          \* this front end, as a client of the daemon
    Lines,       \* what may be typed: [form, parens]
    Scripts,     \* the scripts that may be run, sequences of Lines
    Backends,    \* a subset of {"daemon", "local"}
    MaxTyped,    \* bound: lines and interrupts typed
    MaxDisplays, \* bound: displays the daemon sends, and of a local evaluation
    MaxJunk      \* bound: reads the body of a refused frame is taken for

\* form: blank, a note (comment line), a quit word, a dot path, a shebang or
\* other code; parens: opened less closed, comments stripped.
Forms == {"blank", "note", "quit", "dot", "shebang", "code"}
Interrupt == [form |-> "interrupt", parens |-> 0]

ASSUME FrontendAssumption ==
    /\ Lines \subseteq [form : Forms, parens : Int]
    /\ \A l \in Lines : l.form = "blank" => l.parens = 0
    /\ Scripts \subseteq Seq(Lines)
    /\ Backends \subseteq {"daemon", "local"}
    /\ MaxTyped \in Nat /\ MaxDisplays \in Nat /\ MaxJunk \in Nat \ {0}

VARIABLES
    mode,        \* "repl", "script", or a command
    backend,     \* whether a daemon evaluates, or this process
    pc,          \* where the front end is
    \* the loop
    typed,       \* history: the lines and interrupts typed; the script
    buffer,      \* the positions of the lines collected
    depth,       \* the open parentheses counted
    history,     \* readline history, positions
    history_file, \* ... as last saved
    submitted,   \* history: the sources handed to the evaluator
    \* the client
    next_id,
    dangling_output,
    midline,     \* the cursor stands behind output, not at a line's start
    shown,       \* what the running evaluation has printed: [what, id]
    ended,       \* history: ids of the evaluations that got an outcome
    \* the connection
    link,        \* "up" or "down"
    requests,    \* ids written, not taken by the daemon yet; 0 for a command
    read,        \* frames read
    junk,        \* reads that meet the body of a refused frame
    \* the daemon
    queue, running, output, left

loop == <<typed, buffer, depth, history, history_file, submitted>>
client == <<next_id, dangling_output, midline, shown, ended>>
stream == <<link, requests, read, junk>>
daemon == <<queue, running, output, left>>
vars == <<mode, backend, pc, loop, client, stream, daemon>>

\* Evaluation ids are positions in submitted: there are at most MaxTyped + 1.
Service == INSTANCE EvalService WITH Clients <- {Me}, MaxReqs <- MaxTyped + 1

-----------------------------------------------------------------------------
Commands == {"reset", "save", "stop"}
Modes == {"repl", "script"} \cup Commands
Running == {"prompt", "eval", "local", "read", "blocked", "ask", "await"}
Ended == {"ok", "failed"}

Source(s) == [i \in DOMAIN s |-> typed[s[i]]]

\* strip_shebang: a first line "#!..." is not part of the source.
StripShebang(s) ==
    IF s # <<>> /\ Head(s).form = "shebang" THEN 2 ELSE 1

\* The source without the blank lines at its ends.
Trim(s) ==
    LET full == {i \in DOMAIN s : s[i].form # "blank"}
    IN IF full = {} THEN <<>> ELSE SubSeq(s, Min(full), Max(full))

\* A dot path alone on its line goes to the host's dot grammar.
IsDotCommandLine(s) == Len(Trim(s)) = 1 /\ Trim(s)[1].form = "dot"

\* Whether evaluation i is one.  A script run in this process never is: it is
\* evaluated as Scheme source whatever it holds.
IsDotLine(i) ==
    /\ ~(backend = "local" /\ mode = "script")
    /\ IsDotCommandLine(Source(submitted[i]))

(* Faulty variants of the helpers below: no action uses them.               *)

DepthKept == depth
QuitAnywhere == TRUE
AnyFrame(f) == TRUE
EmptyIsLine(text) == text = "text"
NeverAtEof == FALSE

\* strip_comments, then count.
Counted(l) == l.parens

\* A complete expression ends the count: negative depths do not carry over.
Closed(d) == d <= 0
AfterClose == 0

\* What Ctrl-C makes of the count.
AfterInterrupt == 0

\* The quit words count only where an expression may start.
AtStart == buffer = <<>>

\* The evaluation the client waits for, and the frames that are about it.
Current == next_id - 1
IsMine(f) == f.id = Current

\* Output leaves the cursor where its text ends.
Texts == {"", "text", "line"}
Cursor(text, before) == IF text = "" THEN before ELSE text = "text"
Dangling(text) == Cursor(text, dangling_output)

\* The frames the daemon has sent here.
Frames == output[Me]

\* read_frame meets the end of the connection.
AtEof == link = "down"

-----------------------------------------------------------------------------
\* A script's source is all of it but the shebang line; a command has none.
Init ==
    /\ backend \in Backends
    /\ mode \in IF backend = "daemon" THEN Modes ELSE {"repl", "script"}
    /\ typed \in IF mode = "script" THEN Scripts ELSE {<<>>}
    /\ pc = CASE mode = "repl" -> "prompt"
              [] mode = "script" -> "eval"
              [] OTHER -> "ask"
    /\ submitted = IF mode # "script" THEN <<>>
                   ELSE LET first == StripShebang(typed)
                        IN <<[i \in 1 .. Len(typed) - first + 1
                                |-> i + first - 1]>>
    /\ buffer = <<>> /\ depth = 0 /\ history = <<>> /\ history_file = <<>>
    /\ next_id = 1 /\ dangling_output = FALSE /\ midline = FALSE
    /\ shown = <<>> /\ ended = {}
    /\ link = "up" /\ requests = <<>> /\ read = 0 /\ junk = 0
    /\ Service!Init

-----------------------------------------------------------------------------
(* The loop: one action per way a line can go.                              *)

\* A line is read; it enters the history where an expression starts.
Type(l) ==
    /\ pc = "prompt" /\ Len(typed) < MaxTyped
    /\ typed' = Append(typed, l)
    /\ history' = IF AtStart /\ l.form # "blank"
                  THEN Append(history, Len(typed) + 1) ELSE history

Quit(l) ==
    /\ l.form = "quit" /\ AtStart
    /\ Type(l)
    /\ history_file' = history'
    /\ pc' = "ok"
    /\ UNCHANGED <<mode, backend, buffer, depth, submitted, client, stream,
                   daemon>>

Note(l) ==
    /\ l.form = "note" /\ AtStart
    /\ Type(l)
    /\ UNCHANGED <<mode, backend, pc, buffer, depth, history_file, submitted,
                   client, stream, daemon>>

\* Any other line is collected.
Collected(l) ==
    /\ ~(AtStart /\ l.form \in {"quit", "note"})
    /\ Type(l)
    /\ UNCHANGED <<mode, backend, history_file, client, stream, daemon>>

Continue(l) ==
    /\ Collected(l)
    /\ ~Closed(depth + Counted(l))
    /\ depth' = depth + Counted(l)
    /\ buffer' = Append(buffer, Len(typed) + 1)
    /\ UNCHANGED <<pc, submitted>>

\* The parentheses balance: the source, unless it is blank, is evaluated.
Complete(l) ==
    LET source == Append(buffer, Len(typed) + 1)
        lines == [i \in DOMAIN source |-> typed'[source[i]]]
    IN /\ Collected(l)
       /\ Closed(depth + Counted(l))
       /\ depth' = AfterClose
       /\ buffer' = <<>>
       /\ IF Trim(lines) = <<>>
          THEN UNCHANGED <<pc, submitted>>
          ELSE /\ submitted' = Append(submitted, source)
               /\ pc' = "eval"

CtrlC ==
    /\ pc = "prompt" /\ Len(typed) < MaxTyped
    /\ typed' = Append(typed, Interrupt)
    /\ buffer' = <<>>
    /\ depth' = AfterInterrupt
    /\ UNCHANGED <<mode, backend, pc, history, history_file, submitted,
                   client, stream, daemon>>

\* End of file, or a readline error.
Eof ==
    /\ pc = "prompt"
    /\ history_file' = history
    /\ pc' = "ok"
    /\ UNCHANGED <<mode, backend, typed, buffer, depth, history, submitted,
                   client, stream, daemon>>

-----------------------------------------------------------------------------
(* How an evaluation ends.                                                  *)

\* A script prints errors only; the loop prints what there is and goes on.
Outcomes == {"nil", "value", "error"}
Printed(what) == IF mode = "script" THEN what = "error" ELSE what # "nil"

Finish(what, id) ==
    /\ shown' = IF Printed(what)
                THEN Append(shown, [what |-> what, id |-> id]) ELSE shown
    /\ midline' = (midline /\ ~Printed(what)
                     /\ ~(mode = "repl" /\ dangling_output))
    /\ dangling_output' = (dangling_output /\ mode = "script")
    /\ pc' = IF mode = "repl" THEN "prompt"
             ELSE IF what = "error" THEN "failed" ELSE "ok"

\* In this process: output goes straight to the terminal.
LocalEval ==
    /\ pc = "eval" /\ backend = "local"
    /\ next_id' = next_id + 1
    /\ shown' = <<>>
    /\ pc' = "local"
    /\ UNCHANGED <<mode, backend, loop, dangling_output, midline, ended,
                   stream, daemon>>

LocalDisplay ==
    /\ pc = "local" /\ ~IsDotLine(Current) /\ Len(shown) < MaxDisplays
    /\ \E text \in Texts : midline' = Cursor(text, midline)
    /\ shown' = Append(shown, [what |-> "display", id |-> Current])
    /\ UNCHANGED <<mode, backend, pc, loop, next_id, dangling_output, ended,
                   stream, daemon>>

LocalFinish ==
    /\ pc = "local"
    /\ \E what \in Outcomes : Finish(what, Current)
    /\ ended' = ended \cup {Current}
    /\ UNCHANGED <<mode, backend, loop, next_id, stream, daemon>>

-----------------------------------------------------------------------------
(* Through the daemon.                                                      *)

IpcError ==
    /\ Finish("error", Current)
    /\ UNCHANGED ended

\* DaemonClient::eval takes an id and writes the request; on a connection
\* that is down the write may succeed or fail.
WriteRequest ==
    /\ pc = "eval" /\ backend = "daemon"
    /\ next_id' = next_id + 1
    /\ dangling_output' = FALSE
    /\ shown' = <<>>
    /\ requests' = Append(requests, next_id)
    /\ pc' = "read"
    /\ UNCHANGED <<mode, backend, loop, midline, ended, link, read, junk,
                   daemon>>

WriteFails ==
    /\ pc = "eval" /\ backend = "daemon" /\ link = "down"
    /\ next_id' = next_id + 1
    /\ dangling_output' = FALSE
    /\ shown' = <<[what |-> "error", id |-> next_id]>>
    /\ midline' = FALSE
    /\ pc' = IF mode = "repl" THEN "prompt" ELSE "failed"
    /\ UNCHANGED <<mode, backend, loop, ended, stream, daemon>>

Reading == pc = "read" /\ read < Len(Frames) /\ junk = 0
NextFrame == Frames[read + 1]

ReadDisplay ==
    /\ Reading /\ NextFrame.type = "Display" /\ IsMine(NextFrame)
    /\ read' = read + 1
    /\ \E text \in Texts : /\ midline' = Cursor(text, midline)
                           /\ dangling_output' = Dangling(text)
    /\ shown' = Append(shown, [what |-> "display", id |-> NextFrame.id])
    /\ UNCHANGED <<mode, backend, pc, loop, next_id, ended, link, requests,
                   junk, daemon>>

ReadResult ==
    /\ Reading /\ NextFrame.type = "EvalResult" /\ IsMine(NextFrame)
    /\ read' = read + 1
    /\ \E what \in Outcomes : Finish(what, NextFrame.id)
    /\ ended' = ended \cup {Current}
    /\ UNCHANGED <<mode, backend, loop, next_id, link, requests, junk, daemon>>

\* A frame of an earlier evaluation that was given up.
ReadOther ==
    /\ Reading /\ ~IsMine(NextFrame)
    /\ read' = read + 1
    /\ UNCHANGED <<mode, backend, pc, loop, client, link, requests, junk,
                   daemon>>

\* A frame over the limit: read_frame has consumed its length only, and what
\* follows on the stream is its body.
ReadTooLarge ==
    /\ Reading
    /\ read' = read + 1
    /\ junk' \in 1 .. MaxJunk
    /\ IpcError
    /\ UNCHANGED <<mode, backend, loop, next_id, link, requests, daemon>>

\* Part of a body taken for a frame: over the limit or no CBOR ...
ReadJunk ==
    /\ pc = "read" /\ junk > 0
    /\ junk' = junk - 1
    /\ IpcError
    /\ UNCHANGED <<mode, backend, loop, next_id, link, requests, read, daemon>>

\* ... or a length that more bytes are waited for ...
JunkBlocks ==
    /\ pc = "read" /\ junk > 0
    /\ pc' = "blocked"
    /\ UNCHANGED <<mode, backend, loop, client, stream, daemon>>

\* ... and found in later frames; what they leave over is read next.
JunkFills ==
    /\ pc = "blocked" /\ read < Len(Frames)
    /\ read' \in read + 1 .. Len(Frames)
    /\ junk' \in 0 .. MaxJunk
    /\ IpcError
    /\ UNCHANGED <<mode, backend, loop, next_id, link, requests, daemon>>

\* End of the connection, between frames or inside one.
ReadFails ==
    /\ pc \in {"read", "blocked"} /\ AtEof
    /\ read' = Len(Frames) /\ junk' = 0
    /\ IpcError
    /\ UNCHANGED <<mode, backend, loop, next_id, link, requests, daemon>>

\* reset, save and stop write one request, which may fail on a connection
\* that is down, ...
AskDaemon ==
    /\ pc = "ask"
    /\ \/ pc' = "await" /\ requests' = Append(requests, 0)
       \/ AtEof /\ pc' = "failed" /\ UNCHANGED requests
    /\ UNCHANGED <<mode, backend, loop, client, link, read, junk, daemon>>

\* ... and read its reply, ResetDone, EnvDump or Stopping.  The dump may be
\* over the limit of a frame, or its file not be written.
ReadReply ==
    /\ pc = "await" /\ read < Len(Frames) /\ NextFrame.type = "Other"
    /\ read' = read + 1
    /\ pc' \in IF mode = "save" THEN Ended ELSE {"ok"}
    /\ UNCHANGED <<mode, backend, loop, client, link, requests, junk, daemon>>

\* The end of the connection is as good as Stopping for stop, unless reading
\* fails.
NoReply ==
    /\ pc = "await" /\ AtEof
    /\ pc' \in IF mode = "stop" THEN Ended ELSE {"failed"}
    /\ UNCHANGED <<mode, backend, loop, client, stream, daemon>>

-----------------------------------------------------------------------------
(* The daemon and the connection (external).                                *)

Take ==
    /\ requests # <<>> /\ Head(requests) # 0
    /\ requests' = Tail(requests)
    /\ Service!Submit([to |-> Me, id |-> Head(requests)])
    /\ UNCHANGED <<link, read, junk>>

Reply ==
    /\ requests # <<>> /\ Head(requests) = 0
    /\ requests' = Tail(requests)
    /\ Service!Respond(Me)
    /\ UNCHANGED <<link, read, junk>>

Displayed == Len(SelectSeq(Frames, LAMBDA f : f.type = "Display"))

Show ==
    /\ queue # <<>> /\ ~IsDotLine(Head(queue).id)
    /\ Displayed < MaxDisplays
    /\ Service!Show
    /\ UNCHANGED stream

Begin == Service!Begin /\ UNCHANGED stream
Answer == Service!Answer /\ UNCHANGED stream

\* The daemon stops or dies, or is replaced.
Close ==
    /\ link' = "down"
    /\ Service!Leave(Me)
    /\ UNCHANGED <<requests, read, junk>>

Daemon ==
    /\ backend = "daemon" /\ link = "up"
    /\ Take \/ Reply \/ Show \/ Begin \/ Answer
    /\ UNCHANGED <<mode, backend, pc, loop, client>>

Loses ==
    /\ backend = "daemon" /\ link = "up"
    /\ Close
    /\ UNCHANGED <<mode, backend, pc, loop, client>>

-----------------------------------------------------------------------------
User ==
    \/ \E l \in Lines :
          \/ Quit(l)
          \/ Note(l)
          \/ Continue(l)
          \/ Complete(l)
    \/ CtrlC
    \/ Eof

Evaluation ==
    \/ LocalEval
    \/ LocalDisplay
    \/ LocalFinish

Client ==
    \/ WriteRequest
    \/ WriteFails
    \/ ReadDisplay
    \/ ReadResult
    \/ ReadOther
    \/ ReadTooLarge
    \/ ReadJunk
    \/ JunkBlocks
    \/ JunkFills
    \/ ReadFails
    \/ AskDaemon
    \/ ReadReply
    \/ NoReply

Next == User \/ Evaluation \/ Client \/ Daemon \/ Loses

Spec == Init /\ [][Next]_vars

\* The process runs, and the daemon takes the requests of a connection that
\* is up.  Neither an evaluation in the daemon nor one in this process need
\* end: it may call an actor that never replies.  The user need not type.
DaemonTakes == Daemon /\ requests' # requests

FairSpec ==
    /\ Spec
    /\ WF_vars(LocalEval)
    /\ WF_vars(Client)
    /\ WF_vars(DaemonTakes)

-----------------------------------------------------------------------------
(* Properties.                                                              *)

Positions == 1 .. Len(typed)
Shown == [what : {"display"} \cup Outcomes, id : 1 .. Len(submitted)]

\* Every variable has its type; ids follow the submissions.
TypeOK ==
    /\ mode \in Modes /\ backend \in Backends /\ pc \in Running \cup Ended
    /\ typed \in Seq(Lines \cup {Interrupt})
    /\ buffer \in Seq(Positions) /\ depth \in Nat
    /\ history \in Seq(Positions) /\ history_file \in Seq(Positions)
    /\ submitted \in Seq(Seq(Positions))
    /\ next_id \in {Len(submitted), Len(submitted) + 1}
    /\ {dangling_output, midline} \subseteq BOOLEAN
    /\ shown \in Seq(Shown) /\ ended \subseteq 1 .. Len(submitted)
    /\ link \in {"up", "down"} /\ requests \in Seq(0 .. Len(submitted))
    /\ read \in 0 .. Len(Frames) /\ junk \in 0 .. MaxJunk

\* The parentheses open after the first n of the lines.
Opened(lines, n) ==
    LET open[i \in 0 .. Len(lines)] ==
            IF i = 0 THEN 0 ELSE open[i - 1] + lines[i].parens
    IN  open[n]

\* An expression of the lines at positions s is still open after its n-th.
OpenAfter(s, n) == Opened(Source(s), n) > 0

\* The positions s are one stretch of what was typed, without an interrupt and
\* not beginning with a note or a quit word.
Stretch(s) ==
    /\ \A i \in 1 .. Len(s) : s[i] = s[1] + i - 1 /\ typed[s[i]] # Interrupt
    /\ typed[s[1]].form \notin {"note", "quit"}

\* What is submitted is exactly one expression's lines: everything since the
\* expression began and nothing from before, complete after the last of them
\* and after none before it, counting no parenthesis of a comment; what waits
\* in the buffer is open all along.
\* (run_repl: "Multi-line expressions are buffered until parentheses
\* balance"; the count survives neither an interrupt nor a surplus.)
SubmitsWholeExpressions ==
    mode = "repl" =>
       /\ \A k \in 1 .. Len(submitted) :
             LET s == submitted[k] IN
             /\ Stretch(s)
             /\ \A n \in 1 .. Len(s) - 1 : OpenAfter(s, n)
             /\ ~OpenAfter(s, Len(s))
             /\ k > 1 => Last(submitted[k - 1]) < Head(s)
       /\ buffer # <<>> =>
             /\ Stretch(buffer)
             /\ \A n \in 1 .. Len(buffer) : OpenAfter(buffer, n)

\* No line is lost on the way: every line typed is submitted, waits in the
\* buffer, was taken back by an interrupt that followed it in the same open
\* expression, or is a blank or a note between expressions or the quit word
\* that ended the session with no expression open (end of file may leave one).
\* (run_repl, with the reset of buffer and depth.)
InSubmission(p) ==
    \E k \in 1 .. Len(submitted) :
       \E i \in 1 .. Len(submitted[k]) : submitted[k][i] = p
Interrupted(p) ==
    \E q \in p + 1 .. Len(typed) : \E b \in 1 .. p :
       /\ typed[q] = Interrupt
       /\ LET s == [i \in 1 .. q - b |-> b + i - 1] IN
          /\ Stretch(s)
          /\ \A n \in 1 .. Len(s) : OpenAfter(s, n)
          /\ \A r \in b .. q : ~InSubmission(r)
NothingTypedIsLost ==
    mode = "repl" =>
       \A p \in Positions :
          \/ InSubmission(p)
          \/ \E i \in 1 .. Len(buffer) : buffer[i] = p
          \/ Interrupted(p)
          \/ typed[p] = Interrupt \/ typed[p].form \in {"blank", "note"}
          \/ /\ typed[p].form = "quit" /\ p = Len(typed) /\ pc = "ok"
             /\ buffer = <<>>

\* What is printed during an evaluation is that evaluation's own, and an
\* evaluation that ends in a value, nil or an error of its own has read its
\* own result, however many earlier ones were given up with frames still to
\* come, and whatever the connection did.
\* (DaemonClient::eval, read_frame.)
AnswersItsOwn ==
    /\ \A i \in 1 .. Len(shown) : shown[i].id = Current
    /\ backend = "daemon" =>
          \A id \in ended :
             \E i \in 1 .. read : Frames[i] = [type |-> "EvalResult", id |-> id]

\* The prompt of a front end never stands behind an evaluation's output.
\* (ClientEval::eval: it "would otherwise be overwritten by the next readline
\* prompt redraw"; the in-process evaluator has no such care.)
PromptOnItsOwnLine ==
    backend = "daemon" /\ pc = "prompt" => ~midline

\* No evaluation goes on for ever, in the daemon while it lives or in this
\* process.  The code does not give this: do_actor_call has no timeout.  Of the
\* daemon it is what EvalsAnswered of Daemon says under CallsReturn.
EvaluationsReturn ==
    /\ []<>(queue = <<>> \/ link = "down")
    /\ []<>(pc # "local")

\* If so, the loop comes back to the prompt, and scripts and commands end, also
\* when the daemon goes away in the middle of an evaluation, before it takes
\* the request or before it replies; a read that a refused frame has left
\* waiting inside a body ends at the latest with the connection.
\* (DaemonClient::eval, run_repl, stop, reset and save.)
EvaluationsEnd ==
    EvaluationsReturn =>
       (pc \in Running \ {"prompt"} ~>
          \/ pc \in {"prompt"} \cup Ended
          \/ pc = "blocked" /\ link = "up")
=============================================================================
