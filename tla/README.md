# A TLA+ model of zscheme

`zscheme` is a Scheme frontend for the ma actor network. A thin client (or
Emacs) submits source to a per-user daemon over a Unix socket; the daemon owns
the user's one network identity, evaluates the source, and sends messages to
remote actors. On top of the evaluator a Scheme library (`lib/*.zscheme`) plays
the user's avatar: walking between rooms, taking, giving and wielding things,
following what the world reports.

This directory holds TLA+ modules translated from that code, the TLC
configurations that check them on small instances, and TLAPS proofs of the
properties that matter most for every value of the constants.

## Inventory

| Component | Source | State it keeps | Operations | What is hard |
|---|---|---|---|---|
| Daemon service loop | `src/daemon.rs` | evaluation lock, display sink, per-connection channel and writer, isolated environments, stop notification | accept, Hello, Ping, Eval, Reset, DumpEnv, Stop, shutdown | evaluations suspend at awaits while other handlers run; Reset, DumpEnv and the shutdown image do not take the lock; clients vanish mid-evaluation |
| Actor-call transport | `src/context.rs` | endpoint lock, reply channels, inbox | send_actor, register_reply_sender, poll_replies, close | a reply may come before its channel is registered, late, twice or never; no timeout |
| Daemon life cycle | `src/daemon.rs` (`run`, `claim_socket`), `src/main.rs`, `src/client.rs` (`connect_or_spawn`, `stop`) | socket file, processes, endpoint, session image | spawn, takeover, bind, shutdown, stop, auto-spawn | several processes race for one path; stale files; image handed from one process to the next |
| IPC framing | `src/ipc.rs` | a byte stream per direction | write_frame, read_frame | the writer has no size limit, the reader has one and leaves a refused body unread |
| Frontend client | `src/client.rs` | next request id, dangling output | hello, eval, stop, reset, save | matching responses to requests on a stream that earlier, abandoned requests have left frames on; the daemon may go at any moment |
| REPL and routing | `src/repl.rs`, `src/executor.rs`, `src/scheme/mod.rs` | line buffer, parenthesis depth | read a line, submit, interrupt, quit | when a form is complete; which lines are dot commands |
| Emacs client | `emacs/ma-ipc.el` | process, undecoded bytes, decoded frames, next id | connect, filter, request, eval | output arrives in arbitrary chunks; a request that timed out leaves frames behind |
| Avatar: things | `lib/avatar.zscheme` | held item, inventory, pending equip and drop, carried slots | take, drop, equip, unequip, keep, put, give | a command only proposes; the world answers later with a `:parent` event, out of order with other commands |
| Avatar: places and events | `lib/avatar.zscheme`, `lib/events.zscheme` | the room entered, a snapshot of it | go, enter, leave, dig, fill, look, event dispatch | events and the answers of passages race with the commands that caused them and with the looks that answer them |
| Reference resolution | `lib/runtime.zscheme`, `lib/stdlib.zscheme`, `lib/avatar.zscheme` | none | resolve-ref, resolve-against, list and string functions | name, nick and DID precedence; ambiguous references |
| Identity and DID publication | `src/main.rs` | secret bundle, endpoint | load, generate, publish, republish | two processes generating an identity |
| CBOR codec and dot paths | `src/context.rs` | the path registry | scheme_val_to_cbor, cbor_to_scheme_val, decode_reply, eval_dot | reply tuples, the integer range, maps with foreign keys; a set next to a subtree |

What lives outside the repository: the evaluator `ma_zscheme` (parsing,
environments, `eval_source`), the network stack `ma_core` (endpoint, inbox,
Kubo), and the remote actors (rooms, things). They are modelled from how the
code here uses them and marked external.

## Plan

The order of work: the daemon and its promise, then the processes around it,
the avatar's transfers, the clients, the pure functions; then the front end on
top of the daemon's promise, the avatar's walks, and the codec. All of these
are done, and the last section lists what is left out.

## Modules

| Module | What it models | Composed with |
|---|---|---|
| `EvalService` | abstract: first-come-first-served evaluation | implemented by `Daemon`, used by `Frontend` |
| `Daemon` | service loop, evaluation lock, actor calls | `MCDaemon`, `Daemon_proofs` |
| `DaemonLifecycle` | processes, socket path, identity, endpoint, image, frontends that spawn | `MCDaemonLifecycle`, `DaemonLifecycle_proofs` |
| `Frontend` | the loop, scripts and commands, and the client's connection | `EvalService` as its daemon, `MCFrontend`, `Frontend_proofs` |
| `Avatar` | hand, inventory and the `:parent` handshake | `MCAvatar`, `Avatar_proofs` |
| `AvatarMoves` | walking, digging and the snapshot of the room | `MCAvatarMoves`, `AvatarMoves_proofs` |
| `EmacsIpc` | the Emacs client's side of a connection | checked directly, `EmacsIpc_proofs` |
| `Resolver` | keyword split and reference resolution, as functions | `MCFunctions`, `Resolver_proofs` |
| `Lists` | `filter` and `unique-list` of the standard library | `Resolver`, `Codec` |
| `Codec` | values to CBOR and back, replies | `MCFunctions`, `Context_proofs` |
| `Registry` | dot lines on the path registry | `MCFunctions`, `Context_proofs` |

Each model keeps, next to the helpers of the code, a few *faulty variants* of
them (`LockLeaked`, `NeverRefreshed`, ...). No action uses one; each shows that
some property notices that slip.

### `Daemon`: the service loop and the actor-call transport

Everything in the daemon runs on one thread, so tasks interleave only at
awaits. `pc[c]` is where the handler task of connection `c` is; an evaluation
computes only while `pc[c] = "eval"`, and `Yielded`, the guard of every other
task, says no evaluation is computing. `eval_lock` is the queue of tokio's fair
mutex, its head the holder. `sent[c]` is every frame put on a connection's
channel and `written[c]` how many of them the writer task has written, so the
channel itself is the difference. Requests are known by their position in
`asked[c]`, as the client numbers them. A program is a bounded sequence of
display, define, I/O await and actor call.

An actor call goes through `want` (the endpoint lock), `open` (opening the
outbox with that lock held), `send` (`outbox.send` pending; the message is on
the wire), `await` (channel registered). The shutdown path is `Shutdown`
(socket removed and image written in one go), `CloseEndpoint` (under the
endpoint lock, other tasks still running), `Exit` (all tasks dropped).

A handler ends in two ways. At the end of the connection it waits for its writer
(`HandlerEnds`, `HandlerDrained`). On an error it returns at once
(`HandlerFails`): the connection failed, or the client sent a request that
`read_frame` refuses (kind "refused"), and is then still connected while nobody
reads what it sends.

Whether an evaluation suspended across a Reset continues in the dropped or in
the new environment is decided by the evaluator library; `orphan` leaves it
open. An endless program and a client that stops reading are left out: the
code has no remedy for either.

`EvalService` is what the daemon promises: jobs served in order of arrival, one
at a time, each one's output going to its client and ending in one result. The
refinement maps the mutex queue to its queue, the display sink to `running`
and every frame of a channel, through `View`, to a frame of a client's output:
what answers no evaluation (an acknowledgment, a dump, a pong) is an "Other" there,
which the service may send at any time (`Respond`).

### `DaemonLifecycle`: processes around one socket path

`dpc[p]` is where daemon process `p` is, one value per file-system call of
`claim_socket`, `run` and the shutdown, and per step of `main` before and after
them; `sock` is the process that bound the file at the path (the file may
outlive it), `endpoint` the processes that hold a network endpoint of the one
identity, `target[p]` the daemon `p` asked to stop, `env` and `image` whose
defines a session and the image file hold. `StopAnswered`, `WaitForRelease`,
`Recheck` and `RemoveStale` are the branches of the takeover. `cpc[c]` is a
frontend in `connect_or_spawn`, or in `zscheme stop`: the request
(`StopCommand`), the daemon's handler that acknowledges it and tells the main
loop (`StopHandled`), and the client that says "stopped" on the acknowledgment
(`StopReported`) are three steps. A daemon started with `--img` whose image
cannot be read closes its endpoint and ends (`LoadImage`). Killing a process is
possible at every step and leaves the file behind.

`Overlap = FALSE` restricts the user to starting a daemon only when no other is
starting. The code has no such restriction; it is the premise under which the
path is owned, and the overlap run shows what happens without it.

`bundle` is the secret bundle on disk, as the number of identities generated so
far, and `id[p]` the one process `p` loaded. A process that finds no bundle
(`CheckBundle`) generates one (`GenerateBundle`) in a later step and overwrites
what is there by then; the endpoint built from it (`BuildEndpoint`) is on the
network until `CloseEndpoint` or the process dies.

### `Frontend`: what the user types, up to the daemon

One process: the loop of `repl.rs`, a script of `executor.rs`, or one of the
commands `reset`, `save` and `stop`. A line is what the loop tells apart of it:
its form (blank, comment, quit word, dot path, shebang, other code) and its
balance of parentheses after `strip_comments`. `typed` remembers every line and
interrupt, and a source is a sequence of positions in it, so that a property can
say which lines an evaluation got. The four ways a line can go (`Quit`, `Note`,
`Continue`, `Complete`) are actions of their own.

The daemon is `EvalService`, which `Daemon` implements: this module relies on
nothing else about it. Between the two stand `requests` (written, not yet
taken) and the frames of `output[Me]` behind `read`. Any frame may turn out to
be over the limit of `read_frame` (`ReadTooLarge`); its body is then taken for
frames (`junk`), which fail to decode (`ReadJunk`) or block the client
(`JunkBlocks`) until more bytes come (`JunkFills`) or the connection ends
(`ReadFails`). The connection may end at any moment (`Loses`). A command is a
request (`AskDaemon`), its reply (`ReadReply`), or the end of the connection
(`NoReply`), which `stop` takes for the daemon's end and the others for an
error; what a reply says about the daemon is a matter of `DaemonLifecycle`. `DaemonClient::eval`
passes over frames of other evaluations (`ReadOther`) and records in
`dangling_output` whether the cursor stands behind output. The in-process
evaluator is the same loop with `LocalEval`, `LocalDisplay` and `LocalFinish`.

### `Avatar`: the hand, the inventory and `:parent`

A command (`take`, `equip`, ...) and the handler of an event are *tasks*:
`todo[t]` is the list of actor calls and of local steps between them that task
`t` still has to do, so that a task suspends at every call. At most one command
and one handler run, interleaved. `held`, `inv` and `inv_entry` are `held-item`,
`#.my.ctx.inv` and `inv-entry`; `equip_pending` and `drop_pending` the flags that
tell the handler what a proposal is for.

What the actors do is external and taken from how the library uses them:
`place[i]` is an item's parent; `want[i]` a requested move, which may happen or
not; `mail[i]` the `:parent` messages of an item, delivered in order per item
and in any order between items. A proposal is committed by the avatar's
`:child` acknowledgment, if it still stands and the item is reached. Any call
may fail (`Refused`), and an error ends its task: what the code would have done
behind the call is not done. `on-event` is called by nothing in
this repository (the runtime does), so that a handler runs to its end before
the next one starts is an assumption.

Three history variables name what properties leave out: `stray` (items that
left the avatar while they were equipped, or still named by `inv-entry`, and are
not back yet), `calm` (every command was given when all was
quiet, and none was refused, abandoned or cut short) and `patient` (the first
half of that).

### `AvatarMoves`: walking and the snapshot of the room

`ctx_room` is `#.my.ctx.room`, where the avatar believes to be, and `last_room`
what a look last answered, which events of the room keep up. As in `Avatar`, at
most one command and one handler run, each suspended at an actor call; a call
is *served* by the room at one moment (`RoomLooks`, `RoomMoves`, ...) and its
reply taken up at a later one (`Looked`, `Entered`, ...), so that events can
overtake it. A room's events arrive in order, those of two rooms in any order.
A walk hands the avatar to a passage, which answers later (`walks`, `EventMove`)
with the room it leads to, or denies it; a passage that is dug is made later and
announced (`Dug`). Rooms, passages and other people are external, taken from the
verbs the library sends and the events it handles.

The premises of the properties are history variables: `patient` (each command
was given when all was quiet), `calm` (no call failed), `stale` (an event of
another room, or one that overtook a look, has touched the snapshot) and
`returned` (the avatar came back to a room whose earlier events it had not
handled). Without any one of them TLC refutes the property, without the last
one when others change the rooms twice; the section on what no run can say
describes those behaviours.

### `EmacsIpc`: the Emacs client

`wire` is what the daemon has sent and Emacs not read, in halves of frames so
that a chunk can end inside one; `buffer` the undecoded bytes; `frames` the
decoded ones, newest first as in `ma-ipc--frames`. `Scan` is one pass of
`ma-ipc--pop-response`: it shows the displays of the request, which stay in the
list, and takes the first frame that matches. `jobs` records every request and
what the daemon answers (external), `last` what the last command returned.
`Due` is everything the daemon answers the requests of this connection with and
`Earlier` its order; `NothingLost` says that list, buffer and wire together hold
what is due and was not returned. A command that finds its process gone
reconnects before it sends its evaluation. A pass is one step: an error or a quit
inside the display callback (ma-ipc.el:328-334) is left out. It would leave
`ma-ipc--frames` as `nreverse` made it, so that frames that come later stand
before the older ones; the frames that are then out of order are those of the
request which the error has ended, and no later evaluation wants them.

### `Resolver`: words to actors

Pure functions: `split-command!`, `resolve-ref`, `resolve-one-entry-or-refresh`,
`resolve-against`, `resolve-in-container`, `resolve-person`. A text is the set
of its words, which is all `name-matches?` looks at. A state is one request and
its answer; the properties compare the answer with a definition by sets and
quantifiers. Where the Scheme recurs on the `cdr` of a list, the model has a
recursive function of the position where that rest begins (`Lists` has those of
the standard library).

### `Codec`: across the boundary of Scheme

A value is a tuple that begins with its type. `scheme_val_to_cbor` and
`cbor_to_scheme_val` are the two conversions, with integers of `Bits` bits
(`CborInts` are those a CBOR reply can hold as integers, twice that range; what
is larger still arrives as a tag over bytes, and so as bytes): one
function each, on a set of values (`Values`, `Terms`) that holds the parts of
every member, and one level of it an operator (`AsTerm`, `AsValue`).
`decode_reply` tells `:ok`, `[:ok]`, `[:ok value]` and `[:error reason]` from
values and raw text. A call sends arguments and gets them echoed, wrapped as an
outcome, or replaced by a value only other programs produce.

### `Registry`: dot lines

A sequence of lines that set, delete and read paths of the registry, whose
`list` and `delete_subtree` are external. `written` is the history of the lines
that wrote, which the property compares a reading with.

## Runs

Twelve runs; "violated" means that TLC refutes what a document or comment says.

| Run | Instance | What it shows |
|---|---|---|
| `daemon_calls` | 2 connections, 2 requests in all, 2 operations per program, 2 messages | Output and replies go to the right evaluation, responses keep their order, the daemon implements `EvalService`. |
| `daemon_dumps` | 2 connections, 3 requests in all, dot lines among them, no shutdown | What a dump taken in the middle of an evaluation can contain. |
| `daemon_live` | 2 connections, one request each (refused ones among them), one call that may never be opened, sent or answered, stops | Unless a call waits for ever every evaluation is answered and every handler ends; a registered call's reply is delivered; a stop completes unless an outbox is being opened for ever. |
| `daemon_lost_reply` | 1 connection, every actor replies | violated: a reply polled before its channel is registered is lost (`context.rs:123`). |
| `lifecycle` | 2 processes, 1 frontend, 2 polls, 2 attempts, one start at a time | A serving daemon is the one at the path, whoever is on the network is who the bundle says; starts, stops, frontends and takeovers come to an end, kills included. |
| `lifecycle_overlap` | 3 processes started at will | violated: two daemons serve at once (`daemon.rs:156`). |
| `frontend` | 3 lines or interrupts of 9 kinds, 3 scripts, 2 displays, either backend | Whole expressions are submitted, no line is lost, answers are the evaluation's own, the prompt has its own line; if evaluations return, the front end comes back to its prompt or ends. |
| `avatar` | 1 thing, 2 containers, 4 commands of any kind | Hand and inventory stay apart and name what the avatar carries. |
| `avatar_hijack` | the same things, `take` and `drop` | violated: a stale `drop-pending` entry captures a later take (`avatar.zscheme:899`). |
| `moves` | 2 rooms, 1 other person, 2 commands, 1 change by others | At rest the snapshot is the room as it is, and the avatar is in one room and knows which. |
| `emacs` | 3 evaluations, 5 requests, 2 connections, 2 displays per evaluation | Each evaluation returns its own result after its own output, no frame is lost, an answer is heard. |
| `functions` | references of 2 words, pools of 2 entries, commands of 4 words; calls with 2 arguments, integers of 2 bits; 4 dot lines | Every resolver, the keyword split, both conversions, the decoding of replies and the dot lines agree with reference definitions. |

### Bounds, and why they are enough

Daemon: two connections let every pair of tasks interleave; two requests in all
let one evaluation wait behind another, on the same or on the other connection;
three let a connection define, reset and dump. Two messages let a late reply to
the first arrive during the second. Life cycle: two processes are a takeover,
three a takeover during a start; two polls and two attempts are the fewest with
one that succeeds after one that failed. Avatar: one thing competes with the
containers for the hand, two containers for the inventory, and four commands
are enough to fill both slots and move something on. Emacs: two abandoned
requests can precede a third, on the same or on a new connection. Frontend:
three lines open an expression, interrupt or continue it, and begin the next
one, and three evaluations leave two abandoned ones before the last; the nine
kinds of lines are every form, with balances from one open to two too many. The
stream is out of step for one read: a second adds nothing that the client could
tell apart. Moves: two rooms are a walk and a way back, two commands a walk and
what follows it, and one change by somebody else races with either. Resolver:
two entries are the fewest that can be ambiguous, and `MCSample` gives them
every combination of the attributes. Codec: two bits have both signs and both
boundaries, and `MCValues` holds a value of every type, alone, in a list and
in a map, `MCTerms` what they are sent as and what else there is on the wire; four writes set a path, its subtree and its neighbour and delete one.

Deadlock checking is off everywhere because every instance really may stop: a
stopped daemon, or users with no commands left, have nothing more to do.

### Fairness

Each task of the daemon is weakly fair where it waits for nothing or for the
daemon itself: the executor polls every ready task. Programs end because they
are bounded. Nothing is assumed of the network: opening an outbox, sending, the
reply of an actor and an I/O may each take for ever, as the code puts no limit
on any of them (`context.rs:124`, `context.rs:338-344`). What a property needs
of them is its premise: `EvalsAnswered` and `HandlersEnd` say what follows if no
call waits for ever at any of these (`CallsReturn`). `StopCompletes` needs less,
that no outbox is being opened for ever (`OpensEnd`), because that alone holds
the endpoint lock which the shutdown takes; `avatar.zscheme:613` speaks of such
an opening timing out. The main task is fair as a whole, closing the endpoint
included. Writers are fair too, which assumes clients that read; nothing else is
assumed of clients. `ReplyingSpec` adds that every message is eventually replied
to; that makes `daemon_lost_reply` a counterexample in which nobody but the
daemon is at fault. Each daemon process and frontend of the life cycle is weakly
fair until it is killed; users need do nothing. In `Frontend` the client is one
sequential task and weakly fair, and the daemon takes the requests of a
connection that is up (`DaemonTakes`). That an evaluation ends, in the daemon or in
this process, is no fairness but the premise of `EvaluationsEnd`
(`EvaluationsReturn`): a silent actor keeps the loop waiting, since
`do_actor_call` has no timeout. In `EmacsIpc`
the filter runs when there is output and a waiting command scans again
(`accept-process-output` in a loop); the deadline is not fair, so `Heard` is
about answers, not timeouts. `Avatar`, `AvatarMoves`, `Resolver`, `Codec` and
`Registry` state safety only.

## Proofs

Every safety invariant that a passing run checks, and the refinement of
`EvalService`, are proved for every value of the constants.

`Daemon_proofs` proves, for any number of connections, requests, operations and
messages, `TypeOK`, `SinkFollowsLock` and `ReplyRouted`. None is inductive. The
strengthening `DaemonInv` adds the order of request ids, the contents of the
lock's queue (exactly the handlers that wait or evaluate, each once, only the
head evaluating), and the range of message ids in flight; the bound on messages
itself needs the lock, because only one evaluation at a time may take the next
id.

Its second part builds on that: `ResponsesInOrder` and `DumpsAreSound`. Nearly
all of the daemon's steps look alike from a connection's channel, and
`OrderCases` says so once: a step is quiet there, or takes a request and answers
it at once, or queues it, shows a display, or ends an evaluation. `OrderInv`
counts: the responses on a channel are the requests taken, less the one being
evaluated, and the displays behind the last response are that evaluation's. `DumpInv`
bounds from above what the environments hold, which is what a dump shows.

The third is `ImplementsService`: `Spec => ServiceSpec`, by the
same kinds of steps, each a step of the service or a stutter. Fairness is no
part of either side; `daemon_live` checks what needs it.

`DaemonLifecycle_proofs` proves `TypeOK`, and under `Overlap = FALSE` that a
serving daemon is the one at the socket path (`ServingReachable`) and the only
one (`OneServing`), for any number of processes and frontends, any limits and
any kills. Types first, strengthened by `TargetKnown` (a process that asks
knows whom). Then `PathInv`: at most one process is starting, every serving one
is at the path, and one about to remove the file removes a stale one
(`RemovesStale`). The last is what makes it inductive: between a refused
connection and the removal nobody else may bind. Under the same premise
`IdentityKept`: `IdentityInv` adds that while a process is about to generate a
bundle there is none, so that nobody is on the network yet, and that one about
to build its endpoint finds one.

`Frontend_proofs` proves, for any lines, scripts, backends and bounds,
`AnswersItsOwn`, `PromptOnItsOwnLine`, `SubmitsWholeExpressions` and
`NothingTypedIsLost`. The first needs
`StreamTyped`: what has been read is a prefix of what was sent, and the daemon
only adds behind it (`Grows`), so a result once read stays read. The second
needs `PromptInv`: while frames are read `dangling_output` is set whenever the
cursor stands behind output. The last two follow from `LoopInv`: the lines in the buffer
are the open end of what was typed, with `depth` their balance, and each
submission was such an end when its last line closed it. The balance is a fold
over the lines; how a line more changes it is a lemma.

`EmacsIpc_proofs` proves `AnswersItsOwn`, `OutputComplete` and `NothingLost` for any
number of requests, connections, displays and abandoned commands and any way
the bytes are cut into chunks. The invariant `EInv` says where everything due
is: the list, the buffer and the wire hold, in order and each once, what is due
and was not returned (`StreamInv`), and once the connection is gone the list
holds the oldest of it (`ListInv`). So a result stands behind all displays of its
evaluation, whichever request is being waited for.

`AvatarMoves_proofs` proves `PresentOnce` and `CacheIsExact` for any rooms, people
and commands.
`MoveInv` says that at most one thing that can move the avatar is under way (a call,
an answer, a passage being dug, the event that announces it, a walk), and which
rooms the avatar may be in for each of them. For `CacheIsExact`, `SyncInv` adds
what each room has told and the avatar has not heard: the last event under way
that says something (whether a person is there, where the exits lead) says what
is so, and the snapshot is right in all that no event under way speaks of, or a
look is under way or will follow (`Synced`). A look that has been served is such a
snapshot too, as long as no event of its room is handled before it is taken up.
`Trail` says why a look that is under way while the avatar enters is at the room it
comes from. The proof found what the bounds of the run had hidden: a walk that
ends where it began (see below), which `returned` now names.

`Avatar_proofs` proves `InventoryNotHeld`, `HandIsMine` and `NothingMislaid` for
any items, any commands and any interleaving of commands, handlers and what the actors do.
`Typed` adds to the types that a task is a chain in which each step has the one
behind it that the code gives it. `Settled` is the invariant behind the first: an
inventory that the handler waits to book is in no slot and no command is about
to unequip it (`Slotted`); and while a command is about to unequip an item, a
proposal that would book that item finds nothing else equipped or does not stand
any more (`Handed`). The second needs `Grounded`: what a slot names, and what a
task is about to put into one, is the avatar's, was recycled, is told to have
left by a message not yet handled, or is a `stray`. It leans on `Settled` only in that
what was recycled does not move (`GoneStays`). The third speaks of behaviours in
which every command was given at rest and none was refused, and there `Tidy` says
what the code relies on: the avatar rests, carries out one command, has one
proposal under way, or handles one (`Phase`), and the two flags are those of that
one thing. So a step that takes something finds the hand free or emptying
(`Clearing`, `FreeFor`), and an item of the avatar is in a slot, or leaving, or
has a proposal that will be handled, or is being handled (`Kept`).

`Resolver_proofs` proves `ObjectIsTheOnlyOne`, `MissingIsMissing`, `NickFirst`,
`RecipientIsAnother` and `SplitIsExact` for any words, entries and pools. A
request never changes and is answered by the function of its verb
(`AnswerInv`); the rest is about those functions. The library's theorems on
induction cannot be used here, as they take a predicate as a parameter. So two
lemmas serve all functions of a list: a value for the end and, for each
position, a value from the next one's make up a function (`Descent`), and what
holds at the end, and at a position if at the next one, holds everywhere
(`Backwards`); both follow from the least counterexample, with `WFMin`.

`Context_proofs` proves `EchoIsExact` and `RepliesKeepTheirMeaning` for any
values, terms and arguments, and `DotReadsLastWrite` for any paths and lines.
That the conversions are functions at every depth (`Converts`), and that data
comes back as it was sent (`RoundTrip`), follow from the least depth at which
they would not. What a reply is read as goes by its form. The invariant of the
dot lines says of every path, read or not, that it holds the text of a line that
set it and was not undone, and nothing if there is none (`RegistryInv`).

The assumptions are those of the modules: bounds are naturals, the
distinguished values differ from each other and from rooms, items and processes,
commands and lines are of the kinds the code knows, and no value is a part of
itself: nesting has a bound (`MaxDepth`), and what values are sent as is among
the terms. `Data` is any set of values that has no lambda in it and holds the
parts of each; a lambda is sent as its text, which no reply turns back.

`Context_proofs` uses the lemmas on lists of `Resolver_proofs`. The conversions
are written with their level as an operator because TLAPS 1.4.5 takes a function
that calls itself only inside a CASE for one that does not call itself.

Only model-checked: liveness, because TLAPS has no ENABLED.

## What the models say that no run can

- *A call whose actor never replies* holds the evaluation lock for ever:
  `do_actor_call` has no timeout, although HANDBOOK.md:318 speaks of
  calls that may time out. The loop that asked waits with it. Only stopping the
  daemon helps (`StopCompletes`).
- *A stop is announced early*: `zscheme stop` says "zscheme daemon stopped" on
  the acknowledgment (client.rs:182-188), which is queued before the socket is
  removed, the image written and the endpoint closed (daemon.rs:219-221).
  A frontend may join that daemon after this and be dropped with it;
  `StopsSettle` says that the daemon does end.
- *A refused request ends its handler* (daemon.rs:200) without a word to the
  client, and without waiting for the writer; requests behind it are not read.
- *An acknowledged define can miss the image*: the image is written while
  evaluations go on, and answers still go out after it.
- *A session can be lost on takeover*: the socket is unlinked before the image
  is written (daemon.rs:108-113), so a successor started with `--img` sees the
  path free and may load an image that is not there yet, or truncated.
- *Two endpoints at once*: the new process builds its endpoint and publishes
  before the old one stops. `EndpointsReleased` says that it does not last.
- *Two frontends that find no daemon both spawn one*; the later daemon stops
  the earlier and drops its frontend. No run has two frontends at once.
- *Two first starts overwrite each other's bundle*: each looks for the bundle
  and generates one, and the loser is on the network as an identity nobody can
  load again. `IdentityKept` holds where daemons start one at a time.
- *A standalone process* (a script or a loop without the daemon) builds an
  endpoint of the same identity without asking a daemon to stop, although
  main.rs:76-77 says that one process may own it at a time.
- *A refused frame*: `write_frame` fails only beyond 4 GiB, `read_frame` beyond
  16 MiB, with the body unread. The loop prints an error and goes on reading
  inside that body, and may then wait until more frames or the end of the
  connection come (`blocked`).
- *A connection that was lost* is not noticed by the loop (repl.rs:53-54 speaks
  of I/O errors as fatal): every later evaluation prints an error.
- *Parentheses in strings count* for the loop (repl.rs:114): after
  `(display "(")` it waits for more, and a `)` in a string of a longer form
  submits the form unfinished.
- *A script of one dot line* is a dot command when a daemon runs it and Scheme
  source when the process does.
- *A hurried second walk*: answers of passages carry the id of their walk, which
  nothing compares. An answer that comes after another walk began is followed
  as well, and the avatar ends in two rooms or in the older destination.
- *A stale snapshot*: events say nothing of their room and answers nothing of
  their age. An event of the room just left changes the snapshot of the new
  one, and a look served before an event and taken up after it undoes the event.
- *A walk that ends where it began*: the avatar leaves the room before the
  passage has answered, and is told nothing while away; what it was told before
  may be handled after the look on coming back, and undoes what that look showed
  (`returned`).
- *A reply in plain text* whose first byte is a small CBOR item is decoded as
  that item: ciborium ignores what follows, so "1 apple" is the integer -18.
- *A container put into another while equipped* keeps its inventory slot: the
  handler looks at the hand only. Unequipping it then fills the hand with
  something the avatar cannot drop (`stray`).
- *A dropped inventory is still named by `inv-entry`*: unbooking clears
  `#.my.ctx.inv` only (avatar.zscheme:882-887). An unequipping that was suspended
  meanwhile finds the old entry and puts what has left into the hand, although
  avatar.zscheme:814-816 says that the equipped container lands there, and the
  one the handler has booked since is unbooked (`stray`).
- *A refused drop*: an item acknowledged so as to be dropped, which the room
  then refuses, is the avatar's and in no slot (`calm`).
- *An acknowledgment that fails*: when the `:child` call raises, the handler ends
  there, and an `equip-pending` that brought it here stays set.
- *Displays are shown again* at every scan of a waiting evaluation, because
  they stay in the list; `OutputComplete` is about the last scan.
- *A hello on a connection in use* accepts any frame: left-over displays make
  it fail. A frame over the 16 MiB limit stays in the buffer and wedges the
  filter until the client reconnects. Responses without fields are CBOR
  strings, which the Emacs decoder rejects; no command asks for one.
- *A person named by address* who is missing from the cached room is refused
  without asking the room again: an address always resolves, so it is no miss.
- *Names redefined*: `avatar.zscheme` redefines `take` and `drop`, which
  `roll-call-split` and the list helpers of the standard library call.

## Not modelled

Left out, and why:

- `send_text` waits for no reply: its steps are those of a call that fails after
  its message went out.
- The hourly republication keeps no state and only warns when it fails; pins are
  kept by another program.
- Standalone processes hold an endpoint but share no file with the daemon except
  the bundle; argument parsing and prompts decide nothing afterwards.
- The bytes of CBOR, the registry, Scheme evaluation and the network are
  libraries.
- The commands that make one actor call and keep no state (say, tell, lock,
  describe, acl, ...), the presentation of events and candidates, the
  parsing of trigger texts, and the list and string utilities no model uses.
- The editing commands of Emacs, the Windows transport, logging and wording,
  installation and CI files.
