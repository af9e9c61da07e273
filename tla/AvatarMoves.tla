---------------------------- MODULE AvatarMoves -----------------------------
(***************************************************************************)
(* How an avatar walks between rooms and keeps its snapshot of the room it  *)
(* is in (src/lib/avatar.zscheme, src/lib/events.zscheme).  #.my.ctx.room   *)
(* says where it believes to be; last-room is what a look last answered,    *)
(* kept up by the events of the room.                                       *)
(*                                                                          *)
(* A command and the handler of an event are tasks that suspend at every    *)
(* actor call.  A call is served by its room at some moment and its reply   *)
(* is taken up later; the events of one room arrive in order.  The rooms,   *)
(* the passages and the other people are external.                          *)
(***************************************************************************)
EXTENDS Naturals, Sequences, SequencesExt

CONSTANTS
    Rooms, Home,    \* the rooms; the first one
    Others, Me,     \* who may be in a room
    Commands,       \* a subset of AllCommands
    MaxCmds,        \* bound: commands the user gives
    MaxChanges,     \* bound: what others do to the rooms
    None

AllCommands == {"go", "enter", "look", "leave", "dig", "fill"}

People == Others \cup {Me}

\* What a look answers; of is None in the answer of a call that failed.
Snapshots == [of : Rooms \cup {None}, children : SUBSET People,
              exits : SUBSET Rooms]

\* A call to room with the direction it is about, why it is made, and the
\* reply in hand: None before it is served.
Verbs == {"look", "move", "enter", "leave", "dig", "fill", "parent"}
Whys == {"look", "resolve", "dig", "go", "enter", "key"}
Calls == [verb : Verbs, room : Rooms, dir : Rooms, why : Whys,
          reply : Snapshots \cup {None}, missed : BOOLEAN]

ASSUME MovesAssumption ==
    /\ Home \in Rooms /\ Me \notin Others /\ Commands \subseteq AllCommands
    /\ MaxCmds \in Nat /\ MaxChanges \in Nat
    /\ None \notin Rooms \cup Others \cup {Me} \cup Snapshots \cup Calls
    /\ "deny" \notin Rooms

VARIABLES
    ctx_room,   \* #.my.ctx.room
    last_room,  \* the snapshot [of, children, exits], or None
    task,       \* task[t]: the call task t waits for, or None
    cmds,       \* commands given
    \* the world
    members,    \* members[r]: who is in room r
    exits,      \* exits[r]: the rooms its passages lead to
    digging,    \* passages being made, [from, to, by]
    mail,       \* mail[r]: events r has sent to the avatar
    walks,      \* answers of passages under way: rooms, or "deny"
    changes,    \* what others have done
    \* history
    patient,    \* every command was given when all was quiet
    calm,       \* and no call failed or was refused
    stale,      \* the snapshot has missed an event or taken another room's
    returned    \* it came back to a room whose earlier events it had not heard

focus == <<ctx_room, last_room, task>>
world == <<members, exits, digging, mail, walks, changes>>
history == <<patient, calm, stale, returned>>
vars == <<focus, cmds, world, history>>

-----------------------------------------------------------------------------
Tasks == {"cmd", "evt"}
Calling(verb, room, dir, why) ==
    [verb |-> verb, room |-> room, dir |-> dir, why |-> why, reply |-> None,
     missed |-> FALSE]

Snapshot(r) == [of |-> r, children |-> members[r], exits |-> exits[r]]
Refusal == [of |-> None, children |-> {}, exits |-> {}]

Quiet ==
    /\ \A t \in Tasks : task[t] = None
    /\ \A r \in Rooms : mail[r] = <<>>
    /\ walks = <<>> /\ digging = {}

Look(r, why, dir) == Calling("look", r, dir, why)

(* Faulty variants of the helpers below: no action uses them.               *)

NoLook(dir) == None
LeavesOnArrival(event, children) == children \cup {event.who}
StaysBehind(old, new) == FALSE

\* room-child-upsert! and room-child-remove!.
Children(event, children) ==
    IF event.name = "leave" THEN children \ {event.who}
    ELSE children \cup {event.who}

\* After an entry the room entered is looked at.
LookAround(dir) == Look(dir, "look", dir)

\* enter tells the room it came from.
Leaves(old, new) == old # new

Tell(r, event, who) == IF Me \in who THEN [mail EXCEPT ![r] = Append(@, event)]
                       ELSE mail
Event(name, who, to) == [name |-> name, who |-> who, to |-> to, room |-> None]

Init ==
    /\ ctx_room = Home
    /\ \E company \in SUBSET Others :
          members = [r \in Rooms |-> IF r = Home THEN {Me} \cup company ELSE {}]
    /\ exits \in [Rooms -> {{}, Rooms}]
    /\ last_room \in {None, Snapshot(Home)}
    /\ task = [t \in Tasks |-> None]
    /\ digging = {} /\ mail = [r \in Rooms |-> <<>>] /\ walks = <<>>
    /\ cmds = 0 /\ changes = 0
    /\ patient = TRUE /\ calm = TRUE /\ stale = FALSE /\ returned = FALSE

-----------------------------------------------------------------------------
(* Commands.  An exit is named by the room it leads to.                     *)

\* resolve-exit-name searches the snapshot first and asks the room on a miss.
Going(d, snapshot) ==
    IF snapshot # None /\ d \in snapshot.exits
    THEN Calling("move", ctx_room, d, "go")
    ELSE Look(ctx_room, "resolve", d)

Command(name, call) ==
    /\ name \in Commands /\ cmds < MaxCmds /\ task["cmd"] = None
    /\ cmds' = cmds + 1
    /\ task' = [task EXCEPT !["cmd"] = call]
    /\ patient' = (patient /\ Quiet)
    /\ UNCHANGED <<ctx_room, last_room, world, calm, stale, returned>>

User ==
    \/ \E d \in Rooms :
          \/ Command("go", Going(d, last_room))
          \/ Command("enter", Calling("enter", d, ctx_room, "enter"))
          \/ Command("dig", Calling("dig", ctx_room, d, "dig"))
          \/ Command("fill", Calling("fill", ctx_room, d, "dig"))
    \/ Command("look", Look(ctx_room, "look", ctx_room))
    \/ Command("leave", Calling("leave", ctx_room, ctx_room, "look"))

-----------------------------------------------------------------------------
(* The rooms serve calls (external).                                        *)

Rejoins(verb, r) == verb = "enter" /\ Me \notin members[r] /\ mail[r] # <<>>

Serving(t, verb) ==
    /\ task[t] # None /\ task[t].verb = verb /\ task[t].reply = None
    /\ returned' = (returned \/ Rejoins(verb, task[t].room))
    /\ UNCHANGED <<ctx_room, last_room, cmds, changes, patient, calm, stale>>
Replies(t, reply) == task' = [task EXCEPT ![t].reply = reply]

RoomLooks(t) ==
    /\ Serving(t, "look")
    /\ Replies(t, Snapshot(task[t].room))
    /\ UNCHANGED <<members, exits, digging, mail, walks>>

\* A walk: the room lets the avatar go and hands it to the passage, which
\* answers later; or the passage denies it; or there is none (:nogo).
RoomMoves(t) ==
    LET r == task[t].room
        d == task[t].dir IN
    /\ Serving(t, "move")
    /\ Replies(t, Snapshot(task[t].room))
    /\ \/ /\ d \in exits[r]
          /\ members' = [members EXCEPT ![r] = @ \ {Me}]
          /\ walks' = Append(walks, d)
       \/ /\ d \in exits[r]
          /\ walks' = Append(walks, "deny")
          /\ UNCHANGED members
       \/ /\ d \notin exits[r]
          /\ UNCHANGED <<members, walks>>
    /\ UNCHANGED <<exits, digging, mail>>

RoomEnters(t) ==
    /\ Serving(t, "enter")
    /\ members' = [members EXCEPT ![task[t].room] = @ \cup {Me}]
    /\ Replies(t, Snapshot(task[t].room))
    /\ UNCHANGED <<exits, digging, mail, walks>>

RoomLeaves(t) ==
    /\ Serving(t, "leave")
    /\ members' = [members EXCEPT ![task[t].room] = @ \ {Me}]
    /\ Replies(t, Snapshot(task[t].room))
    /\ UNCHANGED <<exits, digging, mail, walks>>

\* The passage is made later, and announced then.
RoomDigs(t) ==
    LET r == task[t].room IN
    /\ Serving(t, "dig")
    /\ digging' = digging \cup {[from |-> r, to |-> task[t].dir, by |-> Me]}
    /\ Replies(t, Snapshot(task[t].room))
    /\ UNCHANGED <<members, exits, mail, walks>>

Fill(r, d, who) ==
    /\ exits' = [exits EXCEPT ![r] = @ \ {d}]
    /\ mail' = Tell(r, Event("fill", who, d), members[r])

RoomFills(t) ==
    /\ Serving(t, "fill")
    /\ Fill(task[t].room, task[t].dir, Me)
    /\ Replies(t, Snapshot(task[t].room))
    /\ UNCHANGED <<members, digging, walks>>

\* A child that announces itself is acknowledged with the room's ctx.
RoomAcks(t) ==
    LET r == task[t].room IN
    /\ Serving(t, "parent")
    /\ mail' = Tell(r, [Event("child", Me, r) EXCEPT !.room = Snapshot(r)],
                    members[r])
    /\ Replies(t, Snapshot(task[t].room))
    /\ UNCHANGED <<members, exits, digging, walks>>

\* The actor refuses or cannot be reached.
CallFails(t) ==
    /\ task[t] # None /\ task[t].reply = None
    /\ Replies(t, Refusal)
    /\ calm' = FALSE
    /\ UNCHANGED <<ctx_room, last_room, cmds, world, patient, stale, returned>>

-----------------------------------------------------------------------------
(* Other people and the rooms themselves (external).                        *)

Changing == changes < MaxChanges /\ changes' = changes + 1
            /\ UNCHANGED <<focus, cmds, walks, history>>

OtherArrives(p, r) ==
    /\ Changing /\ p \notin members[r]
    /\ members' = [members EXCEPT ![r] = @ \cup {p}]
    /\ mail' = Tell(r, Event("arrive", p, r), members[r])
    /\ UNCHANGED <<exits, digging>>

OtherLeaves(p, r) ==
    /\ Changing /\ p \in members[r]
    /\ members' = [members EXCEPT ![r] = @ \ {p}]
    /\ mail' = Tell(r, Event("leave", p, r), members[r])
    /\ UNCHANGED <<exits, digging>>

OtherFills(p, r, d) ==
    /\ Changing /\ d \in exits[r]
    /\ Fill(r, d, p)
    /\ UNCHANGED <<members, digging>>

OtherDigs(p, r, d) ==
    /\ Changing /\ d \notin exits[r]
    /\ digging' = digging \cup {[from |-> r, to |-> d, by |-> p]}
    /\ UNCHANGED <<members, exits, mail>>

RollCall(r) ==
    /\ Changing
    /\ mail' = Tell(r, Event("roll-call-child", Me, r), members[r])
    /\ UNCHANGED <<members, exits, digging>>

Dug(g) ==
    /\ g \in digging
    /\ digging' = digging \ {g}
    /\ exits' = [exits EXCEPT ![g.from] = @ \cup {g.to}]
    /\ mail' = Tell(g.from, Event("dig", g.by, g.to), members[g.from])
    /\ UNCHANGED <<focus, cmds, members, walks, changes, history>>

World ==
    \/ \E p \in Others, r \in Rooms :
          \/ OtherArrives(p, r)
          \/ OtherLeaves(p, r)
          \/ \E d \in Rooms : OtherFills(p, r, d) \/ OtherDigs(p, r, d)
    \/ \E r \in Rooms : RollCall(r)
    \/ \E g \in digging : Dug(g)

-----------------------------------------------------------------------------
(* The avatar takes up a reply.                                             *)

Resuming(t, verb) ==
    /\ task[t] # None /\ task[t].verb = verb /\ task[t].reply # None
    /\ UNCHANGED <<cmds, world, patient, calm, returned>>
Then(t, call) == task' = [task EXCEPT ![t] = call]
Failed(t) == task[t].reply = Refusal

\* remember-room!, and what the look was for: a walk goes on if the exit is
\* there now, and one's own dig is followed even if the look failed.
Looked(t) ==
    LET c == task[t]
        room == IF Failed(t) THEN last_room ELSE c.reply IN
    /\ Resuming(t, "look")
    /\ last_room' = room
    /\ stale' = IF Failed(t) THEN stale ELSE c.missed \/ c.room # ctx_room
    /\ Then(t, CASE c.why = "resolve" /\ ~Failed(t) /\ c.dir \in c.reply.exits ->
                      Calling("move", ctx_room, c.dir, "go")
                 [] c.why = "dig" -> Going(c.dir, room)
                 [] OTHER -> None)
    /\ UNCHANGED ctx_room

\* apply-entry-ctx!; enter, but not a walk, leaves the old room.
Entered(t) ==
    LET c == task[t] IN
    /\ Resuming(t, "enter")
    /\ IF Failed(t) THEN Then(t, None) /\ UNCHANGED ctx_room
       ELSE /\ ctx_room' = c.room
            /\ Then(t, IF c.why = "enter" /\ Leaves(c.dir, c.room)
                       THEN Calling("leave", c.dir, c.room, "enter")
                       ELSE LookAround(c.room))
    /\ UNCHANGED <<last_room, stale>>

\* The old room need not answer.
Left(t) ==
    /\ Resuming(t, "leave")
    /\ Then(t, IF task[t].why = "enter" THEN LookAround(ctx_room) ELSE None)
    /\ UNCHANGED <<ctx_room, last_room, stale>>

Over(t) ==
    /\ \E verb \in {"move", "dig", "fill", "parent"} : Resuming(t, verb)
    /\ Then(t, None)
    /\ UNCHANGED <<ctx_room, last_room, stale>>

-----------------------------------------------------------------------------
(* Events.  The handler of one event runs at a time.                        *)

\* A snapshot of the event's room on its way back has missed it.
Missed(t, r) ==
    IF task[t] # None /\ task[t].verb = "look" /\ task[t].room = r
         /\ task[t].reply # None
    THEN [task[t] EXCEPT !.missed = TRUE] ELSE task[t]

Handling(r, names) ==
    /\ task["evt"] = None /\ mail[r] # <<>> /\ Head(mail[r]).name \in names
    /\ mail' = [mail EXCEPT ![r] = Tail(@)]
    /\ UNCHANGED <<ctx_room, cmds, members, exits, digging, walks, changes,
                   patient, calm, returned>>
Handle(r, call) ==
    task' = [t \in Tasks |-> IF t = "evt" THEN call ELSE Missed(t, r)]

\* :arrive (and :child-ctx, which upserts alike), :leave: whatever room the
\* event is from.
EventMembership(r) ==
    /\ Handling(r, {"arrive", "leave"})
    /\ IF last_room = None THEN UNCHANGED <<last_room, stale>>
       ELSE /\ last_room' = [last_room EXCEPT
                               !.children = Children(Head(mail[r]), @)]
            /\ stale' = (stale \/ last_room.of # r)
    /\ Handle(r, None)

\* :child: the snapshot becomes that of the room that acknowledges.
EventChild(r) ==
    /\ Handling(r, {"child"})
    /\ last_room' = Head(mail[r]).room
    /\ stale' = (r # ctx_room)
    /\ Handle(r, None)

\* :dig and :fill look again, at the room the avatar is in; one's own dig is
\* followed.
EventDig(r) ==
    LET e == Head(mail[r]) IN
    /\ Handling(r, {"dig", "fill"})
    /\ Handle(r, Look(ctx_room, IF e.name = "dig" /\ e.who = Me THEN "dig"
                                ELSE "look", e.to))
    /\ UNCHANGED <<last_room, stale>>

EventRollCallChild(r) ==
    /\ Handling(r, {"roll-call-child"})
    /\ Handle(r, Calling("parent", ctx_room, ctx_room, "look"))
    /\ UNCHANGED <<last_room, stale>>

\* :move: any answer of a passage is followed, whatever walk it belongs to.
EventMove ==
    /\ task["evt"] = None
    /\ \E i \in DOMAIN walks :
          /\ walks' = RemoveAt(walks, i)
          /\ Then("evt", IF walks[i] = "deny" THEN None
                         ELSE Calling("enter", walks[i], ctx_room, "key"))
    /\ UNCHANGED <<ctx_room, last_room, cmds, members, exits, digging, mail,
                   changes, history>>

-----------------------------------------------------------------------------
Task(t) ==
    \/ RoomLooks(t)
    \/ RoomMoves(t)
    \/ RoomEnters(t)
    \/ RoomLeaves(t)
    \/ RoomDigs(t)
    \/ RoomFills(t)
    \/ RoomAcks(t)
    \/ CallFails(t)
    \/ Looked(t)
    \/ Entered(t)
    \/ Left(t)
    \/ Over(t)

Events ==
    \/ \E r \in Rooms :
          \/ EventMembership(r)
          \/ EventChild(r)
          \/ EventDig(r)
          \/ EventRollCallChild(r)
    \/ EventMove

Next == User \/ World \/ Events \/ \E t \in Tasks : Task(t)

Spec == Init /\ [][Next]_vars

-----------------------------------------------------------------------------
(* Properties.                                                              *)

\* When all is quiet the snapshot is the room the avatar is in, as it is now:
\* who is there and where its exits lead.  It is not after an event of another
\* room came late or an event overtook a look, and the next look mends that;
\* nor after a walk that ends where it began, while events of the former stay
\* were under way.
\* (room-child-upsert!, event-dig, event-fill, enter-with-key: "topology
\* events replace the cache with a complete room snapshot")
CacheIsExact ==
    /\ Quiet /\ patient /\ calm /\ ~stale /\ ~returned
    /\ last_room # None /\ Me \in members[ctx_room]
    => last_room = Snapshot(ctx_room)

\* An avatar whose commands wait for each other is never in two rooms, and
\* knows which one it is in.  (enter: "Without this the old room keeps a stale
\* child"; enter-with-key relies on the room that handed the walk over.)
PresentOnce ==
    Quiet /\ patient /\ calm =>
       \A r \in Rooms : Me \in members[r] => r = ctx_room
=============================================================================
