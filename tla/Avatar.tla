------------------------------- MODULE Avatar -------------------------------
(***************************************************************************)
(* How an avatar picks up, equips, stows and drops things                   *)
(* (src/lib/avatar.zscheme).  The actors decide where a thing is; the       *)
(* avatar keeps slots (its hand, its inventory) and flags that say what to  *)
(* do with the :parent proposal a command will cause.  A command and the    *)
(* handler of an event are tasks that suspend at every actor call, so they  *)
(* interleave.                                                              *)
(*                                                                          *)
(* Words resolve to any item: a word may be a DID, which bypasses the       *)
(* pools, and the pools may be stale.  What the actors do is external.      *)
(***************************************************************************)
EXTENDS Naturals, Sequences

CONSTANTS
    Things, Chests,     \* items; chests are containers
    Commands,           \* a subset of AllCommands
    MaxCmds,            \* commands the user gives
    Room, Me, Gone, None

Items == Things \cup Chests
Places == {Room, Me, Gone} \cup Chests
AllCommands == {"take", "take-from", "find", "equip", "keep", "unequip",
                "drop", "put", "forge", "recycle", "reload"}
Asked == {"take", "equip", "drop"}

ASSUME AvatarAssumption ==
    /\ Commands \subseteq AllCommands /\ MaxCmds \in Nat
    /\ Things \cap Chests = {}
    /\ Room # Me /\ Room # Gone /\ Me # Gone
    /\ None \notin {Room, Me, Gone} \cup Asked
    /\ {Room, Me, Gone, None} \cap Items = {}

VARIABLES
    held,       \* held-item
    inv,        \* #.my.ctx.inv, which outlives a reload
    inv_entry,  \* the actor of inv-entry
    equip_pending, drop_pending,
    todo,       \* todo[t]: what task t does next
    cmds,       \* commands given
    place,      \* place[i]: the parent of item i; Gone when recycled, None
                \* when not forged yet
    want,       \* want[i]: where i is about to move on request, or None
    mail,       \* mail[i]: :parent messages from i to the avatar
    patient,    \* history: every command was given when all was quiet
    calm,       \* history: and none was refused, abandoned or cut short
    stray       \* history: items that left while they were equipped or named
                \* by inv-entry, which the avatar ignores, and not back yet

slots == <<held, inv, inv_entry>>
flags == <<equip_pending, drop_pending>>
actors == <<place, want, mail>>
history == <<patient, calm, stray>>
vars == <<slots, flags, todo, cmds, actors, history>>

-----------------------------------------------------------------------------
Tasks == {"cmd", "evt"}

\* A step of a task: an actor call, or what the code does after a reply.
Dos == {"room-drop", "set-parent", "hold", "take", "put", "child", "parent?",
        "name?", "recycle", "forge", "clear-hand", "arm", "to-hand", "book",
        "booked", "accept", "unbook"}
Steps == [do : Dos, item : Items \cup {None}, at : Chests \cup {None},
          why : Asked \cup {None}]

Step(do, i) == [do |-> do, item |-> i, at |-> None, why |-> None]
StepAt(do, i, c) == [do |-> do, item |-> i, at |-> c, why |-> None]

\* The call that makes an item propose itself to the avatar.
Ask(why, i, c) ==
    [do |-> IF c = None THEN "hold" ELSE "take", item |-> i, at |-> c,
     why |-> why]

\* A :parent message names the new parent, and the command that asked for it.
Messages == [parent : Places, why : Asked \cup {None}]

Quiet == /\ \A t \in Tasks : todo[t] = <<>>
         /\ \A i \in Items : mail[i] = <<>> /\ want[i] = None

Now(t) == Head(todo[t])
Doing(t, do) == todo[t] # <<>> /\ Now(t).do = do
Then(t, steps) == todo' = [todo EXCEPT ![t] = steps \o Tail(@)]
Done(t) == Then(t, <<>>)

(* Faulty variants of the helpers below: no action uses them.               *)

AlwaysToHand(i) == held' = i /\ UNCHANGED inv_entry
HandKept(i) == UNCHANGED held
HandLeftFull == <<>>

\* relocate-to-room!: the room's capacity check, then set-parent.
Relocate(i) == <<Step("room-drop", i), Step("set-parent", i)>>

\* drop-held-to-room! acts on whatever is held by now.
HandInTheWay == held # None /\ held # inv
ClearHand == IF HandInTheWay THEN Relocate(held) ELSE <<>>

\* What kind? answers: only a container can be equipped.
Container(i) == i \in Chests /\ place[i] # Gone

\* An accepted item goes to the hand, but the equipped inventory only
\* refreshes its cached ctx.
Accepted(i) ==
    IF i = inv THEN inv_entry' = i /\ UNCHANGED held
               ELSE held' = i /\ UNCHANGED inv_entry

\* The hand lets go of an item.
LetGo(i) == held' = IF held = i THEN None ELSE held

\* An error ends the task.  Two guards undo the arming of a command: that of
\* equip-propose! and that of take-then-drop!.
Disarmed(t) ==
    LET last == todo[t][Len(todo[t])]
        arms(why) == t = "cmd" /\ last.why = why IN
    /\ equip_pending' = IF arms("equip") THEN None ELSE equip_pending
    /\ drop_pending' = IF arms("drop") THEN drop_pending \ {last.item}
                       ELSE drop_pending
Fail(t) == todo' = [todo EXCEPT ![t] = <<>>] /\ Disarmed(t)

\* The item is equipped, or inv-entry, which an unbooking leaves behind, still
\* names it, or some task is about to move it to the hand.
Equipped(i) ==
    \/ i = inv \/ i = inv_entry
    \/ \E t \in Tasks : \E k \in 1 .. Len(todo[t]) :
          todo[t][k].do \in {"to-hand", "name?"} /\ todo[t][k].item = i

Init ==
    /\ held = None /\ inv = None /\ inv_entry = None
    /\ equip_pending = None /\ drop_pending = {}
    /\ todo = [t \in Tasks |-> <<>>]
    /\ cmds = 0
    /\ place \in [Items -> {Room, None} \cup Chests]
    /\ \A i \in Chests : place[i] = Room
    /\ want = [i \in Items |-> None]
    /\ mail = [i \in Items |-> <<>>]
    /\ patient = TRUE /\ calm = TRUE /\ stray = {}

-----------------------------------------------------------------------------
(* Commands.                                                                *)

Command(name, steps) ==
    /\ name \in Commands /\ cmds < MaxCmds /\ todo["cmd"] = <<>>
    /\ todo' = [todo EXCEPT !["cmd"] = steps]
    /\ cmds' = cmds + 1
    /\ patient' = (patient /\ Quiet) /\ calm' = (calm /\ Quiet)
    /\ UNCHANGED <<slots, actors, stray>>

\* take resets equip-pending: a stale booking must not capture its proposal.
Take(i, c) ==
    /\ Command("take", <<Step("clear-hand", None), Ask("take", i, c)>>)
    /\ equip_pending' = None
    /\ UNCHANGED drop_pending

TakeFrom(i, c) ==
    /\ Command("take-from", <<Step("clear-hand", None), Ask("take", i, c)>>)
    /\ UNCHANGED flags

Find(i) ==
    /\ Command("find", <<Step("parent?", i), Step("clear-hand", None),
                         Ask("take", i, None)>>)
    /\ equip_pending' = None
    /\ UNCHANGED drop_pending

\* Equipping the inventory again does nothing.
Equip(i, c) ==
    /\ i # inv
    /\ Command("equip", <<Step("arm", i), Ask("equip", i, c)>>)
    /\ UNCHANGED flags

Keep ==
    /\ held # None /\ inv # None
    /\ Command("keep", <<StepAt("put", held, inv)>>)
    /\ UNCHANGED flags

Unequip ==
    /\ inv # None
    /\ Command("unequip", <<Step("clear-hand", None), Step("to-hand", inv)>>)
    /\ UNCHANGED flags

\* drop: what is held or equipped goes straight to the room ...
DropCarried(i) ==
    /\ i \in {held, inv} \ {None}
    /\ Command("drop", Relocate(i) \o <<Step("unbook", i)>>)
    /\ UNCHANGED flags

\* ... and anything else is taken out of its container first.
DropFrom(i, c) ==
    /\ Command("drop", <<Ask("drop", i, c)>>)
    /\ drop_pending' = drop_pending \cup {i}
    /\ UNCHANGED equip_pending

Put(i, c) ==
    /\ Command("put", <<StepAt("put", i, c)>>)
    /\ UNCHANGED flags

Forge ==
    /\ Command("forge", <<Step("clear-hand", None), Step("forge", None)>>)
    /\ UNCHANGED flags

Recycle(i) ==
    /\ Command("recycle", <<Step("recycle", i)>>)
    /\ UNCHANGED flags

\* The client restarts: only #.my.ctx.inv is persisted.
Reload ==
    /\ "reload" \in Commands /\ cmds < MaxCmds
    /\ held' = None /\ inv_entry' = None
    /\ equip_pending' = None /\ drop_pending' = {}
    /\ todo' = [t \in Tasks |-> <<>>]
    /\ cmds' = cmds + 1 /\ calm' = FALSE
    /\ UNCHANGED <<inv, actors, patient, stray>>

-----------------------------------------------------------------------------
(* What a task does between actor calls.                                    *)

ClearHandStep(t) ==
    /\ Doing(t, "clear-hand")
    /\ Then(t, ClearHand)
    /\ UNCHANGED <<slots, flags, cmds, actors, history>>

\* equip-propose!: only a container is armed; an equipped one is unequipped
\* first, which needs a free hand.
Arm(t) ==
    LET i == Now(t).item IN
    /\ Doing(t, "arm")
    /\ IF Container(i)
       THEN /\ equip_pending' = i
            /\ Then(t, IF inv # None
                       THEN ClearHand \o <<StepAt("to-hand", inv, i)>>
                       ELSE IF held = i THEN <<>> ELSE ClearHand)
       ELSE /\ todo' = [todo EXCEPT ![t] = <<>>]
            /\ UNCHANGED equip_pending
    /\ UNCHANGED <<slots, drop_pending, cmds, actors, history>>

\* unequip-to-hand!, and the room made for what is equipped instead.
InHand(t, i) ==
    /\ held' = i /\ inv_entry' = None /\ inv' = None
    /\ Then(t, IF Now(t).at \in {None, i} THEN <<>> ELSE Relocate(i))

\* After a reload the container is first asked for its name.
ToHand(t) ==
    /\ Doing(t, "to-hand")
    /\ IF inv_entry # None
       THEN InHand(t, inv_entry)
       ELSE /\ Then(t, <<[Now(t) EXCEPT !.do = "name?"]>>)
            /\ UNCHANGED slots
    /\ UNCHANGED <<flags, cmds, actors, history>>

\* The accepted container leaves the hand and is booked (book-inventory!); a
\* different inventory container is relocated before that.
Book(t) ==
    LET i == Now(t).item IN
    /\ Doing(t, "book")
    /\ equip_pending' = None
    /\ LetGo(i)
    /\ IF inv \in {None, i}
       THEN inv' = i /\ inv_entry' = i /\ Done(t)
       ELSE /\ Then(t, Append(Relocate(inv), Step("booked", i)))
            /\ UNCHANGED <<inv, inv_entry>>
    /\ UNCHANGED <<drop_pending, cmds, actors, history>>

Booked(t) ==
    /\ Doing(t, "booked")
    /\ inv_entry' = Now(t).item /\ inv' = Now(t).item
    /\ Done(t)
    /\ UNCHANGED <<held, flags, cmds, actors, history>>

Accept(t) ==
    /\ Doing(t, "accept")
    /\ Accepted(Now(t).item)
    /\ Done(t)
    /\ UNCHANGED <<inv, flags, cmds, actors, history>>

\* drop-target-to-room!: a dropped inventory container is unbooked.
Unbook(t) ==
    /\ Doing(t, "unbook")
    /\ inv' = IF inv = Now(t).item THEN None ELSE inv
    /\ Done(t)
    /\ UNCHANGED <<held, inv_entry, flags, cmds, actors, history>>

-----------------------------------------------------------------------------
(* Actor calls: what the actor does, and the reply.                         *)

Call(t, do) == Doing(t, do) /\ UNCHANGED cmds

\* The room is full, the container is locked, the item is not to be had, or
\* the actor cannot be reached.
Refused(t) ==
    /\ Fail(t)
    /\ calm' = FALSE
    /\ UNCHANGED <<slots, actors, patient, stray>>

RoomDrop(t) ==
    /\ Call(t, "room-drop")
    /\ \/ Done(t) /\ UNCHANGED <<slots, flags, actors, history>>
       \/ Refused(t)

\* Only the parent may relocate an item.  A router that does not know it any
\* more makes the avatar forget it (forget-stale-slots!).
SetParent(t) ==
    LET i == Now(t).item IN
    /\ Call(t, "set-parent")
    /\ \/ /\ place[i] = Gone
          /\ LetGo(i)
          /\ inv' = IF inv = i THEN None ELSE inv
          /\ inv_entry' = IF inv = i THEN None ELSE inv_entry
          /\ Done(t)
          /\ UNCHANGED <<flags, actors, history>>
       \/ /\ place[i] = Me
          /\ want' = [want EXCEPT ![i] = Room]
          /\ Done(t)
          /\ UNCHANGED <<slots, flags, place, mail, history>>
       \/ /\ place[i] \notin {Me, Gone}
          /\ Fail(t)
          /\ UNCHANGED <<slots, actors, history>>
       \/ Refused(t)

\* The item proposes itself to the avatar.
Proposes(t) ==
    LET i == Now(t).item IN
    /\ want' = [want EXCEPT ![i] = Me]
    /\ mail' = [mail EXCEPT ![i] =
                  Append(@, [parent |-> Me, why |-> Now(t).why])]
    /\ Done(t)
    /\ UNCHANGED <<slots, flags, place, history>>

\* hold asks any item; take asks the container, which may accept and still
\* report later that the move failed (:take-event).
Hold(t) ==
    /\ Call(t, "hold")
    /\ \/ place[Now(t).item] # Gone /\ Proposes(t)
       \/ Refused(t)

TakeOut(t) ==
    /\ Call(t, "take")
    /\ \/ /\ place[Now(t).item] = Now(t).at
          /\ \/ Proposes(t)
             \/ /\ Done(t)
                /\ calm' = FALSE
                /\ UNCHANGED <<slots, flags, actors, patient, stray>>
       \/ Refused(t)

PutIn(t) ==
    LET i == Now(t).item IN
    /\ Call(t, "put")
    /\ \/ /\ place[i] # Gone /\ i # Now(t).at
          /\ place[Now(t).at] \notin {i, Gone}
          /\ want' = [want EXCEPT ![i] = Now(t).at]
          /\ Done(t)
          /\ UNCHANGED <<slots, flags, place, mail, history>>
       \/ Refused(t)

\* The acknowledgment of a proposal commits it, if it still stands and the
\* item is reached.
Child(t) ==
    LET i == Now(t).item IN
    /\ Call(t, "child")
    /\ \/ /\ place[i] # Gone /\ want[i] = Me
          /\ place' = [place EXCEPT ![i] = Me]
          /\ want' = [want EXCEPT ![i] = None]
          /\ stray' = stray \ {i}
          /\ Done(t)
          /\ UNCHANGED <<slots, flags, mail, patient, calm>>
       \/ /\ ~(place[i] # Gone /\ want[i] = Me)
          /\ Fail(t)
          /\ UNCHANGED <<slots, actors, history>>
       \/ Refused(t)

\* find takes only what is within reach.
Parent(t) ==
    /\ Call(t, "parent?")
    /\ IF place[Now(t).item] \in {Room, Me, inv}
       THEN Done(t) /\ UNCHANGED flags
       ELSE Fail(t)
    /\ UNCHANGED <<slots, actors, history>>

\* Whatever the container answers, its DID is known.
Name(t) ==
    /\ Call(t, "name?")
    /\ InHand(t, Now(t).item)
    /\ UNCHANGED <<flags, actors, history>>

\* A forged item is born with the avatar as parent, and says so.
Create(t) ==
    /\ Call(t, "forge")
    /\ \/ \E i \in Items :
            /\ place[i] = None
            /\ place' = [place EXCEPT ![i] = Me]
            /\ want' = [want EXCEPT ![i] = Me]
            /\ mail' = [mail EXCEPT ![i] = <<[parent |-> Me, why |-> None]>>]
            /\ Done(t)
            /\ UNCHANGED <<slots, flags, history>>
       \/ Refused(t)

Destroy(t) ==
    LET i == Now(t).item IN
    /\ Call(t, "recycle")
    /\ \/ /\ place' = [place EXCEPT ![i] = Gone]
          /\ want' = [want EXCEPT ![i] = None]
          /\ Done(t)
          /\ UNCHANGED <<slots, flags, mail, history>>
       \/ Refused(t)

\* A requested move happens, and the old parent is told; or it does not.
Commit(i) ==
    /\ want[i] \notin {None, Me}
    /\ want' = [want EXCEPT ![i] = None]
    /\ \/ /\ place' = [place EXCEPT ![i] = want[i]]
          /\ mail' = IF place[i] # Me THEN mail
                     ELSE [mail EXCEPT ![i] =
                             Append(@, [parent |-> want[i], why |-> None])]
          /\ UNCHANGED calm
       \/ calm' = FALSE /\ UNCHANGED <<place, mail>>
    /\ UNCHANGED <<slots, flags, todo, cmds, patient, stray>>

-----------------------------------------------------------------------------
(* handle-avatar-parent!                                                    *)

React(i) ==
    LET parent == Head(mail[i]).parent
        asked == Head(mail[i]).why IN
    /\ mail[i] # <<>> /\ todo["evt"] = <<>>
    /\ mail' = [mail EXCEPT ![i] = Tail(@)]
    /\ IF parent # Me
       THEN /\ LetGo(i)
            /\ stray' = IF Equipped(i) THEN stray \cup {i} ELSE stray
            /\ UNCHANGED <<todo, flags>>
       ELSE /\ UNCHANGED <<held, stray>>
            /\ \/ /\ equip_pending = i
                  /\ todo' = [todo EXCEPT !["evt"] =
                       <<Step("child", i), Step("book", i)>>]
                  /\ UNCHANGED flags
               \/ /\ equip_pending # i /\ i \in drop_pending
                  /\ drop_pending' = drop_pending \ {i}
                  /\ todo' = [todo EXCEPT !["evt"] =
                       <<Step("child", i)>> \o Relocate(i)
                          \o <<[Step("unbook", i) EXCEPT !.why = asked]>>]
                  /\ UNCHANGED equip_pending
               \/ /\ equip_pending # i /\ i \notin drop_pending
                  /\ todo' = [todo EXCEPT !["evt"] =
                       <<Step("child", i), Step("accept", i)>>]
                  /\ UNCHANGED flags
    /\ UNCHANGED <<inv, inv_entry, cmds, place, want, patient, calm>>

-----------------------------------------------------------------------------
\* Items there are or have been: those a word or a DID can name.
Known == {i \in Items : place[i] # None}

User ==
    \/ \E i \in Known :
         \/ \E c \in Chests : \/ Take(i, c)
                             \/ TakeFrom(i, c)
                             \/ Equip(i, c)
                             \/ DropFrom(i, c)
                             \/ Put(i, c)
         \/ Take(i, None)
         \/ Equip(i, None)
         \/ Find(i)
         \/ DropCarried(i)
         \/ Recycle(i)
    \/ Keep
    \/ Unequip
    \/ Forge
    \/ Reload

Task(t) ==
    \/ ClearHandStep(t)
    \/ Arm(t)
    \/ ToHand(t)
    \/ Book(t)
    \/ Booked(t)
    \/ Accept(t)
    \/ Unbook(t)
    \/ RoomDrop(t)
    \/ SetParent(t)
    \/ Hold(t)
    \/ TakeOut(t)
    \/ PutIn(t)
    \/ Child(t)
    \/ Parent(t)
    \/ Name(t)
    \/ Create(t)
    \/ Destroy(t)

Next ==
    \/ User
    \/ \E t \in Tasks : Task(t)
    \/ \E i \in Items : Commit(i) \/ React(i)

Spec == Init /\ [][Next]_vars

-----------------------------------------------------------------------------
(* Properties.                                                              *)

TypeOK ==
    /\ held \in Items \cup {None}
    /\ inv \in Chests \cup {None} /\ inv_entry \in Chests \cup {None}
    /\ equip_pending \in Chests \cup {None} /\ drop_pending \subseteq Items
    /\ todo \in [Tasks -> Seq(Steps)]
    /\ cmds \in 0 .. MaxCmds
    /\ place \in [Items -> Places \cup {None}]
    /\ want \in [Items -> Places \cup {None}]
    /\ mail \in [Items -> Seq(Messages)]
    /\ patient \in BOOLEAN /\ calm \in BOOLEAN /\ stray \subseteq Items

\* The equipped inventory is never in the hand as well, at any suspension: the
\* next take would drop it to the room.  (avatar.zscheme:580-583)
InventoryNotHeld == held = None \/ held # inv

\* Once every message is handled, what the hand names is the avatar's, or has
\* been recycled: otherwise the next command that needs a free hand fails,
\* and every one after it.  (handle-avatar-parent!)  Excluded is what left
\* the avatar while equipped, or while inv-entry still named it, and has not
\* been accepted again: the handler looks only at the hand.
HandIsMine ==
    Quiet /\ held # None /\ held \notin stray => place[held] \in {Me, Gone}

\* Nothing the avatar is parent of is in neither slot, when commands are not
\* hurried, refused or cut short.  (drop-held-to-room!, book-inventory!)
NothingMislaid ==
    Quiet /\ calm => \A i \in Items : place[i] = Me => i \in {held, inv}

\* A proposal is dropped to the room only if a drop asked for it, at least
\* when no two commands overlap.
\* (avatar.zscheme:892-895: a stale entry can never hijack a later proposal)
NeverHijacked ==
    patient => \A k \in 1 .. Len(todo["evt"]) :
       todo["evt"][k].do = "unbook" => todo["evt"][k].why = "drop"
=============================================================================
