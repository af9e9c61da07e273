-------------------------- MODULE AvatarMoves_proofs --------------------------
(***************************************************************************)
(* Proofs about AvatarMoves, for any rooms, people, commands and bounds: an *)
(* avatar whose commands wait for each other is in one room at most, knows  *)
(* which, and has a snapshot of it that lacks nothing but what is under way.*)
(***************************************************************************)
EXTENDS AvatarMoves, SequenceTheorems, TLAPS

-----------------------------------------------------------------------------
(* Types.                                                                   *)

Names == {"arrive", "leave", "dig", "fill", "child", "roll-call-child"}
Messages == [name : Names, who : People, to : Rooms,
             room : Snapshots \cup {None}]
Passages == [from : Rooms, to : Rooms, by : People]

Typed ==
    /\ ctx_room \in Rooms /\ last_room \in Snapshots \cup {None}
    /\ task \in [Tasks -> Calls \cup {None}]
    /\ members \in [Rooms -> SUBSET People] /\ exits \in [Rooms -> SUBSET Rooms]
    /\ digging \subseteq Passages
    /\ mail \in [Rooms -> Seq(Messages)]
    /\ walks \in Seq(Rooms \cup {"deny"})
    /\ patient \in BOOLEAN /\ calm \in BOOLEAN /\ stale \in BOOLEAN

\* What was answered is the room's snapshot, unless a call failed.
Answered ==
    calm => \A t \in Tasks :
       task[t] # None /\ task[t].reply # None => task[t].reply.of = task[t].room

\* What may yet bring the avatar into another room: a call, a passage of its
\* own being made, the event that announces one, a walk.
Moving(t) ==
    LET c == task[t] IN
    /\ c # None
    /\ \/ c.verb \in {"enter", "leave"}
       \/ c.verb \in {"move", "dig"} /\ c.reply = None
       \/ c.verb = "look" /\ c.why \in {"resolve", "dig"}
Making(g) == g \in digging /\ g.by = Me
Own(e) == e.name = "dig" /\ e.who = Me
Announced(r, i) == r \in Rooms /\ i \in 1 .. Len(mail[r]) /\ Own(mail[r][i])
Walked(i) == i \in 1 .. Len(walks) /\ walks[i] # "deny"

SomeMoving == \E t \in Tasks : Moving(t)
SomeMaking == \E g : Making(g)
SomeAnnounced == \E r, i : Announced(r, i)
SomeWalked == \E i : Walked(i)

\* There is one at a time.
Single ==
    /\ \A t, u \in Tasks : Moving(t) /\ Moving(u) => t = u
    /\ \A g, h : Making(g) /\ Making(h) => g = h
    /\ \A r, s, i, j : Announced(r, i) /\ Announced(s, j) => r = s /\ i = j
    /\ \A i, j : Walked(i) /\ Walked(j) => i = j
    /\ SomeMoving => ~(SomeMaking \/ SomeAnnounced \/ SomeWalked)
    /\ SomeMaking => ~(SomeAnnounced \/ SomeWalked)
    /\ SomeAnnounced => ~SomeWalked

\* Where the avatar may be while call c is under way.
Within(S) == \A r \in Rooms : Me \in members[r] => r \in S
Whereabouts(c) ==
    CASE c.verb = "enter" /\ c.why = "enter" ->
           IF c.reply = None THEN {c.dir} ELSE {c.dir, c.room}
      [] c.verb = "enter" /\ c.why # "enter" ->
           IF c.reply = None THEN {} ELSE {c.room}
      [] c.verb = "leave" /\ c.why = "enter" /\ c.reply = None ->
           {ctx_room, c.room}
      [] OTHER -> {ctx_room}

Placed ==
    /\ \A t \in Tasks : Moving(t) =>
          /\ Within(Whereabouts(task[t]))
          /\ task[t].verb = "enter" => task[t].why \in {"enter", "key"}
          /\ task[t].verb = "enter" /\ task[t].why = "enter" =>
                task[t].dir = ctx_room
          /\ task[t].verb = "move" => task[t].room = ctx_room
    /\ SomeWalked => Within({})
    /\ ~SomeMoving => Within({ctx_room})

MoveInv == Typed /\ Answered /\ (patient /\ calm => Single /\ Placed)

-----------------------------------------------------------------------------
(* Sequences of messages.                                                   *)

LEMMA ToldIs ==
  ASSUME Typed, NEW r \in Rooms, NEW e \in Messages, NEW who, NEW m,
         m = Tell(r, e, who)
  PROVE  /\ m \in [Rooms -> Seq(Messages)]
         /\ \A s \in Rooms : s # r => m[s] = mail[s]
         /\ Me \notin who => m = mail
         /\ Me \in who => /\ Len(m[r]) = Len(mail[r]) + 1
                          /\ m[r][Len(mail[r]) + 1] = e
         /\ \A i \in 1 .. Len(mail[r]) : i \in 1 .. Len(m[r]) /\ m[r][i] = mail[r][i]
<1> DEFINE S == Messages
<1>1. mail \in [Rooms -> Seq(S)] /\ e \in S
  BY DEF Typed
<1> HIDE DEF S
<1>2. mail[r] \in Seq(S) /\ Len(mail[r]) \in Nat
  BY <1>1
<1>3. ASSUME Me \notin who
      PROVE  m = mail
  BY <1>3 DEF Tell
<1>4. ASSUME Me \in who
      PROVE  m = [mail EXCEPT ![r] = Append(mail[r], e)]
  BY <1>4 DEF Tell
<1> DEFINE q == Append(mail[r], e)
<1>5. /\ q \in Seq(S) /\ Len(q) = Len(mail[r]) + 1 /\ q[Len(mail[r]) + 1] = e
      /\ \A i \in 1 .. Len(mail[r]) : q[i] = mail[r][i]
  BY <1>1, <1>2
<1> HIDE DEF q
<1>6. ASSUME Me \in who
      PROVE  /\ m \in [Rooms -> Seq(S)] /\ m[r] = q
             /\ \A s \in Rooms : s # r => m[s] = mail[s]
  BY <1>1, <1>4, <1>5, <1>6 DEF q
<1>7. m \in [Rooms -> Seq(S)]
  BY <1>1, <1>3, <1>6
<1>8. \A s \in Rooms : s # r => m[s] = mail[s]
  BY <1>3, <1>6
<1>9. Me \in who => Len(m[r]) = Len(mail[r]) + 1 /\ m[r][Len(mail[r]) + 1] = e
  BY <1>5, <1>6
<1>10. \A i \in 1 .. Len(mail[r]) : i \in 1 .. Len(m[r]) /\ m[r][i] = mail[r][i]
  <2>1. ASSUME Me \in who, NEW i \in 1 .. Len(mail[r])
        PROVE  i \in 1 .. Len(m[r]) /\ m[r][i] = mail[r][i]
    BY <1>2, <1>5, <1>6, <2>1
  <2> QED
    BY <1>3, <2>1
<1> QED
  BY <1>3, <1>7, <1>8, <1>9, <1>10 DEF S

\* The same under a name that the provers leave unexpanded.
Told(m, r, e, who) ==
    /\ \A s \in Rooms : s # r => m[s] = mail[s]
    /\ Me \notin who => m = mail
    /\ Me \in who => Len(m[r]) = Len(mail[r]) + 1 /\ m[r][Len(mail[r]) + 1] = e
    /\ \A i \in 1 .. Len(mail[r]) : i \in 1 .. Len(m[r]) /\ m[r][i] = mail[r][i]

LEMMA TellTold ==
  ASSUME Typed, NEW r \in Rooms, NEW e \in Messages, NEW who
  PROVE  Told(Tell(r, e, who), r, e, who)
<1> DEFINE m == Tell(r, e, who)
<1>1. m = Tell(r, e, who)
  OBVIOUS
<1> HIDE DEF m
<1>2. Told(m, r, e, who)
  BY <1>1, ToldIs DEF Told
<1> QED
  BY <1>2 DEF m

LEMMA HandledIs ==
  ASSUME Typed, NEW r \in Rooms, mail[r] # <<>>, NEW m,
         m = [mail EXCEPT ![r] = Tail(@)]
  PROVE  /\ m \in [Rooms -> Seq(Messages)]
         /\ \A s \in Rooms : s # r => m[s] = mail[s]
         /\ Len(m[r]) = Len(mail[r]) - 1 /\ Len(mail[r]) \in Nat
         /\ Len(mail[r]) >= 1 /\ Head(mail[r]) = mail[r][1] /\ mail[r][1] \in Messages
         /\ \A i \in 1 .. Len(m[r]) : m[r][i] = mail[r][i + 1]
<1> DEFINE S == Messages
<1>1. mail \in [Rooms -> Seq(S)]
  BY DEF Typed
<1> HIDE DEF S
<1>2. mail[r] \in Seq(S) /\ Len(mail[r]) \in Nat
  BY <1>1
<1> DEFINE q == Tail(mail[r])
<1>3. /\ q \in Seq(S) /\ Len(q) = Len(mail[r]) - 1
      /\ \A i \in 1 .. Len(q) : q[i] = mail[r][i + 1]
      /\ Head(mail[r]) \in S
  BY <1>2, HeadTailProperties
<1> HIDE DEF q
<1>4. m \in [Rooms -> Seq(S)] /\ m[r] = q /\ \A s \in Rooms : s # r => m[s] = mail[s]
  BY <1>1, <1>3 DEF q
<1>5. Len(mail[r]) >= 1 /\ Head(mail[r]) = mail[r][1]
  BY <1>2
<1> QED
  BY <1>2, <1>3, <1>4, <1>5 DEF S

LEMMA RemoveIs ==
  ASSUME NEW S, NEW w \in Seq(S), NEW i \in 1 .. Len(w)
  PROVE  /\ RemoveAt(w, i) \in Seq(S) /\ Len(RemoveAt(w, i)) = Len(w) - 1
         /\ \A j \in 1 .. Len(w) - 1 :
               RemoveAt(w, i)[j] = w[IF j < i THEN j ELSE j + 1]
<1>1. Len(w) \in Nat /\ \A j \in 1 .. Len(w) : w[j] \in S
  OBVIOUS
<1> DEFINE a == SubSeq(w, 1, i - 1)
           z == SubSeq(w, i + 1, Len(w))
<1>2. /\ a \in Seq(S) /\ Len(a) = i - 1
      /\ \A j \in 1 .. i - 1 : a[j] = w[j]
  <2>1. \A j \in 1 .. i - 1 : w[j] \in S
    BY <1>1
  <2>2. 1 \in Int /\ i - 1 \in Int /\ (IF 1 <= i - 1 THEN i - 1 - 1 + 1 ELSE 0) = i - 1
    OBVIOUS
  <2>3. /\ a \in Seq(S) /\ Len(a) = IF 1 <= i - 1 THEN i - 1 - 1 + 1 ELSE 0
        /\ \A j \in 1 .. i - 1 - 1 + 1 : a[j] = w[1 + j - 1]
    BY <2>1, <2>2, SubSeqProperties
  <2> HIDE DEF a
  <2> QED
    BY <2>2, <2>3
<1>3. /\ z \in Seq(S) /\ Len(z) = Len(w) - i
      /\ \A j \in 1 .. Len(w) - i : z[j] = w[i + j]
  <2>1. \A j \in i + 1 .. Len(w) : w[j] \in S
    BY <1>1
  <2>2. i + 1 \in Int /\ Len(w) \in Int
        /\ (IF i + 1 <= Len(w) THEN Len(w) - (i + 1) + 1 ELSE 0) = Len(w) - i
    BY <1>1
  <2>3. /\ z \in Seq(S) /\ Len(z) = IF i + 1 <= Len(w) THEN Len(w) - (i + 1) + 1 ELSE 0
        /\ \A j \in 1 .. Len(w) - (i + 1) + 1 : z[j] = w[i + 1 + j - 1]
    BY <2>1, <2>2, SubSeqProperties
  <2> HIDE DEF z
  <2> QED
    BY <1>1, <2>2, <2>3
<1> HIDE DEF a, z
<1>4. /\ a \o z \in Seq(S) /\ Len(a \o z) = Len(a) + Len(z)
      /\ \A j \in 1 .. Len(a) + Len(z) :
            (a \o z)[j] = IF j <= Len(a) THEN a[j] ELSE z[j - Len(a)]
  BY <1>2, <1>3, ConcatProperties
<1>5. RemoveAt(w, i) = a \o z
  BY DEF RemoveAt, a, z
<1>6. Len(a) + Len(z) = Len(w) - 1
  BY <1>1, <1>2, <1>3
<1>7. ASSUME NEW j \in 1 .. Len(w) - 1
      PROVE  (a \o z)[j] = w[IF j < i THEN j ELSE j + 1]
  <2>1. j \in 1 .. Len(a) + Len(z) /\ (j <= Len(a) <=> j < i)
    BY <1>1, <1>2, <1>6
  <2>2. ASSUME j < i
        PROVE  (a \o z)[j] = w[j]
    <3>1. j \in 1 .. i - 1
      BY <1>1, <2>2
    <3> QED
      BY <1>2, <1>4, <2>1, <2>2, <3>1
  <2>3. ASSUME ~ (j < i)
        PROVE  (a \o z)[j] = w[j + 1]
    <3>1. j - Len(a) \in 1 .. Len(w) - i /\ i + (j - Len(a)) = j + 1
      BY <1>1, <1>2, <2>3
    <3>2. (a \o z)[j] = z[j - Len(a)]
      BY <1>4, <2>1, <2>3
    <3> QED
      BY <1>3, <3>1, <3>2
  <2> QED
    BY <2>2, <2>3
<1> QED
  BY <1>4, <1>5, <1>6, <1>7

-----------------------------------------------------------------------------
(* Records.                                                                 *)

LEMMA SnapshotIs ==
  ASSUME Typed, NEW r \in Rooms
  PROVE  /\ Snapshot(r) \in Snapshots /\ Snapshot(r).of = r /\ Snapshot(r) # None
         /\ Snapshot(r) # Refusal
<1>1. members[r] \in SUBSET People /\ exits[r] \in SUBSET Rooms
  BY DEF Typed
<1>2. Snapshot(r) \in Snapshots /\ Snapshot(r).of = r
  BY <1>1 DEF Snapshot, Snapshots
<1>3. None \notin Snapshots /\ None # r
  BY MovesAssumption
<1>4. Refusal.of = None
  BY DEF Refusal
<1> QED
  BY <1>2, <1>3, <1>4

LEMMA RefusalIs ==
  Refusal \in Snapshots /\ Refusal # None /\ Refusal.of = None /\ None \notin Rooms
BY MovesAssumption DEF Refusal, Snapshots

LEMMA CallingIs ==
  ASSUME NEW verb \in Verbs, NEW r \in Rooms, NEW d \in Rooms, NEW why \in Whys
  PROVE  /\ Calling(verb, r, d, why) \in Calls /\ Calling(verb, r, d, why) # None
         /\ Calling(verb, r, d, why).verb = verb /\ Calling(verb, r, d, why).room = r
         /\ Calling(verb, r, d, why).dir = d /\ Calling(verb, r, d, why).why = why
         /\ Calling(verb, r, d, why).reply = None
         /\ ~ Calling(verb, r, d, why).missed
<1>1. Calling(verb, r, d, why) \in Calls
  BY DEF Calling, Calls
<1>2. None \notin Calls
  BY MovesAssumption
<1> QED
  BY <1>1, <1>2 DEF Calling

LEMMA CallIs ==
  ASSUME NEW c \in Calls
  PROVE  /\ c.verb \in Verbs /\ c.room \in Rooms /\ c.dir \in Rooms /\ c.why \in Whys
         /\ c.reply \in Snapshots \cup {None} /\ c.missed \in BOOLEAN /\ c # None
<1>1. None \notin Calls
  BY MovesAssumption
<1> QED
  BY <1>1 DEF Calls

\* A call that is answered is the same call.
LEMMA ReplyIs ==
  ASSUME NEW c \in Calls, NEW reply \in Snapshots, NEW k, k = [c EXCEPT !.reply = reply]
  PROVE  /\ k \in Calls /\ k.reply = reply /\ k # None /\ reply # None
         /\ k.verb = c.verb /\ k.room = c.room /\ k.dir = c.dir /\ k.why = c.why
         /\ k.missed = c.missed
<1>1. k \in Calls
  BY DEF Calls
<1>2. None \notin Calls /\ None \notin Snapshots
  BY MovesAssumption
<1>3. /\ k.reply = reply
      /\ k.verb = c.verb /\ k.room = c.room /\ k.dir = c.dir /\ k.why = c.why
      /\ k.missed = c.missed
  BY DEF Calls
<1> QED
  BY <1>1, <1>2, <1>3

\* Nor does a missed event change it.
LEMMA MissedIs ==
  ASSUME Typed, NEW t \in Tasks, NEW r
  PROVE  /\ Missed(t, r) \in Calls \cup {None}
         /\ Missed(t, r) = None <=> task[t] = None
         /\ task[t] # None =>
              /\ Missed(t, r).verb = task[t].verb /\ Missed(t, r).room = task[t].room
              /\ Missed(t, r).dir = task[t].dir /\ Missed(t, r).why = task[t].why
              /\ Missed(t, r).reply = task[t].reply
         /\ (Missed(t, r) # task[t] =>
               task[t] # None /\ Missed(t, r).missed
               /\ task[t].verb = "look" /\ task[t].room = r /\ task[t].reply # None)
         /\ (task[t] # None /\ task[t].verb = "look" /\ task[t].room = r
               /\ task[t].reply # None => Missed(t, r).missed)
<1>1. task[t] \in Calls \cup {None}
  BY DEF Typed
<1>2. CASE ~ (task[t] # None /\ task[t].verb = "look" /\ task[t].room = r
                /\ task[t].reply # None)
  BY <1>1, <1>2 DEF Missed
<1>3. CASE task[t] # None /\ task[t].verb = "look" /\ task[t].room = r
             /\ task[t].reply # None
  <2> DEFINE c == task[t]
             k == [c EXCEPT !.missed = TRUE]
  <2>1. c \in Calls
    BY <1>1, <1>3
  <2>2. Missed(t, r) = k
    BY <1>3 DEF Missed
  <2>3. /\ k \in Calls /\ k.missed /\ k.verb = c.verb /\ k.room = c.room
        /\ k.dir = c.dir /\ k.why = c.why /\ k.reply = c.reply
    BY <2>1 DEF Calls
  <2>4. k # None
    BY <2>3, MovesAssumption
  <2> QED
    BY <1>3, <2>2, <2>3, <2>4
<1> QED
  BY <1>2, <1>3

LEMMA EventIs ==
  ASSUME NEW name \in Names, NEW who \in People, NEW to \in Rooms
  PROVE  /\ Event(name, who, to) \in Messages /\ Event(name, who, to).name = name
         /\ Event(name, who, to).who = who /\ Event(name, who, to).to = to
BY DEF Event, Messages

-----------------------------------------------------------------------------
(* Typing.                                                                  *)

LEMMA InitTyped ==
  Init => Typed
<1> SUFFICES ASSUME Init
             PROVE  Typed
  OBVIOUS
<1>1. Home \in Rooms
  BY MovesAssumption
<1>2. members \in [Rooms -> SUBSET People]
  BY DEF Init, People
<1>3. exits \in [Rooms -> SUBSET Rooms]
  BY DEF Init
<1>4. last_room \in Snapshots \cup {None}
  <2>1. members[Home] \in SUBSET People /\ exits[Home] \in SUBSET Rooms
    BY <1>1, <1>2, <1>3
  <2>2. Snapshot(Home) \in Snapshots
    BY <1>1, <2>1 DEF Snapshot, Snapshots
  <2> QED
    BY <2>2 DEF Init
<1>5. mail \in [Rooms -> Seq(Messages)] /\ walks \in Seq(Rooms \cup {"deny"})
  BY DEF Init
<1>6. task \in [Tasks -> Calls \cup {None}]
  BY DEF Init
<1> QED
  BY <1>1, <1>2, <1>3, <1>4, <1>5, <1>6 DEF Init, Typed

LEMMA TaskSet ==
  ASSUME Typed, NEW t \in Tasks, NEW c \in Calls \cup {None},
         task' = [task EXCEPT ![t] = c]
  PROVE  /\ task' \in [Tasks -> Calls \cup {None}] /\ task'[t] = c
         /\ \A u \in Tasks : u # t => task'[u] = task[u]
BY DEF Typed

LEMMA GoingIs ==
  ASSUME Typed, NEW d \in Rooms, NEW snapshot
  PROVE  /\ Going(d, snapshot) \in Calls
         /\ \/ Going(d, snapshot) = Calling("move", ctx_room, d, "go")
            \/ Going(d, snapshot) = Calling("look", ctx_room, d, "resolve")
<1>1. ctx_room \in Rooms
  BY DEF Typed
<1> QED
  BY <1>1, CallingIs DEF Going, Look, Verbs, Whys

\* What a command begins with.
Firsts ==
    {Calling("enter", d, ctx_room, "enter") : d \in Rooms}
      \cup {Calling("dig", ctx_room, d, "dig") : d \in Rooms}
      \cup {Calling("fill", ctx_room, d, "dig") : d \in Rooms}
      \cup {Calling("move", ctx_room, d, "go") : d \in Rooms}
      \cup {Calling("look", ctx_room, d, "resolve") : d \in Rooms}
      \cup {Calling("look", ctx_room, ctx_room, "look"),
            Calling("leave", ctx_room, ctx_room, "look")}

LEMMA UserIs ==
  ASSUME Typed, User
  PROVE  \E name : \E call \in Firsts : Command(name, call)
<1>1. \A d \in Rooms : Going(d, last_room) \in Firsts
  BY GoingIs DEF Firsts
<1>2. CASE \E d \in Rooms : Command("go", Going(d, last_room))
  BY <1>1, <1>2
<1>3. CASE \E d \in Rooms : Command("enter", Calling("enter", d, ctx_room, "enter"))
  BY <1>3 DEF Firsts
<1>4. CASE \E d \in Rooms : Command("dig", Calling("dig", ctx_room, d, "dig"))
  BY <1>4 DEF Firsts
<1>5. CASE \E d \in Rooms : Command("fill", Calling("fill", ctx_room, d, "dig"))
  BY <1>5 DEF Firsts
<1>6. CASE Command("look", Look(ctx_room, "look", ctx_room))
  BY <1>6 DEF Firsts, Look
<1>7. CASE Command("leave", Calling("leave", ctx_room, ctx_room, "look"))
  BY <1>7 DEF Firsts
<1> QED
  BY <1>2, <1>3, <1>4, <1>5, <1>6, <1>7 DEF User

LEMMA FirstIs ==
  ASSUME Typed, NEW call \in Firsts
  PROVE  /\ call \in Calls /\ call # None /\ call.reply = None /\ ~ call.missed
         /\ call.verb = "enter" => call.why = "enter" /\ call.dir = ctx_room
         /\ call.verb = "move" => call.room = ctx_room
         /\ call.verb = "leave" => call.why = "look"
         /\ call.verb = "look" => call.room = ctx_room
<1>1. ctx_room \in Rooms
  BY DEF Typed
<1> DEFINE Is(verb, r, d, why) ==
              /\ call \in Calls /\ call # None /\ call.reply = None /\ ~ call.missed
              /\ call.verb = verb /\ call.room = r /\ call.dir = d /\ call.why = why
<1>2. \A verb \in Verbs, r \in Rooms, d \in Rooms, why \in Whys :
         call = Calling(verb, r, d, why) => Is(verb, r, d, why)
  BY CallingIs
<1>3. /\ {"enter", "dig", "fill", "move", "look", "leave"} \subseteq Verbs
      /\ {"enter", "dig", "go", "resolve", "look"} \subseteq Whys
  BY DEF Verbs, Whys
<1> HIDE DEF Is
<1>4. \/ \E d \in Rooms : Is("enter", d, ctx_room, "enter")
      \/ \E d \in Rooms : Is("dig", ctx_room, d, "dig")
      \/ \E d \in Rooms : Is("fill", ctx_room, d, "dig")
      \/ \E d \in Rooms : Is("move", ctx_room, d, "go")
      \/ \E d \in Rooms : Is("look", ctx_room, d, "resolve")
      \/ Is("look", ctx_room, ctx_room, "look")
      \/ Is("leave", ctx_room, ctx_room, "look")
  BY <1>1, <1>2, <1>3 DEF Firsts
<1> QED
  BY <1>4 DEF Is

\* A call is served: its reply is in hand.
RepliesWith(t, reply) ==
    /\ task' \in [Tasks -> Calls \cup {None}]
    /\ task[t] \in Calls /\ task[t].reply = None
    /\ \A u \in Tasks : u # t => task'[u] = task[u]
    /\ task'[t] \in Calls /\ task'[t].reply = reply
    /\ task'[t].verb = task[t].verb /\ task'[t].room = task[t].room
    /\ task'[t].dir = task[t].dir /\ task'[t].why = task[t].why
    /\ task'[t].missed = task[t].missed

LEMMA RepliesAre ==
  ASSUME Typed, NEW t \in Tasks, task[t] # None, task[t].reply = None,
         NEW reply \in Snapshots, Replies(t, reply)
  PROVE  RepliesWith(t, reply)
<1> DEFINE c == task[t]
           k == [c EXCEPT !.reply = reply]
<1>1. c \in Calls
  BY DEF Typed
<1>2. task' = [task EXCEPT ![t] = k]
  BY DEF Replies
<1>3. /\ k \in Calls /\ k.reply = reply /\ k # None
      /\ k.verb = c.verb /\ k.room = c.room /\ k.dir = c.dir /\ k.why = c.why
      /\ k.missed = c.missed
  BY <1>1, ReplyIs
<1> HIDE DEF k
<1>4. /\ task' \in [Tasks -> Calls \cup {None}] /\ task'[t] = k
      /\ \A u \in Tasks : u # t => task'[u] = task[u]
  BY <1>2, <1>3, TaskSet
<1> QED
  BY <1>1, <1>3, <1>4 DEF RepliesWith

\* What serving a call changes.
RoomServes(t) ==
    \/ RoomLooks(t) \/ RoomMoves(t) \/ RoomEnters(t) \/ RoomLeaves(t)
    \/ RoomDigs(t) \/ RoomFills(t) \/ RoomAcks(t)

LEMMA ServesIs ==
  ASSUME Typed, NEW t \in Tasks, RoomServes(t)
  PROVE  /\ RepliesWith(t, Snapshot(task[t].room)) /\ task[t].room \in Rooms
         /\ task[t].dir \in Rooms
         /\ UNCHANGED <<ctx_room, last_room, cmds, changes, patient, calm, stale>>
<1>1. /\ task[t] # None /\ task[t].reply = None
      /\ Replies(t, Snapshot(task[t].room))
      /\ UNCHANGED <<ctx_room, last_room, cmds, changes, patient, calm, stale>>
  BY DEF RoomServes, RoomLooks, RoomMoves, RoomEnters, RoomLeaves, RoomDigs, RoomFills,
         RoomAcks, Serving
<1>2. task[t] \in Calls
  BY <1>1 DEF Typed
<1>3. task[t].room \in Rooms /\ task[t].dir \in Rooms
  BY <1>2, CallIs
<1>4. Snapshot(task[t].room) \in Snapshots
  BY <1>3, SnapshotIs
<1> QED
  BY <1>1, <1>3, <1>4, RepliesAre

LEMMA ServesTyped ==
  ASSUME Typed, NEW t \in Tasks, RoomServes(t)
  PROVE  Typed'
<1> DEFINE r == task[t].room
           d == task[t].dir
<1>1. /\ task' \in [Tasks -> Calls \cup {None}] /\ r \in Rooms /\ d \in Rooms
      /\ UNCHANGED <<ctx_room, last_room, patient, calm, stale>>
  BY ServesIs DEF RepliesWith
<1> SUFFICES /\ members' \in [Rooms -> SUBSET People] /\ exits' \in [Rooms -> SUBSET Rooms]
             /\ digging' \subseteq Passages /\ mail' \in [Rooms -> Seq(Messages)]
             /\ walks' \in Seq(Rooms \cup {"deny"})
  BY <1>1 DEF Typed
<1>2. Me \in People
  BY DEF People
<1>3. CASE RoomLooks(t)
  BY <1>3 DEF Typed, RoomLooks
<1>4. CASE RoomMoves(t)
  <2>1. UNCHANGED <<exits, digging, mail>>
    BY <1>4 DEF RoomMoves
  <2>2. members' = members \/ members' = [members EXCEPT ![r] = @ \ {Me}]
    BY <1>4 DEF RoomMoves
  <2>3. walks' = walks \/ \E w \in Rooms \cup {"deny"} : walks' = Append(walks, w)
    BY <1>1, <1>4 DEF RoomMoves
  <2>4. walks' \in Seq(Rooms \cup {"deny"})
    <3> DEFINE S == Rooms \cup {"deny"}
    <3>1. walks \in Seq(S)
      BY DEF Typed
    <3>2. walks' = walks \/ \E w \in S : walks' = Append(walks, w)
      BY <2>3
    <3> HIDE DEF S
    <3>3. walks' \in Seq(S)
      BY <3>1, <3>2
    <3> QED
      BY <3>3 DEF S
  <2>5. members' \in [Rooms -> SUBSET People]
    BY <1>1, <2>2, ZenonT(40) DEF Typed
  <2> QED
    BY <2>1, <2>4, <2>5 DEF Typed
<1>5. CASE RoomEnters(t)
  <2>1. members' = [members EXCEPT ![r] = @ \cup {Me}]
        /\ UNCHANGED <<exits, digging, mail, walks>>
    BY <1>5 DEF RoomEnters
  <2> QED
    BY <1>1, <1>2, <2>1 DEF Typed
<1>6. CASE RoomLeaves(t)
  <2>1. members' = [members EXCEPT ![r] = @ \ {Me}]
        /\ UNCHANGED <<exits, digging, mail, walks>>
    BY <1>6 DEF RoomLeaves
  <2> QED
    BY <1>1, <2>1 DEF Typed
<1>7. CASE RoomDigs(t)
  <2>1. digging' = digging \cup {[from |-> r, to |-> d, by |-> Me]}
        /\ UNCHANGED <<members, exits, mail, walks>>
    BY <1>7 DEF RoomDigs
  <2>2. [from |-> r, to |-> d, by |-> Me] \in Passages
    BY <1>1, <1>2 DEF Passages
  <2> QED
    BY <2>1, <2>2 DEF Typed
<1>8. CASE RoomFills(t)
  <2>1. /\ exits' = [exits EXCEPT ![r] = @ \ {d}]
        /\ mail' = Tell(r, Event("fill", Me, d), members[r])
        /\ UNCHANGED <<members, digging, walks>>
    BY <1>8 DEF RoomFills, Fill
  <2>2. Event("fill", Me, d) \in Messages
    BY <1>1, <1>2, EventIs DEF Names
  <2>3. mail' \in [Rooms -> Seq(Messages)]
    BY <1>1, <2>1, <2>2, ToldIs
  <2>4. exits' \in [Rooms -> SUBSET Rooms]
    BY <1>1, <2>1 DEF Typed
  <2> QED
    BY <2>1, <2>3, <2>4 DEF Typed
<1>9. CASE RoomAcks(t)
  <2> DEFINE e == [Event("child", Me, r) EXCEPT !.room = Snapshot(r)]
  <2>1. /\ mail' = Tell(r, e, members[r])
        /\ UNCHANGED <<members, exits, digging, walks>>
    BY <1>9 DEF RoomAcks
  <2>2. e \in Messages
    <3>1. Event("child", Me, r) \in Messages /\ Snapshot(r) \in Snapshots
      BY <1>1, <1>2, EventIs, SnapshotIs DEF Names
    <3> QED
      BY <3>1 DEF Messages
  <2>3. mail' \in [Rooms -> Seq(Messages)]
    BY <1>1, <2>1, <2>2, ToldIs, ZenonT(40)
  <2> QED
    BY <2>1, <2>3 DEF Typed
<1> QED
  BY <1>3, <1>4, <1>5, <1>6, <1>7, <1>8, <1>9 DEF RoomServes

\* What the world does: a room tells its members of it.
WorldIs(r, e) ==
    /\ r \in Rooms /\ e \in Messages /\ e.name # "child" /\ ~ Own(e)
    /\ mail' = Tell(r, e, members[r])

LEMMA ChangingIs ==
  ASSUME Typed, NEW p \in Others, NEW r \in Rooms, NEW d \in Rooms
  PROVE  /\ p \in People /\ p # Me
         /\ OtherArrives(p, r) => WorldIs(r, Event("arrive", p, r))
         /\ OtherLeaves(p, r) => WorldIs(r, Event("leave", p, r))
         /\ OtherFills(p, r, d) => WorldIs(r, Event("fill", p, d))
         /\ RollCall(r) => WorldIs(r, Event("roll-call-child", Me, r))
<1>1. p \in People /\ p # Me /\ Me \in People
  BY MovesAssumption DEF People
<1>2. /\ Event("arrive", p, r) \in Messages /\ Event("arrive", p, r).name = "arrive"
      /\ Event("leave", p, r) \in Messages /\ Event("leave", p, r).name = "leave"
      /\ Event("fill", p, d) \in Messages /\ Event("fill", p, d).name = "fill"
      /\ Event("roll-call-child", Me, r) \in Messages
      /\ Event("roll-call-child", Me, r).name = "roll-call-child"
  BY <1>1, EventIs DEF Names
<1>3. OtherArrives(p, r) => WorldIs(r, Event("arrive", p, r))
  BY <1>2 DEF OtherArrives, WorldIs, Own
<1>4. OtherLeaves(p, r) => WorldIs(r, Event("leave", p, r))
  BY <1>2 DEF OtherLeaves, WorldIs, Own
<1>5. OtherFills(p, r, d) => WorldIs(r, Event("fill", p, d))
  BY <1>2 DEF OtherFills, Fill, WorldIs, Own
<1>6. RollCall(r) => WorldIs(r, Event("roll-call-child", Me, r))
  BY <1>2 DEF RollCall, WorldIs, Own
<1> QED
  BY <1>1, <1>3, <1>4, <1>5, <1>6

LEMMA WorldTyped ==
  ASSUME Typed, World
  PROVE  Typed'
<1>1. ASSUME NEW p \in Others, NEW r \in Rooms, OtherArrives(p, r) \/ OtherLeaves(p, r)
      PROVE  Typed'
  <2>1. mail' \in [Rooms -> Seq(Messages)]
    BY <1>1, ChangingIs, ToldIs DEF WorldIs
  <2>2. members' \in [Rooms -> SUBSET People]
    BY <1>1, ChangingIs, SMTT(30) DEF Typed, OtherArrives, OtherLeaves
  <2>3. UNCHANGED <<ctx_room, last_room, task, exits, digging, walks, patient, calm, stale>>
    BY <1>1 DEF OtherArrives, OtherLeaves, Changing, focus, history
  <2> QED
    BY <2>1, <2>2, <2>3 DEF Typed
<1>2. ASSUME NEW p \in Others, NEW r \in Rooms, NEW d \in Rooms, OtherFills(p, r, d)
      PROVE  Typed'
  <2>1. mail' \in [Rooms -> Seq(Messages)]
    BY <1>2, ChangingIs, ToldIs DEF WorldIs
  <2>2. exits' \in [Rooms -> SUBSET Rooms]
    BY <1>2 DEF Typed, OtherFills, Fill
  <2>3. UNCHANGED <<ctx_room, last_room, task, members, digging, walks, patient, calm, stale>>
    BY <1>2 DEF OtherFills, Changing, focus, history
  <2> QED
    BY <2>1, <2>2, <2>3 DEF Typed
<1>3. ASSUME NEW p \in Others, NEW r \in Rooms, NEW d \in Rooms, OtherDigs(p, r, d)
      PROVE  Typed'
  <2>1. [from |-> r, to |-> d, by |-> p] \in Passages
    BY <1>3, ChangingIs DEF Passages
  <2>2. digging' \subseteq Passages
    BY <1>3, <2>1 DEF Typed, OtherDigs
  <2>3. UNCHANGED <<ctx_room, last_room, task, members, exits, mail, walks, patient, calm,
                    stale>>
    BY <1>3 DEF OtherDigs, Changing, focus, history
  <2> QED
    BY <2>2, <2>3 DEF Typed
<1>4. ASSUME NEW r \in Rooms, RollCall(r)
      PROVE  Typed'
  <2> DEFINE e == Event("roll-call-child", Me, r)
  <2>0. e \in Messages
    BY EventIs DEF Names, People
  <2>1. mail' \in [Rooms -> Seq(Messages)]
    <3>1. mail' = Tell(r, e, members[r])
      BY <1>4 DEF RollCall
    <3> QED
      BY <2>0, <3>1, ToldIs
  <2>3. UNCHANGED <<ctx_room, last_room, task, members, exits, digging, walks, patient,
                    calm, stale>>
    BY <1>4 DEF RollCall, Changing, focus, history
  <2> QED
    BY <2>1, <2>3 DEF Typed
<1>5. ASSUME NEW g \in digging, Dug(g)
      PROVE  Typed'
  <2>1. g.from \in Rooms /\ g.to \in Rooms /\ g.by \in People
    BY DEF Typed, Passages
  <2>2. Event("dig", g.by, g.to) \in Messages
    BY <2>1, EventIs DEF Names
  <2>3. mail' \in [Rooms -> Seq(Messages)]
    BY <1>5, <2>1, <2>2, ToldIs DEF Dug
  <2>4. exits' \in [Rooms -> SUBSET Rooms] /\ digging' \subseteq Passages
    BY <1>5, <2>1 DEF Dug, Typed
  <2>5. UNCHANGED <<ctx_room, last_room, task, members, walks, patient, calm, stale>>
    BY <1>5 DEF Dug, focus, history
  <2> QED
    BY <2>3, <2>4, <2>5 DEF Typed
<1> QED
  BY <1>1, <1>2, <1>3, <1>4, <1>5 DEF World

\* A reply is taken up: what the task waits for next.
Nexts(t) ==
    {Calling("move", ctx_room, d, "go") : d \in Rooms}
      \cup {Calling("look", ctx_room, d, "resolve") : d \in Rooms}
      \cup {Calling("leave", task[t].dir, task[t].room, "enter")}
      \cup {Calling("look", r, r, "look") : r \in Rooms}
      \cup {None}

Resumes(t) == Looked(t) \/ Entered(t) \/ Left(t) \/ Over(t)

LEMMA ResumesIs ==
  ASSUME Typed, NEW t \in Tasks, Resumes(t)
  PROVE  /\ task[t] \in Calls /\ task[t].reply \in Snapshots
         /\ UNCHANGED <<cmds, world, patient, calm>>
         /\ \E c \in Nexts(t) : task' = [task EXCEPT ![t] = c]
<1>1. /\ task[t] # None /\ task[t].reply # None
      /\ UNCHANGED <<cmds, world, patient, calm>>
  BY DEF Resumes, Looked, Entered, Left, Over, Resuming
<1>2. task[t] \in Calls
  BY <1>1 DEF Typed
<1>3. /\ task[t].room \in Rooms /\ task[t].dir \in Rooms /\ task[t].reply \in Snapshots
      /\ ctx_room \in Rooms
  BY <1>1, <1>2, CallIs DEF Typed
<1>4. CASE Looked(t)
  <2>1. PICK room : task' = [task EXCEPT ![t] =
             CASE task[t].why = "resolve" /\ ~Failed(t) /\ task[t].dir \in task[t].reply.exits ->
                      Calling("move", ctx_room, task[t].dir, "go")
               [] task[t].why = "dig" -> Going(task[t].dir, room)
               [] OTHER -> None]
    BY <1>4 DEF Looked, Then
  <2>2. Going(task[t].dir, room) \in Nexts(t)
    BY <1>3, GoingIs DEF Nexts
  <2>3. Calling("move", ctx_room, task[t].dir, "go") \in Nexts(t) /\ None \in Nexts(t)
    BY <1>3 DEF Nexts
  <2> QED
    BY <1>1, <1>2, <1>3, <2>1, <2>2, <2>3
<1>5. CASE Entered(t)
  <2>1. \/ task' = [task EXCEPT ![t] = None]
        \/ task' = [task EXCEPT ![t] = Calling("leave", task[t].dir, task[t].room, "enter")]
        \/ task' = [task EXCEPT ![t] = Calling("look", task[t].room, task[t].room, "look")]
    BY <1>5 DEF Entered, Then, LookAround, Look
  <2> QED
    BY <1>1, <1>2, <1>3, <2>1 DEF Nexts
<1>6. CASE Left(t)
  <2>1. \/ task' = [task EXCEPT ![t] = None]
        \/ task' = [task EXCEPT ![t] = Calling("look", ctx_room, ctx_room, "look")]
    BY <1>6 DEF Left, Then, LookAround, Look
  <2> QED
    BY <1>1, <1>2, <1>3, <2>1 DEF Nexts
<1>7. CASE Over(t)
  BY <1>1, <1>2, <1>3, <1>7 DEF Over, Then, Nexts
<1> QED
  BY <1>4, <1>5, <1>6, <1>7 DEF Resumes

LEMMA NextIs ==
  ASSUME Typed, NEW t \in Tasks, task[t] \in Calls, NEW c \in Nexts(t)
  PROVE  /\ c \in Calls \cup {None}
         /\ c # None => c.reply = None
<1>1. /\ task[t].room \in Rooms /\ task[t].dir \in Rooms /\ ctx_room \in Rooms
  BY CallIs DEF Typed
<1>2. \A d \in Rooms : /\ Calling("move", ctx_room, d, "go") \in Calls
                       /\ Calling("move", ctx_room, d, "go").reply = None
  BY <1>1, CallingIs DEF Verbs, Whys
<1>3. \A d \in Rooms : /\ Calling("look", ctx_room, d, "resolve") \in Calls
                       /\ Calling("look", ctx_room, d, "resolve").reply = None
  BY <1>1, CallingIs DEF Verbs, Whys
<1>4. \A d \in Rooms : /\ Calling("look", d, d, "look") \in Calls
                       /\ Calling("look", d, d, "look").reply = None
  BY CallingIs DEF Verbs, Whys
<1>5. /\ Calling("leave", task[t].dir, task[t].room, "enter") \in Calls
      /\ Calling("leave", task[t].dir, task[t].room, "enter").reply = None
  <2>1. "leave" \in Verbs /\ "enter" \in Whys
    BY DEF Verbs, Whys
  <2> QED
    BY <1>1, <2>1, CallingIs
<1> QED
  BY <1>2, <1>3, <1>4, <1>5 DEF Nexts

LEMMA ResumesTyped ==
  ASSUME Typed, NEW t \in Tasks, Resumes(t)
  PROVE  Typed'
<1>1. /\ task[t] \in Calls /\ task[t].reply \in Snapshots
      /\ UNCHANGED <<cmds, world, patient, calm>>
  BY ResumesIs
<1>2. PICK c \in Nexts(t) : task' = [task EXCEPT ![t] = c]
  BY ResumesIs
<1>3. task' \in [Tasks -> Calls \cup {None}]
  BY <1>1, <1>2, NextIs, TaskSet
<1>4. task[t].room \in Rooms /\ task[t].missed \in BOOLEAN
  BY <1>1, CallIs
<1>5. ctx_room' \in Rooms /\ last_room' \in Snapshots \cup {None} /\ stale' \in BOOLEAN
  <2>1. CASE Looked(t)
    BY <1>1, <1>4, <2>1 DEF Typed, Looked
  <2>2. CASE Entered(t)
    BY <1>4, <2>2 DEF Typed, Entered
  <2>3. CASE Left(t) \/ Over(t)
    BY <2>3 DEF Typed, Left, Over
  <2> QED
    BY <2>1, <2>2, <2>3 DEF Resumes
<1> QED
  BY <1>1, <1>3, <1>5 DEF Typed, world

LEMMA UserTyped ==
  ASSUME Typed, User
  PROVE  Typed'
<1>0. PICK name : \E call \in Firsts : Command(name, call)
  BY UserIs
<1>1. PICK call \in Firsts : Command(name, call)
  BY <1>0
<1>2. call \in Calls /\ "cmd" \in Tasks
  BY FirstIs DEF Tasks
<1>3. task' \in [Tasks -> Calls \cup {None}]
  BY <1>1, <1>2, TaskSet DEF Command
<1>4. patient' \in BOOLEAN
  BY <1>1 DEF Typed, Command
<1> QED
  BY <1>1, <1>3, <1>4 DEF Typed, Command, world

LEMMA FailsTyped ==
  ASSUME Typed, NEW t \in Tasks, CallFails(t)
  PROVE  Typed'
<1>1. Refusal \in Snapshots
  BY RefusalIs
<1>2. RepliesWith(t, Refusal)
  BY <1>1, RepliesAre DEF CallFails
<1> QED
  BY <1>2 DEF CallFails, RepliesWith, Typed, world

\* An event of room r is handled.
LEMMA HandlingIs ==
  ASSUME Typed, NEW r \in Rooms, NEW names, Handling(r, names)
  PROVE  /\ task["evt"] = None /\ Head(mail[r]).name \in names
         /\ mail' = [mail EXCEPT ![r] = Tail(@)] /\ mail[r] # <<>>
         /\ Head(mail[r]) \in Messages /\ Head(mail[r]).to \in Rooms
         /\ Head(mail[r]).who \in People
         /\ UNCHANGED <<ctx_room, cmds, members, exits, digging, walks, changes, patient,
                        calm>>
<1>1. /\ task["evt"] = None /\ Head(mail[r]).name \in names
      /\ mail' = [mail EXCEPT ![r] = Tail(@)] /\ mail[r] # <<>>
      /\ UNCHANGED <<ctx_room, cmds, members, exits, digging, walks, changes, patient,
                     calm>>
  BY DEF Handling
<1>2. Head(mail[r]) \in Messages
  BY <1>1, HandledIs
<1> QED
  BY <1>1, <1>2 DEF Messages

LEMMA HandleIs ==
  ASSUME Typed, NEW r \in Rooms, NEW call \in Calls \cup {None}, Handle(r, call)
  PROVE  /\ task' \in [Tasks -> Calls \cup {None}]
         /\ task'["evt"] = call /\ task'["cmd"] = Missed("cmd", r)
<1>1. "cmd" \in Tasks /\ "evt" \in Tasks
  BY DEF Tasks
<1>2. Missed("cmd", r) \in Calls \cup {None}
  BY <1>1, MissedIs
<1>3. task' = [t \in Tasks |-> IF t = "evt" THEN call ELSE Missed(t, r)]
  BY DEF Handle
<1>4. \A t \in Tasks : task'[t] = IF t = "evt" THEN call ELSE Missed(t, r)
  BY <1>3
<1>5. \A t \in Tasks : (IF t = "evt" THEN call ELSE Missed(t, r)) \in Calls \cup {None}
  BY <1>2 DEF Tasks
<1>6. task' \in [Tasks -> Calls \cup {None}]
  BY <1>3, <1>5
<1> QED
  BY <1>1, <1>4, <1>6

\* The call the handler of an event makes, if it makes one.
LEMMA EventsAre ==
  ASSUME Typed, NEW r \in Rooms,
         EventMembership(r) \/ EventChild(r) \/ EventDig(r) \/ EventRollCallChild(r)
  PROVE  \E names : \E call \in Calls \cup {None} :
            /\ Handling(r, names) /\ Handle(r, call)
            /\ call # None => call.reply = None /\ call.room = ctx_room
                              /\ call.verb \in {"look", "parent"}
            /\ call # None /\ call.verb = "look" /\ call.why \in {"resolve", "dig"}
                 => Own(Head(mail[r]))
            /\ Own(Head(mail[r])) /\ Head(mail[r]).name \in names
                 => call # None /\ call.verb = "look" /\ call.why = "dig"
            /\ Head(mail[r]).name \in {"dig", "fill"} =>
                 call # None /\ call.verb = "look"
<1>1. ctx_room \in Rooms
  BY DEF Typed
<1>2. ASSUME EventMembership(r)
      PROVE  Handling(r, {"arrive", "leave"}) /\ Handle(r, None)
             /\ Head(mail[r]).name \in {"arrive", "leave"}
  BY <1>2 DEF EventMembership, Handling
<1>3. ASSUME EventChild(r)
      PROVE  Handling(r, {"child"}) /\ Handle(r, None) /\ Head(mail[r]).name = "child"
  BY <1>3 DEF EventChild, Handling
<1>4. ASSUME EventDig(r)
      PROVE  \E call \in Calls :
               /\ Handling(r, {"dig", "fill"}) /\ Handle(r, call) /\ call # None
               /\ call.reply = None /\ call.room = ctx_room /\ call.verb = "look"
               /\ call.why = (IF Own(Head(mail[r])) THEN "dig" ELSE "look")
  <2> DEFINE e == Head(mail[r])
             why == IF e.name = "dig" /\ e.who = Me THEN "dig" ELSE "look"
  <2>1. Handling(r, {"dig", "fill"}) /\ Handle(r, Calling("look", ctx_room, e.to, why))
    BY <1>4 DEF EventDig, Look
  <2>2. e.to \in Rooms
    BY <2>1, HandlingIs
  <2>3. why \in Whys /\ "look" \in Verbs
    BY DEF Whys, Verbs
  <2>4. why = IF Own(e) THEN "dig" ELSE "look"
    BY DEF Own
  <2> HIDE DEF e, why
  <2> DEFINE call == Calling("look", ctx_room, e.to, why)
  <2>5. /\ call \in Calls /\ call # None /\ call.reply = None /\ call.room = ctx_room
        /\ call.verb = "look" /\ call.why = why
    BY <1>1, <2>2, <2>3, CallingIs
  <2> HIDE DEF call
  <2>6. Handle(r, call)
    BY <2>1 DEF call
  <2> QED
    BY <2>1, <2>4, <2>5, <2>6 DEF e
<1>5. ASSUME EventRollCallChild(r)
      PROVE  \E call \in Calls :
               /\ Handling(r, {"roll-call-child"}) /\ Handle(r, call) /\ call # None
               /\ call.reply = None /\ call.room = ctx_room /\ call.verb = "parent"
               /\ Head(mail[r]).name = "roll-call-child"
  BY <1>1, <1>5, CallingIs DEF EventRollCallChild, Verbs, Whys, Handling
<1>6. CASE EventMembership(r)
  BY <1>2, <1>6 DEF Own
<1>7. CASE EventChild(r)
  BY <1>3, <1>7 DEF Own
<1>8. CASE EventDig(r)
  <2>1. PICK call \in Calls :
               /\ Handling(r, {"dig", "fill"}) /\ Handle(r, call) /\ call # None
               /\ call.reply = None /\ call.room = ctx_room /\ call.verb = "look"
               /\ call.why = (IF Own(Head(mail[r])) THEN "dig" ELSE "look")
    BY <1>4, <1>8
  <2> QED
    BY <2>1
<1>9. CASE EventRollCallChild(r)
  <2>1. PICK call \in Calls :
               /\ Handling(r, {"roll-call-child"}) /\ Handle(r, call) /\ call # None
               /\ call.reply = None /\ call.room = ctx_room /\ call.verb = "parent"
               /\ Head(mail[r]).name = "roll-call-child"
    BY <1>5, <1>9
  <2> QED
    BY <2>1 DEF Own
<1> QED
  BY <1>6, <1>7, <1>8, <1>9

LEMMA EventsTyped ==
  ASSUME Typed, NEW r \in Rooms,
         EventMembership(r) \/ EventChild(r) \/ EventDig(r) \/ EventRollCallChild(r)
  PROVE  Typed'
<1>0. PICK names : \E call \in Calls \cup {None} : Handling(r, names) /\ Handle(r, call)
  BY EventsAre
<1>1. PICK call \in Calls \cup {None} : Handling(r, names) /\ Handle(r, call)
  BY <1>0
<1>2. mail' \in [Rooms -> Seq(Messages)]
  BY <1>1, HandlingIs, HandledIs
<1>3. task' \in [Tasks -> Calls \cup {None}]
  BY <1>1, HandleIs
<1>4. last_room' \in Snapshots \cup {None} /\ stale' \in BOOLEAN
  <2>1. CASE EventMembership(r)
    <3> DEFINE e == Head(mail[r])
               cs == Children(e, last_room.children)
    <3>1. e.who \in People
      BY <1>1, HandlingIs
    <3>2. CASE last_room = None
      BY <2>1, <3>2 DEF EventMembership, Typed
    <3>3. CASE last_room # None
      <4>1. last_room \in Snapshots
        BY <3>3 DEF Typed
      <4>2. cs \in SUBSET People
        BY <3>1, <4>1 DEF Children, Snapshots
      <4>3. last_room' = [last_room EXCEPT !.children = cs]
            /\ stale' = (stale \/ last_room.of # r)
        BY <2>1, <3>3 DEF EventMembership
      <4> HIDE DEF cs
      <4> QED
        BY <4>1, <4>2, <4>3 DEF Snapshots, Typed
    <3> QED
      BY <3>2, <3>3
  <2>2. CASE EventChild(r)
    <3>1. Head(mail[r]) \in Messages
      BY <1>1, HandlingIs
    <3>2. last_room' = Head(mail[r]).room /\ stale' = (r # ctx_room)
      BY <2>2 DEF EventChild
    <3> QED
      BY <3>1, <3>2 DEF Messages
  <2>3. CASE EventDig(r) \/ EventRollCallChild(r)
    BY <2>3 DEF EventDig, EventRollCallChild, Typed
  <2> QED
    BY <2>1, <2>2, <2>3
<1>5. UNCHANGED <<ctx_room, members, exits, digging, walks, patient, calm>>
  BY <1>1, HandlingIs
<1> QED
  BY <1>2, <1>3, <1>4, <1>5 DEF Typed

\* An answer of a passage is taken up.
LEMMA MoveEventIs ==
  ASSUME Typed, EventMove
  PROVE  \E i \in 1 .. Len(walks) : \E c \in Calls \cup {None} :
           /\ walks' = RemoveAt(walks, i) /\ task["evt"] = None
           /\ task' = [task EXCEPT !["evt"] = c]
           /\ walks[i] = "deny" => c = None
           /\ walks[i] # "deny" =>
                /\ walks[i] \in Rooms
                /\ c = Calling("enter", walks[i], ctx_room, "key")
                /\ c # None /\ c.reply = None /\ c.verb = "enter" /\ c.why = "key"
<1> DEFINE S == Rooms \cup {"deny"}
<1>1. walks \in Seq(S) /\ ctx_room \in Rooms
  BY DEF Typed
<1>2. DOMAIN walks = 1 .. Len(walks) /\ \A i \in 1 .. Len(walks) : walks[i] \in S
  <2> HIDE DEF S
  <2> QED
    BY <1>1
<1>3. PICK i \in 1 .. Len(walks) :
        /\ walks' = RemoveAt(walks, i) /\ task["evt"] = None
        /\ task' = [task EXCEPT !["evt"] =
                      IF walks[i] = "deny" THEN None
                      ELSE Calling("enter", walks[i], ctx_room, "key")]
  BY <1>2 DEF EventMove, Then
<1>4. CASE walks[i] = "deny"
  BY <1>3, <1>4
<1>5. CASE walks[i] # "deny"
  <2>1. walks[i] \in Rooms
    BY <1>2, <1>5
  <2> DEFINE c == Calling("enter", walks[i], ctx_room, "key")
  <2>2. c \in Calls /\ c # None /\ c.reply = None /\ c.verb = "enter" /\ c.why = "key"
    BY <1>1, <2>1, CallingIs DEF Verbs, Whys
  <2>3. task' = [task EXCEPT !["evt"] = c]
    BY <1>3, <1>5
  <2> HIDE DEF c
  <2>4. c = Calling("enter", walks[i], ctx_room, "key")
    BY DEF c
  <2> QED
    BY <1>3, <1>5, <2>1, <2>2, <2>3, <2>4
<1> QED
  BY <1>4, <1>5

LEMMA MoveEventTyped ==
  ASSUME Typed, EventMove
  PROVE  Typed'
<1>1. PICK i \in 1 .. Len(walks), c \in Calls \cup {None} :
         walks' = RemoveAt(walks, i) /\ task' = [task EXCEPT !["evt"] = c]
  BY MoveEventIs
<1>2. task' \in [Tasks -> Calls \cup {None}]
  BY <1>1, TaskSet DEF Tasks
<1>3. walks' \in Seq(Rooms \cup {"deny"})
  <2> DEFINE S == Rooms \cup {"deny"}
  <2>1. walks \in Seq(S)
    BY DEF Typed
  <2> HIDE DEF S
  <2>2. walks' \in Seq(S)
    BY <1>1, <2>1, RemoveIs
  <2> QED
    BY <2>2 DEF S
<1> QED
  BY <1>2, <1>3 DEF EventMove, Typed, history

LEMMA TaskIs ==
  ASSUME NEW t \in Tasks
  PROVE  Task(t) <=> RoomServes(t) \/ CallFails(t) \/ Resumes(t)
BY DEF Task, RoomServes, Resumes

LEMMA StepTyped ==
  Typed /\ [Next]_vars => Typed'
<1> SUFFICES ASSUME Typed, [Next]_vars
             PROVE  Typed'
  OBVIOUS
<1>1. CASE \E t \in Tasks : Task(t)
  BY <1>1, TaskIs, ServesTyped, FailsTyped, ResumesTyped
<1>2. CASE Events
  BY <1>2, EventsTyped, MoveEventTyped DEF Events
<1>3. CASE User \/ World
  BY <1>3, UserTyped, WorldTyped
<1>4. CASE UNCHANGED vars
  BY <1>4 DEF vars, focus, world, history, Typed
<1> QED
  BY <1>1, <1>2, <1>3, <1>4 DEF Next

-----------------------------------------------------------------------------
(* What was answered.                                                       *)

LEMMA StepAnswered ==
  Typed /\ Answered /\ [Next]_vars => Answered'
<1> SUFFICES ASSUME Typed, Answered, [Next]_vars, calm',
                    NEW t \in Tasks, task'[t] # None, task'[t].reply # None
             PROVE  task'[t].reply.of = task'[t].room
  BY DEF Answered
<1>1. CASE User
  <2>1. PICK name : \E call \in Firsts : Command(name, call)
    BY <1>1, UserIs
  <2>2. PICK call \in Firsts : Command(name, call)
    BY <2>1
  <2>3. call \in Calls /\ call.reply = None /\ "cmd" \in Tasks
    BY FirstIs DEF Tasks
  <2>4. task' = [task EXCEPT !["cmd"] = call] /\ calm
    BY <2>2 DEF Command
  <2>5. t # "cmd" /\ task'[t] = task[t]
    BY <2>3, <2>4, TaskSet
  <2> QED
    BY <2>4, <2>5 DEF Answered
<1>2. CASE World
  <2>1. UNCHANGED <<task, calm>>
    BY <1>2 DEF World, OtherArrives, OtherLeaves, OtherFills, OtherDigs, RollCall, Dug,
                Changing, focus, history
  <2> QED
    BY <2>1 DEF Answered
<1>3. ASSUME NEW u \in Tasks, RoomServes(u)
      PROVE  task'[t].reply.of = task'[t].room
  <2>1. RepliesWith(u, Snapshot(task[u].room)) /\ task[u].room \in Rooms /\ calm
    BY <1>3, ServesIs
  <2>2. CASE t = u
    BY <2>1, <2>2, SnapshotIs DEF RepliesWith
  <2>3. CASE t # u
    BY <2>1, <2>3 DEF RepliesWith, Answered
  <2> QED
    BY <2>2, <2>3
<1>4. ASSUME NEW u \in Tasks, CallFails(u)
      PROVE  FALSE
  BY <1>4 DEF CallFails
<1>5. ASSUME NEW u \in Tasks, Resumes(u)
      PROVE  task'[t].reply.of = task'[t].room
  <2>1. task[u] \in Calls /\ calm
    BY <1>5, ResumesIs
  <2>2. PICK c \in Nexts(u) : task' = [task EXCEPT ![u] = c]
    BY <1>5, ResumesIs
  <2>3. c \in Calls \cup {None} /\ (c # None => c.reply = None)
    BY <2>1, NextIs
  <2>4. t # u /\ task'[t] = task[t]
    BY <2>2, <2>3, TaskSet
  <2> QED
    BY <2>1, <2>4 DEF Answered
<1>6. ASSUME NEW r \in Rooms,
             EventMembership(r) \/ EventChild(r) \/ EventDig(r) \/ EventRollCallChild(r)
      PROVE  task'[t].reply.of = task'[t].room
  <2>1. PICK names : \E call \in Calls \cup {None} :
          Handling(r, names) /\ Handle(r, call) /\ (call # None => call.reply = None)
    BY <1>6, EventsAre
  <2>2. PICK call \in Calls \cup {None} :
          Handling(r, names) /\ Handle(r, call) /\ (call # None => call.reply = None)
    BY <2>1
  <2>3. task'["evt"] = call /\ task'["cmd"] = Missed("cmd", r) /\ calm
    BY <2>2, HandleIs, HandlingIs
  <2>4. t = "cmd"
    BY <2>2, <2>3 DEF Tasks
  <2>5. task["cmd"] # None /\ task'["cmd"].reply = task["cmd"].reply
        /\ task'["cmd"].room = task["cmd"].room
    BY <2>3, <2>4, MissedIs
  <2> QED
    BY <2>3, <2>4, <2>5 DEF Answered
<1>7. CASE EventMove
  <2>1. PICK i \in 1 .. Len(walks) : \E c \in Calls \cup {None} :
           task' = [task EXCEPT !["evt"] = c] /\ (c # None => c.reply = None)
    BY <1>7, MoveEventIs
  <2>2. PICK c \in Calls \cup {None} :
           task' = [task EXCEPT !["evt"] = c] /\ (c # None => c.reply = None)
    BY <2>1
  <2>3. t # "evt" /\ task'[t] = task[t]
    BY <2>2, TaskSet DEF Tasks
  <2>4. calm
    BY <1>7 DEF EventMove, history
  <2> QED
    BY <2>3, <2>4 DEF Answered
<1>8. CASE UNCHANGED vars
  BY <1>8 DEF vars, focus, history, Answered
<1> QED
  BY <1>1, <1>2, <1>3, <1>4, <1>5, <1>6, <1>7, <1>8, TaskIs DEF Next, Events

-----------------------------------------------------------------------------
(* One thing at a time moves the avatar.                                    *)

LEMMA StillSingle ==
  ASSUME Single, \A t \in Tasks : Moving(t)' => Moving(t),
         \A g : Making(g)' => Making(g),
         \A r, i : Announced(r, i)' => Announced(r, i),
         \A i : Walked(i)' => Walked(i)
  PROVE  Single'
<1>1. /\ SomeMoving' => SomeMoving
      /\ SomeMaking' => SomeMaking
      /\ SomeAnnounced' => SomeAnnounced
      /\ SomeWalked' => SomeWalked
  BY DEF SomeMoving, SomeMaking, SomeAnnounced, SomeWalked
<1>2. \A t, u \in Tasks : Moving(t)' /\ Moving(u)' => t = u
  BY DEF Single
<1>3. \A g, h : Making(g)' /\ Making(h)' => g = h
  BY DEF Single
<1>4. \A r, s, i, j : Announced(r, i)' /\ Announced(s, j)' => r = s /\ i = j
  BY DEF Single
<1>5. \A i, j : Walked(i)' /\ Walked(j)' => i = j
  BY DEF Single
<1> QED
  BY <1>1, <1>2, <1>3, <1>4, <1>5 DEF Single

\* The call of a task that moves on is all there is.
LEMMA OnlyTask ==
  ASSUME Single, NEW t \in Tasks, Moving(t)
  PROVE  /\ \A u \in Tasks : u # t => ~ Moving(u)
         /\ \A g : ~ Making(g)
         /\ \A r, i : ~ Announced(r, i)
         /\ \A i : ~ Walked(i)
BY DEF Single, SomeMoving, SomeMaking, SomeAnnounced, SomeWalked

\* After such a step there is at most that task.
LEMMA TaskSingle ==
  ASSUME NEW t \in Tasks, \A u \in Tasks : u # t => ~ Moving(u)',
         \A g : ~ Making(g)', \A r, i : ~ Announced(r, i)', \A i : ~ Walked(i)'
  PROVE  Single' /\ ~ SomeWalked'
<1>1. ~ SomeMaking' /\ ~ SomeAnnounced' /\ ~ SomeWalked'
  BY DEF SomeMaking, SomeAnnounced, SomeWalked
<1>2. \A a, u \in Tasks : Moving(a)' /\ Moving(u)' => a = u
  OBVIOUS
<1> QED
  BY <1>1, <1>2 DEF Single

\* A call that does not differ in what matters moves as before.
LEMMA SameMoving ==
  ASSUME NEW t \in Tasks, task'[t] = task[t]
  PROVE  Moving(t)' <=> Moving(t)
BY DEF Moving

LEMMA SameMail ==
  ASSUME mail' = mail
  PROVE  \A r, i : Announced(r, i)' <=> Announced(r, i)
BY DEF Announced

LEMMA SameMaking ==
  ASSUME digging' = digging
  PROVE  \A g : Making(g)' <=> Making(g)
BY DEF Making

LEMMA SameWalks ==
  ASSUME walks' = walks
  PROVE  \A i : Walked(i)' <=> Walked(i)
BY DEF Walked

LEMMA ToldOthers ==
  ASSUME Typed, NEW r \in Rooms, NEW e \in Messages, ~ Own(e), NEW who,
         mail' = Tell(r, e, who)
  PROVE  \A s, i : Announced(s, i)' => Announced(s, i)
<1> SUFFICES ASSUME NEW s \in Rooms, NEW i \in 1 .. Len(mail'[s]), Own(mail'[s][i])
             PROVE  i \in 1 .. Len(mail[s]) /\ Own(mail[s][i])
  BY DEF Announced
<1>1. /\ s # r => mail'[s] = mail[s]
      /\ Me \notin who => mail' = mail
      /\ Me \in who => Len(mail'[r]) = Len(mail[r]) + 1
                       /\ mail'[r][Len(mail[r]) + 1] = e
      /\ \A j \in 1 .. Len(mail[r]) : j \in 1 .. Len(mail'[r]) /\ mail'[r][j] = mail[r][j]
  BY ToldIs, SMTT(30)
<1>2. CASE s # r \/ Me \notin who
  BY <1>1, <1>2
<1>3. CASE s = r /\ Me \in who
  <2>1. Len(mail[r]) \in Nat
    <3> DEFINE S == Messages
    <3>1. mail \in [Rooms -> Seq(S)]
      BY DEF Typed
    <3> HIDE DEF S
    <3> QED
      BY <3>1
  <2>2. i \in 1 .. Len(mail[r]) \/ i = Len(mail[r]) + 1
    BY <1>1, <1>3, <2>1
  <2> QED
    BY <1>1, <1>3, <2>2
<1> QED
  BY <1>2, <1>3

-----------------------------------------------------------------------------
(* Where the avatar is: one lemma per kind of step.                         *)

\* Nothing is under way.
LEMMA QuietIs ==
  ASSUME Quiet
  PROVE  /\ \A t \in Tasks : ~ Moving(t)
         /\ \A g : ~ Making(g)
         /\ \A r, i : ~ Announced(r, i)
         /\ \A i : ~ Walked(i)
<1>1. \A r \in Rooms : Len(mail[r]) = 0
  BY DEF Quiet
<1>2. Len(walks) = 0 /\ digging = {}
  BY DEF Quiet
<1> QED
  BY <1>1, <1>2 DEF Quiet, Moving, Making, Announced, Walked

LEMMA UserPlaced ==
  ASSUME Typed, patient' /\ calm' => Single /\ Placed, User, patient', calm'
  PROVE  Single' /\ Placed'
<1>1. PICK name : \E call \in Firsts : Command(name, call)
  BY UserIs
<1>2. PICK call \in Firsts : Command(name, call)
  BY <1>1
<1>3. /\ Quiet /\ Single /\ Placed
      /\ task' = [task EXCEPT !["cmd"] = call]
      /\ UNCHANGED <<ctx_room, members, digging, mail, walks>>
  BY <1>2 DEF Command, world
<1>4. /\ call \in Calls /\ call # None /\ call.reply = None
      /\ call.verb = "enter" => call.why = "enter" /\ call.dir = ctx_room
      /\ call.verb = "move" => call.room = ctx_room
      /\ call.verb = "leave" => call.why = "look"
  BY FirstIs
<1>5. "cmd" \in Tasks /\ "evt" \in Tasks /\ \A t \in Tasks : t = "cmd" \/ t = "evt"
  BY DEF Tasks
<1>6. task'["cmd"] = call /\ task'["evt"] = task["evt"]
  BY <1>3, <1>4, <1>5, TaskSet
<1>7. Within({ctx_room})
  BY <1>3, QuietIs DEF Placed, SomeMoving
<1>8. /\ \A t \in Tasks : t # "cmd" => ~ Moving(t)'
      /\ (\A g : ~ Making(g)') /\ (\A r, i : ~ Announced(r, i)') /\ (\A i : ~ Walked(i)')
  <2>1. ~ Moving("evt")'
    BY <1>3, <1>5, <1>6, QuietIs, SameMoving
  <2>2. \A g : ~ Making(g)'
    BY <1>3, QuietIs, SameMaking
  <2>3. \A r, i : ~ Announced(r, i)'
    BY <1>3, QuietIs, SameMail
  <2>4. \A i : ~ Walked(i)'
    BY <1>3, QuietIs, SameWalks
  <2> QED
    BY <1>5, <2>1, <2>2, <2>3, <2>4
<1>9. Single' /\ ~ SomeWalked'
  BY <1>5, <1>8, TaskSingle
<1>10. Whereabouts(call)' = {ctx_room}
  BY <1>3, <1>4 DEF Whereabouts
<1>11. Within({ctx_room})' /\ Within(Whereabouts(call))'
  BY <1>3, <1>7, <1>10 DEF Within
<1>12. Placed'
  <2>1. ASSUME NEW t \in Tasks, Moving(t)'
        PROVE  t = "cmd"
    BY <1>8, <2>1
  <2>2. Within(Whereabouts(task["cmd"]))'
    BY <1>6, <1>11 DEF Whereabouts
  <2>3. /\ task'["cmd"].verb = "enter" => task'["cmd"].why \in {"enter", "key"}
        /\ task'["cmd"].verb = "enter" /\ task'["cmd"].why = "enter" =>
              task'["cmd"].dir = ctx_room'
        /\ task'["cmd"].verb = "move" => task'["cmd"].room = ctx_room'
    BY <1>3, <1>4, <1>6
  <2> QED
    BY <1>9, <1>11, <2>1, <2>2, <2>3 DEF Placed
<1> QED
  BY <1>9, <1>12

\* Steps that move nothing.
LEMMA StillPlaced ==
  ASSUME Placed, UNCHANGED ctx_room,
         \A r \in Rooms : Me \in members'[r] => Me \in members[r],
         \A t \in Tasks : Moving(t)' <=> Moving(t),
         \A t \in Tasks : Moving(t)' =>
            /\ task'[t].verb = task[t].verb /\ task'[t].why = task[t].why
            /\ task'[t].dir = task[t].dir /\ task'[t].room = task[t].room
            /\ task'[t].reply = task[t].reply,
         \A i : Walked(i)' => Walked(i)
  PROVE  Placed'
<1>1. \A S : Within(S) => Within(S)'
  BY DEF Within
<1>2. (SomeMoving' <=> SomeMoving) /\ (SomeWalked' => SomeWalked)
  BY DEF SomeMoving, SomeWalked
<1>3. ASSUME NEW t \in Tasks, Moving(t)'
      PROVE  /\ Within(Whereabouts(task[t]))'
             /\ task'[t].verb = "enter" => task'[t].why \in {"enter", "key"}
             /\ task'[t].verb = "enter" /\ task'[t].why = "enter" =>
                   task'[t].dir = ctx_room'
             /\ task'[t].verb = "move" => task'[t].room = ctx_room'
  <2>1. Moving(t)
    BY <1>3
  <2>2. Whereabouts(task[t])' = Whereabouts(task[t])
    BY <1>3 DEF Whereabouts
  <2>3. Within(Whereabouts(task[t]))'
    BY <1>1, <2>1, <2>2 DEF Placed, Within
  <2> QED
    BY <1>3, <2>1, <2>3 DEF Placed
<1>4. Within({})' \/ ~ SomeWalked'
  BY <1>1, <1>2 DEF Placed
<1>5. SomeMoving' \/ Within({ctx_room})'
  BY <1>1, <1>2 DEF Placed, Within
<1> QED
  BY <1>3, <1>4, <1>5 DEF Placed

LEMMA WorldPlaced ==
  ASSUME Typed, Single, Placed, World
  PROVE  Single' /\ Placed'
<1>1. UNCHANGED <<ctx_room, task, walks>>
  BY DEF World, OtherArrives, OtherLeaves, OtherFills, OtherDigs, RollCall, Dug,
         Changing, focus
<1>2. \A t \in Tasks : Moving(t)' <=> Moving(t)
  BY <1>1 DEF Moving
<1>3. \A i : Walked(i)' <=> Walked(i)
  BY <1>1, SameWalks
<1>4. \A r \in Rooms : Me \in members'[r] => Me \in members[r]
  <2>1. ASSUME NEW p \in Others, NEW r \in Rooms, OtherArrives(p, r) \/ OtherLeaves(p, r)
        PROVE  \A s \in Rooms : Me \in members'[s] => Me \in members[s]
    <3>1. p # Me
      BY <2>1, MovesAssumption
    <3>2. members' = [members EXCEPT ![r] = members[r] \cup {p}]
          \/ members' = [members EXCEPT ![r] = members[r] \ {p}]
      BY <2>1 DEF OtherArrives, OtherLeaves
    <3>3. \A s \in Rooms : members'[s] = members[s] \/ members'[s] = members[s] \cup {p}
                           \/ members'[s] = members[s] \ {p}
      BY <3>2 DEF Typed
    <3> QED
      BY <3>1, <3>3
  <2>2. ASSUME \A p \in Others, r \in Rooms : ~ (OtherArrives(p, r) \/ OtherLeaves(p, r))
        PROVE  members' = members
    BY <2>2 DEF World, OtherFills, OtherDigs, RollCall, Dug
  <2> QED
    BY <2>1, <2>2
<1>5. Placed'
  BY <1>1, <1>2, <1>3, <1>4, StillPlaced
<1>6. ASSUME NEW p \in Others, NEW r \in Rooms, NEW d \in Rooms,
             \/ OtherArrives(p, r) \/ OtherLeaves(p, r)
             \/ OtherFills(p, r, d) \/ RollCall(r)
      PROVE  Single'
  <2>1. \E e : WorldIs(r, e)
    BY <1>6, ChangingIs
  <2>2. \A s, i : Announced(s, i)' => Announced(s, i)
    BY <2>1, ToldOthers DEF WorldIs
  <2>3. digging' = digging
    BY <1>6 DEF OtherArrives, OtherLeaves, OtherFills, RollCall
  <2>4. \A g : Making(g)' <=> Making(g)
    BY <2>3, SameMaking
  <2> QED
    BY <1>2, <1>3, <2>2, <2>4, StillSingle
<1>7. ASSUME NEW p \in Others, NEW r \in Rooms, NEW d \in Rooms, OtherDigs(p, r, d)
      PROVE  Single'
  <2>1. p # Me
    BY MovesAssumption
  <2>2. digging' = digging \cup {[from |-> r, to |-> d, by |-> p]} /\ mail' = mail
    BY <1>7 DEF OtherDigs
  <2>3. \A g : Making(g)' => Making(g)
    BY <2>1, <2>2 DEF Making
  <2>4. \A s, i : Announced(s, i)' <=> Announced(s, i)
    BY <2>2, SameMail
  <2> QED
    BY <1>2, <1>3, <2>3, <2>4, StillSingle
<1>8. ASSUME NEW r \in Rooms, RollCall(r)
      PROVE  Single'
  <2> DEFINE e == Event("roll-call-child", Me, r)
  <2>1. e \in Messages /\ ~ Own(e)
    <3>1. e \in Messages /\ e.name = "roll-call-child"
      BY EventIs DEF Names, People
    <3> QED
      BY <3>1 DEF Own
  <2>2. mail' = Tell(r, e, members[r]) /\ digging' = digging
    BY <1>8 DEF RollCall
  <2>3. \A s, i : Announced(s, i)' => Announced(s, i)
    BY <2>1, <2>2, ToldOthers
  <2>4. \A g : Making(g)' <=> Making(g)
    BY <2>2, SameMaking
  <2> QED
    BY <1>2, <1>3, <2>3, <2>4, StillSingle
<1>9. ASSUME NEW g \in digging, Dug(g)
      PROVE  Single'
  <2> DEFINE e == Event("dig", g.by, g.to)
  <2>1. g.from \in Rooms /\ g.to \in Rooms /\ g.by \in People
    BY DEF Typed, Passages
  <2>2. e \in Messages /\ e.name = "dig" /\ e.who = g.by
    BY <2>1, EventIs DEF Names
  <2>3. /\ mail' = Tell(g.from, e, members[g.from])
        /\ digging' = digging \ {g}
    BY <1>9 DEF Dug
  <2> HIDE DEF e
  <2>4. \A h : Making(h)' => Making(h) /\ h # g
    BY <2>3 DEF Making
  <2>5. CASE g.by # Me
    <3>1. ~ Own(e)
      BY <2>2, <2>5 DEF Own
    <3>2. \A s, i : Announced(s, i)' => Announced(s, i)
      BY <2>1, <2>2, <2>3, <3>1, ToldOthers
    <3> QED
      BY <1>2, <1>3, <2>4, <3>2, StillSingle
  <2>6. CASE g.by = Me
    <3>1. Making(g)
      BY <2>6 DEF Making
    <3>2. /\ \A t \in Tasks : ~ Moving(t)
          /\ \A r, i : ~ Announced(r, i)
          /\ \A i : ~ Walked(i)
          /\ \A h : Making(h) => h = g
      BY <3>1 DEF Single, SomeMoving, SomeMaking, SomeAnnounced, SomeWalked
    <3>3. ~ SomeMoving' /\ ~ SomeWalked' /\ ~ SomeMaking'
      BY <1>2, <1>3, <2>4, <3>2 DEF SomeMoving, SomeWalked, SomeMaking
    <3>4. \A s, i : Announced(s, i)' => s = g.from /\ i = Len(mail[g.from]) + 1
      <4> SUFFICES ASSUME NEW s \in Rooms, NEW i \in 1 .. Len(mail'[s]), Own(mail'[s][i])
                   PROVE  s = g.from /\ i = Len(mail[g.from]) + 1
        BY DEF Announced
      <4>1. /\ s # g.from => mail'[s] = mail[s]
            /\ Me \notin members[g.from] => mail' = mail
            /\ Me \in members[g.from] => Len(mail'[g.from]) = Len(mail[g.from]) + 1
            /\ \A j \in 1 .. Len(mail[g.from]) : j \in 1 .. Len(mail'[g.from])
                                              /\ mail'[g.from][j] = mail[g.from][j]
        <5>1. g.from \in Rooms /\ e \in Messages
          BY <2>1, <2>2
        <5>2. Told(mail', g.from, e, members[g.from])
          BY <2>3, <5>1, TellTold
        <5> QED
          BY <5>2 DEF Told
      <4>2. ~ (i \in 1 .. Len(mail[s]) /\ mail'[s][i] = mail[s][i])
        BY <3>2 DEF Announced
      <4>3. s = g.from /\ Me \in members[g.from]
        BY <4>1, <4>2
      <4>4. Len(mail[g.from]) \in Nat
        <5> DEFINE S == Messages
        <5>1. mail \in [Rooms -> Seq(S)]
          BY DEF Typed
        <5> HIDE DEF S
        <5> QED
          BY <2>1, <5>1
      <4>5. i \in 1 .. Len(mail[g.from]) \/ i = Len(mail[g.from]) + 1
        BY <4>1, <4>3, <4>4
      <4> QED
        BY <4>1, <4>2, <4>3, <4>5
    <3>5. /\ \A t, u \in Tasks : Moving(t)' /\ Moving(u)' => t = u
          /\ \A a, h : Making(a)' /\ Making(h)' => a = h
          /\ \A i, j : Walked(i)' /\ Walked(j)' => i = j
      BY <3>3 DEF SomeMoving, SomeWalked, SomeMaking
    <3>6. \A r, q, i, j : Announced(r, i)' /\ Announced(q, j)' => r = q /\ i = j
      BY <3>4
    <3> QED
      BY <3>3, <3>5, <3>6 DEF Single
  <2> QED
    BY <2>5, <2>6
<1> QED
  BY <1>5, <1>6, <1>7, <1>8, <1>9 DEF World

\* A reply in hand ends what only the call could still do.
LEMMA ServesPlaced ==
  ASSUME Typed, Single, Placed, NEW t \in Tasks, RoomServes(t)
  PROVE  Single' /\ Placed'
<1> DEFINE c == task[t]
           k == task'[t]
           r == c.room
<1>1. /\ c \in Calls /\ c.reply = None /\ k \in Calls
      /\ k.reply = Snapshot(r) /\ k.verb = c.verb /\ k.room = r /\ k.dir = c.dir
      /\ k.why = c.why /\ r \in Rooms /\ c.dir \in Rooms
      /\ \A u \in Tasks : u # t => task'[u] = task[u]
      /\ UNCHANGED ctx_room
  BY ServesIs DEF RepliesWith
<1>2. k.reply # None /\ c # None /\ k # None
  BY <1>1, SnapshotIs, CallIs
<1>3. \A u \in Tasks : u # t => (Moving(u)' <=> Moving(u))
  BY <1>1, SameMoving
<1>4. (Moving(t) <=> \/ c.verb \in {"enter", "leave", "move", "dig"}
                     \/ c.verb = "look" /\ c.why \in {"resolve", "dig"})
  BY <1>1, <1>2 DEF Moving
<1>5. (Moving(t)' <=> \/ c.verb \in {"enter", "leave"}
                      \/ c.verb = "look" /\ c.why \in {"resolve", "dig"})
  BY <1>1, <1>2 DEF Moving
<1> HIDE DEF c, k
<1>6. ASSUME Moving(t)
      PROVE  /\ \A u \in Tasks : u # t => ~ Moving(u)'
             /\ \A g : ~ Making(g)
             /\ \A q, i : ~ Announced(q, i)
             /\ \A i : ~ Walked(i)
             /\ Within(Whereabouts(c))
             /\ c.verb = "enter" => c.why \in {"enter", "key"}
             /\ c.verb = "enter" /\ c.why = "enter" => c.dir = ctx_room
             /\ c.verb = "move" => r = ctx_room
  BY <1>3, <1>6, OnlyTask DEF Placed, c
\* The same call moves the avatar before and after.
<1>7. ASSUME Moving(t)' <=> Moving(t), UNCHANGED <<members, walks>>,
             c.verb \notin {"enter", "leave"}
      PROVE  Placed'
  <2>1. \A u \in Tasks : Moving(u)' <=> Moving(u)
    BY <1>3, <1>7
  <2>2. \A i : Walked(i)' <=> Walked(i)
    BY <1>7, SameWalks
  <2>3. /\ SomeMoving' <=> SomeMoving
        /\ SomeWalked' <=> SomeWalked
    BY <2>1, <2>2 DEF SomeMoving, SomeWalked
  <2>4. ASSUME NEW u \in Tasks, Moving(u)', u = t
        PROVE  Whereabouts(task[u])' = Whereabouts(task[u])
    <3>1. k.verb \notin {"enter", "leave"}
      BY <1>1, <1>7 DEF c, k
    <3>2. Whereabouts(c) = {ctx_room}
      BY <1>7 DEF Whereabouts
    <3>3. Whereabouts(task[t])' = {ctx_room'}
      BY <3>1 DEF Whereabouts, k
    <3> QED
      BY <1>1, <2>4, <3>2, <3>3 DEF c
  <2>5. ASSUME NEW u \in Tasks, Moving(u)', u # t
        PROVE  Whereabouts(task[u])' = Whereabouts(task[u])
    BY <1>1, <2>5 DEF Whereabouts
  <2>6. ASSUME NEW u \in Tasks, Moving(u)'
        PROVE  /\ Within(Whereabouts(task[u]))'
               /\ task'[u].verb = "enter" => task'[u].why \in {"enter", "key"}
               /\ task'[u].verb = "enter" /\ task'[u].why = "enter" =>
                     task'[u].dir = ctx_room'
               /\ task'[u].verb = "move" => task'[u].room = ctx_room'
    <3>1. Whereabouts(task[u])' = Whereabouts(task[u])
      BY <2>4, <2>5, <2>6
    <3>2. Within(Whereabouts(task[u]))'
      BY <1>7, <2>1, <2>6, <3>1 DEF Placed, Within
    <3>3. task'[u].verb = task[u].verb /\ task'[u].why = task[u].why
          /\ task'[u].dir = task[u].dir /\ task'[u].room = task[u].room
      BY <1>1 DEF c, k
    <3> QED
      BY <1>1, <2>1, <2>6, <3>2, <3>3 DEF Placed
  <2>7. SomeWalked' => Within({})'
    BY <1>7, <2>3 DEF Placed, Within
  <2>8. ~ SomeMoving' => Within({ctx_room})'
    BY <1>1, <1>7, <2>3 DEF Placed, Within
  <2> QED
    BY <2>6, <2>7, <2>8 DEF Placed
<1>8. CASE RoomLooks(t)
  <2>1. c.verb = "look" /\ UNCHANGED <<members, digging, mail, walks>>
    BY <1>8 DEF RoomLooks, Serving, c
  <2>2. Moving(t)' <=> Moving(t)
    BY <1>4, <1>5, <2>1
  <2>3. Single'
    BY <1>3, <2>1, <2>2, StillSingle, SameMaking, SameMail, SameWalks
  <2> QED
    BY <1>7, <2>1, <2>2, <2>3
<1>9. CASE RoomFills(t)
  <2>1. c.verb = "fill" /\ UNCHANGED <<members, digging, walks>>
    BY <1>9 DEF RoomFills, Serving, c
  <2>2. ~ Moving(t)' /\ ~ Moving(t)
    BY <1>4, <1>5, <2>1
  <2> DEFINE e == Event("fill", Me, c.dir)
  <2>3. e \in Messages /\ ~ Own(e)
    <3>1. e \in Messages /\ e.name = "fill"
      BY <1>1, EventIs DEF Names, People
    <3> QED
      BY <3>1 DEF Own
  <2>4. mail' = Tell(r, e, members[r])
    BY <1>9 DEF RoomFills, Fill, c
  <2>5. \A q, i : Announced(q, i)' => Announced(q, i)
    BY <1>1, <2>3, <2>4, ToldOthers
  <2>6. Single'
    BY <1>3, <2>1, <2>2, <2>5, StillSingle, SameMaking, SameWalks
  <2> QED
    BY <1>7, <2>1, <2>2, <2>6
<1>10. CASE RoomAcks(t)
  <2>1. c.verb = "parent" /\ UNCHANGED <<members, digging, walks>>
    BY <1>10 DEF RoomAcks, Serving, c
  <2>2. ~ Moving(t)' /\ ~ Moving(t)
    BY <1>4, <1>5, <2>1
  <2> DEFINE e == [Event("child", Me, r) EXCEPT !.room = Snapshot(r)]
  <2>3. e \in Messages /\ ~ Own(e)
    <3>1. /\ Event("child", Me, r) \in Messages /\ Event("child", Me, r).name = "child"
          /\ Snapshot(r) \in Snapshots
      BY <1>1, EventIs, SnapshotIs DEF Names, People
    <3>2. e \in Messages /\ e.name = "child"
      BY <3>1 DEF Messages
    <3> QED
      BY <3>2 DEF Own
  <2>4. mail' = Tell(r, e, members[r])
    BY <1>10 DEF RoomAcks, c
  <2>5. \A q, i : Announced(q, i)' => Announced(q, i)
    BY <1>1, <2>3, <2>4, ToldOthers
  <2>6. Single'
    BY <1>3, <2>1, <2>2, <2>5, StillSingle, SameMaking, SameWalks
  <2> QED
    BY <1>7, <2>1, <2>2, <2>6
<1>11. CASE RoomDigs(t)
  <2>1. /\ c.verb = "dig" /\ UNCHANGED <<members, mail, walks>>
        /\ digging' = digging \cup {[from |-> r, to |-> c.dir, by |-> Me]}
    BY <1>11 DEF RoomDigs, Serving, c
  <2>2. Moving(t) /\ ~ Moving(t)'
    BY <1>4, <1>5, <2>1
  <2>3. \A u \in Tasks : ~ Moving(u)'
    BY <1>6, <2>2
  <2>4. \A g : Making(g)' => g = [from |-> r, to |-> c.dir, by |-> Me]
    BY <1>6, <2>1, <2>2 DEF Making
  <2>5. (\A q, i : ~ Announced(q, i)') /\ (\A i : ~ Walked(i)')
    BY <1>6, <2>1, <2>2, SameMail, SameWalks
  <2>6. ~ SomeMoving' /\ ~ SomeAnnounced' /\ ~ SomeWalked'
    BY <2>3, <2>5 DEF SomeMoving, SomeAnnounced, SomeWalked
  <2>7. \A g, h : Making(g)' /\ Making(h)' => g = h
    BY <2>4
  <2>8. Single'
    BY <2>3, <2>5, <2>6, <2>7 DEF Single
  <2>9. Whereabouts(c) = {ctx_room}
    BY <2>1 DEF Whereabouts
  <2>10. Within({ctx_room})'
    BY <1>1, <1>6, <2>1, <2>2, <2>9 DEF Within
  <2> QED
    BY <2>3, <2>6, <2>8, <2>10 DEF Placed
<1>12. CASE RoomMoves(t)
  <2>1. /\ c.verb = "move" /\ UNCHANGED <<exits, digging, mail>>
    BY <1>12 DEF RoomMoves, Serving, c
  <2>2. Moving(t) /\ ~ Moving(t)' /\ r = ctx_room
    <3>1. Moving(t) /\ ~ Moving(t)'
      BY <1>4, <1>5, <2>1
    <3> QED
      BY <1>6, <2>1, <3>1
  <2>3. \A u \in Tasks : ~ Moving(u)'
    BY <1>6, <2>2
  <2>4. (\A g : ~ Making(g)') /\ (\A q, i : ~ Announced(q, i)')
    BY <1>6, <2>1, <2>2, SameMaking, SameMail
  <2>5. Whereabouts(c) = {ctx_room}
    BY <2>1 DEF Whereabouts
  <2>6. Within({ctx_room})
    BY <1>6, <2>2, <2>5
  <2>7. ~ SomeMoving' /\ ~ SomeMaking' /\ ~ SomeAnnounced'
    BY <2>3, <2>4 DEF SomeMoving, SomeMaking, SomeAnnounced
  <2>8. \/ members' = [members EXCEPT ![r] = @ \ {Me}] /\ walks' = Append(walks, c.dir)
        \/ members' = members /\ walks' = Append(walks, "deny")
        \/ members' = members /\ walks' = walks
    BY <1>12 DEF RoomMoves, c
  <2>9. members \in [Rooms -> SUBSET People]
    BY DEF Typed
  <2>10. Within({ctx_room})'
    <3>1. \A q \in Rooms : members'[q] \subseteq members[q]
      BY <2>8, <2>9
    <3> QED
      BY <1>1, <2>6, <3>1 DEF Within
  <2>11. \A i : Walked(i)' => i = Len(walks) + 1 /\ walks' = Append(walks, c.dir)
                              /\ members' = [members EXCEPT ![r] = @ \ {Me}]
    <3> DEFINE S == Rooms \cup {"deny"}
    <3>1. walks \in Seq(S) /\ c.dir \in S /\ "deny" \in S
      BY <1>1 DEF Typed
    <3>2. \A i \in 1 .. Len(walks) : walks[i] = "deny"
      BY <1>6, <2>2 DEF Walked
    <3> HIDE DEF S
    <3>3. Len(walks) \in Nat
      BY <3>1
    <3>4. \A d \in S : /\ Len(Append(walks, d)) = Len(walks) + 1
                       /\ Append(walks, d)[Len(walks) + 1] = d
                       /\ \A i \in 1 .. Len(walks) : Append(walks, d)[i] = walks[i]
      BY <3>1
    <3> SUFFICES ASSUME NEW i \in 1 .. Len(walks'), walks'[i] # "deny"
                 PROVE  /\ i = Len(walks) + 1 /\ walks' = Append(walks, c.dir)
                        /\ members' = [members EXCEPT ![r] = @ \ {Me}]
      BY DEF Walked
    <3>5. i \notin 1 .. Len(walks)
      BY <2>8, <3>1, <3>2, <3>4
    <3>6. walks' # walks
      BY <3>5
    <3>7. i = Len(walks) + 1
      BY <2>8, <3>1, <3>3, <3>4, <3>5, <3>6
    <3>8. walks' # Append(walks, "deny")
      BY <3>1, <3>4, <3>7
    <3> QED
      BY <2>8, <3>6, <3>7, <3>8
  <2>12. SomeWalked' => Within({})'
    <3>1. ASSUME SomeWalked'
          PROVE  members' = [members EXCEPT ![r] = @ \ {Me}]
      BY <2>11, <3>1 DEF SomeWalked
    <3> QED
      BY <2>2, <2>6, <2>9, <3>1 DEF Within
  <2>13. Single'
    <3>1. \A i, j : Walked(i)' /\ Walked(j)' => i = j
      BY <2>11
    <3> QED
      BY <2>3, <2>4, <2>7, <3>1 DEF Single
  <2> QED
    BY <2>3, <2>10, <2>12, <2>13 DEF Placed
<1>13. CASE RoomEnters(t) \/ RoomLeaves(t)
  <2>1. /\ c.verb \in {"enter", "leave"} /\ UNCHANGED <<digging, mail, walks>>
        /\ c.verb = "enter" => members' = [members EXCEPT ![r] = @ \cup {Me}]
        /\ c.verb = "leave" => members' = [members EXCEPT ![r] = @ \ {Me}]
    BY <1>13 DEF RoomEnters, RoomLeaves, Serving, c
  <2>2. Moving(t) /\ Moving(t)'
    BY <1>4, <1>5, <2>1
  <2>3. /\ (\A g : ~ Making(g)') /\ (\A q, i : ~ Announced(q, i)') /\ (\A i : ~ Walked(i)')
    BY <1>6, <2>1, <2>2, SameMaking, SameMail, SameWalks
  <2>4. Single' /\ ~ SomeWalked'
    BY <1>6, <2>2, <2>3, TaskSingle
  <2>5. members \in [Rooms -> SUBSET People]
    BY DEF Typed
  <2>6. /\ \A q \in Rooms : Me \in members'[q] => Me \in members[q] \/ (q = r /\ c.verb = "enter")
        /\ c.verb = "leave" => Me \notin members'[r]
    BY <1>1, <2>1, <2>5
  <2>7. Within(Whereabouts(task[t]))'
    <3>1. k.verb = c.verb /\ k.why = c.why /\ k.reply # None /\ k.dir = c.dir /\ k.room = r
      BY <1>1, <1>2 DEF c, k
    <3>2. Within(Whereabouts(c))
      BY <1>6, <2>2
    <3>3. CASE c.verb = "enter" /\ c.why = "enter"
      <4>1. Whereabouts(c) = {c.dir}
        BY <1>1, <3>3 DEF Whereabouts, c
      <4>2. Whereabouts(task[t])' = {c.dir, r}
        BY <3>1, <3>3 DEF Whereabouts, k
      <4> QED
        BY <2>6, <3>2, <4>1, <4>2 DEF Within
    <3>4. CASE c.verb = "enter" /\ c.why # "enter"
      <4>1. Whereabouts(c) = {}
        BY <1>1, <3>4 DEF Whereabouts, c
      <4>2. Whereabouts(task[t])' = {r}
        BY <3>1, <3>4 DEF Whereabouts, k
      <4> QED
        BY <2>6, <3>2, <4>1, <4>2 DEF Within
    <3>5. CASE c.verb = "leave" /\ c.why = "enter"
      <4>1. Whereabouts(c) = {ctx_room, r}
        BY <1>1, <3>5 DEF Whereabouts, c
      <4>2. Whereabouts(task[t])' = {ctx_room}
        BY <1>1, <3>1, <3>5 DEF Whereabouts, k
      <4> QED
        BY <2>6, <3>2, <3>5, <4>1, <4>2 DEF Within
    <3>6. CASE c.verb = "leave" /\ c.why # "enter"
      <4>1. Whereabouts(c) = {ctx_room}
        BY <3>6 DEF Whereabouts, c
      <4>2. Whereabouts(task[t])' = {ctx_room}
        BY <1>1, <3>1, <3>6 DEF Whereabouts, k
      <4> QED
        BY <2>6, <3>2, <3>6, <4>1, <4>2 DEF Within
    <3> QED
      BY <2>1, <3>3, <3>4, <3>5, <3>6
  <2>8. SomeMoving'
    BY <2>2 DEF SomeMoving
  <2>9. /\ task'[t].verb = "enter" => task'[t].why \in {"enter", "key"}
        /\ task'[t].verb = "enter" /\ task'[t].why = "enter" => task'[t].dir = ctx_room'
        /\ task'[t].verb # "move"
    BY <1>1, <1>6, <2>1, <2>2 DEF c, k
  <2> QED
    BY <1>6, <2>2, <2>4, <2>7, <2>8, <2>9 DEF Placed
<1> QED
  BY <1>8, <1>9, <1>10, <1>11, <1>12, <1>13 DEF RoomServes

\* What a task waits for next, by what it waited for.
LEMMA ResumesNext ==
  ASSUME Typed, Answered, calm, NEW t \in Tasks, Resumes(t)
  PROVE  \E n \in Calls \cup {None} :
           /\ task' = [task EXCEPT ![t] = n]
           /\ task[t].verb \in {"look", "enter", "leave", "move", "dig", "fill", "parent"}
           /\ task[t].verb = "look" =>
                /\ ctx_room' = ctx_room /\ last_room' = task[t].reply
                /\ stale' = (task[t].missed \/ task[t].room # ctx_room)
                /\ n = None \/ ( /\ task[t].why \in {"resolve", "dig"} /\ n # None
                                 /\ n.verb \in {"move", "look"} /\ n.room = ctx_room
                                 /\ n.reply = None
                                 /\ n.verb = "look" => n.why = "resolve" )
           /\ task[t].verb = "enter" =>
                /\ ctx_room' = task[t].room /\ UNCHANGED <<last_room, stale>>
                /\ n # None /\ n.reply = None
                /\ IF task[t].why = "enter" /\ task[t].dir # task[t].room
                   THEN n.verb = "leave" /\ n.why = "enter" /\ n.room = task[t].dir
                   ELSE n.verb = "look" /\ n.why = "look" /\ n.room = task[t].room
           /\ task[t].verb = "leave" =>
                /\ ctx_room' = ctx_room /\ UNCHANGED <<last_room, stale>>
                /\ IF task[t].why = "enter"
                   THEN /\ n # None /\ n.verb = "look" /\ n.why = "look"
                        /\ n.room = ctx_room /\ n.reply = None
                   ELSE n = None
           /\ task[t].verb \in {"move", "dig", "fill", "parent"} =>
                n = None /\ UNCHANGED <<ctx_room, last_room, stale>>
<1> DEFINE c == task[t]
<1>1. /\ c \in Calls /\ c.reply \in Snapshots /\ c # None
      /\ c.room \in Rooms /\ c.dir \in Rooms /\ ctx_room \in Rooms
  <2>1. c \in Calls /\ c.reply \in Snapshots
    BY ResumesIs
  <2> QED
    BY <2>1, CallIs DEF Typed
<1>2. ~ Failed(t)
  <2>1. c.reply # None
    BY <1>1, MovesAssumption
  <2>2. c.reply.of = c.room
    BY <1>1, <2>1 DEF Answered
  <2> QED
    BY <1>1, <2>2, RefusalIs DEF Failed
<1>3. CASE Looked(t)
  <2>1. c.verb = "look"
    BY <1>3 DEF Looked, Resuming
  <2>2. /\ ctx_room' = ctx_room /\ last_room' = c.reply
        /\ stale' = (c.missed \/ c.room # ctx_room)
    BY <1>2, <1>3 DEF Looked
  <2>3. task' = [task EXCEPT ![t] =
          CASE c.why = "resolve" /\ c.dir \in c.reply.exits ->
                      Calling("move", ctx_room, c.dir, "go")
            [] c.why = "dig" -> Going(c.dir, c.reply)
            [] OTHER -> None]
    BY <1>2, <1>3 DEF Looked, Then
  <2> DEFINE m == Calling("move", ctx_room, c.dir, "go")
             g == Going(c.dir, c.reply)
             l == Calling("look", ctx_room, c.dir, "resolve")
  <2>4. /\ m \in Calls /\ m # None /\ m.verb = "move" /\ m.room = ctx_room /\ m.reply = None
        /\ l \in Calls /\ l # None /\ l.verb = "look" /\ l.room = ctx_room
        /\ l.why = "resolve" /\ l.reply = None
    <3>1. {"move", "look"} \subseteq Verbs /\ {"go", "resolve"} \subseteq Whys
      BY DEF Verbs, Whys
    <3> QED
      BY <1>1, <3>1, CallingIs
  <2>5. g = m \/ g = l
    BY <1>1, GoingIs
  <2> HIDE DEF m, l, g
  <2>6. \E n \in {None, m, l} : task' = [task EXCEPT ![t] = n]
                                /\ (n = None \/ c.why \in {"resolve", "dig"})
    <3>1. CASE c.why = "resolve" /\ c.dir \in c.reply.exits
      <4>1. task' = [task EXCEPT ![t] = m]
        BY <2>3, <3>1 DEF m
      <4> QED
        BY <3>1, <4>1
    <3>2. CASE ~ (c.why = "resolve" /\ c.dir \in c.reply.exits) /\ c.why = "dig"
      <4>1. task' = [task EXCEPT ![t] = g]
        BY <2>3, <3>2 DEF g
      <4> QED
        BY <2>5, <3>2, <4>1
    <3>3. CASE ~ (c.why = "resolve" /\ c.dir \in c.reply.exits) /\ c.why # "dig"
      <4>1. task' = [task EXCEPT ![t] = None]
        BY <2>3, <3>3
      <4> QED
        BY <4>1
    <3> QED
      BY <3>1, <3>2, <3>3
  <2>7. PICK n \in {None, m, l} : task' = [task EXCEPT ![t] = n]
                                /\ (n = None \/ c.why \in {"resolve", "dig"})
    BY <2>6
  <2>8. n \in Calls \cup {None}
    BY <2>4, <2>7
  <2>9. n = None \/ ( /\ c.why \in {"resolve", "dig"} /\ n # None
                      /\ n.verb \in {"move", "look"} /\ n.room = ctx_room
                      /\ n.reply = None
                      /\ n.verb = "look" => n.why = "resolve" )
    BY <2>4, <2>7
  <2> HIDE DEF c
  <2> QED
    BY <2>1, <2>2, <2>7, <2>8, <2>9 DEF c
<1>4. CASE Entered(t)
  <2>1. c.verb = "enter"
    BY <1>4 DEF Entered, Resuming
  <2>2. /\ ctx_room' = c.room /\ UNCHANGED <<last_room, stale>>
        /\ task' = [task EXCEPT ![t] = IF c.why = "enter" /\ c.dir # c.room
                       THEN Calling("leave", c.dir, c.room, "enter")
                       ELSE Calling("look", c.room, c.room, "look")]
    BY <1>2, <1>4 DEF Entered, Then, LookAround, Look, Leaves
  <2> DEFINE n == IF c.why = "enter" /\ c.dir # c.room
                  THEN Calling("leave", c.dir, c.room, "enter")
                  ELSE Calling("look", c.room, c.room, "look")
  <2>3. /\ n \in Calls /\ n # None /\ n.reply = None
        /\ IF c.why = "enter" /\ c.dir # c.room
           THEN n.verb = "leave" /\ n.why = "enter" /\ n.room = c.dir
           ELSE n.verb = "look" /\ n.why = "look" /\ n.room = c.room
    <3>1. {"leave", "look"} \subseteq Verbs /\ {"enter", "look"} \subseteq Whys
      BY DEF Verbs, Whys
    <3> QED
      BY <1>1, <3>1, CallingIs
  <2> HIDE DEF n, c
  <2> QED
    BY <2>1, <2>2, <2>3 DEF c, n
<1>5. CASE Left(t)
  <2>1. c.verb = "leave"
    BY <1>5 DEF Left, Resuming
  <2>2. /\ UNCHANGED <<ctx_room, last_room, stale>>
        /\ task' = [task EXCEPT ![t] = IF c.why = "enter"
                       THEN Calling("look", ctx_room, ctx_room, "look") ELSE None]
    BY <1>5 DEF Left, Then, LookAround, Look
  <2> DEFINE n == IF c.why = "enter" THEN Calling("look", ctx_room, ctx_room, "look")
                  ELSE None
  <2>3. /\ n \in Calls \cup {None}
        /\ IF c.why = "enter"
           THEN /\ n # None /\ n.verb = "look" /\ n.why = "look"
                /\ n.room = ctx_room /\ n.reply = None
           ELSE n = None
    <3>1. "look" \in Verbs /\ "look" \in Whys
      BY DEF Verbs, Whys
    <3> QED
      BY <1>1, <3>1, CallingIs
  <2> HIDE DEF n, c
  <2> QED
    BY <2>1, <2>2, <2>3 DEF c, n
<1>6. CASE Over(t)
  <2>1. c.verb \in {"move", "dig", "fill", "parent"}
    BY <1>6 DEF Over, Resuming
  <2>2. task' = [task EXCEPT ![t] = None] /\ UNCHANGED <<ctx_room, last_room, stale>>
    BY <1>6 DEF Over, Then
  <2> HIDE DEF c
  <2> QED
    BY <2>1, <2>2 DEF c
<1> QED
  BY <1>3, <1>4, <1>5, <1>6 DEF Resumes

LEMMA ResumesPlaced ==
  ASSUME Typed, Answered, calm, Single, Placed, NEW t \in Tasks, Resumes(t)
  PROVE  Single' /\ Placed'
<1> DEFINE c == task[t]
<1>1. /\ c \in Calls /\ c.reply \in Snapshots /\ c # None /\ c.reply # None
      /\ UNCHANGED <<members, exits, digging, mail, walks>>
  <2>1. c \in Calls /\ c.reply \in Snapshots /\ UNCHANGED world
    BY ResumesIs
  <2> QED
    BY <2>1, CallIs, MovesAssumption DEF world
<1>2. PICK n \in Calls \cup {None} :
           /\ task' = [task EXCEPT ![t] = n]
           /\ c.verb \in {"look", "enter", "leave", "move", "dig", "fill", "parent"}
           /\ c.verb = "look" =>
                /\ ctx_room' = ctx_room
                /\ n = None \/ ( /\ c.why \in {"resolve", "dig"} /\ n # None
                                 /\ n.verb \in {"move", "look"} /\ n.room = ctx_room
                                 /\ n.reply = None
                                 /\ n.verb = "look" => n.why = "resolve" )
           /\ c.verb = "enter" =>
                /\ ctx_room' = c.room
                /\ n # None /\ n.reply = None
                /\ IF c.why = "enter" /\ c.dir # c.room
                   THEN n.verb = "leave" /\ n.why = "enter" /\ n.room = c.dir
                   ELSE n.verb = "look" /\ n.why = "look" /\ n.room = c.room
           /\ c.verb = "leave" =>
                /\ ctx_room' = ctx_room
                /\ IF c.why = "enter"
                   THEN /\ n # None /\ n.verb = "look" /\ n.why = "look"
                        /\ n.room = ctx_room /\ n.reply = None
                   ELSE n = None
           /\ c.verb \in {"move", "dig", "fill", "parent"} =>
                n = None /\ ctx_room' = ctx_room
  BY ResumesNext
<1>3. task'[t] = n /\ \A u \in Tasks : u # t => task'[u] = task[u]
  BY <1>2, TaskSet
<1>4. \A u \in Tasks : u # t => (Moving(u)' <=> Moving(u))
  BY <1>3, SameMoving
<1>5. /\ Moving(t) <=> \/ c.verb \in {"enter", "leave"}
                       \/ c.verb = "look" /\ c.why \in {"resolve", "dig"}
      /\ Moving(t)' <=> /\ n # None
                        /\ \/ n.verb \in {"enter", "leave"}
                           \/ n.verb \in {"move", "dig"} /\ n.reply = None
                           \/ n.verb = "look" /\ n.why \in {"resolve", "dig"}
  BY <1>1, <1>3 DEF Moving
<1> HIDE DEF c
<1>6. /\ \A g : Making(g)' <=> Making(g)
      /\ \A r, i : Announced(r, i)' <=> Announced(r, i)
      /\ \A i : Walked(i)' <=> Walked(i)
  BY <1>1, SameMaking, SameMail, SameWalks
<1>7. \A S : Within(S)' <=> Within(S)
  BY <1>1 DEF Within
\* Nothing moved it, and nothing will.
<1>8. CASE ~ Moving(t)
  <2>1. ctx_room' = ctx_room /\ ~ Moving(t)'
    BY <1>2, <1>5, <1>8
  <2>2. \A u \in Tasks : (Moving(u)' <=> Moving(u)) /\ (Moving(u)' => u # t)
    BY <1>4, <1>8, <2>1
  <2>3. Single'
    BY <1>6, <2>2, StillSingle
  <2>4. \A u \in Tasks : Moving(u)' => task'[u] = task[u]
    BY <1>3, <2>2
  <2>5. Placed'
    BY <1>1, <1>6, <2>1, <2>2, <2>4, StillPlaced
  <2> QED
    BY <2>3, <2>5
<1>9. CASE Moving(t)
  <2>1. /\ \A u \in Tasks : u # t => ~ Moving(u)'
        /\ (\A g : ~ Making(g)') /\ (\A r, i : ~ Announced(r, i)') /\ (\A i : ~ Walked(i)')
    BY <1>4, <1>6, <1>9, OnlyTask
  <2>2. Single' /\ ~ SomeWalked'
    BY <2>1, TaskSingle
  <2>3. /\ Within(Whereabouts(c))
        /\ c.verb = "enter" => c.why \in {"enter", "key"}
        /\ c.verb = "enter" /\ c.why = "enter" => c.dir = ctx_room
    BY <1>9 DEF Placed, c
  <2>4. SomeMoving' => Moving(t)'
    BY <2>1 DEF SomeMoving
  <2>5. Moving(t)' => n.verb # "enter"
    BY <1>2, <1>5, <1>9
  <2>6. \A S : Within(S) => Within(S)'
    BY <1>7
  \* After a look or a departure the avatar is where it was.
  <2>7. CASE c.verb # "enter"
    <3>1. Whereabouts(c) = {ctx_room}
      BY <1>1, <1>5, <1>9, <2>7 DEF Whereabouts
    <3>2. ctx_room' = ctx_room
      BY <1>2, <2>7
    <3>3. Within({ctx_room})'
      BY <1>1, <2>3, <3>1, <3>2 DEF Within
    <3>4. Moving(t)' => n.verb \in {"move", "look"} /\ n.room = ctx_room
      BY <1>2, <1>5, <2>7
    <3>5. Moving(t)' => Whereabouts(task[t])' = {ctx_room}
      BY <1>3, <3>2, <3>4 DEF Whereabouts
    <3>6. Moving(t)' => Within(Whereabouts(task[t]))'
      BY <1>1, <2>3, <3>1, <3>5 DEF Within
    <3> QED
      BY <1>3, <2>1, <2>2, <3>2, <3>3, <3>4, <3>6 DEF Placed
  <2>8. CASE c.verb = "enter" /\ c.why = "enter" /\ c.dir # c.room
    <3>1. Whereabouts(c) = {c.dir, c.room}
      BY <1>1, <2>8 DEF Whereabouts
    <3>2. /\ ctx_room' = c.room
          /\ n.verb = "leave" /\ n.why = "enter" /\ n.room = c.dir /\ n # None
          /\ n.reply = None
      BY <1>2, <2>8
    <3>3. Moving(t)'
      BY <1>5, <3>2
    <3>4. Whereabouts(task[t])' = {c.dir, c.room}
      BY <1>3, <3>2 DEF Whereabouts
    <3>5. Within(Whereabouts(task[t]))'
      BY <1>1, <2>3, <3>1, <3>4 DEF Within
    <3>6. SomeMoving'
      BY <3>3 DEF SomeMoving
    <3> QED
      BY <1>3, <2>1, <2>2, <3>2, <3>5, <3>6 DEF Placed
  <2>9. CASE c.verb = "enter" /\ ~ (c.why = "enter" /\ c.dir # c.room)
    <3>1. Whereabouts(c) \subseteq {c.room}
      BY <1>1, <2>9 DEF Whereabouts
    <3>2. ctx_room' = c.room /\ ~ Moving(t)'
      BY <1>2, <1>5, <2>9
    <3>3. Within({ctx_room})'
      BY <1>1, <2>3, <3>1, <3>2 DEF Within
    <3>4. \A u \in Tasks : ~ Moving(u)'
      BY <2>1, <3>2
    <3> QED
      BY <2>2, <3>3, <3>4 DEF Placed
  <2> QED
    BY <2>7, <2>8, <2>9
<1> QED
  BY <1>8, <1>9

LEMMA EventsPlaced ==
  ASSUME Typed, Single, Placed, NEW r \in Rooms,
         EventMembership(r) \/ EventChild(r) \/ EventDig(r) \/ EventRollCallChild(r)
  PROVE  Single' /\ Placed'
<1> DEFINE e == Head(mail[r])
<1>1. PICK names : \E call \in Calls \cup {None} :
            /\ Handling(r, names) /\ Handle(r, call)
            /\ call # None => call.reply = None /\ call.room = ctx_room
                              /\ call.verb \in {"look", "parent"}
            /\ call # None /\ call.verb = "look" /\ call.why \in {"resolve", "dig"}
                 => Own(e)
            /\ Own(e) /\ e.name \in names
                 => call # None /\ call.verb = "look" /\ call.why = "dig"
  BY EventsAre
<1>2. PICK call \in Calls \cup {None} :
            /\ Handling(r, names) /\ Handle(r, call)
            /\ call # None => call.reply = None /\ call.room = ctx_room
                              /\ call.verb \in {"look", "parent"}
            /\ call # None /\ call.verb = "look" /\ call.why \in {"resolve", "dig"}
                 => Own(e)
            /\ Own(e) /\ e.name \in names
                 => call # None /\ call.verb = "look" /\ call.why = "dig"
  BY <1>1
<1> HIDE DEF e
<1>3. /\ task["evt"] = None /\ e.name \in names
      /\ mail' = [mail EXCEPT ![r] = Tail(@)] /\ mail[r] # <<>>
      /\ UNCHANGED <<ctx_room, members, digging, walks>>
  BY <1>2, HandlingIs DEF e
<1>4. task'["evt"] = call /\ task'["cmd"] = Missed("cmd", r)
  BY <1>2, HandleIs
<1>5. "cmd" \in Tasks /\ "evt" \in Tasks /\ \A t \in Tasks : t = "cmd" \/ t = "evt"
  BY DEF Tasks
<1>6. /\ (task'["cmd"] = None <=> task["cmd"] = None)
      /\ task["cmd"] # None =>
           /\ task'["cmd"].verb = task["cmd"].verb /\ task'["cmd"].room = task["cmd"].room
           /\ task'["cmd"].dir = task["cmd"].dir /\ task'["cmd"].why = task["cmd"].why
           /\ task'["cmd"].reply = task["cmd"].reply
  BY <1>4, <1>5, MissedIs
<1>7. Moving("cmd")' <=> Moving("cmd")
  BY <1>6 DEF Moving
<1>8. ~ Moving("evt")
  BY <1>3 DEF Moving
<1>9. /\ \A s \in Rooms : s # r => mail'[s] = mail[s]
      /\ Len(mail'[r]) = Len(mail[r]) - 1 /\ Len(mail[r]) \in Nat
      /\ Len(mail[r]) >= 1 /\ e = mail[r][1]
      /\ \A i \in 1 .. Len(mail'[r]) : mail'[r][i] = mail[r][i + 1]
  BY <1>3, HandledIs DEF e
<1>10. \A s, i : Announced(s, i)' => IF s = r THEN Announced(r, i + 1) ELSE Announced(s, i)
  <2> SUFFICES ASSUME NEW s \in Rooms, NEW i \in 1 .. Len(mail'[s]), Own(mail'[s][i])
               PROVE  IF s = r THEN Announced(r, i + 1) ELSE Announced(s, i)
    BY DEF Announced
  <2>1. CASE s = r
    <3>1. i + 1 \in 1 .. Len(mail[r])
      BY <1>9, <2>1
    <3> QED
      BY <1>9, <2>1, <3>1 DEF Announced
  <2>2. CASE s # r
    BY <1>9, <2>2 DEF Announced
  <2> QED
    BY <2>1, <2>2
<1>11. \A s, i : Announced(s, i)' => i \in Nat
  <2> SUFFICES ASSUME NEW s \in Rooms, NEW i \in 1 .. Len(mail'[s])
               PROVE  i \in Nat
    BY DEF Announced
  <2> QED
    OBVIOUS
<1>12. /\ \A g : Making(g)' <=> Making(g)
       /\ \A i : Walked(i)' <=> Walked(i)
  BY <1>3, SameMaking, SameWalks
\* One's own passage is made: it is followed.
<1>13. CASE Own(e)
  <2>1. Announced(r, 1)
    BY <1>9, <1>13 DEF Announced
  <2>2. /\ \A t \in Tasks : ~ Moving(t)
        /\ \A g : ~ Making(g)
        /\ \A i : ~ Walked(i)
        /\ \A s, i : Announced(s, i) => s = r /\ i = 1
    BY <2>1 DEF Single, SomeMoving, SomeMaking, SomeAnnounced, SomeWalked
  <2>3. \A s, i : ~ Announced(s, i)'
    <3> SUFFICES ASSUME NEW s, NEW i, Announced(s, i)'
                 PROVE  FALSE
      OBVIOUS
    <3>1. i \in Nat
      BY <1>11
    <3>2. Announced(r, i + 1) \/ (s # r /\ Announced(s, i))
      BY <1>10
    <3>3. i \in 1 .. Len(mail'[s])
      BY DEF Announced
    <3> QED
      BY <2>2, <3>1, <3>2, <3>3
  <2>4. \A t \in Tasks : t # "evt" => ~ Moving(t)'
    BY <1>5, <1>7, <2>2
  <2>5. Single' /\ ~ SomeWalked'
    BY <1>5, <1>12, <2>2, <2>3, <2>4, TaskSingle
  <2>6. Within({ctx_room})
    BY <2>2 DEF Placed, SomeMoving
  <2>7. /\ task'["evt"] # None /\ task'["evt"].verb = "look" /\ task'["evt"].why = "dig"
    BY <1>2, <1>3, <1>4, <1>13
  <2>8. Whereabouts(task["evt"])' = {ctx_room}
    BY <1>3, <2>7 DEF Whereabouts
  <2>9. Within({ctx_room})' /\ Within(Whereabouts(task["evt"]))'
    BY <1>3, <2>6, <2>8 DEF Within
  <2> QED
    BY <2>4, <2>5, <2>7, <2>9 DEF Placed
<1>14. CASE ~ Own(e)
  <2>1. ~ Moving("evt")'
    BY <1>2, <1>4, <1>14 DEF Moving
  <2>2. \A t \in Tasks : Moving(t)' <=> Moving(t)
    BY <1>5, <1>7, <1>8, <2>1
  <2>3. \A t \in Tasks : Moving(t)' =>
            /\ task'[t].verb = task[t].verb /\ task'[t].why = task[t].why
            /\ task'[t].dir = task[t].dir /\ task'[t].room = task[t].room
            /\ task'[t].reply = task[t].reply
    <3> SUFFICES ASSUME NEW t \in Tasks, Moving(t)'
                 PROVE  /\ task'[t].verb = task[t].verb /\ task'[t].why = task[t].why
                        /\ task'[t].dir = task[t].dir /\ task'[t].room = task[t].room
                        /\ task'[t].reply = task[t].reply
      OBVIOUS
    <3>1. t = "cmd" /\ task["cmd"] # None
      BY <1>5, <2>1, <2>2 DEF Moving
    <3> QED
      BY <1>6, <3>1
  <2>4. Placed'
    BY <1>3, <1>12, <2>2, <2>3, StillPlaced
  <2>5. /\ SomeMoving' => SomeMoving
        /\ SomeMaking' => SomeMaking
        /\ SomeAnnounced' => SomeAnnounced
        /\ SomeWalked' => SomeWalked
    BY <1>10, <1>12, <2>2 DEF SomeMoving, SomeMaking, SomeAnnounced, SomeWalked
  <2>6. \A t, u \in Tasks : Moving(t)' /\ Moving(u)' => t = u
    BY <2>2 DEF Single
  <2>7. \A g, h : Making(g)' /\ Making(h)' => g = h
    BY <1>12 DEF Single
  <2>8. \A i, j : Walked(i)' /\ Walked(j)' => i = j
    BY <1>12 DEF Single
  <2>9. \A s, q, i, j : Announced(s, i)' /\ Announced(q, j)' => s = q /\ i = j
    <3> SUFFICES ASSUME NEW s, NEW q, NEW i, NEW j, Announced(s, i)', Announced(q, j)'
                 PROVE  s = q /\ i = j
      OBVIOUS
    <3>1. i \in Nat /\ j \in Nat
      BY <1>11
    <3>2. /\ IF s = r THEN Announced(r, i + 1) ELSE Announced(s, i)
          /\ IF q = r THEN Announced(r, j + 1) ELSE Announced(q, j)
      BY <1>10
    <3>3. \A a, b, m, n : Announced(a, m) /\ Announced(b, n) => a = b /\ m = n
      BY DEF Single
    <3>4. s = q
      BY <3>2, <3>3
    <3>5. i + 1 = j + 1 \/ i = j
      BY <3>2, <3>3, <3>4
    <3> QED
      BY <3>1, <3>4, <3>5
  <2>10. Single'
    BY <2>5, <2>6, <2>7, <2>8, <2>9 DEF Single
  <2> QED
    BY <2>4, <2>10
<1> QED
  BY <1>13, <1>14

LEMMA MoveEventPlaced ==
  ASSUME Typed, Single, Placed, EventMove
  PROVE  Single' /\ Placed'
<1>1. PICK i \in 1 .. Len(walks) : \E c \in Calls \cup {None} :
           /\ walks' = RemoveAt(walks, i) /\ task["evt"] = None
           /\ task' = [task EXCEPT !["evt"] = c]
           /\ walks[i] = "deny" => c = None
           /\ walks[i] # "deny" =>
                c # None /\ c.reply = None /\ c.verb = "enter" /\ c.why = "key"
  BY MoveEventIs
<1>2. PICK c \in Calls \cup {None} :
           /\ walks' = RemoveAt(walks, i) /\ task["evt"] = None
           /\ task' = [task EXCEPT !["evt"] = c]
           /\ walks[i] = "deny" => c = None
           /\ walks[i] # "deny" =>
                c # None /\ c.reply = None /\ c.verb = "enter" /\ c.why = "key"
  BY <1>1
<1>3. UNCHANGED <<ctx_room, members, digging, mail>>
  BY DEF EventMove
<1>4. "evt" \in Tasks
  BY DEF Tasks
<1>5. task'["evt"] = c /\ \A u \in Tasks : u # "evt" => task'[u] = task[u]
  BY <1>2, <1>4, TaskSet
<1>6. /\ \A u \in Tasks : u # "evt" => (Moving(u)' <=> Moving(u))
      /\ ~ Moving("evt")
  BY <1>2, <1>5, SameMoving DEF Moving
<1>7. /\ \A g : Making(g)' <=> Making(g)
      /\ \A r, j : Announced(r, j)' <=> Announced(r, j)
  BY <1>3, SameMaking, SameMail
<1> DEFINE at(j) == IF j < i THEN j ELSE j + 1
<1>8. \A j : Walked(j)' => j \in Nat /\ at(j) # i /\ Walked(at(j))
  <2> DEFINE S == Rooms \cup {"deny"}
  <2>1. walks \in Seq(S) /\ Len(walks) \in Nat
    BY DEF Typed
  <2> HIDE DEF S
  <2>2. /\ Len(walks') = Len(walks) - 1
        /\ \A j \in 1 .. Len(walks) - 1 : walks'[j] = walks[IF j < i THEN j ELSE j + 1]
    BY <1>2, <2>1, RemoveIs
  <2> SUFFICES ASSUME NEW j \in 1 .. Len(walks'), walks'[j] # "deny"
               PROVE  j \in Nat /\ at(j) # i /\ Walked(at(j))
    BY DEF Walked
  <2>3. j \in 1 .. Len(walks) - 1
    BY <2>1, <2>2
  <2>4. at(j) \in 1 .. Len(walks) /\ at(j) # i /\ j \in Nat
    BY <2>1, <2>3
  <2>5. walks[at(j)] # "deny"
    BY <2>2, <2>3
  <2> QED
    BY <2>4, <2>5 DEF Walked
<1>9. CASE walks[i] = "deny"
  <2>1. ~ Moving("evt")' /\ c = None
    BY <1>2, <1>5, <1>9 DEF Moving
  <2>2. \A t \in Tasks : Moving(t)' <=> Moving(t)
    BY <1>6, <2>1
  <2>3. /\ SomeMoving' <=> SomeMoving
        /\ SomeMaking' => SomeMaking
        /\ SomeAnnounced' => SomeAnnounced
        /\ SomeWalked' => SomeWalked
    BY <1>7, <1>8, <2>2 DEF SomeMoving, SomeMaking, SomeAnnounced, SomeWalked
  <2>4. \A j, k : Walked(j)' /\ Walked(k)' => j = k
    <3> SUFFICES ASSUME NEW j, NEW k, Walked(j)', Walked(k)'
                 PROVE  j = k
      OBVIOUS
    <3>1. j \in Nat /\ k \in Nat /\ Walked(at(j)) /\ Walked(at(k))
      BY <1>8
    <3>2. at(j) = at(k)
      BY <3>1 DEF Single
    <3> QED
      BY <3>1, <3>2
  <2>5. Single'
    <3>1. \A t, u \in Tasks : Moving(t)' /\ Moving(u)' => t = u
      BY <2>2 DEF Single
    <3>2. \A g, h : Making(g)' /\ Making(h)' => g = h
      BY <1>7 DEF Single
    <3>3. \A r, s, m, n : Announced(r, m)' /\ Announced(s, n)' => r = s /\ m = n
      BY <1>7 DEF Single
    <3> QED
      BY <2>3, <2>4, <3>1, <3>2, <3>3 DEF Single
  <2>6. \A t \in Tasks : Moving(t)' => t # "evt" /\ task'[t] = task[t] /\ Moving(t)
    BY <1>5, <2>1, <2>2
  <2>7. \A S : Within(S) => Within(S)'
    BY <1>3 DEF Within
  <2>8. ASSUME NEW t \in Tasks, Moving(t)'
        PROVE  /\ Within(Whereabouts(task[t]))'
               /\ task'[t].verb = "enter" => task'[t].why \in {"enter", "key"}
               /\ task'[t].verb = "enter" /\ task'[t].why = "enter" =>
                     task'[t].dir = ctx_room'
               /\ task'[t].verb = "move" => task'[t].room = ctx_room'
    <3>1. Whereabouts(task[t])' = Whereabouts(task[t])
      BY <1>3, <2>6, <2>8 DEF Whereabouts
    <3>2. Within(Whereabouts(task[t]))'
      BY <1>3, <2>6, <2>8, <3>1 DEF Placed, Within
    <3> QED
      BY <1>3, <2>6, <2>8, <3>2 DEF Placed
  <2>9. SomeWalked' => Within({})'
    BY <2>3, <2>7 DEF Placed
  <2>10. ~ SomeMoving' => Within({ctx_room})'
    BY <1>3, <2>3 DEF Placed, Within
  <2> QED
    BY <2>5, <2>8, <2>9, <2>10 DEF Placed
<1>10. CASE walks[i] # "deny"
  <2>1. Walked(i)
    BY <1>10 DEF Walked
  <2>2. /\ \A t \in Tasks : ~ Moving(t)
        /\ \A g : ~ Making(g)
        /\ \A s, j : ~ Announced(s, j)
        /\ \A j : Walked(j) => j = i
    BY <2>1 DEF Single, SomeMoving, SomeMaking, SomeAnnounced, SomeWalked
  <2>3. \A j : ~ Walked(j)'
    BY <1>8, <2>2
  <2>4. Single' /\ ~ SomeWalked'
    BY <1>4, <1>6, <1>7, <2>2, <2>3, TaskSingle
  <2>5. Within({})
    BY <2>1 DEF Placed, SomeWalked
  <2>6. /\ task'["evt"] # None /\ task'["evt"].verb = "enter" /\ task'["evt"].why = "key"
        /\ task'["evt"].reply = None
    BY <1>2, <1>5, <1>10
  <2>7. Whereabouts(task["evt"])' = {}
    BY <2>6 DEF Whereabouts
  <2>8. Within({})' /\ Within(Whereabouts(task["evt"]))' /\ Within({ctx_room})'
    BY <1>3, <2>5, <2>7 DEF Within
  <2>9. \A t \in Tasks : Moving(t)' => t = "evt"
    BY <1>6, <2>2
  <2> QED
    BY <2>4, <2>6, <2>8, <2>9 DEF Placed
<1> QED
  BY <1>9, <1>10

LEMMA StepPlaced ==
  MoveInv /\ [Next]_vars => MoveInv'
<1> SUFFICES ASSUME MoveInv, [Next]_vars
             PROVE  MoveInv'
  OBVIOUS
<1>1. Typed /\ Answered /\ (patient /\ calm => Single /\ Placed)
  BY DEF MoveInv
<1>2. Typed' /\ Answered'
  BY <1>1, StepTyped, StepAnswered
<1> SUFFICES ASSUME patient', calm'
             PROVE  Single' /\ Placed'
  BY <1>2 DEF MoveInv
<1>3. ASSUME User
      PROVE  Single' /\ Placed'
  <2>1. patient /\ calm
    BY <1>3 DEF User, Command
  <2> QED
    BY <1>1, <1>3, <2>1, UserPlaced
<1>4. ASSUME World
      PROVE  Single' /\ Placed'
  <2>1. patient /\ calm
    BY <1>4 DEF World, OtherArrives, OtherLeaves, OtherFills, OtherDigs, RollCall, Dug,
                Changing, history
  <2> QED
    BY <1>1, <1>4, <2>1, WorldPlaced
<1>5. ASSUME NEW t \in Tasks, RoomServes(t)
      PROVE  Single' /\ Placed'
  <2>1. patient /\ calm
    BY <1>1, <1>5, ServesIs
  <2> QED
    BY <1>1, <1>5, <2>1, ServesPlaced
<1>6. ASSUME NEW t \in Tasks, CallFails(t)
      PROVE  FALSE
  BY <1>6 DEF CallFails
<1>7. ASSUME NEW t \in Tasks, Resumes(t)
      PROVE  Single' /\ Placed'
  <2>1. patient /\ calm
    BY <1>1, <1>7, ResumesIs
  <2> QED
    BY <1>1, <1>7, <2>1, ResumesPlaced
<1>8. ASSUME NEW r \in Rooms,
             EventMembership(r) \/ EventChild(r) \/ EventDig(r) \/ EventRollCallChild(r)
      PROVE  Single' /\ Placed'
  <2>1. patient /\ calm
    BY <1>8 DEF EventMembership, EventChild, EventDig, EventRollCallChild, Handling
  <2> QED
    BY <1>1, <1>8, <2>1, EventsPlaced
<1>9. ASSUME EventMove
      PROVE  Single' /\ Placed'
  <2>1. patient /\ calm
    BY <1>9 DEF EventMove, history
  <2> QED
    BY <1>1, <1>9, <2>1, MoveEventPlaced
<1>10. ASSUME UNCHANGED vars
       PROVE  Single' /\ Placed'
  <2>1. /\ patient /\ calm
        /\ UNCHANGED <<ctx_room, task, members, digging, mail, walks>>
    BY <1>10 DEF vars, focus, world, history
  <2>2. \A t \in Tasks : Moving(t)' <=> Moving(t)
    BY <2>1 DEF Moving
  <2>3. Single'
    BY <1>1, <2>1, <2>2, StillSingle, SameMaking, SameMail, SameWalks
  <2>4. Placed'
    BY <1>1, <2>1, <2>2, StillPlaced, SameWalks
  <2> QED
    BY <2>3, <2>4
<1> QED
  BY <1>3, <1>4, <1>5, <1>6, <1>7, <1>8, <1>9, <1>10, TaskIs DEF Next, Events

LEMMA InitPlaced ==
  Init => MoveInv
<1> SUFFICES ASSUME Init
             PROVE  MoveInv
  OBVIOUS
<1>1. Typed
  BY InitTyped
<1>2. Quiet
  BY DEF Init, Quiet
<1>3. Answered
  BY <1>2 DEF Quiet, Answered
<1>4. Single
  BY <1>2, QuietIs DEF Single, SomeMoving, SomeMaking, SomeAnnounced, SomeWalked
<1>5. Within({ctx_room})
  <2>1. Me \notin Others /\ Home \in Rooms
    BY MovesAssumption
  <2> QED
    BY <2>1 DEF Init, Within
<1>6. Placed
  BY <1>2, <1>5, QuietIs DEF Placed, SomeWalked
<1> QED
  BY <1>1, <1>3, <1>4, <1>6 DEF MoveInv

\* Every call carries a room, every reply is that room's, and, when commands
\* wait for each other and no call fails, one thing at a time moves the avatar
\* and says which rooms it may be in.  (enter, enter-with-key, event-move)
THEOREM MoveInvariant == Spec => []MoveInv
<1> QED
  BY InitPlaced, StepPlaced, PTL DEF Spec

\* At rest an avatar whose commands wait for each other is in no room but the
\* one it believes to be in.  (enter: "Without this the old room keeps a stale
\* child")
THEOREM PresentOnceHolds == Spec => []PresentOnce
<1>1. MoveInv => PresentOnce
  <2> SUFFICES ASSUME MoveInv, Quiet, patient, calm
               PROVE  \A r \in Rooms : Me \in members[r] => r = ctx_room
    BY DEF PresentOnce
  <2>1. ~ SomeMoving
    BY QuietIs DEF SomeMoving
  <2> QED
    BY <2>1 DEF MoveInv, Placed, Within
<1> QED
  BY <1>1, MoveInvariant, PTL

-----------------------------------------------------------------------------
(* What the snapshot lacks is under way.                                    *)

Doing(t, verb) == task[t] # None /\ task[t].verb = verb

\* Event e says whether p is there; or where the exits lead.
Says(e, p) == e.name = "child" \/ (e.name \in {"arrive", "leave"} /\ e.who = p)
Present(e, p) == IF e.name = "child" THEN p \in e.room.children ELSE e.name = "arrive"
Maps(e) == e.name \in {"child", "dig", "fill"}

\* The last word that q, the events of room r, has on any matter is right, when
\* those in M are there and the exits lead to X.
Heard(q, r, M, X) ==
    \A i \in 1 .. Len(q) :
       /\ q[i].name = "child" => q[i].room # None /\ q[i].room.of = r
       /\ \A p \in People :
             Says(q[i], p) /\ (\A j \in 1 .. Len(q) : j > i => ~ Says(q[j], p))
                => (Present(q[i], p) <=> p \in M)
       /\ q[i].name = "child" /\ (\A j \in 1 .. Len(q) : j > i => ~ Maps(q[j]))
             => q[i].room.exits = X

\* Snapshot s is right in what q has no word on.
Agrees(s, q, r, M, X) ==
    /\ s.of = r
    /\ \A p \in People : (\A i \in 1 .. Len(q) : ~ Says(q[i], p))
                            => (p \in s.children <=> p \in M)
    /\ (\A i \in 1 .. Len(q) : ~ Maps(q[i])) => s.exits = X

HeardAt(r) == Heard(mail[r], r, members[r], exits[r])
AgreesAt(s, r) == Agrees(s, mail[r], r, members[r], exits[r])

\* A look at the avatar's room is on its way back, having missed nothing; one
\* is or will be under way.
Served(t) ==
    /\ Doing(t, "look") /\ task[t].reply # None /\ ~ task[t].missed
    /\ task[t].room = ctx_room
Mends(t) ==
    Doing(t, "enter") \/ Doing(t, "look") \/ (Doing(t, "leave") /\ task[t].why = "enter")

Synced ==
    /\ \A r \in Rooms : Me \in members[r] => HeardAt(r)
    /\ Me \in members[ctx_room] =>
          /\ \A t \in Tasks : Served(t) => AgreesAt(task[t].reply, ctx_room)
          /\ last_room # None /\ ~ stale =>
                (\E t \in Tasks : Mends(t)) \/ AgreesAt(last_room, ctx_room)

\* While a command looks around nothing else leads the avatar on; while one
\* enters, looks are at the room it comes from, and there are none, nor events,
\* if it comes from nowhere.
Trail ==
    /\ Doing("cmd", "look") => ~ (SomeMaking \/ SomeAnnounced \/ SomeWalked \/ Moving("evt"))
    /\ Doing("cmd", "enter") /\ task["cmd"].reply = None /\ Within({}) =>
          task["evt"] = None /\ \A r \in Rooms : mail[r] = <<>>
    /\ Doing("cmd", "enter") /\ Doing("evt", "look") => task["evt"].room = ctx_room

SyncInv ==
    /\ MoveInv
    /\ patient /\ calm => Trail
    /\ patient /\ calm /\ ~ returned => Synced

-----------------------------------------------------------------------------
(* Events told and handled.                                                 *)

\* Event e is put behind q, or taken from its front.
Longer(q, w, e) ==
    /\ Len(q) \in Nat /\ Len(w) = Len(q) + 1 /\ w[Len(q) + 1] = e
    /\ \A i \in 1 .. Len(q) : w[i] = q[i]
Shorter(q, w, e) ==
    /\ Len(q) \in Nat /\ Len(q) >= 1 /\ Len(w) = Len(q) - 1 /\ q[1] = e
    /\ \A i \in 1 .. Len(w) : w[i] = q[i + 1]

\* Event e says all that changes when M becomes N and X becomes Y.
Reports(e, r, M, X, N, Y) ==
    /\ e.name = "child" => e.room # None /\ e.room.of = r /\ e.room.exits = Y
    /\ \A p \in People : Says(e, p) => (Present(e, p) <=> p \in N)
    /\ \A p \in People : ~ Says(e, p) => (p \in N <=> p \in M)
    /\ ~ Maps(e) => Y = X

LEMMA HeardTold ==
  ASSUME NEW q, NEW w, NEW e, NEW r, NEW M, NEW X, NEW N, NEW Y,
         Longer(q, w, e), Reports(e, r, M, X, N, Y), Heard(q, r, M, X)
  PROVE  /\ Heard(w, r, N, Y)
         /\ \A s : Agrees(s, q, r, M, X) => Agrees(s, w, r, N, Y)
<1>0. /\ Len(q) \in Nat /\ Len(w) = Len(q) + 1
      /\ \A i \in 1 .. Len(q) : w[i] = q[i]
      /\ w[Len(q) + 1] = e
      /\ e.name = "child" => e.room # None /\ e.room.of = r /\ e.room.exits = Y
      /\ \A p \in People : Says(e, p) => (Present(e, p) <=> p \in N)
      /\ \A p \in People : ~ Says(e, p) => (p \in N <=> p \in M)
      /\ ~ Maps(e) => Y = X
  BY DEF Longer, Reports
<1>1. \A i \in 1 .. Len(w) : i \in 1 .. Len(q) \/ i = Len(q) + 1
  BY <1>0
<1>2. \A i \in 1 .. Len(q) : i \in 1 .. Len(w) /\ Len(q) + 1 > i
  BY <1>0
<1>3. Len(q) + 1 \in 1 .. Len(w)
  BY <1>0
<1>4. ASSUME NEW i \in 1 .. Len(w)
      PROVE  w[i].name = "child" => w[i].room # None /\ w[i].room.of = r
  BY <1>0, <1>1, <1>4 DEF Heard
<1>5. ASSUME NEW i \in 1 .. Len(w), NEW p \in People, Says(w[i], p),
             \A j \in 1 .. Len(w) : j > i => ~ Says(w[j], p)
      PROVE  Present(w[i], p) <=> p \in N
  <2>1. CASE i = Len(q) + 1
    BY <1>0, <1>5, <2>1
  <2>2. CASE i \in 1 .. Len(q)
    <3>1. ~ Says(e, p)
      BY <1>0, <1>2, <1>3, <1>5, <2>2
    <3>2. \A j \in 1 .. Len(q) : j > i => ~ Says(q[j], p)
      BY <1>0, <1>2, <1>5
    <3>3. Present(q[i], p) <=> p \in M
      BY <1>0, <1>5, <2>2, <3>2 DEF Heard
    <3> QED
      BY <1>0, <2>2, <3>1, <3>3
  <2> QED
    BY <1>1, <2>1, <2>2
<1>6. ASSUME NEW i \in 1 .. Len(w), w[i].name = "child",
             \A j \in 1 .. Len(w) : j > i => ~ Maps(w[j])
      PROVE  w[i].room.exits = Y
  <2>1. CASE i = Len(q) + 1
    BY <1>0, <1>6, <2>1
  <2>2. CASE i \in 1 .. Len(q)
    <3>1. ~ Maps(e)
      BY <1>0, <1>2, <1>3, <1>6, <2>2
    <3>2. \A j \in 1 .. Len(q) : j > i => ~ Maps(q[j])
      BY <1>0, <1>2, <1>6
    <3>3. q[i].room.exits = X
      BY <1>0, <1>6, <2>2, <3>2 DEF Heard
    <3> QED
      BY <1>0, <2>2, <3>1, <3>3
  <2> QED
    BY <1>1, <2>1, <2>2
<1>7. ASSUME NEW s, Agrees(s, q, r, M, X)
      PROVE  Agrees(s, w, r, N, Y)
  <2>1. ASSUME NEW p \in People, \A i \in 1 .. Len(w) : ~ Says(w[i], p)
        PROVE  p \in s.children <=> p \in N
    <3>1. ~ Says(e, p) /\ \A i \in 1 .. Len(q) : ~ Says(q[i], p)
      BY <1>0, <1>2, <1>3, <2>1
    <3> QED
      BY <1>0, <1>7, <3>1 DEF Agrees
  <2>2. ASSUME \A i \in 1 .. Len(w) : ~ Maps(w[i])
        PROVE  s.exits = Y
    <3>1. ~ Maps(e) /\ \A i \in 1 .. Len(q) : ~ Maps(q[i])
      BY <1>0, <1>2, <1>3, <2>2
    <3> QED
      BY <1>0, <1>7, <3>1 DEF Agrees
  <2> QED
    BY <1>7, <2>1, <2>2 DEF Agrees
<1> QED
  BY <1>4, <1>5, <1>6, <1>7 DEF Heard

LEMMA HeardHandled ==
  ASSUME NEW q, NEW w, NEW e, NEW r, NEW M, NEW X, Shorter(q, w, e), Heard(q, r, M, X)
  PROVE  /\ Heard(w, r, M, X)
         \* What the event says is as it is, unless a later one says otherwise.
         /\ \A p \in People : Says(e, p) /\ (\A i \in 1 .. Len(w) : ~ Says(w[i], p))
               => (Present(e, p) <=> p \in M)
         /\ e.name = "child" => e.room # None /\ e.room.of = r
         /\ e.name = "child" /\ (\A i \in 1 .. Len(w) : ~ Maps(w[i])) => e.room.exits = X
<1>0. /\ Len(q) \in Nat /\ Len(q) >= 1 /\ Len(w) = Len(q) - 1 /\ q[1] = e
      /\ \A i \in 1 .. Len(w) : w[i] = q[i + 1]
  BY DEF Shorter
<1>1. \A i \in 1 .. Len(w) : i + 1 \in 1 .. Len(q) /\ i \in Nat
  BY <1>0
<1>2. \A j \in 1 .. Len(q) : j > 1 => j - 1 \in 1 .. Len(w) /\ q[j] = w[j - 1]
  BY <1>0
<1>3. ASSUME NEW i \in 1 .. Len(w), NEW j \in 1 .. Len(q), j > i + 1
      PROVE  j - 1 \in 1 .. Len(w) /\ j - 1 > i /\ q[j] = w[j - 1]
  <2>1. j > 1 /\ j - 1 > i
    BY <1>0, <1>3
  <2> QED
    BY <1>2, <2>1
<1>4. ASSUME NEW i \in 1 .. Len(w)
      PROVE  w[i].name = "child" => w[i].room # None /\ w[i].room.of = r
  BY <1>0, <1>1 DEF Heard
<1>5. ASSUME NEW i \in 1 .. Len(w), NEW p \in People, Says(w[i], p),
             \A j \in 1 .. Len(w) : j > i => ~ Says(w[j], p)
      PROVE  Present(w[i], p) <=> p \in M
  <2>1. \A j \in 1 .. Len(q) : j > i + 1 => ~ Says(q[j], p)
    BY <1>3, <1>5
  <2> QED
    BY <1>0, <1>1, <1>5, <2>1 DEF Heard
<1>6. ASSUME NEW i \in 1 .. Len(w), w[i].name = "child",
             \A j \in 1 .. Len(w) : j > i => ~ Maps(w[j])
      PROVE  w[i].room.exits = X
  <2>1. \A j \in 1 .. Len(q) : j > i + 1 => ~ Maps(q[j])
    BY <1>3, <1>6
  <2> QED
    BY <1>0, <1>1, <1>6, <2>1 DEF Heard
<1>7. 1 \in 1 .. Len(q)
  BY <1>0
<1>8. ASSUME NEW p \in People, Says(e, p), \A i \in 1 .. Len(w) : ~ Says(w[i], p)
      PROVE  Present(e, p) <=> p \in M
  <2>1. \A j \in 1 .. Len(q) : j > 1 => ~ Says(q[j], p)
    BY <1>2, <1>8
  <2> QED
    BY <1>0, <1>7, <1>8, <2>1 DEF Heard
<1>9. ASSUME e.name = "child"
      PROVE  /\ e.room # None /\ e.room.of = r
             /\ (\A i \in 1 .. Len(w) : ~ Maps(w[i])) => e.room.exits = X
  <2>1. (\A i \in 1 .. Len(w) : ~ Maps(w[i])) => \A j \in 1 .. Len(q) : j > 1 => ~ Maps(q[j])
    BY <1>2
  <2> QED
    BY <1>0, <1>7, <1>9, <2>1 DEF Heard
<1> QED
  BY <1>4, <1>5, <1>6, <1>8, <1>9 DEF Heard

\* Snapshot s becomes z when it takes up event e.
Updates(s, z, e) ==
    /\ z.of = s.of /\ z.exits = s.exits
    /\ \A p \in People : Says(e, p) => (p \in z.children <=> Present(e, p))
    /\ \A p \in People : ~ Says(e, p) => (p \in z.children <=> p \in s.children)

\* A snapshot that takes up an event agrees with what is still to come.
LEMMA AgreesHandled ==
  ASSUME NEW q, NEW w, NEW e, NEW r, NEW M, NEW X, Shorter(q, w, e), Heard(q, r, M, X),
         ~ Maps(e), NEW s, NEW z, Agrees(s, q, r, M, X), Updates(s, z, e)
  PROVE  Agrees(z, w, r, M, X)
<1>1. \A j \in 1 .. Len(q) : j = 1 \/ (j - 1 \in 1 .. Len(w) /\ q[j] = w[j - 1])
  BY DEF Shorter
<1>0. \A p \in People : Says(e, p) /\ (\A i \in 1 .. Len(w) : ~ Says(w[i], p))
                           => (Present(e, p) <=> p \in M)
  BY HeardHandled
<1>2. ASSUME NEW p \in People, \A i \in 1 .. Len(w) : ~ Says(w[i], p)
      PROVE  p \in z.children <=> p \in M
  <2>1. CASE Says(e, p)
    BY <1>0, <1>2, <2>1 DEF Updates
  <2>2. CASE ~ Says(e, p)
    <3>1. \A j \in 1 .. Len(q) : ~ Says(q[j], p)
      BY <1>1, <1>2, <2>2 DEF Shorter
    <3> QED
      BY <2>2, <3>1 DEF Agrees, Updates
  <2> QED
    BY <2>1, <2>2
<1>3. ASSUME \A i \in 1 .. Len(w) : ~ Maps(w[i])
      PROVE  z.exits = X
  <2>1. \A j \in 1 .. Len(q) : ~ Maps(q[j])
    BY <1>1, <1>3 DEF Shorter
  <2> QED
    BY <2>1 DEF Agrees, Updates
<1> QED
  BY <1>2, <1>3 DEF Agrees, Updates

LEMMA LastIs ==
  ASSUME Typed, NEW r \in Rooms
  PROVE  Len(mail[r]) \in Nat
<1> DEFINE S == Messages
<1>1. mail \in [Rooms -> Seq(S)]
  BY DEF Typed
<1> HIDE DEF S
<1> QED
  BY <1>1

\* A room changes and tells its members of it.
RoomChange(r, e) ==
    /\ r \in Rooms /\ e \in Messages /\ mail' = Tell(r, e, members[r])
    /\ \A s \in Rooms : s # r => members'[s] = members[s] /\ exits'[s] = exits[s]
    /\ Me \in members'[r] <=> Me \in members[r]
    /\ Reports(e, r, members[r], exits[r], members'[r], exits'[r])

LEMMA ChangeHeard ==
  ASSUME Typed, NEW r, NEW e, RoomChange(r, e), NEW s \in Rooms, Me \in members'[s]
  PROVE  /\ Me \in members[s]
         /\ HeardAt(s) => /\ HeardAt(s)'
                          /\ \A z : AgreesAt(z, s) => AgreesAt(z, s)'
<1>1. r \in Rooms /\ e \in Messages /\ mail' = Tell(r, e, members[r])
  BY DEF RoomChange
<1>2. /\ s # r => mail'[s] = mail[s]
      /\ Me \in members[r] => Len(mail'[r]) = Len(mail[r]) + 1
                              /\ mail'[r][Len(mail[r]) + 1] = e
      /\ \A j \in 1 .. Len(mail[r]) : mail'[r][j] = mail[r][j]
  <2>1. Told(mail', r, e, members[r])
    BY <1>1, TellTold
  <2> QED
    BY <2>1 DEF Told
<1>3. CASE s # r
  <2>1. mail'[s] = mail[s] /\ members'[s] = members[s] /\ exits'[s] = exits[s]
    BY <1>2, <1>3 DEF RoomChange
  <2>2. (HeardAt(s)' <=> HeardAt(s)) /\ \A z : AgreesAt(z, s)' <=> AgreesAt(z, s)
    BY <2>1 DEF HeardAt, AgreesAt
  <2> QED
    BY <2>1, <2>2
<1>4. CASE s = r
  <2>1. Me \in members[r]
    BY <1>4 DEF RoomChange
  <2>2. Reports(e, r, members[r], exits[r], members'[r], exits'[r])
    BY DEF RoomChange
  <2>3. Len(mail[r]) \in Nat
    BY <1>1, LastIs
  <2> DEFINE q == mail[r]
             w == mail'[r]
             M == members[r]
             N == members'[r]
             X == exits[r]
             Y == exits'[r]
  <2>4. /\ Len(q) \in Nat /\ Len(w) = Len(q) + 1 /\ w[Len(q) + 1] = e
        /\ \A i \in 1 .. Len(q) : w[i] = q[i]
    BY <1>2, <2>1, <2>3
  <2>5. Reports(e, r, M, X, N, Y)
    BY <2>2
  <2> HIDE DEF q, w, M, N, X, Y
  <2>6. ASSUME Heard(q, r, M, X)
        PROVE  /\ Heard(w, r, N, Y)
               /\ \A z : Agrees(z, q, r, M, X) => Agrees(z, w, r, N, Y)
    <3>1. Longer(q, w, e)
      BY <2>4 DEF Longer
    <3> QED
      BY <2>5, <2>6, <3>1, HeardTold
  <2>7. /\ HeardAt(r) <=> Heard(q, r, M, X)
        /\ HeardAt(r)' <=> Heard(w, r, N, Y)
        /\ \A z : AgreesAt(z, r) <=> Agrees(z, q, r, M, X)
        /\ \A z : AgreesAt(z, r)' <=> Agrees(z, w, r, N, Y)
    BY DEF HeardAt, AgreesAt, q, w, M, N, X, Y
  <2> QED
    BY <1>4, <2>1, <2>6, <2>7
<1> QED
  BY <1>3, <1>4

\* A look that is served sees the room as it is.
LEMMA SnapshotAgrees ==
  ASSUME NEW r
  PROVE  AgreesAt(Snapshot(r), r)
<1>1. Snapshot(r).of = r /\ Snapshot(r).children = members[r] /\ Snapshot(r).exits = exits[r]
  BY DEF Snapshot
<1> QED
  BY <1>1 DEF AgreesAt, Agrees

\* What the world does: it changes a room, or no room at all.
LEMMA WorldChanges ==
  ASSUME Typed, World
  PROVE  /\ UNCHANGED <<ctx_room, last_room, task, walks, patient, calm, stale, returned>>
         /\ \A g : Making(g)' => Making(g)
         /\ \/ UNCHANGED <<members, exits, mail>>
            \/ \E r, e : RoomChange(r, e) /\ (Own(e) => SomeMaking)
<1>1. UNCHANGED <<ctx_room, last_room, task, walks, patient, calm, stale, returned>>
  BY DEF World, OtherArrives, OtherLeaves, OtherFills, OtherDigs, RollCall, Dug,
         Changing, focus, history
<1>2. /\ members \in [Rooms -> SUBSET People] /\ exits \in [Rooms -> SUBSET Rooms]
      /\ Me \in People /\ Me \notin Others /\ Others \subseteq People
  BY MovesAssumption DEF Typed, People
<1> DEFINE Goal == /\ \A g : Making(g)' => Making(g)
                   /\ \/ UNCHANGED <<members, exits, mail>>
                      \/ \E r, e : RoomChange(r, e) /\ (Own(e) => SomeMaking)
<1>3. ASSUME NEW p \in Others, NEW r \in Rooms, OtherArrives(p, r)
      PROVE  Goal
  <2> DEFINE e == Event("arrive", p, r)
  <2>1. e \in Messages /\ e.name = "arrive" /\ e.who = p
    BY <1>2, EventIs DEF Names
  <2>2. /\ members' = [members EXCEPT ![r] = @ \cup {p}] /\ mail' = Tell(r, e, members[r])
        /\ UNCHANGED <<exits, digging>>
    BY <1>3 DEF OtherArrives
  <2> HIDE DEF e
  <2>3. /\ \A s \in Rooms : s # r => members'[s] = members[s]
        /\ members'[r] = members[r] \cup {p}
    BY <1>2, <2>2
  <2>4. RoomChange(r, e) /\ ~ Own(e)
    BY <1>2, <2>1, <2>2, <2>3 DEF RoomChange, Reports, Says, Present, Maps, Own
  <2> QED
    BY <2>2, <2>4, SameMaking
<1>4. ASSUME NEW p \in Others, NEW r \in Rooms, OtherLeaves(p, r)
      PROVE  Goal
  <2> DEFINE e == Event("leave", p, r)
  <2>1. e \in Messages /\ e.name = "leave" /\ e.who = p
    BY <1>2, EventIs DEF Names
  <2>2. /\ members' = [members EXCEPT ![r] = @ \ {p}] /\ mail' = Tell(r, e, members[r])
        /\ UNCHANGED <<exits, digging>>
    BY <1>4 DEF OtherLeaves
  <2> HIDE DEF e
  <2>3. /\ \A s \in Rooms : s # r => members'[s] = members[s]
        /\ members'[r] = members[r] \ {p}
    BY <1>2, <2>2
  <2>4. RoomChange(r, e) /\ ~ Own(e)
    BY <1>2, <2>1, <2>2, <2>3 DEF RoomChange, Reports, Says, Present, Maps, Own
  <2> QED
    BY <2>2, <2>4, SameMaking
<1>5. ASSUME NEW p \in Others, NEW r \in Rooms, NEW d \in Rooms, OtherFills(p, r, d)
      PROVE  Goal
  <2> DEFINE e == Event("fill", p, d)
  <2>1. e \in Messages /\ e.name = "fill"
    BY <1>2, EventIs DEF Names
  <2>2. /\ exits' = [exits EXCEPT ![r] = @ \ {d}] /\ mail' = Tell(r, e, members[r])
        /\ UNCHANGED <<members, digging>>
    BY <1>5 DEF OtherFills, Fill
  <2> HIDE DEF e
  <2>3. \A s \in Rooms : s # r => exits'[s] = exits[s]
    BY <1>2, <2>2
  <2>4. RoomChange(r, e) /\ ~ Own(e)
    BY <1>2, <2>1, <2>2, <2>3 DEF RoomChange, Reports, Says, Present, Maps, Own
  <2> QED
    BY <2>2, <2>4, SameMaking
<1>6. ASSUME NEW p \in Others, NEW r \in Rooms, NEW d \in Rooms, OtherDigs(p, r, d)
      PROVE  Goal
  <2>1. /\ digging' = digging \cup {[from |-> r, to |-> d, by |-> p]}
        /\ UNCHANGED <<members, exits, mail>>
    BY <1>6 DEF OtherDigs
  <2>2. \A g : Making(g)' => Making(g)
    BY <1>2, <2>1 DEF Making
  <2> QED
    BY <2>1, <2>2
<1>7. ASSUME NEW r \in Rooms, RollCall(r)
      PROVE  Goal
  <2> DEFINE e == Event("roll-call-child", Me, r)
  <2>1. e \in Messages /\ e.name = "roll-call-child"
    BY <1>2, EventIs DEF Names
  <2>2. mail' = Tell(r, e, members[r]) /\ UNCHANGED <<members, exits, digging>>
    BY <1>7 DEF RollCall
  <2> HIDE DEF e
  <2>3. RoomChange(r, e) /\ ~ Own(e)
    BY <2>1, <2>2 DEF RoomChange, Reports, Says, Present, Maps, Own
  <2> QED
    BY <2>2, <2>3, SameMaking
<1>8. ASSUME NEW g \in digging, Dug(g)
      PROVE  Goal
  <2> DEFINE e == Event("dig", g.by, g.to)
             r == g.from
  <2>1. r \in Rooms /\ g.to \in Rooms /\ g.by \in People
    BY DEF Typed, Passages
  <2>2. e \in Messages /\ e.name = "dig" /\ e.who = g.by
    BY <2>1, EventIs DEF Names
  <2>3. /\ exits' = [exits EXCEPT ![r] = @ \cup {g.to}] /\ mail' = Tell(r, e, members[r])
        /\ digging' = digging \ {g} /\ UNCHANGED members
    BY <1>8 DEF Dug
  <2> HIDE DEF e, r
  <2>4. \A s \in Rooms : s # r => exits'[s] = exits[s]
    BY <1>2, <2>3
  <2>5. RoomChange(r, e)
    BY <2>1, <2>2, <2>3, <2>4 DEF RoomChange, Reports, Says, Present, Maps
  <2>6. Own(e) => SomeMaking
    BY <2>2 DEF Own, Making, SomeMaking
  <2>7. \A h : Making(h)' => Making(h)
    BY <2>3 DEF Making
  <2> QED
    BY <2>5, <2>6, <2>7
<1>9. Goal
  BY <1>3, <1>4, <1>5, <1>6, <1>7, <1>8 DEF World
<1> QED
  BY <1>1, <1>9

\* A call that a room serves without the avatar coming or going.
LEMMA ServesChanges ==
  ASSUME Typed, NEW t \in Tasks, RoomServes(t), ~ Moving(t)
  PROVE  /\ task[t].verb \notin {"enter", "leave", "move", "dig"}
         /\ UNCHANGED <<digging, walks>>
         /\ \/ UNCHANGED <<members, exits, mail>>
            \/ task[t].verb # "look" /\ \E r, e : RoomChange(r, e) /\ ~ Own(e)
<1> DEFINE c == task[t]
           r == c.room
<1>1. c \in Calls /\ c.reply = None /\ r \in Rooms /\ c.dir \in Rooms /\ c # None
  BY ServesIs, CallIs DEF RepliesWith
<1>2. c.verb \notin {"enter", "leave", "move", "dig"}
  BY <1>1 DEF Moving
<1>3. RoomLooks(t) \/ RoomFills(t) \/ RoomAcks(t)
  BY <1>2 DEF RoomServes, RoomMoves, RoomEnters, RoomLeaves, RoomDigs, Serving
<1>4. /\ members \in [Rooms -> SUBSET People] /\ exits \in [Rooms -> SUBSET Rooms]
      /\ Me \in People
  BY DEF Typed, People
<1>5. CASE RoomLooks(t)
  BY <1>2, <1>5 DEF RoomLooks
<1>6. CASE RoomFills(t)
  <2> DEFINE e == Event("fill", Me, c.dir)
  <2>1. e \in Messages /\ e.name = "fill"
    BY <1>1, <1>4, EventIs DEF Names
  <2>2. /\ exits' = [exits EXCEPT ![r] = @ \ {c.dir}] /\ mail' = Tell(r, e, members[r])
        /\ UNCHANGED <<members, digging, walks>>
    BY <1>6 DEF RoomFills, Fill
  <2>3. c.verb = "fill"
    BY <1>6 DEF RoomFills, Serving
  <2> HIDE DEF e, c
  <2>4. \A s \in Rooms : s # r => exits'[s] = exits[s]
    BY <1>4, <2>2
  <2>5. RoomChange(r, e) /\ ~ Own(e)
    BY <1>1, <2>1, <2>2, <2>4 DEF RoomChange, Reports, Says, Present, Maps, Own
  <2> QED
    BY <1>2, <2>2, <2>3, <2>5 DEF c
<1>7. CASE RoomAcks(t)
  <2> DEFINE z == Snapshot(r)
             e == [Event("child", Me, r) EXCEPT !.room = z]
  <2>1. /\ z \in Snapshots /\ z.of = r /\ z # None
        /\ z.children = members[r] /\ z.exits = exits[r]
    BY <1>1, SnapshotIs DEF Snapshot
  <2>2. e \in Messages /\ e.name = "child" /\ e.room = z
    <3>1. Event("child", Me, r) \in Messages /\ Event("child", Me, r).name = "child"
      BY <1>1, <1>4, EventIs DEF Names
    <3> HIDE DEF z
    <3> QED
      BY <2>1, <3>1 DEF Messages
  <2>3. mail' = Tell(r, e, members[r]) /\ UNCHANGED <<members, exits, digging, walks>>
    BY <1>7 DEF RoomAcks
  <2>4. c.verb = "parent"
    BY <1>7 DEF RoomAcks, Serving
  <2> HIDE DEF e, c, z
  <2>5. RoomChange(r, e) /\ ~ Own(e)
    BY <1>1, <2>1, <2>2, <2>3 DEF RoomChange, Reports, Says, Present, Maps, Own
  <2> QED
    BY <1>2, <2>3, <2>4, <2>5 DEF c
<1> QED
  BY <1>3, <1>5, <1>6, <1>7

-----------------------------------------------------------------------------
(* Trail: what leads the avatar on while a command looks around or enters.  *)

LEMMA TaskIsOne ==
  /\ "cmd" \in Tasks /\ "evt" \in Tasks
  /\ \A t \in Tasks : t = "cmd" \/ t = "evt"
BY DEF Tasks

LEMMA DoingMoves ==
  ASSUME NEW t, Doing(t, "enter") \/ Doing(t, "leave")
  PROVE  Moving(t)
BY DEF Doing, Moving

\* Nothing but the command itself leads the avatar on.
Alone == ~ (SomeMaking \/ SomeAnnounced \/ SomeWalked \/ Moving("evt"))

LEMMA CommandAlone ==
  ASSUME Single, Moving("cmd")
  PROVE  Alone
BY TaskIsOne, OnlyTask DEF Alone, SomeMaking, SomeAnnounced, SomeWalked

LEMMA StillAlone ==
  ASSUME Alone, Moving("evt")' => Moving("evt"),
         \A g : Making(g)' => Making(g),
         \A r, i : Announced(r, i)' => SomeAnnounced,
         \A i : Walked(i)' => Walked(i)
  PROVE  Alone'
<1>1. /\ ~ SomeMaking' /\ ~ SomeWalked'
  BY DEF Alone, SomeMaking, SomeWalked
<1>2. ~ SomeAnnounced'
  BY DEF Alone, SomeAnnounced
<1> QED
  BY <1>1, <1>2 DEF Alone

LEMMA UserTrail ==
  ASSUME Typed, User, patient'
  PROVE  Trail'
<1>1. PICK name : \E call \in Firsts : Command(name, call)
  BY UserIs
<1>2. PICK call \in Firsts : Command(name, call)
  BY <1>1
<1>3. /\ Quiet /\ task' = [task EXCEPT !["cmd"] = call]
      /\ UNCHANGED <<digging, mail, walks>>
  BY <1>2 DEF Command, world
<1>4. task'["evt"] = None
  <2>1. task'["evt"] = task["evt"]
    BY <1>3, FirstIs, TaskIsOne, TaskSet
  <2> QED
    BY <1>3, <2>1, TaskIsOne DEF Quiet
<1>5. \A r \in Rooms : mail'[r] = <<>>
  BY <1>3 DEF Quiet
<1>6. Alone'
  <2>1. Alone
    BY <1>3, QuietIs, TaskIsOne DEF Alone, SomeMaking, SomeAnnounced, SomeWalked
  <2>2. ~ Moving("evt")'
    BY <1>4 DEF Moving
  <2>3. \A r, i : Announced(r, i)' => SomeAnnounced
    BY <1>3, SameMail DEF SomeAnnounced
  <2> QED
    BY <1>3, <2>1, <2>2, <2>3, StillAlone, SameMaking, SameWalks
<1> QED
  BY <1>4, <1>5, <1>6 DEF Trail, Alone, Doing

LEMMA WorldTrail ==
  ASSUME Typed, Trail, World
  PROVE  Trail'
<1>1. /\ UNCHANGED <<ctx_room, task, walks>>
      /\ \A g : Making(g)' => Making(g)
      /\ \/ UNCHANGED <<members, exits, mail>>
         \/ \E r, e : RoomChange(r, e) /\ (Own(e) => SomeMaking)
  BY WorldChanges
<1>2. /\ \A verb : Doing("cmd", verb)' <=> Doing("cmd", verb)
      /\ \A verb : Doing("evt", verb)' <=> Doing("evt", verb)
      /\ Moving("evt")' <=> Moving("evt")
  BY <1>1 DEF Doing, Moving
<1>3. ASSUME Doing("cmd", "look")
      PROVE  Alone'
  <2>1. Alone
    BY <1>3 DEF Trail, Alone
  <2>2. \A r, i : Announced(r, i)' => SomeAnnounced
    <3>1. CASE mail' = mail
      BY <3>1, SameMail DEF SomeAnnounced
    <3>2. CASE \E r, e : RoomChange(r, e) /\ (Own(e) => SomeMaking)
      <4>1. PICK r, e : RoomChange(r, e) /\ (Own(e) => SomeMaking)
        BY <3>2
      <4>2. r \in Rooms /\ e \in Messages /\ ~ Own(e) /\ mail' = Tell(r, e, members[r])
        BY <2>1, <4>1 DEF RoomChange, Alone
      <4> QED
        BY <4>2, ToldOthers DEF SomeAnnounced
    <3> QED
      BY <1>1, <3>1, <3>2
  <2> QED
    BY <1>1, <1>2, <2>1, <2>2, StillAlone, SameWalks
<1>4. ASSUME Within({})'
      PROVE  Within({}) /\ mail' = mail
  <2>1. CASE UNCHANGED <<members, exits, mail>>
    BY <1>4, <2>1 DEF Within
  <2>2. CASE \E r, e : RoomChange(r, e)
    <3>1. PICK r, e : RoomChange(r, e)
      BY <2>2
    <3>2. /\ r \in Rooms /\ mail' = Tell(r, e, members[r])
          /\ \A s \in Rooms : s # r => members'[s] = members[s]
          /\ Me \in members'[r] <=> Me \in members[r]
      BY <3>1 DEF RoomChange
    <3>3. Within({}) /\ Me \notin members[r]
      BY <1>4, <3>2 DEF Within
    <3> QED
      BY <3>2, <3>3 DEF Tell
  <2> QED
    BY <1>1, <2>1, <2>2
<1>5. ASSUME Doing("cmd", "enter"), task["cmd"].reply = None, Within({})'
      PROVE  task'["evt"] = None /\ \A r \in Rooms : mail'[r] = <<>>
  BY <1>1, <1>4, <1>5 DEF Trail
<1>6. Doing("cmd", "enter") /\ Doing("evt", "look") => task'["evt"].room = ctx_room'
  BY <1>1 DEF Trail
<1> QED
  BY <1>1, <1>2, <1>3, <1>5, <1>6 DEF Trail, Alone

LEMMA ServesTrail ==
  ASSUME Typed, Single, Trail, NEW t \in Tasks, RoomServes(t)
  PROVE  Trail'
<1>1. /\ RepliesWith(t, Snapshot(task[t].room)) /\ UNCHANGED ctx_room /\ task[t] # None
      /\ Snapshot(task[t].room) # None /\ task'[t] # None
  <2>1. RepliesWith(t, Snapshot(task[t].room)) /\ UNCHANGED ctx_room
        /\ task[t].room \in Rooms
    BY ServesIs
  <2>2. Snapshot(task[t].room) # None
    BY <2>1, SnapshotIs
  <2> QED
    BY <2>1, <2>2, CallIs DEF RepliesWith
<1>2. \A verb : \A u \in Tasks : Doing(u, verb)' <=> Doing(u, verb)
  BY <1>1 DEF RepliesWith, Doing
<1>3. /\ \A u \in Tasks : Moving(u)' => Moving(u)
      /\ \A u \in Tasks : task'[u] # None /\ task[u] # None => task'[u].room = task[u].room
      /\ \A u \in Tasks : Doing(u, "enter") /\ task'[u].reply = None => u # t /\ task'[u] = task[u]
  BY <1>1 DEF RepliesWith, Moving
<1>4. ASSUME ~ Moving(t)
      PROVE  /\ UNCHANGED <<digging, walks>>
             /\ \A r, i : Announced(r, i)' => SomeAnnounced
             /\ Within({})' => Within({}) /\ mail' = mail
  <2>1. /\ UNCHANGED <<digging, walks>>
        /\ \/ UNCHANGED <<members, exits, mail>>
           \/ \E r, e : RoomChange(r, e) /\ ~ Own(e)
    BY <1>4, ServesChanges
  <2>2. CASE UNCHANGED <<members, exits, mail>>
    BY <2>1, <2>2, SameMail DEF Within, SomeAnnounced
  <2>3. CASE \E r, e : RoomChange(r, e) /\ ~ Own(e)
    <3>1. PICK r, e : RoomChange(r, e) /\ ~ Own(e)
      BY <2>3
    <3>2. /\ r \in Rooms /\ mail' = Tell(r, e, members[r]) /\ e \in Messages /\ ~ Own(e)
          /\ \A s \in Rooms : s # r => members'[s] = members[s]
          /\ Me \in members'[r] <=> Me \in members[r]
      BY <3>1 DEF RoomChange
    <3>3. \A s, i : Announced(s, i)' => SomeAnnounced
      BY <3>2, ToldOthers DEF SomeAnnounced
    <3>4. ASSUME Within({})'
          PROVE  Within({}) /\ Me \notin members[r]
      BY <3>2, <3>4 DEF Within
    <3> QED
      BY <2>1, <3>2, <3>3, <3>4 DEF Tell
  <2> QED
    BY <2>1, <2>2, <2>3
<1>5. ASSUME Doing("cmd", "look")
      PROVE  Alone'
  <2>1. Alone
    BY <1>5 DEF Trail, Alone
  <2>2. ~ Moving("evt")
    BY <2>1 DEF Alone
  <2>3. CASE ~ Moving(t)
    BY <1>3, <1>4, <2>1, <2>3, TaskIsOne, StillAlone, SameMaking, SameWalks
  <2>4. CASE t = "cmd"
    <3>1. RoomLooks(t)
      BY <1>5, <2>4 DEF RoomServes, RoomMoves, RoomEnters, RoomLeaves, RoomDigs, RoomFills,
         RoomAcks, Serving, Doing
    <3>2. UNCHANGED <<digging, mail, walks>>
      BY <3>1 DEF RoomLooks
    <3>3. \A r, i : Announced(r, i)' => SomeAnnounced
      BY <3>2, SameMail DEF SomeAnnounced
    <3> QED
      BY <1>3, <2>1, <3>2, <3>3, TaskIsOne, StillAlone, SameMaking, SameWalks
  <2> QED
    BY <2>2, <2>3, <2>4, TaskIsOne
<1>6. ASSUME Doing("cmd", "enter"), task'["cmd"].reply = None, Within({})'
      PROVE  task'["evt"] = None /\ \A r \in Rooms : mail'[r] = <<>>
  <2>1. t = "evt" /\ task'["cmd"] = task["cmd"]
    BY <1>3, <1>6, TaskIsOne
  <2>2. ~ Moving(t)
    BY <1>6, <2>1, TaskIsOne, DoingMoves DEF Single
  <2>3. Within({})
    BY <1>4, <1>6, <2>2
  <2>4. task["evt"] = None
    BY <1>6, <2>1, <2>3 DEF Trail
  <2> QED
    BY <1>1, <2>1, <2>4
<1>7. Doing("cmd", "enter") /\ Doing("evt", "look") => task'["evt"].room = ctx_room'
  <2> SUFFICES ASSUME Doing("cmd", "enter"), Doing("evt", "look")
               PROVE  task'["evt"].room = ctx_room'
    OBVIOUS
  <2>1. task["evt"].room = ctx_room
    BY DEF Trail
  <2>2. task["evt"] # None /\ task'["evt"] # None
    BY <1>2, TaskIsOne DEF Doing
  <2> QED
    BY <1>1, <1>3, <2>1, <2>2, TaskIsOne
<1> QED
  BY <1>2, <1>5, <1>6, <1>7, TaskIsOne DEF Trail, Alone

\* What taking up a reply leaves to do.
LEMMA ResumesTo ==
  ASSUME Typed, Answered, calm, NEW t \in Tasks, Resumes(t)
  PROVE  /\ \A u \in Tasks : u # t => task'[u] = task[u]
         /\ task[t] # None /\ task[t].reply # None
         /\ ~ Doing(t, "enter")'
         /\ task'[t] # None => task'[t].reply = None
         /\ Doing(t, "look")' => Moving(t)
         /\ ~ Moving(t) => task'[t] = None
<1>1. PICK n \in Calls \cup {None} :
           /\ task' = [task EXCEPT ![t] = n]
           /\ task[t].verb \in {"look", "enter", "leave", "move", "dig", "fill", "parent"}
           /\ task[t].verb = "look" =>
                n = None \/ ( /\ task[t].why \in {"resolve", "dig"} /\ n # None
                              /\ n.verb \in {"move", "look"} /\ n.reply = None )
           /\ task[t].verb = "enter" =>
                /\ n # None /\ n.reply = None
                /\ IF task[t].why = "enter" /\ task[t].dir # task[t].room
                   THEN n.verb = "leave"
                   ELSE n.verb = "look"
           /\ task[t].verb = "leave" =>
                IF task[t].why = "enter"
                   THEN n # None /\ n.verb = "look" /\ n.reply = None
                   ELSE n = None
           /\ task[t].verb \in {"move", "dig", "fill", "parent"} => n = None
  BY ResumesNext
<1>2. task'[t] = n /\ \A u \in Tasks : u # t => task'[u] = task[u]
  BY <1>1, TaskSet
<1>3. task[t] # None /\ task[t].reply # None
  <2>1. task[t] \in Calls /\ task[t].reply \in Snapshots
    BY ResumesIs
  <2> QED
    BY <2>1, MovesAssumption
<1>4. ~ Moving(t) => n = None
  BY <1>1, <1>3 DEF Moving
<1>5. n # None => n.verb # "enter" /\ n.reply = None
  BY <1>1
<1> QED
  BY <1>2, <1>3, <1>4, <1>5 DEF Doing

LEMMA ResumesTrail ==
  ASSUME Typed, Answered, calm, Single, Trail, NEW t \in Tasks, Resumes(t)
  PROVE  Trail'
<1>1. /\ \A u \in Tasks : u # t => task'[u] = task[u]
      /\ task[t] # None /\ task[t].reply # None
      /\ ~ Doing(t, "enter")'
      /\ task'[t] # None => task'[t].reply = None
      /\ Doing(t, "look")' => Moving(t)
      /\ ~ Moving(t) => task'[t] = None
  BY ResumesTo
<1>2. UNCHANGED <<members, digging, mail, walks>>
  BY ResumesIs DEF world
<1>3. ASSUME t = "cmd"
      PROVE  Trail'
  <2>1. task'["evt"] = task["evt"] /\ (Moving("evt")' <=> Moving("evt"))
    BY <1>1, <1>3, TaskIsOne DEF Moving
  <2>2. ASSUME Doing("cmd", "look")'
        PROVE  Alone'
    <3>1. Alone
      BY <1>1, <1>3, <2>2, CommandAlone
    <3>2. \A r, i : Announced(r, i)' => SomeAnnounced
      BY <1>2, SameMail DEF SomeAnnounced
    <3> QED
      BY <1>2, <2>1, <3>1, <3>2, StillAlone, SameMaking, SameWalks
  <2>3. ~ Doing("cmd", "enter")'
    BY <1>1, <1>3 DEF Doing
  <2> QED
    BY <2>2, <2>3 DEF Trail, Alone
<1>4. ASSUME t = "evt"
      PROVE  Trail'
  <2>1. task'["cmd"] = task["cmd"]
    BY <1>1, <1>4, TaskIsOne
  <2>2. ASSUME Doing("cmd", "look")
        PROVE  Alone'
    <3>1. Alone
      BY <2>2 DEF Trail, Alone
    <3>2. ~ Moving("evt")'
      BY <1>1, <1>4, <3>1 DEF Alone, Moving
    <3>3. \A r, i : Announced(r, i)' => SomeAnnounced
      BY <1>2, SameMail DEF SomeAnnounced
    <3> QED
      BY <1>2, <3>1, <3>2, <3>3, StillAlone, SameMaking, SameWalks
  <2>3. ASSUME Doing("cmd", "enter")
        PROVE  task'["evt"] = None
    <3>1. ~ Moving("evt")
      BY <2>3, TaskIsOne, DoingMoves DEF Single
    <3> QED
      BY <1>1, <1>4, <3>1
  <2>4. ASSUME Doing("cmd", "enter"), task["cmd"].reply = None, Within({})'
        PROVE  \A r \in Rooms : mail'[r] = <<>>
    <3>1. Within({})
      BY <1>2, <2>4 DEF Within
    <3> QED
      BY <1>2, <2>4, <3>1 DEF Trail
  <2> QED
    BY <2>1, <2>2, <2>3, <2>4 DEF Trail, Alone, Doing
<1> QED
  BY <1>3, <1>4, TaskIsOne

LEMMA EventsTrail ==
  ASSUME Typed, Trail, NEW r \in Rooms,
         EventMembership(r) \/ EventChild(r) \/ EventDig(r) \/ EventRollCallChild(r)
  PROVE  Trail'
<1> DEFINE e == Head(mail[r])
<1>1. PICK names : \E call \in Calls \cup {None} :
            /\ Handling(r, names) /\ Handle(r, call)
            /\ call # None => call.reply = None /\ call.room = ctx_room
                              /\ call.verb \in {"look", "parent"}
            /\ call # None /\ call.verb = "look" /\ call.why \in {"resolve", "dig"}
                 => Own(e)
  BY EventsAre
<1>2. PICK call \in Calls \cup {None} :
            /\ Handling(r, names) /\ Handle(r, call)
            /\ call # None => call.reply = None /\ call.room = ctx_room
                              /\ call.verb \in {"look", "parent"}
            /\ call # None /\ call.verb = "look" /\ call.why \in {"resolve", "dig"}
                 => Own(e)
  BY <1>1
<1> HIDE DEF e
<1>3. /\ task["evt"] = None /\ mail' = [mail EXCEPT ![r] = Tail(@)] /\ mail[r] # <<>>
      /\ UNCHANGED <<ctx_room, members, digging, walks>>
  BY <1>2, HandlingIs
<1>4. task'["evt"] = call /\ task'["cmd"] = Missed("cmd", r)
  BY <1>2, HandleIs
<1>5. /\ (task'["cmd"] = None <=> task["cmd"] = None)
      /\ task["cmd"] # None =>
           task'["cmd"].verb = task["cmd"].verb /\ task'["cmd"].reply = task["cmd"].reply
  BY <1>4, TaskIsOne, MissedIs
<1>6. /\ \A s \in Rooms : s # r => mail'[s] = mail[s]
      /\ Len(mail'[r]) = Len(mail[r]) - 1 /\ Len(mail[r]) \in Nat
      /\ Len(mail[r]) >= 1 /\ e = mail[r][1]
      /\ \A i \in 1 .. Len(mail'[r]) : mail'[r][i] = mail[r][i + 1]
  BY <1>3, HandledIs DEF e
<1>7. ASSUME Doing("cmd", "look")
      PROVE  Alone'
  <2>1. Alone
    BY <1>7 DEF Trail, Alone
  <2>2. \A s, i : Announced(s, i)' => SomeAnnounced
    <3> SUFFICES ASSUME NEW s \in Rooms, NEW i \in 1 .. Len(mail'[s]), Own(mail'[s][i])
                 PROVE  SomeAnnounced
      BY DEF Announced
    <3>1. CASE s = r
      <4>1. i + 1 \in 1 .. Len(mail[r])
        BY <1>6, <3>1
      <4> QED
        BY <1>6, <3>1, <4>1 DEF Announced, SomeAnnounced
    <3>2. CASE s # r
      BY <1>6, <3>2 DEF Announced, SomeAnnounced
    <3> QED
      BY <3>1, <3>2
  <2>3. ~ Own(e)
    <3>1. 1 \in 1 .. Len(mail[r])
      BY <1>6
    <3> QED
      BY <1>6, <2>1, <3>1 DEF Alone, Announced, SomeAnnounced
  <2>4. ~ Moving("evt")'
    BY <1>2, <1>4, <2>3 DEF Moving
  <2> QED
    BY <1>3, <2>1, <2>2, <2>4, StillAlone, SameMaking, SameWalks
<1>8. ~ (Doing("cmd", "enter") /\ task["cmd"].reply = None /\ Within({}))
  BY <1>3 DEF Trail
<1>9. Within({})' => Within({})
  BY <1>3 DEF Within
<1>10. \A verb : Doing("cmd", verb)' <=> Doing("cmd", verb)
  BY <1>5 DEF Doing
<1>11. Doing("evt", "look")' => task'["evt"].room = ctx_room'
  BY <1>2, <1>3, <1>4 DEF Doing
<1>12. Doing("cmd", "enter") => task'["cmd"].reply = task["cmd"].reply
  BY <1>5 DEF Doing
<1> QED
  BY <1>7, <1>8, <1>9, <1>10, <1>11, <1>12 DEF Trail, Alone

LEMMA MoveEventTrail ==
  ASSUME Typed, Single, Trail, EventMove
  PROVE  Trail'
<1>1. PICK i \in 1 .. Len(walks) : \E c \in Calls \cup {None} :
           /\ walks' = RemoveAt(walks, i) /\ task["evt"] = None
           /\ task' = [task EXCEPT !["evt"] = c]
           /\ walks[i] = "deny" => c = None
           /\ walks[i] # "deny" => c # None /\ c.verb = "enter"
  BY MoveEventIs
<1>2. PICK c \in Calls \cup {None} :
           /\ walks' = RemoveAt(walks, i) /\ task["evt"] = None
           /\ task' = [task EXCEPT !["evt"] = c]
           /\ walks[i] = "deny" => c = None
           /\ walks[i] # "deny" => c # None /\ c.verb = "enter"
  BY <1>1
<1>3. UNCHANGED <<ctx_room, members, digging, mail>>
  BY DEF EventMove
<1>4. task'["evt"] = c /\ task'["cmd"] = task["cmd"]
  BY <1>2, TaskIsOne, TaskSet
<1>5. walks[i] # "deny" => SomeWalked
  BY DEF Walked, SomeWalked
<1>6. ~ SomeWalked => ~ SomeWalked'
  <2> DEFINE S == Rooms \cup {"deny"}
  <2>1. walks \in Seq(S) /\ Len(walks) \in Nat
    BY DEF Typed
  <2> HIDE DEF S
  <2>2. /\ Len(walks') = Len(walks) - 1
        /\ \A j \in 1 .. Len(walks) - 1 : walks'[j] = walks[IF j < i THEN j ELSE j + 1]
    BY <1>2, <2>1, RemoveIs
  <2> SUFFICES ASSUME NEW j \in 1 .. Len(walks'), walks'[j] # "deny"
               PROVE  SomeWalked
    BY DEF Walked, SomeWalked
  <2>3. j \in 1 .. Len(walks) - 1
    BY <2>1, <2>2
  <2>4. (IF j < i THEN j ELSE j + 1) \in 1 .. Len(walks)
    BY <2>1, <2>3
  <2>5. walks[IF j < i THEN j ELSE j + 1] # "deny"
    BY <2>2, <2>3
  <2> QED
    BY <2>4, <2>5 DEF Walked, SomeWalked
<1>7. ASSUME ~ SomeWalked
      PROVE  task'["evt"] = None
  BY <1>2, <1>4, <1>5, <1>7
<1>8. ASSUME Doing("cmd", "look")
      PROVE  Alone'
  <2>1. Alone
    BY <1>8 DEF Trail, Alone
  <2>2. ~ SomeMaking' /\ ~ SomeAnnounced'
    BY <1>3, <2>1 DEF Alone, SomeMaking, SomeAnnounced, Making, Announced
  <2>3. ~ Moving("evt")'
    BY <1>7, <2>1 DEF Alone, Moving
  <2> QED
    BY <1>6, <2>1, <2>2, <2>3 DEF Alone
<1>9. ASSUME Doing("cmd", "enter"), task["cmd"].reply = None, Within({})'
      PROVE  task'["evt"] = None /\ \A r \in Rooms : mail'[r] = <<>>
  <2>1. Within({}) /\ \A r \in Rooms : mail'[r] = <<>>
    BY <1>3, <1>9 DEF Within, Trail
  <2>2. ~ SomeWalked
    BY <1>9, TaskIsOne, DoingMoves DEF Single, SomeMoving
  <2> QED
    BY <1>7, <2>1, <2>2
<1>10. ~ Doing("evt", "look")'
  BY <1>2, <1>4 DEF Doing
<1>11. \A verb : Doing("cmd", verb)' <=> Doing("cmd", verb)
  BY <1>4 DEF Doing
<1> QED
  BY <1>4, <1>8, <1>9, <1>10, <1>11 DEF Trail, Alone

-----------------------------------------------------------------------------
(* Synced: the snapshot lacks nothing but what is under way.                *)

\* The same after a step, of what does not change with it.
LaterHeard(r) == Heard(mail'[r], r, members'[r], exits'[r])
LaterAgrees(s, r) == Agrees(s, mail'[r], r, members'[r], exits'[r])

LEMMA LaterSynced ==
  ASSUME \A r \in Rooms : Me \in members'[r] => LaterHeard(r),
         ASSUME Me \in members'[ctx_room']
         PROVE  /\ \A t \in Tasks : Served(t)' => LaterAgrees(task'[t].reply, ctx_room')
                /\ last_room' # None /\ ~ stale' =>
                      (\E t \in Tasks : Mends(t)') \/ LaterAgrees(last_room', ctx_room')
  PROVE  Synced'
BY DEF Synced, HeardAt, AgreesAt, LaterHeard, LaterAgrees

\* Looks that were served agree, and what mends the snapshot stays.
Steady ==
    /\ \A t \in Tasks : Served(t)' =>
          \/ Served(t) /\ task'[t].reply = task[t].reply
          \/ LaterAgrees(task'[t].reply, ctx_room')
    /\ (\E t \in Tasks : Mends(t)) => (\E t \in Tasks : Mends(t)')

LEMMA SteadySynced ==
  ASSUME Typed, Synced, UNCHANGED <<ctx_room, last_room, stale>>, Steady,
         \A r \in Rooms : Me \in members'[r] =>
            /\ Me \in members[r] /\ LaterHeard(r)
            /\ \A s : AgreesAt(s, r) => LaterAgrees(s, r)
  PROVE  Synced'
<1>1. ctx_room \in Rooms
  BY DEF Typed
<1>2. ASSUME Me \in members'[ctx_room']
      PROVE  /\ \A t \in Tasks : Served(t)' => LaterAgrees(task'[t].reply, ctx_room')
             /\ last_room' # None /\ ~ stale' =>
                   (\E t \in Tasks : Mends(t)') \/ LaterAgrees(last_room', ctx_room')
  <2>1. /\ Me \in members[ctx_room] /\ ctx_room' = ctx_room
        /\ \A s : AgreesAt(s, ctx_room) => LaterAgrees(s, ctx_room)
    BY <1>1, <1>2
  <2>2. ASSUME NEW t \in Tasks, Served(t)'
        PROVE  LaterAgrees(task'[t].reply, ctx_room')
    <3>1. CASE Served(t) /\ task'[t].reply = task[t].reply
      <4>1. AgreesAt(task[t].reply, ctx_room)
        BY <2>1, <3>1 DEF Synced
      <4> QED
        BY <2>1, <3>1, <4>1
    <3> QED
      BY <2>2, <3>1 DEF Steady
  <2>3. ASSUME last_room' # None, ~ stale'
        PROVE  (\E t \in Tasks : Mends(t)') \/ LaterAgrees(last_room', ctx_room')
    <3>1. (\E t \in Tasks : Mends(t)) \/ AgreesAt(last_room, ctx_room)
      BY <2>1, <2>3 DEF Synced
    <3>2. CASE \E t \in Tasks : Mends(t)
      BY <3>2 DEF Steady
    <3>3. CASE AgreesAt(last_room, ctx_room)
      BY <2>1, <3>3
    <3> QED
      BY <3>1, <3>2, <3>3
  <2> QED
    BY <2>2, <2>3
<1> QED
  BY <1>2, LaterSynced

\* Steps that take no snapshot up and change nothing where the avatar is.
LEMMA StillSynced ==
  ASSUME Typed, Synced, UNCHANGED <<ctx_room, last_room, stale, exits, mail>>, Steady,
         \A r \in Rooms : Me \in members'[r] => members'[r] = members[r]
  PROVE  Synced'
<1>1. ASSUME NEW r \in Rooms, Me \in members'[r]
      PROVE  /\ Me \in members[r] /\ LaterHeard(r)
             /\ \A s : AgreesAt(s, r) => LaterAgrees(s, r)
  BY <1>1 DEF HeardAt, AgreesAt, LaterHeard, LaterAgrees, Synced
<1> QED
  BY <1>1, SteadySynced

\* Steps that change a room.
LEMMA ChangeSynced ==
  ASSUME Typed, Synced, NEW r, NEW e, RoomChange(r, e), Steady,
         UNCHANGED <<ctx_room, last_room, stale>>
  PROVE  Synced'
<1>1. ASSUME NEW s \in Rooms, Me \in members'[s]
      PROVE  /\ Me \in members[s] /\ LaterHeard(s)
             /\ \A z : AgreesAt(z, s) => LaterAgrees(z, s)
  <2>1. Me \in members[s]
    BY <1>1, ChangeHeard
  <2>2. HeardAt(s)
    BY <2>1 DEF Synced
  <2>3. HeardAt(s)' /\ \A z : AgreesAt(z, s) => AgreesAt(z, s)'
    BY <1>1, <2>2, ChangeHeard
  <2> QED
    BY <2>1, <2>3 DEF HeardAt, AgreesAt, LaterHeard, LaterAgrees
<1> QED
  BY <1>1, SteadySynced

LEMMA UserSynced ==
  ASSUME Typed, Synced, User
  PROVE  Synced'
<1>1. PICK name : \E call \in Firsts : Command(name, call)
  BY UserIs
<1>2. PICK call \in Firsts : Command(name, call)
  BY <1>1
<1>3. /\ task["cmd"] = None /\ task' = [task EXCEPT !["cmd"] = call]
      /\ UNCHANGED <<ctx_room, last_room, stale, members, exits, mail>>
  BY <1>2 DEF Command, world
<1>4. call \in Calls /\ call.reply = None
  BY FirstIs
<1>5. task'["cmd"] = call /\ task'["evt"] = task["evt"]
  BY <1>3, <1>4, TaskIsOne, TaskSet
<1>6. ~ Served("cmd")' /\ ~ Mends("cmd")
  BY <1>3, <1>4, <1>5 DEF Served, Mends, Doing
<1>7. (Served("evt")' => Served("evt")) /\ (Mends("evt")' <=> Mends("evt"))
  BY <1>3, <1>5 DEF Served, Mends, Doing
<1>8. Steady
  BY <1>5, <1>6, <1>7, TaskIsOne DEF Steady
<1> QED
  BY <1>3, <1>8, StillSynced

LEMMA WorldSynced ==
  ASSUME Typed, Synced, World
  PROVE  Synced'
<1>1. /\ UNCHANGED <<ctx_room, last_room, stale, task>>
      /\ \/ UNCHANGED <<members, exits, mail>>
         \/ \E r, e : RoomChange(r, e)
  BY WorldChanges
<1>2. \A t \in Tasks : (Served(t)' => Served(t)) /\ (Mends(t)' <=> Mends(t))
  BY <1>1 DEF Served, Mends, Doing
<1>3. Steady
  BY <1>1, <1>2 DEF Steady
<1> QED
  BY <1>1, <1>3, StillSynced, ChangeSynced

LEMMA ServesSynced ==
  ASSUME Typed, Single, Placed, Trail, Synced, NEW t \in Tasks, RoomServes(t), ~ returned'
  PROVE  Synced'
<1> DEFINE c == task[t]
           r == c.room
<1>1. /\ RepliesWith(t, Snapshot(r)) /\ r \in Rooms
      /\ UNCHANGED <<ctx_room, last_room, stale>>
  BY ServesIs
<1>2. c \in Calls /\ c # None /\ c.reply = None /\ ctx_room \in Rooms
  BY <1>1, CallIs DEF RepliesWith, Typed
<1>3. /\ task'[t].reply = Snapshot(r) /\ task'[t] # None
      /\ task'[t].verb = c.verb /\ task'[t].room = r /\ task'[t].why = c.why
      /\ \A u \in Tasks : u # t => task'[u] = task[u]
  BY <1>1, CallIs DEF RepliesWith
<1> HIDE DEF c, r
<1>4. \A u \in Tasks : u # t => (Served(u)' => Served(u)) /\ (Mends(u)' <=> Mends(u))
  BY <1>1, <1>3 DEF Served, Mends, Doing
<1>5. Mends(t)' <=> Mends(t)
  BY <1>2, <1>3 DEF Mends, Doing, c
<1>6. ASSUME Served(t)'
      PROVE  c.verb = "look" /\ r = ctx_room
  BY <1>1, <1>3, <1>6 DEF Served, Doing
\* A look, or what changes neither who is there nor where the avatar is.
<1>7. CASE ~ Moving(t) \/ c.verb = "look"
  <2>1. \/ UNCHANGED <<members, exits, mail>>
        \/ c.verb # "look" /\ \E q, e : RoomChange(q, e)
    <3>1. CASE ~ Moving(t)
      BY <3>1, ServesChanges DEF c
    <3>2. CASE c.verb = "look"
      <4>1. RoomLooks(t)
        BY <3>2 DEF RoomServes, RoomMoves, RoomEnters, RoomLeaves, RoomDigs, RoomFills,
           RoomAcks, Serving, c
      <4> QED
        BY <4>1 DEF RoomLooks
    <3> QED
      BY <1>7, <3>1, <3>2
  <2>2. ASSUME Served(t)'
        PROVE  LaterAgrees(task'[t].reply, ctx_room')
    <3>1. UNCHANGED <<members, exits, mail>> /\ r = ctx_room /\ ctx_room' = ctx_room
      BY <1>1, <1>6, <2>1, <2>2
    <3>2. AgreesAt(Snapshot(r), r)
      BY SnapshotAgrees
    <3> QED
      BY <1>3, <3>1, <3>2 DEF AgreesAt, LaterAgrees
  <2>3. Steady
    BY <1>3, <1>4, <1>5, <2>2 DEF Steady
  <2> QED
    BY <1>1, <2>1, <2>3, StillSynced, ChangeSynced
<1>8. CASE Moving(t) /\ c.verb # "look"
  <2>1. ~ Served(t)'
    BY <1>6, <1>8
  <2>2. Steady
    BY <1>3, <1>4, <1>5, <2>1 DEF Steady
  <2>3. c.verb \in {"enter", "leave", "move", "dig"}
    BY <1>8 DEF Moving, c
  <2>4. members \in [Rooms -> SUBSET People]
    BY DEF Typed
  <2>5. CASE c.verb # "enter"
    <3>1. RoomMoves(t) \/ RoomLeaves(t) \/ RoomDigs(t)
      BY <2>3, <2>5 DEF RoomServes, RoomLooks, RoomEnters, RoomFills, RoomAcks, Serving, c
    <3>2. /\ UNCHANGED <<exits, mail>>
          /\ members' = members \/ members' = [members EXCEPT ![r] = @ \ {Me}]
      BY <3>1 DEF RoomMoves, RoomLeaves, RoomDigs, c, r
    <3>3. \A s \in Rooms : Me \in members'[s] => members'[s] = members[s]
      BY <1>1, <2>4, <3>2
    <3> QED
      BY <1>1, <2>2, <3>2, <3>3, StillSynced
  <2>6. CASE c.verb = "enter"
    <3>1. RoomEnters(t)
      BY <2>6 DEF RoomServes, RoomLooks, RoomMoves, RoomLeaves, RoomDigs, RoomFills,
         RoomAcks, Serving, c
    <3>2. /\ members' = [members EXCEPT ![r] = @ \cup {Me}]
          /\ UNCHANGED <<exits, mail>>
          /\ ~ Rejoins("enter", r)
      BY <3>1 DEF RoomEnters, Serving, c, r
    <3>3. /\ \A s \in Rooms : s # r => members'[s] = members[s]
          /\ Me \in members[r] => members'[r] = members[r]
      BY <1>1, <2>4, <3>2
    <3>4. Me \in members[r] \/ mail[r] = <<>>
      BY <3>2 DEF Rejoins
    <3>5. CASE Me \in members[r]
      <4>1. \A s \in Rooms : Me \in members'[s] => members'[s] = members[s]
        BY <3>3, <3>5
      <4> QED
        BY <1>1, <2>2, <3>2, <4>1, StillSynced
    <3>6. CASE Me \notin members[r]
      <4>1. ASSUME NEW s \in Rooms, Me \in members'[s]
            PROVE  LaterHeard(s)
        <5>1. CASE s = r
          <6>1. mail'[s] = <<>>
            BY <3>2, <3>4, <3>6, <5>1
          <6>2. Len(mail'[s]) = 0
            BY <6>1
          <6> QED
            BY <6>2 DEF LaterHeard, Heard
        <5>2. CASE s # r
          <6>1. Me \in members[s] /\ members'[s] = members[s] /\ mail' = mail /\ exits' = exits
            BY <3>2, <3>3, <4>1, <5>2
          <6> QED
            BY <6>1 DEF Synced, HeardAt, LaterHeard
        <5> QED
          BY <5>1, <5>2
      <4>2. ASSUME NEW u \in Tasks, Served(u)', Me \in members'[ctx_room']
            PROVE  LaterAgrees(task'[u].reply, ctx_room')
        <5>1. u # t /\ Served(u) /\ task'[u] = task[u]
          BY <1>3, <1>4, <2>1, <4>2
        <5>2. CASE Me \in members[ctx_room]
          <6>1. ctx_room # r /\ members'[ctx_room] = members[ctx_room]
            BY <1>2, <3>3, <3>6, <5>2
          <6>2. AgreesAt(task[u].reply, ctx_room)
            BY <5>1, <5>2 DEF Synced
          <6> QED
            BY <1>1, <3>2, <5>1, <6>1, <6>2 DEF AgreesAt, LaterAgrees
        <5>3. CASE Me \notin members[ctx_room]
          <6>1. Moving(t) /\ Within(Whereabouts(c)) /\ c.verb = "enter"
                /\ (c.why = "enter" => c.dir = ctx_room)
            BY <1>8, <2>6 DEF Placed, c
          <6>2. Whereabouts(c) \subseteq {ctx_room}
            BY <1>2, <6>1 DEF Whereabouts
          <6>3. Within({})
            BY <5>3, <6>1, <6>2 DEF Within
          <6>4. Doing(u, "look") /\ Doing(t, "enter")
            BY <1>2, <2>6, <5>1 DEF Served, Doing, c
          <6>5. CASE t = "cmd"
            <7>1. task["evt"] = None
              BY <1>2, <6>3, <6>4, <6>5 DEF Trail, c
            <7> QED
              BY <5>1, <6>4, <6>5, <7>1, TaskIsOne DEF Doing
          <6>6. CASE t = "evt"
            <7>1. u = "cmd"
              BY <5>1, <6>6, TaskIsOne
            <7> QED
              BY <6>1, <6>4, <6>6, <7>1 DEF Trail
          <6> QED
            BY <6>5, <6>6, TaskIsOne
        <5> QED
          BY <5>2, <5>3
      <4>3. Mends(t)'
        BY <1>3, <2>6 DEF Mends, Doing
      <4> QED
        BY <4>1, <4>2, <4>3, LaterSynced
    <3> QED
      BY <3>5, <3>6
  <2> QED
    BY <2>5, <2>6
<1> QED
  BY <1>7, <1>8

LEMMA ResumesSynced ==
  ASSUME Typed, Answered, calm, Trail, Synced, NEW t \in Tasks, Resumes(t)
  PROVE  Synced'
<1> DEFINE c == task[t]
<1>1. PICK n \in Calls \cup {None} :
           /\ task' = [task EXCEPT ![t] = n]
           /\ c.verb \in {"look", "enter", "leave", "move", "dig", "fill", "parent"}
           /\ c.verb = "look" =>
                /\ ctx_room' = ctx_room /\ last_room' = c.reply
                /\ stale' = (c.missed \/ c.room # ctx_room)
                /\ n = None \/ (n # None /\ n.reply = None)
           /\ c.verb = "enter" =>
                /\ ctx_room' = c.room
                /\ n # None /\ n.reply = None
                /\ (n.verb = "leave" /\ n.why = "enter") \/ n.verb = "look"
           /\ c.verb = "leave" =>
                /\ ctx_room' = ctx_room /\ UNCHANGED <<last_room, stale>>
                /\ IF c.why = "enter"
                   THEN n # None /\ n.verb = "look" /\ n.reply = None
                   ELSE n = None
           /\ c.verb \in {"move", "dig", "fill", "parent"} =>
                n = None /\ UNCHANGED <<ctx_room, last_room, stale>>
  BY ResumesNext
<1>2. task'[t] = n /\ \A u \in Tasks : u # t => task'[u] = task[u]
  BY <1>1, TaskSet
<1>3. c # None /\ c.reply # None /\ UNCHANGED <<members, exits, mail>>
  <2>1. c \in Calls /\ c.reply \in Snapshots
    BY ResumesIs
  <2> QED
    BY <2>1, ResumesIs, MovesAssumption DEF world
<1> HIDE DEF c
<1>4. ~ Served(t)'
  <2>1. n = None \/ n.reply = None
    BY <1>1
  <2> QED
    BY <1>2, <2>1 DEF Served, Doing
<1>5. \A u \in Tasks : u # t => /\ (Mends(u)' <=> Mends(u))
                                /\ ctx_room' = ctx_room => (Served(u)' <=> Served(u))
  BY <1>2 DEF Served, Mends, Doing
<1>6. ASSUME NEW r \in Rooms, Me \in members'[r]
      PROVE  /\ Me \in members[r] /\ LaterHeard(r)
             /\ \A s : AgreesAt(s, r) => LaterAgrees(s, r)
  BY <1>3, <1>6 DEF Synced, HeardAt, AgreesAt, LaterHeard, LaterAgrees
<1>7. ctx_room \in Rooms
  BY DEF Typed
<1>8. CASE c.verb = "look"
  <2>1. ctx_room' = ctx_room /\ last_room' = c.reply /\ stale' = (c.missed \/ c.room # ctx_room)
    BY <1>1, <1>8
  <2>2. ASSUME Me \in members'[ctx_room']
        PROVE  /\ \A u \in Tasks : Served(u)' => LaterAgrees(task'[u].reply, ctx_room')
               /\ last_room' # None /\ ~ stale' => LaterAgrees(last_room', ctx_room')
    <3>1. /\ Me \in members[ctx_room]
          /\ \A s : AgreesAt(s, ctx_room) => LaterAgrees(s, ctx_room)
      BY <1>6, <1>7, <2>1, <2>2
    <3>2. \A u \in Tasks : Served(u) => LaterAgrees(task[u].reply, ctx_room)
      BY <3>1 DEF Synced
    <3>3. ~ stale' => Served(t)
      BY <1>3, <1>8, <2>1 DEF Served, Doing, c
    <3>4. ASSUME NEW u \in Tasks, Served(u)'
          PROVE  LaterAgrees(task'[u].reply, ctx_room')
      <4>1. u # t
        BY <1>4, <3>4
      <4>2. Served(u) /\ task'[u] = task[u]
        BY <1>2, <1>5, <2>1, <3>4, <4>1
      <4> QED
        BY <2>1, <3>2, <4>2
    <3>5. ~ stale' => LaterAgrees(last_room', ctx_room')
      BY <2>1, <3>2, <3>3 DEF c
    <3> QED
      BY <3>4, <3>5
  <2> QED
    BY <1>6, <2>2, LaterSynced
<1>9. CASE c.verb = "enter"
  <2>1. /\ ctx_room' = c.room /\ n # None
        /\ (n.verb = "leave" /\ n.why = "enter") \/ n.verb = "look"
    BY <1>1, <1>9
  <2>2. Mends(t)'
    BY <1>2, <2>1 DEF Mends, Doing
  <2>3. Doing(t, "enter") /\ Moving(t)
    BY <1>3, <1>9, DoingMoves DEF Doing, c
  <2>4. ASSUME Me \in members'[ctx_room'], NEW u \in Tasks, Served(u)'
        PROVE  LaterAgrees(task'[u].reply, ctx_room')
    <3>1. u # t
      BY <1>4, <2>4
    <3>2. task'[u] = task[u]
      BY <1>2, <3>1
    <3>3. Doing(u, "look") /\ task[u].reply # None /\ ~ task[u].missed /\ task[u].room = ctx_room'
      BY <2>4, <3>2 DEF Served, Doing
    <3>4. ctx_room' = ctx_room
      <4>1. CASE t = "evt"
        <5>1. u = "cmd"
          BY <3>1, <4>1, TaskIsOne
        <5> QED
          BY <2>3, <3>3, <4>1, <5>1 DEF Trail
      <4>2. CASE t = "cmd"
        <5>1. u = "evt"
          BY <3>1, <4>2, TaskIsOne
        <5> QED
          BY <2>3, <3>3, <4>2, <5>1 DEF Trail
      <4> QED
        BY <4>1, <4>2, TaskIsOne
    <3>5. Served(u)
      BY <3>3, <3>4 DEF Served
    <3>6. /\ Me \in members[ctx_room]
          /\ \A s : AgreesAt(s, ctx_room) => LaterAgrees(s, ctx_room)
      BY <1>6, <1>7, <2>4, <3>4
    <3> QED
      BY <3>2, <3>4, <3>5, <3>6 DEF Synced
  <2> QED
    BY <1>6, <2>2, <2>4, LaterSynced
<1>10. CASE c.verb \notin {"look", "enter"}
  <2>1. UNCHANGED <<ctx_room, last_room, stale>>
    BY <1>1, <1>10
  <2>2. Mends(t) => Mends(t)'
    <3>1. Mends(t) => c.verb = "leave" /\ c.why = "enter"
      BY <1>10 DEF Mends, Doing, c
    <3>2. c.verb = "leave" /\ c.why = "enter" => n # None /\ n.verb = "look"
      BY <1>1
    <3> QED
      BY <1>2, <3>1, <3>2 DEF Mends, Doing
  <2>3. \A u \in Tasks : Mends(u) => Mends(u)'
    BY <1>5, <2>2
  <2>4. \A u \in Tasks : Served(u)' => Served(u) /\ task'[u].reply = task[u].reply
    BY <1>2, <1>4, <1>5, <2>1
  <2>5. Steady
    BY <2>3, <2>4 DEF Steady
  <2> QED
    BY <1>3, <2>1, <2>5, StillSynced
<1> QED
  BY <1>8, <1>9, <1>10

LEMMA EventsSynced ==
  ASSUME Typed, Synced, NEW r \in Rooms,
         EventMembership(r) \/ EventChild(r) \/ EventDig(r) \/ EventRollCallChild(r)
  PROVE  Synced'
<1> DEFINE e == Head(mail[r])
<1>1. PICK names : \E call \in Calls \cup {None} :
            /\ Handling(r, names) /\ Handle(r, call)
            /\ call # None => call.reply = None
            /\ e.name \in {"dig", "fill"} => call # None /\ call.verb = "look"
  BY EventsAre
<1>2. PICK call \in Calls \cup {None} :
            /\ Handling(r, names) /\ Handle(r, call)
            /\ call # None => call.reply = None
            /\ e.name \in {"dig", "fill"} => call # None /\ call.verb = "look"
  BY <1>1
<1>3. /\ task["evt"] = None /\ mail' = [mail EXCEPT ![r] = Tail(@)] /\ mail[r] # <<>>
      /\ UNCHANGED <<ctx_room, members, exits>>
  BY <1>2, HandlingIs
<1>4. task'["evt"] = call /\ task'["cmd"] = Missed("cmd", r)
  BY <1>2, HandleIs
<1>5. /\ \A s \in Rooms : s # r => mail'[s] = mail[s]
      /\ Len(mail'[r]) = Len(mail[r]) - 1 /\ Len(mail[r]) \in Nat
      /\ Len(mail[r]) >= 1 /\ e = mail[r][1]
      /\ \A i \in 1 .. Len(mail'[r]) : mail'[r][i] = mail[r][i + 1]
  BY <1>3, HandledIs
<1> HIDE DEF e
<1>6. Shorter(mail[r], mail'[r], e) /\ ctx_room \in Rooms
  BY <1>5 DEF Shorter, Typed
<1>7. ASSUME NEW s \in Rooms, s # r
      PROVE  (HeardAt(s) <=> LaterHeard(s)) /\ \A z : AgreesAt(z, s) <=> LaterAgrees(z, s)
  BY <1>3, <1>5, <1>7 DEF HeardAt, AgreesAt, LaterHeard, LaterAgrees
<1>8. ASSUME NEW s \in Rooms, Me \in members'[s]
      PROVE  LaterHeard(s)
  <2>1. HeardAt(s)
    BY <1>3, <1>8 DEF Synced
  <2>2. CASE s = r
    BY <1>3, <1>6, <2>1, <2>2, HeardHandled DEF HeardAt, LaterHeard
  <2> QED
    BY <1>7, <2>1, <2>2
\* A look that has missed nothing is at another room than the event's.
<1>9. ASSUME NEW t \in Tasks, Served(t)', Me \in members[ctx_room]
      PROVE  LaterAgrees(task'[t].reply, ctx_room)
  <2>1. t = "cmd"
    <3>1. ~ Served("evt")'
      BY <1>2, <1>4 DEF Served, Doing
    <3> QED
      BY <1>9, <3>1, TaskIsOne
  <2>2. task'[t] = task[t] /\ Served(t) /\ ctx_room # r
    <3>1. /\ Missed("cmd", r) # None /\ ~ Missed("cmd", r).missed
          /\ Missed("cmd", r).verb = "look" /\ Missed("cmd", r).reply # None
          /\ Missed("cmd", r).room = ctx_room
      BY <1>3, <1>4, <1>9, <2>1 DEF Served, Doing
    <3>2. task["cmd"] # None /\ Missed("cmd", r) = task["cmd"]
      BY <3>1, MissedIs, TaskIsOne
    <3>3. ctx_room # r
      BY <3>1, <3>2, MissedIs, TaskIsOne
    <3> QED
      BY <1>4, <2>1, <3>1, <3>2, <3>3 DEF Served, Doing
  <2> QED
    BY <1>6, <1>7, <1>9, <2>2 DEF Synced
<1>10. ASSUME NEW t \in Tasks, Mends(t)
       PROVE  Mends(t)'
  <2>1. t = "cmd"
    BY <1>3, <1>10, TaskIsOne DEF Mends, Doing
  <2> QED
    BY <1>4, <1>10, <2>1, MissedIs, TaskIsOne DEF Mends, Doing
<1> DEFINE Fits == (\E t \in Tasks : Mends(t)') \/ LaterAgrees(last_room', ctx_room)
<1>11. ASSUME Me \in members[ctx_room], last_room' # None, ~ stale',
              ~ stale, last_room # None
       PROVE  \/ \E t \in Tasks : Mends(t)'
              \/ AgreesAt(last_room, ctx_room) /\ HeardAt(ctx_room)
  BY <1>6, <1>10, <1>11 DEF Synced
<1>12. ASSUME Me \in members[ctx_room], last_room' # None, ~ stale'
       PROVE  Fits
  <2>1. CASE EventMembership(r)
    <3>1. /\ e.name \in {"arrive", "leave"} /\ last_room # None
          /\ last_room' = [last_room EXCEPT !.children = Children(e, @)]
          /\ ~ stale /\ last_room.of = r
      BY <1>12, <2>1 DEF EventMembership, Handling, e
    <3>2. last_room \in Snapshots
      BY <3>1 DEF Typed
    <3>3. last_room'.of = r /\ last_room'.exits = last_room.exits
          /\ last_room'.children = Children(e, last_room.children)
      BY <3>1, <3>2 DEF Snapshots
    <3>4. Updates(last_room, last_room', e) /\ ~ Maps(e)
      BY <3>1, <3>3 DEF Updates, Says, Present, Maps, Children
    <3>5. CASE AgreesAt(last_room, ctx_room) /\ HeardAt(ctx_room)
      <4>1. r = ctx_room
        BY <3>1, <3>5 DEF AgreesAt, Agrees
      <4>2. Agrees(last_room', mail'[r], r, members[r], exits[r])
        BY <1>6, <3>4, <3>5, <4>1, AgreesHandled DEF AgreesAt, HeardAt
      <4> QED
        BY <1>3, <4>1, <4>2 DEF LaterAgrees
    <3> QED
      BY <1>11, <1>12, <3>1, <3>5
  <2>2. CASE EventChild(r)
    <3>1. e.name = "child" /\ last_room' = e.room /\ r = ctx_room
      BY <1>12, <2>2 DEF EventChild, Handling, e
    <3>2. Heard(mail[r], r, members[r], exits[r])
      BY <1>6, <1>12, <3>1 DEF Synced, HeardAt
    <3>3. /\ \A p \in People : Says(e, p) /\ (\A i \in 1 .. Len(mail'[r]) : ~ Says(mail'[r][i], p))
               => (Present(e, p) <=> p \in members[r])
          /\ e.room.of = r
          /\ (\A i \in 1 .. Len(mail'[r]) : ~ Maps(mail'[r][i])) => e.room.exits = exits[r]
      <4> DEFINE q == mail[r]
                 w == mail'[r]
                 M == members[r]
                 X == exits[r]
      <4>1. Shorter(q, w, e) /\ Heard(q, r, M, X) /\ e.name = "child"
        BY <1>6, <3>1, <3>2
      <4> HIDE DEF q, w, M, X
      <4>2. /\ \A p \in People : Says(e, p) /\ (\A i \in 1 .. Len(w) : ~ Says(w[i], p))
                 => (Present(e, p) <=> p \in M)
            /\ e.room.of = r
            /\ (\A i \in 1 .. Len(w) : ~ Maps(w[i])) => e.room.exits = X
        BY <4>1, HeardHandled
      <4> QED
        BY <4>2 DEF q, w, M, X
    <3>4. \A p \in People : Says(e, p) /\ (Present(e, p) <=> p \in e.room.children)
      BY <3>1 DEF Says, Present
    <3>5. Agrees(e.room, mail'[r], r, members[r], exits[r])
      BY <3>3, <3>4 DEF Agrees
    <3> QED
      BY <1>3, <3>1, <3>5 DEF LaterAgrees
  <2>3. CASE EventDig(r)
    <3>1. call # None /\ call.verb = "look"
      BY <1>2, <2>3 DEF EventDig, Handling, e
    <3>2. Mends("evt")'
      BY <1>4, <3>1 DEF Mends, Doing
    <3> QED
      BY <3>2, TaskIsOne
  <2>4. CASE EventRollCallChild(r)
    <3>1. e.name = "roll-call-child" /\ UNCHANGED <<last_room, stale>>
      BY <2>4 DEF EventRollCallChild, Handling, e
    <3>2. Updates(last_room, last_room, e) /\ ~ Maps(e)
      BY <3>1 DEF Updates, Says, Maps
    <3>3. CASE AgreesAt(last_room, ctx_room) /\ HeardAt(ctx_room)
      <4>1. CASE r = ctx_room
        <5>1. Agrees(last_room, mail'[r], r, members[r], exits[r])
          BY <1>6, <3>2, <3>3, <4>1, AgreesHandled DEF AgreesAt, HeardAt
        <5> QED
          BY <1>3, <3>1, <4>1, <5>1 DEF LaterAgrees
      <4>2. CASE r # ctx_room
        BY <1>6, <1>7, <3>1, <3>3, <4>2
      <4> QED
        BY <4>1, <4>2
    <3> QED
      BY <1>11, <1>12, <3>1, <3>3
  <2> QED
    BY <2>1, <2>2, <2>3, <2>4
<1> QED
  BY <1>3, <1>8, <1>9, <1>12, LaterSynced

LEMMA MoveEventSynced ==
  ASSUME Typed, Synced, EventMove
  PROVE  Synced'
<1>1. PICK i \in 1 .. Len(walks) : \E c \in Calls \cup {None} :
           /\ task["evt"] = None /\ task' = [task EXCEPT !["evt"] = c]
           /\ c = None \/ c.reply = None
  BY MoveEventIs
<1>2. PICK c \in Calls \cup {None} :
           /\ task["evt"] = None /\ task' = [task EXCEPT !["evt"] = c]
           /\ c = None \/ c.reply = None
  BY <1>1
<1>3. UNCHANGED <<ctx_room, last_room, stale, members, exits, mail>>
  BY DEF EventMove, history
<1>4. task'["evt"] = c /\ task'["cmd"] = task["cmd"]
  BY <1>2, TaskIsOne, TaskSet
<1>5. ~ Served("evt")' /\ ~ Mends("evt")
  BY <1>2, <1>4 DEF Served, Mends, Doing
<1>6. (Served("cmd")' => Served("cmd")) /\ (Mends("cmd")' <=> Mends("cmd"))
  BY <1>3, <1>4 DEF Served, Mends, Doing
<1>7. Steady
  BY <1>4, <1>5, <1>6, TaskIsOne DEF Steady
<1> QED
  BY <1>3, <1>7, StillSynced

-----------------------------------------------------------------------------
(* The invariant.                                                           *)

LEMMA InitSync ==
  Init => SyncInv
<1> SUFFICES ASSUME Init
             PROVE  SyncInv
  OBVIOUS
<1>1. MoveInv /\ \A t \in Tasks : task[t] = None
  BY InitPlaced DEF Init
<1>2. \A r \in Rooms : mail[r] = <<>> /\ Len(mail[r]) = 0
  <2>1. \A r \in Rooms : mail[r] = <<>>
    BY DEF Init
  <2> QED
    BY <2>1
<1>3. Trail
  BY <1>1, TaskIsOne DEF Trail, Doing
<1>4. \A r \in Rooms : HeardAt(r)
  BY <1>2 DEF HeardAt, Heard
<1>5. \A t \in Tasks : ~ Served(t)
  BY <1>1 DEF Served, Doing
<1>6. last_room # None => AgreesAt(last_room, ctx_room)
  BY SnapshotAgrees DEF Init
<1> QED
  BY <1>1, <1>3, <1>4, <1>5, <1>6 DEF SyncInv, Synced

LEMMA StepSync ==
  SyncInv /\ [Next]_vars => SyncInv'
<1> SUFFICES ASSUME SyncInv, [Next]_vars
             PROVE  SyncInv'
  OBVIOUS
<1>1. MoveInv /\ MoveInv' /\ Typed /\ Answered
  BY StepPlaced DEF SyncInv, MoveInv
<1> SUFFICES ASSUME patient', calm'
             PROVE  Trail' /\ (~ returned' => Synced')
  BY <1>1 DEF SyncInv
<1> DEFINE Goal == Trail' /\ (~ returned' => Synced')
           Before == /\ patient /\ calm /\ (returned => returned')
                     /\ Single /\ Placed /\ Trail /\ (~ returned => Synced)
<1>2. ASSUME patient, calm, returned => returned'
      PROVE  Before
  BY <1>2 DEF SyncInv, MoveInv
<1>3. ASSUME User
      PROVE  Goal
  <2>1. Before
    BY <1>2, <1>3 DEF User, Command
  <2> QED
    BY <1>1, <1>3, <2>1, UserTrail, UserSynced
<1>4. ASSUME World
      PROVE  Goal
  <2>1. Before
    BY <1>1, <1>2, <1>4, WorldChanges
  <2> QED
    BY <1>1, <1>4, <2>1, WorldTrail, WorldSynced
<1>5. ASSUME NEW t \in Tasks, RoomServes(t)
      PROVE  Goal
  <2>1. returned => returned'
    BY <1>5 DEF RoomServes, RoomLooks, RoomMoves, RoomEnters, RoomLeaves, RoomDigs, RoomFills,
                RoomAcks, Serving
  <2>2. Before
    BY <1>1, <1>2, <1>5, <2>1, ServesIs
  <2> QED
    BY <1>1, <1>5, <2>2, ServesTrail, ServesSynced
<1>6. ASSUME NEW t \in Tasks, CallFails(t)
      PROVE  FALSE
  BY <1>6 DEF CallFails
<1>7. ASSUME NEW t \in Tasks, Resumes(t)
      PROVE  Goal
  <2>1. returned' = returned
    BY <1>7 DEF Resumes, Looked, Entered, Left, Over, Resuming
  <2>2. Before
    BY <1>1, <1>2, <1>7, <2>1, ResumesIs
  <2> QED
    BY <1>1, <1>7, <2>2, ResumesTrail, ResumesSynced
<1>8. ASSUME NEW r \in Rooms,
             EventMembership(r) \/ EventChild(r) \/ EventDig(r) \/ EventRollCallChild(r)
      PROVE  Goal
  <2>1. Before
    BY <1>2, <1>8 DEF EventMembership, EventChild, EventDig, EventRollCallChild, Handling
  <2> QED
    BY <1>1, <1>8, <2>1, EventsTrail, EventsSynced
<1>9. ASSUME EventMove
      PROVE  Goal
  <2>1. Before
    BY <1>2, <1>9 DEF EventMove, history
  <2> QED
    BY <1>1, <1>9, <2>1, MoveEventTrail, MoveEventSynced
<1>10. ASSUME UNCHANGED vars
       PROVE  Goal
  <2>1. UNCHANGED <<ctx_room, last_room, task, members, exits, digging, mail, walks,
                    patient, calm, stale, returned>>
    BY <1>10 DEF vars, focus, world, history
  <2>2. Before
    BY <1>2, <2>1
  <2>3. /\ Moving("evt")' <=> Moving("evt")
        /\ \A g : Making(g)' <=> Making(g)
        /\ \A r, i : Announced(r, i)' <=> Announced(r, i)
        /\ \A i : Walked(i)' <=> Walked(i)
    BY <2>1 DEF Moving, Making, Announced, Walked
  <2>4. /\ SomeMaking' <=> SomeMaking
        /\ SomeAnnounced' <=> SomeAnnounced
        /\ SomeWalked' <=> SomeWalked
    BY <2>3 DEF SomeMaking, SomeAnnounced, SomeWalked
  <2>5. Trail'
    BY <2>1, <2>2, <2>3, <2>4 DEF Trail, Doing, Within
  <2>6. ASSUME Synced
        PROVE  Synced'
    <3>1. Steady
      BY <2>1 DEF Steady, Served, Mends, Doing
    <3> QED
      BY <1>1, <2>1, <2>6, <3>1, StillSynced
  <2> QED
    BY <2>1, <2>2, <2>5, <2>6
<1> QED
  BY <1>3, <1>4, <1>5, <1>6, <1>7, <1>8, <1>9, <1>10, TaskIs DEF Next, Events

\* What the snapshot lacks is under way: an event of the room with the last word
\* on it, a look, or what ends in one.  (room-child-upsert!, event-dig,
\* event-fill, enter-with-key)
THEOREM SyncInvariant == Spec => []SyncInv
<1> QED
  BY InitSync, StepSync, PTL DEF Spec

\* At rest the snapshot is the room the avatar is in, as it is now, unless an
\* event was late or overtook a look, or a walk ended where it began.
\* (room-child-upsert!, event-dig, event-fill, enter-with-key: "topology events
\* replace the cache with a complete room snapshot")
THEOREM CacheIsExactHolds == Spec => []CacheIsExact
<1>1. SyncInv => CacheIsExact
  <2> SUFFICES ASSUME SyncInv, Quiet, patient, calm, ~ stale, ~ returned,
                      last_room # None, Me \in members[ctx_room]
               PROVE  last_room = Snapshot(ctx_room)
    BY DEF CacheIsExact
  <2>1. Typed /\ Synced
    BY DEF SyncInv, MoveInv
  <2>2. /\ ctx_room \in Rooms /\ last_room \in Snapshots
        /\ members[ctx_room] \subseteq People
    BY <2>1 DEF Typed
  <2>3. \A t \in Tasks : ~ Mends(t)
    BY DEF Quiet, Mends, Doing
  <2>4. AgreesAt(last_room, ctx_room)
    BY <2>1, <2>3 DEF Synced
  <2>5. Len(mail[ctx_room]) = 0
    <3>1. mail[ctx_room] = <<>>
      BY <2>2 DEF Quiet
    <3> QED
      BY <3>1
  <2>6. /\ last_room.of = ctx_room /\ last_room.exits = exits[ctx_room]
        /\ \A p \in People : p \in last_room.children <=> p \in members[ctx_room]
    BY <2>4, <2>5 DEF AgreesAt, Agrees
  <2>7. last_room.children = members[ctx_room]
    BY <2>2, <2>6 DEF Snapshots
  <2> QED
    BY <2>2, <2>6, <2>7 DEF Snapshot, Snapshots
<1> QED
  BY <1>1, SyncInvariant, PTL
=============================================================================
