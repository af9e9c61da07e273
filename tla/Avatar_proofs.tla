---------------------------- MODULE Avatar_proofs ----------------------------
(***************************************************************************)
(* Proofs about Avatar, for any items, commands and bounds: the state and   *)
(* the tasks under way keep their form, the equipped container is never     *)
(* also the held item, at rest what the hand names is the avatar's, and at  *)
(* rest what is the avatar's is in a slot.                                  *)
(*                                                                          *)
(* Typed says what tasks look like; Settled that the inventory is not in    *)
(* the hand and that no task is about to put it there; Grounded that what a *)
(* task is about to put into the hand, and what the hand names, is the      *)
(* avatar's or has a message under way that will clear it; Tidy which one   *)
(* thing is being done when nobody hurries, and what it does with every     *)
(* item the avatar is parent of.                                            *)
(***************************************************************************)
EXTENDS Avatar, SequenceTheorems, TLAPS

-----------------------------------------------------------------------------
(* What tasks look like.                                                    *)

CmdDos == {"room-drop", "set-parent", "hold", "take", "put", "parent?", "name?",
           "recycle", "forge", "clear-hand", "arm", "to-hand", "unbook"}
EvtDos == {"room-drop", "set-parent", "child", "book", "booked", "accept",
           "unbook"}

Asks(s) == s.do \in {"hold", "take"}
Reach(s) == s.do \in {"to-hand", "name?"}
Final(s) == s.do \in {"hold", "take", "put", "recycle", "forge", "unbook", "book",
                      "booked", "accept"}

\* Step b may come right behind step a.
Follows(a, b) ==
    \/ a.do = "parent?" /\ b.do = "clear-hand"
    \/ a.do = "clear-hand" /\ Asks(b) /\ b.why = "take"
    \/ a.do = "clear-hand" /\ b.do \in {"forge", "to-hand"}
    \/ a.do = "arm" /\ Asks(b) /\ b.why = "equip" /\ b.item = a.item
    \/ Reach(a) /\ Asks(b) /\ b.why = "equip"
    \/ a.do = "room-drop" /\ b.do = "set-parent" /\ b.item = a.item
    \/ a.do = "set-parent" /\ Asks(b) /\ b.why # "drop"
    \/ a.do = "set-parent" /\ b.do \in {"forge", "to-hand"}
    \/ a.do = "set-parent" /\ b.do = "unbook" /\ b.item = a.item
    \/ a.do = "set-parent" /\ b.do = "booked" /\ b.item # a.item
    \/ a.do = "child" /\ b.do \in {"book", "accept", "room-drop"} /\ b.item = a.item

\* What a step of task t is about.
Fits(t, s) ==
    /\ Reach(s) \/ s.do \in {"book", "booked"} => s.item \in Chests
    /\ s.do \notin {"forge", "clear-hand"} => s.item \in Items
    /\ t = "cmd" => /\ s.do \in CmdDos
                    /\ s.why # None <=> Asks(s)
    /\ t = "evt" => s.do \in EvtDos

Chain(t, q) ==
    \A k \in 1 .. Len(q) :
       /\ Fits(t, q[k])
       /\ k < Len(q) => Follows(q[k], q[k + 1])
       /\ k = Len(q) => Final(q[k]) \/ (Reach(q[k]) /\ q[k].at = None)

Shape == \A t \in Tasks : Chain(t, todo[t])

Typed == TypeOK /\ Shape

-----------------------------------------------------------------------------
(* Constants and records.                                                   *)

LEMMA Distinct ==
  /\ None \notin Items /\ None # Me /\ None # Room /\ None # Gone
  /\ Room # Me /\ Room # Gone /\ Me # Gone
  /\ Room \notin Items /\ Me \notin Items /\ Gone \notin Items
  /\ Chests \subseteq Items /\ Items = Things \cup Chests
  /\ Places = {Room, Me, Gone} \cup Chests
BY AvatarAssumption DEF Items, Places

LEMMA WhyIs ==
  None \notin Asked /\ None # "take" /\ None # "equip" /\ None # "drop"
BY AvatarAssumption DEF Asked

LEMMA StepIs ==
  ASSUME NEW do \in Dos, NEW i \in Items \cup {None}
  PROVE  /\ Step(do, i) \in Steps /\ Step(do, i).do = do /\ Step(do, i).item = i
         /\ Step(do, i).at = None /\ Step(do, i).why = None
BY DEF Step, Steps

LEMMA StepAtIs ==
  ASSUME NEW do \in Dos, NEW i \in Items \cup {None}, NEW c \in Chests \cup {None}
  PROVE  /\ StepAt(do, i, c) \in Steps /\ StepAt(do, i, c).do = do
         /\ StepAt(do, i, c).item = i /\ StepAt(do, i, c).at = c
         /\ StepAt(do, i, c).why = None
BY DEF StepAt, Steps

LEMMA AskIs ==
  ASSUME NEW why \in Asked, NEW i \in Items, NEW c \in Chests \cup {None}
  PROVE  /\ Ask(why, i, c) \in Steps /\ Asks(Ask(why, i, c)) /\ Ask(why, i, c).item = i
         /\ Ask(why, i, c).at = c /\ Ask(why, i, c).why = why
<1>1. Ask(why, i, c) = [do |-> IF c = None THEN "hold" ELSE "take", item |-> i, at |-> c,
                        why |-> why]
  BY DEF Ask
<1>2. (IF c = None THEN "hold" ELSE "take") \in {"hold", "take"}
  OBVIOUS
<1>3. {"hold", "take"} \subseteq Dos
  BY DEF Dos
<1> QED
  BY <1>1, <1>2, <1>3 DEF Steps, Asks

LEMMA StepType ==
  ASSUME NEW s \in Steps
  PROVE  /\ s.do \in Dos /\ s.item \in Items \cup {None} /\ s.at \in Chests \cup {None}
         /\ s.why \in Asked \cup {None}
BY DEF Steps

\* After a reload the step asks for the name instead.
LEMMA NameIs ==
  ASSUME NEW s \in Steps, NEW z, z = [s EXCEPT !.do = "name?"]
  PROVE  z \in Steps /\ z.do = "name?" /\ z.item = s.item /\ z.at = s.at /\ z.why = s.why
BY DEF Steps, Dos

LEMMA TagIs ==
  ASSUME NEW s \in Steps, NEW why \in Asked \cup {None}, NEW z,
         z = [s EXCEPT !.why = why]
  PROVE  z \in Steps /\ z.do = s.do /\ z.item = s.item /\ z.at = s.at /\ z.why = why
BY DEF Steps

LEMMA MessageIs ==
  ASSUME NEW p \in Places, NEW why \in Asked \cup {None}
  PROVE  /\ [parent |-> p, why |-> why] \in Messages
         /\ [parent |-> p, why |-> why].parent = p
BY DEF Messages

LEMMA MessageType ==
  ASSUME NEW m \in Messages
  PROVE  m.parent \in Places /\ m.why \in Asked \cup {None}
BY DEF Messages

-----------------------------------------------------------------------------
(* How a task goes on.                                                      *)

\* The first step of task t is done, and new ones stand in its place.
Goes(t, new) ==
    /\ Len(todo[t]) >= 1 /\ Len(todo[t]) \in Nat /\ Len(new) \in Nat
    /\ todo' \in [Tasks -> Seq(Steps)]
    /\ \A u \in Tasks : u # t => todo'[u] = todo[u]
    /\ Len(todo'[t]) = Len(new) + Len(todo[t]) - 1
    /\ \A k \in 1 .. Len(new) : todo'[t][k] = new[k]
    /\ \A k \in 2 .. Len(todo[t]) : todo'[t][Len(new) + k - 1] = todo[t][k]

Pops(t) ==
    /\ Len(todo[t]) >= 1 /\ Len(todo[t]) \in Nat
    /\ todo' \in [Tasks -> Seq(Steps)]
    /\ \A u \in Tasks : u # t => todo'[u] = todo[u]
    /\ Len(todo'[t]) = Len(todo[t]) - 1
    /\ \A k \in 1 .. Len(todo[t]) - 1 : todo'[t][k] = todo[t][k + 1]

\* It has new steps only, or none.
Gets(t, new) ==
    /\ todo' \in [Tasks -> Seq(Steps)]
    /\ \A u \in Tasks : u # t => todo'[u] = todo[u]
    /\ todo'[t] = new

LEMMA GoesOn ==
  ASSUME TypeOK, NEW t \in Tasks, todo[t] # <<>>, NEW new \in Seq(Steps), Then(t, new)
  PROVE  Goes(t, new)
<1> DEFINE S == Steps
<1>1. todo \in [Tasks -> Seq(S)] /\ new \in Seq(S)
  BY DEF TypeOK
<1>2. todo' = [todo EXCEPT ![t] = new \o Tail(todo[t])]
  BY DEF Then
<1> HIDE DEF S
<1> DEFINE q == todo[t]
           r == Tail(q)
<1>3. q \in Seq(S) /\ q # <<>> /\ Len(q) \in Nat /\ Len(q) >= 1 /\ Len(new) \in Nat
  BY <1>1
<1>4. r \in Seq(S) /\ Len(r) = Len(q) - 1 /\ \A k \in 1 .. Len(r) : r[k] = q[k + 1]
  BY <1>3, HeadTailProperties
<1> HIDE DEF r
<1>5. /\ new \o r \in Seq(S) /\ Len(new \o r) = Len(new) + Len(r)
      /\ \A k \in 1 .. Len(new) + Len(r) :
            (new \o r)[k] = IF k <= Len(new) THEN new[k] ELSE r[k - Len(new)]
  BY <1>1, <1>4, ConcatProperties
<1>6. todo' \in [Tasks -> Seq(S)] /\ todo'[t] = new \o r
      /\ \A u \in Tasks : u # t => todo'[u] = todo[u]
  BY <1>1, <1>2, <1>5 DEF r
<1>7. ASSUME NEW k \in 1 .. Len(new)
      PROVE  (new \o r)[k] = new[k]
  BY <1>3, <1>4, <1>5
<1>8. ASSUME NEW k \in 2 .. Len(q)
      PROVE  (new \o r)[Len(new) + k - 1] = q[k]
  <2>1. /\ Len(new) + k - 1 \in 1 .. Len(new) + Len(r) /\ ~ (Len(new) + k - 1 <= Len(new))
        /\ Len(new) + k - 1 - Len(new) = k - 1 /\ k - 1 \in 1 .. Len(r) /\ k - 1 + 1 = k
    BY <1>3, <1>4
  <2>2. (new \o r)[Len(new) + k - 1] = r[Len(new) + k - 1 - Len(new)]
    BY <1>5, <2>1
  <2> QED
    BY <1>4, <2>1, <2>2
<1>9. Len(new \o r) = Len(new) + Len(q) - 1
  BY <1>3, <1>4, <1>5
<1> QED
  BY <1>3, <1>6, <1>7, <1>8, <1>9 DEF Goes, S

LEMMA PopsOff ==
  ASSUME TypeOK, NEW t \in Tasks, todo[t] # <<>>, Done(t)
  PROVE  Pops(t)
<1>1. <<>> \in Seq(Steps) /\ Len(<<>>) = 0
  OBVIOUS
<1>2. Goes(t, <<>>)
  BY <1>1, GoesOn DEF Done
<1>3. /\ Len(todo[t]) >= 1 /\ Len(todo[t]) \in Nat
      /\ todo' \in [Tasks -> Seq(Steps)]
      /\ \A u \in Tasks : u # t => todo'[u] = todo[u]
      /\ Len(todo'[t]) = Len(todo[t]) - 1
  BY <1>1, <1>2 DEF Goes
<1>4. ASSUME NEW k \in 1 .. Len(todo[t]) - 1
      PROVE  todo'[t][k] = todo[t][k + 1]
  <2>1. k + 1 \in 2 .. Len(todo[t]) /\ 0 + (k + 1) - 1 = k
    BY <1>3
  <2>2. \A j \in 2 .. Len(todo[t]) : todo'[t][0 + j - 1] = todo[t][j]
    BY <1>1, <1>2 DEF Goes
  <2> QED
    BY <2>1, <2>2
<1> QED
  BY <1>3, <1>4 DEF Pops

LEMMA GetsNew ==
  ASSUME TypeOK, NEW t \in Tasks, NEW new \in Seq(Steps), todo' = [todo EXCEPT ![t] = new]
  PROVE  Gets(t, new)
<1> DEFINE S == Seq(Steps)
<1>1. todo \in [Tasks -> S] /\ new \in S
  BY DEF TypeOK
<1> HIDE DEF S
<1>2. todo' \in [Tasks -> S] /\ todo'[t] = new /\ \A u \in Tasks : u # t => todo'[u] = todo[u]
  BY <1>1
<1> QED
  BY <1>2 DEF Gets, S

\* The first step of a task.
LEMMA NowIs ==
  ASSUME TypeOK, NEW t \in Tasks, todo[t] # <<>>
  PROVE  /\ Now(t) = todo[t][1] /\ Now(t) \in Steps
         /\ Len(todo[t]) \in Nat /\ Len(todo[t]) >= 1 /\ 1 \in 1 .. Len(todo[t])
         /\ \A k \in 1 .. Len(todo[t]) : todo[t][k] \in Steps
<1> DEFINE S == Steps
<1>1. todo[t] \in Seq(S)
  BY DEF TypeOK
<1> HIDE DEF S
<1>2. /\ Head(todo[t]) = todo[t][1] /\ todo[t][1] \in S
      /\ Len(todo[t]) \in Nat /\ Len(todo[t]) >= 1 /\ 1 \in 1 .. Len(todo[t])
      /\ \A k \in 1 .. Len(todo[t]) : todo[t][k] \in S
  BY <1>1
<1> QED
  BY <1>2 DEF Now, S

-----------------------------------------------------------------------------
(* Lists of steps.                                                          *)

LEMMA OneIs ==
  ASSUME NEW x \in Steps
  PROVE  <<>> \o <<x>> = <<x>> /\ <<x>> \in Seq(Steps) /\ <<>> \in Seq(Steps)
<1> DEFINE S == Steps
<1>0. x \in S
  OBVIOUS
<1> HIDE DEF S
<1>1. <<>> \o <<x>> = <<x>> /\ <<x>> \in Seq(S) /\ <<>> \in Seq(S)
  BY <1>0
<1> QED
  BY <1>1 DEF S

LEMMA ThreeAre ==
  ASSUME NEW a \in Steps, NEW b \in Steps, NEW x \in Steps
  PROVE  /\ <<a, b>> \o <<x>> = <<a, b, x>> /\ Append(<<a, b>>, x) = <<a, b, x>>
         /\ <<a, b>> \in Seq(Steps) /\ <<a, b, x>> \in Seq(Steps)
<1> DEFINE S == Steps
<1>0. a \in S /\ b \in S /\ x \in S
  OBVIOUS
<1> HIDE DEF S
<1>1. /\ <<a, b>> \in Seq(S) /\ <<x>> \in Seq(S) /\ <<a, b, x>> \in Seq(S)
      /\ Len(<<a, b>>) = 2 /\ Len(<<x>>) = 1 /\ Len(<<a, b, x>>) = 3
      /\ <<a, b>>[1] = a /\ <<a, b>>[2] = b /\ <<x>>[1] = x
      /\ <<a, b, x>>[1] = a /\ <<a, b, x>>[2] = b /\ <<a, b, x>>[3] = x
  BY <1>0
<1> DEFINE p == <<a, b>>
           o == <<x>>
           n == <<a, b, x>>
<1>2. /\ p \in Seq(S) /\ o \in Seq(S) /\ n \in Seq(S) /\ Len(p) = 2 /\ Len(o) = 1
      /\ Len(n) = 3 /\ p[1] = a /\ p[2] = b /\ o[1] = x /\ n[1] = a /\ n[2] = b /\ n[3] = x
  BY <1>1
<1> HIDE DEF p, o, n
<1>3. /\ p \o o \in Seq(S) /\ Len(p \o o) = 3
      /\ (p \o o)[1] = p[1] /\ (p \o o)[2] = p[2] /\ (p \o o)[3] = o[1]
  <2>1. /\ p \o o \in Seq(S) /\ Len(p \o o) = Len(p) + Len(o)
        /\ \A k \in 1 .. Len(p) + Len(o) :
              (p \o o)[k] = IF k <= Len(p) THEN p[k] ELSE o[k - Len(p)]
    BY <1>2, ConcatProperties
  <2>2. Len(p) + Len(o) = 3 /\ 3 - Len(p) = 1
    BY <1>2
  <2> QED
    BY <1>2, <2>1, <2>2
<1>4. p \o o = n
  <2>1. \A k \in 1 .. 3 : k = 1 \/ k = 2 \/ k = 3
    OBVIOUS
  <2>2. \A k \in 1 .. 3 : (p \o o)[k] = n[k]
    BY <1>2, <1>3, <2>1
  <2> QED
    BY <1>2, <1>3, <2>2, SeqEqual
<1>6. Append(p, x) = n
  BY <1>0, <1>2, <1>4, AppendIsConcat DEF o
<1> QED
  BY <1>2, <1>4, <1>6 DEF p, o, n, S

LEMMA FourAre ==
  ASSUME NEW y \in Steps, NEW a \in Steps, NEW b \in Steps, NEW x \in Steps
  PROVE  /\ <<y>> \o <<a, b>> \o <<x>> = <<y, a, b, x>>
         /\ <<y, a, b, x>> \in Seq(Steps)
<1> DEFINE S == Steps
<1>0. a \in S /\ b \in S /\ x \in S /\ y \in S
  OBVIOUS
<1> HIDE DEF S
<1>1. /\ <<a, b>> \in Seq(S) /\ <<x>> \in Seq(S) /\ <<y>> \in Seq(S)
      /\ <<y, a, b, x>> \in Seq(S)
      /\ Len(<<a, b>>) = 2 /\ Len(<<x>>) = 1 /\ Len(<<y>>) = 1 /\ Len(<<y, a, b, x>>) = 4
      /\ <<a, b>>[1] = a /\ <<a, b>>[2] = b /\ <<x>>[1] = x /\ <<y>>[1] = y
      /\ <<y, a, b, x>>[1] = y /\ <<y, a, b, x>>[2] = a /\ <<y, a, b, x>>[3] = b
      /\ <<y, a, b, x>>[4] = x
  BY <1>0
<1> DEFINE p == <<a, b>>
           o == <<x>>
           h == <<y>>
           n == <<y, a, b, x>>
<1>2. /\ p \in Seq(S) /\ o \in Seq(S) /\ h \in Seq(S) /\ n \in Seq(S) /\ Len(p) = 2
      /\ Len(o) = 1 /\ Len(h) = 1 /\ Len(n) = 4 /\ p[1] = a /\ p[2] = b /\ o[1] = x
      /\ h[1] = y /\ n[1] = y /\ n[2] = a /\ n[3] = b /\ n[4] = x
  BY <1>1
<1> HIDE DEF p, o, n, h
<1>3. /\ h \o p \in Seq(S) /\ Len(h \o p) = 3
      /\ (h \o p)[1] = h[1] /\ (h \o p)[2] = p[1] /\ (h \o p)[3] = p[2]
  <2>1. /\ h \o p \in Seq(S) /\ Len(h \o p) = Len(h) + Len(p)
        /\ \A k \in 1 .. Len(h) + Len(p) :
              (h \o p)[k] = IF k <= Len(h) THEN h[k] ELSE p[k - Len(h)]
    BY <1>2, ConcatProperties
  <2>2. Len(h) + Len(p) = 3 /\ 2 - Len(h) = 1 /\ 3 - Len(h) = 2
    BY <1>2
  <2> QED
    BY <1>2, <2>1, <2>2
<1> DEFINE g == h \o p
<1> HIDE DEF g
<1>4. g \in Seq(S) /\ Len(g) = 3 /\ g[1] = y /\ g[2] = a /\ g[3] = b
  BY <1>2, <1>3 DEF g
<1>5. /\ g \o o \in Seq(S) /\ Len(g \o o) = 4
      /\ (g \o o)[1] = g[1] /\ (g \o o)[2] = g[2] /\ (g \o o)[3] = g[3]
      /\ (g \o o)[4] = o[1]
  <2>1. /\ g \o o \in Seq(S) /\ Len(g \o o) = Len(g) + Len(o)
        /\ \A k \in 1 .. Len(g) + Len(o) :
              (g \o o)[k] = IF k <= Len(g) THEN g[k] ELSE o[k - Len(g)]
    BY <1>2, <1>4, ConcatProperties
  <2>2. Len(g) + Len(o) = 4 /\ 4 - Len(g) = 1
    BY <1>2, <1>4
  <2> QED
    BY <1>2, <1>4, <2>1, <2>2
<1>6. g \o o = n
  <2>1. \A k \in 1 .. 4 : k = 1 \/ k = 2 \/ k = 3 \/ k = 4
    OBVIOUS
  <2>2. \A k \in 1 .. 4 : (g \o o)[k] = n[k]
    BY <1>2, <1>4, <1>5, <2>1
  <2> QED
    BY <1>2, <1>5, <2>2, SeqEqual, ZenonT(40)
<1> QED
  BY <1>2, <1>6 DEF g, h, p, o, n, S

LEMMA RelocateIs ==
  ASSUME NEW i \in Items
  PROVE  /\ Relocate(i) = <<Step("room-drop", i), Step("set-parent", i)>>
         /\ Relocate(i) \in Seq(Steps)
         /\ Step("room-drop", i) \in Steps /\ Step("set-parent", i) \in Steps
<1>1. Step("room-drop", i) \in Steps /\ Step("set-parent", i) \in Steps
  BY StepIs DEF Dos
<1> QED
  BY <1>1, ThreeAre DEF Relocate

-----------------------------------------------------------------------------
(* What the steps of a task do to it.                                       *)

LEMMA DoingIs ==
  ASSUME TypeOK, NEW t \in Tasks, NEW do, Doing(t, do)
  PROVE  /\ todo[t] # <<>> /\ Now(t) = todo[t][1] /\ todo[t][1].do = do
         /\ todo[t][1] \in Steps
         /\ Len(todo[t]) \in Nat /\ Len(todo[t]) >= 1 /\ 1 \in 1 .. Len(todo[t])
BY NowIs DEF Doing

LEMMA ClearHandIs ==
  ASSUME Typed, NEW t \in Tasks, ClearHandStep(t)
  PROVE  /\ todo[t] # <<>> /\ todo[t][1].do = "clear-hand"
         /\ \/ HandInTheWay /\ held \in Items /\ Goes(t, Relocate(held))
            \/ ~ HandInTheWay /\ Pops(t)
<1>1. TypeOK /\ todo[t] # <<>> /\ todo[t][1].do = "clear-hand" /\ Then(t, ClearHand)
  BY DoingIs DEF ClearHandStep, Typed
<1>2. HandInTheWay => held \in Items /\ Relocate(held) \in Seq(Steps) /\ ClearHand = Relocate(held)
  BY <1>1, RelocateIs DEF HandInTheWay, ClearHand, TypeOK
<1>3. ~ HandInTheWay => Done(t)
  BY <1>1 DEF ClearHand, Done
<1>4. HandInTheWay => Goes(t, Relocate(held))
  BY <1>1, <1>2, GoesOn
<1>5. ~ HandInTheWay => Pops(t)
  BY <1>1, <1>3, PopsOff
<1> QED
  BY <1>1, <1>2, <1>4, <1>5

\* Unequipping for i, behind what has to leave the hand.
Unequipping(i) == StepAt("to-hand", inv, i)

LEMMA ArmIs ==
  ASSUME Typed, NEW t \in Tasks, Arm(t), NEW i, i = todo[t][1].item
  PROVE  /\ todo[t] # <<>> /\ todo[t][1].do = "arm" /\ i \in Items
         /\ UNCHANGED <<slots, drop_pending, cmds, actors, history>>
         /\ \/ Gets(t, <<>>) /\ UNCHANGED equip_pending
            \/ /\ equip_pending' = i /\ i \in Chests /\ place[i] # Gone
               /\ \/ /\ inv # None /\ HandInTheWay /\ held \in Items
                     /\ Goes(t, <<Step("room-drop", held), Step("set-parent", held),
                                  Unequipping(i)>>)
                  \/ inv # None /\ ~ HandInTheWay /\ Goes(t, <<Unequipping(i)>>)
                  \/ inv = None /\ (held = i \/ ~ HandInTheWay) /\ Pops(t)
                  \/ /\ inv = None /\ HandInTheWay /\ held # i /\ held \in Items
                     /\ Goes(t, Relocate(held))
<1>1. /\ TypeOK /\ todo[t] # <<>> /\ todo[t][1].do = "arm" /\ Now(t) = todo[t][1]
      /\ Chain(t, todo[t]) /\ 1 \in 1 .. Len(todo[t])
  BY DoingIs DEF Arm, Typed, Shape
<1>2. i \in Items
  BY <1>1 DEF Chain, Fits
<1>3. UNCHANGED <<slots, drop_pending, cmds, actors, history>>
  BY DEF Arm
<1>4. ASSUME ~ Container(i)
      PROVE  Gets(t, <<>>) /\ UNCHANGED equip_pending
  <2>1. todo' = [todo EXCEPT ![t] = <<>>] /\ UNCHANGED equip_pending
    BY <1>1, <1>4 DEF Arm
  <2>2. <<>> \in Seq(Steps)
    OBVIOUS
  <2> QED
    BY <1>1, <2>1, <2>2, GetsNew
<1>5. ASSUME Container(i)
      PROVE  /\ equip_pending' = i /\ i \in Chests /\ place[i] # Gone
             /\ Then(t, IF inv # None THEN ClearHand \o <<Unequipping(i)>>
                        ELSE IF held = i THEN <<>> ELSE ClearHand)
  BY <1>1, <1>5 DEF Arm, Container, Unequipping
<1>6. HandInTheWay => /\ held \in Items /\ Relocate(held) \in Seq(Steps)
                      /\ Relocate(held) = <<Step("room-drop", held), Step("set-parent", held)>>
                      /\ ClearHand = Relocate(held)
                      /\ Step("room-drop", held) \in Steps /\ Step("set-parent", held) \in Steps
  BY <1>1, RelocateIs DEF HandInTheWay, ClearHand, TypeOK
<1>7. ~ HandInTheWay => ClearHand = <<>>
  BY DEF ClearHand
<1>8. ASSUME Container(i), inv # None
      PROVE  Unequipping(i) \in Steps
  BY <1>1, <1>2, <1>5, <1>8, StepAtIs, Distinct, SMTT(30) DEF Unequipping, TypeOK, Dos
<1>9. CASE Container(i) /\ inv # None /\ HandInTheWay
  <2> DEFINE n == <<Step("room-drop", held), Step("set-parent", held), Unequipping(i)>>
  <2>0. ClearHand = <<Step("room-drop", held), Step("set-parent", held)>>
    BY <1>6, <1>9
  <2>1. ClearHand \o <<Unequipping(i)>> = n /\ n \in Seq(Steps)
    BY <1>6, <1>8, <1>9, <2>0, ThreeAre
  <2> HIDE DEF n
  <2>2. Then(t, n)
    BY <1>5, <1>9, <2>1
  <2>3. Goes(t, n)
    BY <1>1, <2>1, <2>2, GoesOn
  <2> QED
    BY <1>1, <1>2, <1>3, <1>5, <1>6, <1>9, <2>3 DEF n
<1>10. CASE Container(i) /\ inv # None /\ ~ HandInTheWay
  <2> DEFINE n == <<Unequipping(i)>>
  <2>1. ClearHand \o <<Unequipping(i)>> = n /\ n \in Seq(Steps)
    BY <1>7, <1>8, <1>10, OneIs
  <2> HIDE DEF n
  <2>2. Then(t, n)
    BY <1>5, <1>10, <2>1
  <2>3. Goes(t, n)
    BY <1>1, <2>1, <2>2, GoesOn
  <2> QED
    BY <1>1, <1>2, <1>3, <1>5, <1>10, <2>3 DEF n
<1>11. CASE Container(i) /\ inv = None /\ (held = i \/ ~ HandInTheWay)
  <2>1. Done(t)
    BY <1>5, <1>7, <1>11 DEF Done
  <2>2. Pops(t)
    BY <1>1, <2>1, PopsOff
  <2> QED
    BY <1>1, <1>2, <1>3, <1>5, <1>11, <2>2
<1>12. CASE Container(i) /\ inv = None /\ HandInTheWay /\ held # i
  <2>1. Then(t, Relocate(held))
    BY <1>5, <1>6, <1>12
  <2>2. Goes(t, Relocate(held))
    BY <1>1, <1>6, <1>12, <2>1, GoesOn
  <2> QED
    BY <1>1, <1>2, <1>3, <1>5, <1>6, <1>12, <2>2
<1> QED
  BY <1>1, <1>2, <1>3, <1>4, <1>9, <1>10, <1>11, <1>12

LEMMA InHandIs ==
  ASSUME Typed, NEW t \in Tasks, todo[t] # <<>>, NEW i \in Items, InHand(t, i)
  PROVE  /\ held' = i /\ inv' = None /\ inv_entry' = None
         /\ Pops(t) \/ (todo[t][1].at # None /\ Goes(t, Relocate(i)))
<1>1. TypeOK /\ Now(t) = todo[t][1]
  BY NowIs DEF Typed
<1>2. Relocate(i) \in Seq(Steps)
  BY RelocateIs
<1>3. CASE Now(t).at \in {None, i}
  BY <1>1, <1>3, PopsOff DEF InHand, Done
<1>4. CASE Now(t).at \notin {None, i}
  BY <1>1, <1>2, <1>4, GoesOn DEF InHand
<1> QED
  BY <1>3, <1>4

LEMMA ToHandIs ==
  ASSUME Typed, NEW t \in Tasks, ToHand(t)
  PROVE  /\ todo[t] # <<>> /\ todo[t][1].do = "to-hand"
         /\ UNCHANGED <<flags, cmds, actors, history>>
         /\ \/ /\ inv_entry # None /\ inv_entry \in Chests
               /\ held' = inv_entry /\ inv' = None /\ inv_entry' = None
               /\ Pops(t) \/ (todo[t][1].at # None /\ Goes(t, Relocate(inv_entry)))
            \/ /\ inv_entry = None /\ UNCHANGED slots
               /\ \E z \in Steps : /\ Goes(t, <<z>>) /\ z.do = "name?"
                                   /\ z.item = todo[t][1].item /\ z.at = todo[t][1].at
                                   /\ z.why = todo[t][1].why
<1>1. /\ TypeOK /\ todo[t] # <<>> /\ todo[t][1].do = "to-hand" /\ Now(t) = todo[t][1]
      /\ todo[t][1] \in Steps
  BY DoingIs DEF ToHand, Typed
<1>2. UNCHANGED <<flags, cmds, actors, history>>
  BY DEF ToHand
<1>3. CASE inv_entry # None
  <2>1. InHand(t, inv_entry) /\ inv_entry \in Chests /\ inv_entry \in Items
    BY <1>1, <1>3, Distinct DEF ToHand, TypeOK
  <2> QED
    BY <1>1, <1>2, <1>3, <2>1, InHandIs
<1>4. CASE inv_entry = None
  <2> DEFINE z == [todo[t][1] EXCEPT !.do = "name?"]
  <2>1. Then(t, <<z>>) /\ UNCHANGED slots
    BY <1>1, <1>4 DEF ToHand
  <2>2. /\ z \in Steps /\ z.do = "name?" /\ z.item = todo[t][1].item
        /\ z.at = todo[t][1].at /\ z.why = todo[t][1].why
    BY <1>1, NameIs
  <2> HIDE DEF z
  <2>3. <<z>> \in Seq(Steps)
    BY <2>2, OneIs
  <2>4. Goes(t, <<z>>)
    BY <1>1, <2>1, <2>3, GoesOn
  <2> QED
    BY <1>1, <1>2, <1>4, <2>1, <2>2, <2>4
<1> QED
  BY <1>3, <1>4

LEMMA NameStepIs ==
  ASSUME Typed, NEW t \in Tasks, Name(t), NEW i, i = todo[t][1].item
  PROVE  /\ todo[t] # <<>> /\ todo[t][1].do = "name?" /\ i \in Chests /\ i \in Items
         /\ UNCHANGED <<flags, cmds, actors, history>>
         /\ held' = i /\ inv' = None /\ inv_entry' = None
         /\ Pops(t) \/ (todo[t][1].at # None /\ Goes(t, Relocate(i)))
<1>1. /\ TypeOK /\ todo[t] # <<>> /\ todo[t][1].do = "name?" /\ Now(t) = todo[t][1]
      /\ 1 \in 1 .. Len(todo[t]) /\ Chain(t, todo[t])
  BY DoingIs DEF Name, Call, Typed, Shape
<1>2. i \in Chests /\ i \in Items
  BY <1>1, Distinct DEF Chain, Fits, Reach
<1>3. InHand(t, i) /\ UNCHANGED <<flags, cmds, actors, history>>
  BY <1>1 DEF Name, Call
<1> QED
  BY <1>1, <1>2, <1>3, InHandIs

LEMMA BookIs ==
  ASSUME Typed, NEW t \in Tasks, Book(t), NEW i, i = todo[t][1].item
  PROVE  /\ todo[t] # <<>> /\ todo[t][1].do = "book" /\ i \in Chests /\ i \in Items
         /\ equip_pending' = None /\ held' = IF held = i THEN None ELSE held
         /\ UNCHANGED <<drop_pending, cmds, actors, history>>
         /\ \/ inv \in {None, i} /\ inv' = i /\ inv_entry' = i /\ Pops(t)
            \/ /\ inv \notin {None, i} /\ inv \in Items /\ UNCHANGED <<inv, inv_entry>>
               /\ Goes(t, <<Step("room-drop", inv), Step("set-parent", inv),
                            Step("booked", i)>>)
<1>1. /\ TypeOK /\ todo[t] # <<>> /\ todo[t][1].do = "book" /\ Now(t) = todo[t][1]
      /\ 1 \in 1 .. Len(todo[t]) /\ Chain(t, todo[t])
  BY DoingIs DEF Book, Typed, Shape
<1>2. i \in Chests /\ i \in Items
  BY <1>1, Distinct DEF Chain, Fits, Reach
<1>3. /\ equip_pending' = None /\ held' = IF held = i THEN None ELSE held
      /\ UNCHANGED <<drop_pending, cmds, actors, history>>
  BY <1>1 DEF Book, LetGo
<1>4. CASE inv \in {None, i}
  <2>1. inv' = i /\ inv_entry' = i /\ Done(t)
    BY <1>1, <1>4 DEF Book
  <2> QED
    BY <1>1, <1>2, <1>3, <1>4, <2>1, PopsOff
<1>5. CASE inv \notin {None, i}
  <2> DEFINE n == <<Step("room-drop", inv), Step("set-parent", inv), Step("booked", i)>>
  <2>1. inv \in Items
    BY <1>1, <1>5, Distinct DEF TypeOK
  <2>2. Step("booked", i) \in Steps
    BY <1>2, StepIs DEF Dos
  <2>0. /\ Relocate(inv) = <<Step("room-drop", inv), Step("set-parent", inv)>>
        /\ Step("room-drop", inv) \in Steps /\ Step("set-parent", inv) \in Steps
    BY <2>1, RelocateIs
  <2> DEFINE a == Step("room-drop", inv)
             b == Step("set-parent", inv)
             x == Step("booked", i)
  <2>a. a \in Steps /\ b \in Steps /\ x \in Steps /\ Relocate(inv) = <<a, b>> /\ n = <<a, b, x>>
    BY <2>0, <2>2
  <2> HIDE DEF n, a, b, x
  <2>b. Append(Relocate(inv), x) = n /\ n \in Seq(Steps)
    <3>1. Append(<<a, b>>, x) = <<a, b, x>> /\ <<a, b, x>> \in Seq(Steps)
      BY <2>a, ThreeAre
    <3> QED
      BY <2>a, <3>1, Zenon
  <2>3. Append(Relocate(inv), Step("booked", i)) = n /\ n \in Seq(Steps)
    BY <2>b DEF x
  <2>4. Then(t, n) /\ UNCHANGED <<inv, inv_entry>>
    BY <1>1, <1>5, <2>3 DEF Book
  <2>5. Goes(t, n)
    BY <1>1, <2>3, <2>4, GoesOn
  <2> QED
    BY <1>1, <1>2, <1>3, <1>5, <2>1, <2>4, <2>5 DEF n
<1> QED
  BY <1>4, <1>5

-----------------------------------------------------------------------------
(* Messages.                                                                *)

Sends(i, m) ==
    /\ mail' \in [Items -> Seq(Messages)]
    /\ \A j \in Items : j # i => mail'[j] = mail[j]
    /\ Len(mail[i]) \in Nat /\ Len(mail'[i]) = Len(mail[i]) + 1
    /\ mail'[i][Len(mail[i]) + 1] = m
    /\ \A k \in 1 .. Len(mail[i]) : mail'[i][k] = mail[i][k]

Reads(i) ==
    /\ mail' \in [Items -> Seq(Messages)]
    /\ \A j \in Items : j # i => mail'[j] = mail[j]
    /\ Len(mail[i]) \in Nat /\ Len(mail[i]) >= 1 /\ Len(mail'[i]) = Len(mail[i]) - 1
    /\ Head(mail[i]) = mail[i][1] /\ mail[i][1] \in Messages
    /\ \A k \in 1 .. Len(mail[i]) - 1 : mail'[i][k] = mail[i][k + 1]

LEMMA SendsIt ==
  ASSUME TypeOK, NEW i \in Items, NEW m \in Messages,
         mail' = [mail EXCEPT ![i] = Append(@, m)]
  PROVE  Sends(i, m)
<1> DEFINE S == Messages
<1>1. mail \in [Items -> Seq(S)] /\ m \in S
  BY DEF TypeOK
<1> HIDE DEF S
<1> DEFINE q == Append(mail[i], m)
<1>2. /\ q \in Seq(S) /\ Len(q) = Len(mail[i]) + 1 /\ q[Len(mail[i]) + 1] = m
      /\ Len(mail[i]) \in Nat /\ \A k \in 1 .. Len(mail[i]) : q[k] = mail[i][k]
  BY <1>1, AppendProperties
<1>3. mail' = [mail EXCEPT ![i] = q]
  OBVIOUS
<1> HIDE DEF q
<1>4. /\ mail' \in [Items -> Seq(S)] /\ mail'[i] = q
      /\ \A j \in Items : j # i => mail'[j] = mail[j]
  BY <1>1, <1>2, <1>3
<1> QED
  BY <1>2, <1>4 DEF Sends, S

LEMMA ReadsIt ==
  ASSUME TypeOK, NEW i \in Items, mail[i] # <<>>, mail' = [mail EXCEPT ![i] = Tail(@)]
  PROVE  Reads(i)
<1> DEFINE S == Messages
<1>1. mail \in [Items -> Seq(S)]
  BY DEF TypeOK
<1> HIDE DEF S
<1> DEFINE q == Tail(mail[i])
<1>2. mail[i] \in Seq(S) /\ Len(mail[i]) \in Nat /\ Len(mail[i]) >= 1
  BY <1>1
<1>3. /\ q \in Seq(S) /\ Len(q) = Len(mail[i]) - 1
      /\ \A k \in 1 .. Len(q) : q[k] = mail[i][k + 1]
      /\ Head(mail[i]) = mail[i][1] /\ mail[i][1] \in S
  BY <1>1, <1>2, HeadTailProperties
<1>4. mail' = [mail EXCEPT ![i] = q]
  OBVIOUS
<1> HIDE DEF q
<1>5. /\ mail' \in [Items -> Seq(S)] /\ mail'[i] = q
      /\ \A j \in Items : j # i => mail'[j] = mail[j]
  BY <1>1, <1>3, <1>4
<1> QED
  BY <1>2, <1>3, <1>5 DEF Reads, S

-----------------------------------------------------------------------------
(* What starts a task.                                                      *)

LEMMA ReactIs ==
  ASSUME Typed, NEW i \in Items, React(i)
  PROVE  /\ mail[i] # <<>> /\ todo["evt"] = <<>> /\ Reads(i)
         /\ UNCHANGED <<inv, inv_entry, cmds, place, want, patient, calm>>
         /\ \/ /\ mail[i][1].parent # Me
               /\ held' = IF held = i THEN None ELSE held
               /\ stray' = IF Equipped(i) THEN stray \cup {i} ELSE stray
               /\ UNCHANGED <<todo, flags>>
            \/ /\ mail[i][1].parent = Me /\ UNCHANGED <<held, stray>>
               /\ equip_pending = i /\ UNCHANGED flags
               /\ Gets("evt", <<Step("child", i), Step("book", i)>>)
            \/ /\ mail[i][1].parent = Me /\ UNCHANGED <<held, stray>>
               /\ equip_pending # i /\ i \in drop_pending
               /\ drop_pending' = drop_pending \ {i} /\ UNCHANGED equip_pending
               /\ \E z \in Steps : /\ z.do = "unbook" /\ z.item = i
                                   /\ Gets("evt", <<Step("child", i), Step("room-drop", i),
                                                    Step("set-parent", i), z>>)
            \/ /\ mail[i][1].parent = Me /\ UNCHANGED <<held, stray>>
               /\ equip_pending # i /\ i \notin drop_pending /\ UNCHANGED flags
               /\ Gets("evt", <<Step("child", i), Step("accept", i)>>)
<1>1. /\ TypeOK /\ mail[i] # <<>> /\ todo["evt"] = <<>>
      /\ UNCHANGED <<inv, inv_entry, cmds, place, want, patient, calm>>
  BY DEF React, Typed
<1>2. Reads(i)
  BY <1>1, ReadsIt DEF React
<1>3. Head(mail[i]) = mail[i][1] /\ mail[i][1] \in Messages
  BY <1>2 DEF Reads
<1> DEFINE asked == mail[i][1].why
<1>4. asked \in Asked \cup {None} /\ "evt" \in Tasks
  BY <1>3, MessageType DEF Tasks
<1> HIDE DEF asked
<1>5. /\ Step("child", i) \in Steps /\ Step("book", i) \in Steps /\ Step("accept", i) \in Steps
      /\ Step("unbook", i) \in Steps /\ Step("unbook", i).do = "unbook"
      /\ Step("unbook", i).item = i
  BY StepIs DEF Dos
<1>6. CASE mail[i][1].parent # Me
  BY <1>1, <1>2, <1>3, <1>6 DEF React, LetGo
<1>7. CASE mail[i][1].parent = Me
  <2>1. UNCHANGED <<held, stray>>
    BY <1>3, <1>7 DEF React
  <2>2. \/ /\ equip_pending = i /\ UNCHANGED flags
           /\ todo' = [todo EXCEPT !["evt"] = <<Step("child", i), Step("book", i)>>]
        \/ /\ equip_pending # i /\ i \in drop_pending
           /\ drop_pending' = drop_pending \ {i} /\ UNCHANGED equip_pending
           /\ todo' = [todo EXCEPT !["evt"] =
                         <<Step("child", i)>> \o Relocate(i)
                            \o <<[Step("unbook", i) EXCEPT !.why = asked]>>]
        \/ /\ equip_pending # i /\ i \notin drop_pending /\ UNCHANGED flags
           /\ todo' = [todo EXCEPT !["evt"] = <<Step("child", i), Step("accept", i)>>]
    BY <1>3, <1>7 DEF React, asked
  <2>3. ASSUME todo' = [todo EXCEPT !["evt"] = <<Step("child", i), Step("book", i)>>]
        PROVE  Gets("evt", <<Step("child", i), Step("book", i)>>)
    <3> DEFINE n == <<Step("child", i), Step("book", i)>>
    <3>1. n \in Seq(Steps)
      BY <1>5, ThreeAre
    <3> HIDE DEF n
    <3>2. todo' = [todo EXCEPT !["evt"] = n]
      BY <2>3 DEF n
    <3>3. Gets("evt", n)
      BY <1>1, <1>4, <3>1, <3>2, GetsNew
    <3> QED
      BY <3>3 DEF n
  <2>4. ASSUME todo' = [todo EXCEPT !["evt"] = <<Step("child", i), Step("accept", i)>>]
        PROVE  Gets("evt", <<Step("child", i), Step("accept", i)>>)
    <3> DEFINE n == <<Step("child", i), Step("accept", i)>>
    <3>1. n \in Seq(Steps)
      BY <1>5, ThreeAre
    <3> HIDE DEF n
    <3>2. todo' = [todo EXCEPT !["evt"] = n]
      BY <2>4 DEF n
    <3>3. Gets("evt", n)
      BY <1>1, <1>4, <3>1, <3>2, GetsNew
    <3> QED
      BY <3>3 DEF n
  <2>5. ASSUME todo' = [todo EXCEPT !["evt"] =
                          <<Step("child", i)>> \o Relocate(i)
                             \o <<[Step("unbook", i) EXCEPT !.why = asked]>>]
        PROVE  \E z \in Steps : /\ z.do = "unbook" /\ z.item = i
                                /\ Gets("evt", <<Step("child", i), Step("room-drop", i),
                                                 Step("set-parent", i), z>>)
    <3> DEFINE y == Step("child", i)
               a == Step("room-drop", i)
               b == Step("set-parent", i)
               z == [Step("unbook", i) EXCEPT !.why = asked]
               n == <<y, a, b, z>>
    <3>1. z \in Steps /\ z.do = "unbook" /\ z.item = i
      BY <1>4, <1>5, TagIs
    <3>2. Relocate(i) = <<a, b>> /\ a \in Steps /\ b \in Steps /\ y \in Steps
      BY <1>5, RelocateIs
    <3>3. todo' = [todo EXCEPT !["evt"] = <<y>> \o Relocate(i) \o <<z>>]
      BY <2>5
    <3> HIDE DEF y, a, b, z
    <3>4. <<y>> \o <<a, b>> \o <<z>> = n /\ n \in Seq(Steps)
      BY <3>1, <3>2, FourAre
    <3>5. todo' = [todo EXCEPT !["evt"] = n]
      BY <3>2, <3>3, <3>4
    <3> HIDE DEF n
    <3>6. Gets("evt", n)
      BY <1>1, <1>4, <3>4, <3>5, GetsNew
    <3> QED
      BY <3>1, <3>6 DEF n, y, a, b
  <2> QED
    BY <1>1, <1>2, <1>7, <2>1, <2>2, <2>3, <2>4, <2>5
<1> QED
  BY <1>6, <1>7

\* A step that may overwrite the hand when it is done.
Takes(s) == (Asks(s) /\ s.why = "take") \/ s.do = "forge" \/ Reach(s)

\* The steps a command begins with.
Starts(new) ==
    /\ new \in Seq(Steps) /\ Len(new) \in Nat /\ Len(new) >= 1 /\ Chain("cmd", new)
    /\ \A k \in 1 .. Len(new) :
          /\ Reach(new[k]) => inv # None /\ new[k].item = inv
          /\ new[k].why = "equip" => new[1].do = "arm"
          /\ new[1].do = "room-drop" => ~ Takes(new[k])
    /\ new[1].do = "arm" => new[1].item # inv
    /\ ~ Takes(new[1]) /\ new[1].do \notin {"set-parent", "unbook"}
    /\ new[1].do = "put" => new[1].at # None
    /\ equip_pending' \in {None, equip_pending}
    /\ drop_pending' = IF new[1].why = "drop" THEN drop_pending \cup {new[1].item}
                       ELSE drop_pending

Start(new) ==
    /\ Starts(new) /\ todo["cmd"] = <<>> /\ Gets("cmd", new)
    /\ cmds < MaxCmds /\ cmds' = cmds + 1
    /\ patient' = (patient /\ Quiet) /\ calm' = (calm /\ Quiet)
    /\ UNCHANGED <<slots, actors, stray>>

LEMMA CommandIs ==
  ASSUME Typed, NEW name, NEW new, Command(name, new), Starts(new)
  PROVE  Start(new)
<1>1. TypeOK /\ "cmd" \in Tasks /\ new \in Seq(Steps)
  BY DEF Typed, Tasks, Starts
<1>2. /\ todo' = [todo EXCEPT !["cmd"] = new] /\ todo["cmd"] = <<>>
      /\ cmds < MaxCmds /\ cmds' = cmds + 1
      /\ patient' = (patient /\ Quiet) /\ calm' = (calm /\ Quiet)
      /\ UNCHANGED <<slots, actors, stray>>
  BY DEF Command
<1>3. Gets("cmd", new)
  BY <1>1, <1>2, GetsNew
<1> QED
  BY <1>2, <1>3 DEF Start

-----------------------------------------------------------------------------
(* Commands.                                                                *)

\* What a step of a command that begins with step a may be.
Begins(a, s) ==
    /\ Reach(s) => inv # None /\ s.item = inv
    /\ s.why = "equip" => a.do = "arm"
    /\ a.do = "room-drop" => ~ Takes(s)

Beginning(a) ==
    /\ a.do = "arm" => a.item # inv
    /\ ~ Takes(a) /\ a.do \notin {"set-parent", "unbook"}
    /\ a.do = "put" => a.at # None
    /\ equip_pending' \in {None, equip_pending}
    /\ drop_pending' = IF a.why = "drop" THEN drop_pending \cup {a.item}
                       ELSE drop_pending

Ends(s) == Final(s) \/ (Reach(s) /\ s.at = None)

LEMMA StartsOne ==
  ASSUME NEW a \in Steps, Fits("cmd", a), Ends(a), Begins(a, a), Beginning(a)
  PROVE  Starts(<<a>>)
<1> DEFINE n == <<a>>
<1>1. n \in Seq(Steps)
  BY OneIs
<1>2. Len(n) = 1 /\ n[1] = a
  OBVIOUS
<1> HIDE DEF n
<1>3. \A k \in 1 .. Len(n) : k = 1
  BY <1>2
<1>4. Chain("cmd", n)
  BY <1>2, <1>3 DEF Chain, Ends
<1>5. Starts(n)
  BY <1>1, <1>2, <1>3, <1>4 DEF Starts, Begins, Beginning
<1> QED
  BY <1>5 DEF n

LEMMA StartsTwo ==
  ASSUME NEW a \in Steps, NEW b \in Steps, Fits("cmd", a), Fits("cmd", b), Follows(a, b),
         Ends(b), Begins(a, a), Begins(a, b), Beginning(a)
  PROVE  Starts(<<a, b>>)
<1> DEFINE n == <<a, b>>
<1>1. n \in Seq(Steps)
  BY ThreeAre
<1>2. Len(n) = 2 /\ n[1] = a /\ n[2] = b
  OBVIOUS
<1> HIDE DEF n
<1>3. \A k \in 1 .. Len(n) : k = 1 \/ k = 2
  BY <1>2
<1>4. Chain("cmd", n)
  <2> SUFFICES ASSUME NEW k \in 1 .. Len(n)
               PROVE  /\ Fits("cmd", n[k])
                      /\ k < Len(n) => Follows(n[k], n[k + 1])
                      /\ k = Len(n) => Final(n[k]) \/ (Reach(n[k]) /\ n[k].at = None)
    BY DEF Chain
  <2>1. CASE k = 1
    BY <1>2, <2>1
  <2>2. CASE k = 2
    BY <1>2, <2>2 DEF Ends
  <2> QED
    BY <1>3, <2>1, <2>2
<1>5. \A k \in 1 .. Len(n) : Begins(n[1], n[k])
  BY <1>2, <1>3
<1>6. Starts(n)
  BY <1>1, <1>2, <1>4, <1>5 DEF Starts, Begins, Beginning
<1> QED
  BY <1>6 DEF n

LEMMA StartsThree ==
  ASSUME NEW a \in Steps, NEW b \in Steps, NEW x \in Steps, Fits("cmd", a), Fits("cmd", b),
         Fits("cmd", x), Follows(a, b), Follows(b, x),
         Ends(x), Begins(a, a), Begins(a, b), Begins(a, x), Beginning(a)
  PROVE  Starts(<<a, b, x>>)
<1> DEFINE n == <<a, b, x>>
<1>1. n \in Seq(Steps)
  BY ThreeAre
<1>2. Len(n) = 3 /\ n[1] = a /\ n[2] = b /\ n[3] = x
  OBVIOUS
<1> HIDE DEF n
<1>3. \A k \in 1 .. Len(n) : k = 1 \/ k = 2 \/ k = 3
  BY <1>2
<1>4. Chain("cmd", n)
  <2> SUFFICES ASSUME NEW k \in 1 .. Len(n)
               PROVE  /\ Fits("cmd", n[k])
                      /\ k < Len(n) => Follows(n[k], n[k + 1])
                      /\ k = Len(n) => Final(n[k]) \/ (Reach(n[k]) /\ n[k].at = None)
    BY DEF Chain
  <2>1. CASE k = 1
    BY <1>2, <2>1
  <2>2. CASE k = 2
    BY <1>2, <2>2
  <2>3. CASE k = 3
    BY <1>2, <2>3 DEF Ends
  <2> QED
    BY <1>3, <2>1, <2>2, <2>3
<1>5. \A k \in 1 .. Len(n) : Begins(n[1], n[k])
  BY <1>2, <1>3
<1>6. Starts(n)
  BY <1>1, <1>2, <1>4, <1>5 DEF Starts, Begins, Beginning
<1> QED
  BY <1>6 DEF n

\* Commands that free the hand and then ask for an item.
LEMMA TakeStarts ==
  ASSUME NEW i \in Items, NEW c \in Chests \cup {None},
         equip_pending' \in {None, equip_pending}, UNCHANGED drop_pending
  PROVE  /\ Starts(<<Step("clear-hand", None), Ask("take", i, c)>>)
         /\ Starts(<<Step("parent?", i), Step("clear-hand", None), Ask("take", i, c)>>)
<1> DEFINE p == Step("parent?", i)
           a == Step("clear-hand", None)
           b == Ask("take", i, c)
<1>1. a \in Steps /\ a.do = "clear-hand" /\ a.why = None
  BY StepIs DEF Dos
<1>2. p \in Steps /\ p.do = "parent?" /\ p.item = i /\ p.why = None
  BY StepIs DEF Dos
<1>3. b \in Steps /\ Asks(b) /\ b.item = i /\ b.why = "take"
  BY AskIs DEF Asked
<1> HIDE DEF a, b, p
<1>5. Fits("cmd", a) /\ Fits("cmd", p)
  BY <1>1, <1>2 DEF Fits, CmdDos, Reach, Asks
<1>6. b.do \in {"hold", "take"} /\ b.why # None
  BY <1>3, WhyIs DEF Asks
<1>7. Fits("cmd", b)
  BY <1>3, <1>6 DEF Fits, CmdDos, Reach, Asks
<1>8. Follows(p, a) /\ Follows(a, b) /\ Ends(b)
  BY <1>1, <1>2, <1>3, <1>6 DEF Follows, Ends, Final
<1>9. /\ Begins(a, a) /\ Begins(a, b) /\ Beginning(a)
      /\ Begins(p, p) /\ Begins(p, a) /\ Begins(p, b) /\ Beginning(p)
  BY <1>1, <1>2, <1>3, <1>6, WhyIs DEF Begins, Beginning, Reach, Takes, Asks
<1> QED
  BY <1>1, <1>2, <1>3, <1>5, <1>7, <1>8, <1>9, StartsTwo, StartsThree DEF a, b, p

LEMMA EquipStarts ==
  ASSUME NEW i \in Items, NEW c \in Chests \cup {None}, i # inv, UNCHANGED flags
  PROVE  Starts(<<Step("arm", i), Ask("equip", i, c)>>)
<1> DEFINE a == Step("arm", i)
           b == Ask("equip", i, c)
<1>1. a \in Steps /\ a.do = "arm" /\ a.item = i /\ a.why = None
  BY StepIs DEF Dos
<1>2. b \in Steps /\ Asks(b) /\ b.item = i /\ b.why = "equip"
  BY AskIs DEF Asked
<1> HIDE DEF a, b
<1>3. b.do \in {"hold", "take"} /\ b.why # None
  BY <1>2, WhyIs DEF Asks
<1>4. Fits("cmd", a) /\ Fits("cmd", b)
  BY <1>1, <1>2, <1>3 DEF Fits, CmdDos, Reach, Asks
<1>5. Follows(a, b) /\ Ends(b)
  BY <1>1, <1>2, <1>3 DEF Follows, Ends, Final
<1>6. Begins(a, a) /\ Begins(a, b) /\ Beginning(a)
  BY <1>1, <1>2, <1>3, WhyIs DEF Begins, Beginning, Reach, Takes, Asks, flags
<1> QED
  BY <1>1, <1>2, <1>4, <1>5, <1>6, StartsTwo DEF a, b

LEMMA UnequipStarts ==
  ASSUME TypeOK, inv # None, UNCHANGED flags
  PROVE  Starts(<<Step("clear-hand", None), Step("to-hand", inv)>>)
<1> DEFINE a == Step("clear-hand", None)
           b == Step("to-hand", inv)
<1>1. a \in Steps /\ a.do = "clear-hand" /\ a.why = None
  BY StepIs DEF Dos
<1>0. inv \in Chests /\ inv \in Items
  BY Distinct DEF TypeOK
<1>2. b \in Steps /\ b.do = "to-hand" /\ b.item = inv /\ b.at = None /\ b.why = None
  BY <1>0, StepIs DEF Dos
<1> HIDE DEF a, b
<1>4. Fits("cmd", a) /\ Fits("cmd", b)
  BY <1>0, <1>1, <1>2 DEF Fits, CmdDos, Reach, Asks
<1>5. Follows(a, b) /\ Ends(b)
  BY <1>1, <1>2 DEF Follows, Ends, Reach
<1>6. Begins(a, a) /\ Begins(a, b) /\ Beginning(a)
  BY <1>1, <1>2, WhyIs DEF Begins, Beginning, Reach, Takes, Asks, flags
<1> QED
  BY <1>1, <1>2, <1>4, <1>5, <1>6, StartsTwo DEF a, b

LEMMA ForgeStarts ==
  ASSUME UNCHANGED flags
  PROVE  Starts(<<Step("clear-hand", None), Step("forge", None)>>)
<1> DEFINE a == Step("clear-hand", None)
           b == Step("forge", None)
<1>1. a \in Steps /\ a.do = "clear-hand" /\ a.why = None
  BY StepIs DEF Dos
<1>2. b \in Steps /\ b.do = "forge" /\ b.why = None
  BY StepIs DEF Dos
<1> HIDE DEF a, b
<1>4. Fits("cmd", a) /\ Fits("cmd", b)
  BY <1>1, <1>2 DEF Fits, CmdDos, Reach, Asks
<1>5. Follows(a, b) /\ Ends(b)
  BY <1>1, <1>2 DEF Follows, Ends, Final
<1>6. Begins(a, a) /\ Begins(a, b) /\ Beginning(a)
  BY <1>1, <1>2, WhyIs DEF Begins, Beginning, Reach, Takes, Asks, flags
<1> QED
  BY <1>1, <1>2, <1>4, <1>5, <1>6, StartsTwo DEF a, b

LEMMA PutStarts ==
  ASSUME NEW i \in Items, NEW c \in Chests, UNCHANGED flags
  PROVE  Starts(<<StepAt("put", i, c)>>)
<1> DEFINE a == StepAt("put", i, c)
<1>1. a \in Steps /\ a.do = "put" /\ a.why = None /\ a.item = i /\ a.at = c
  BY StepAtIs DEF Dos
<1> HIDE DEF a
<1>2. Fits("cmd", a) /\ Ends(a) /\ Begins(a, a) /\ Beginning(a)
  BY <1>1, WhyIs, Distinct DEF Fits, CmdDos, Reach, Asks, Ends, Final, Begins, Beginning,
     Takes, flags
<1> QED
  BY <1>1, <1>2, StartsOne DEF a

LEMMA RecycleStarts ==
  ASSUME NEW i \in Items, UNCHANGED flags
  PROVE  Starts(<<Step("recycle", i)>>)
<1> DEFINE a == Step("recycle", i)
<1>1. a \in Steps /\ a.do = "recycle" /\ a.why = None /\ a.item = i
  BY StepIs DEF Dos
<1> HIDE DEF a
<1>2. Fits("cmd", a) /\ Ends(a) /\ Begins(a, a) /\ Beginning(a)
  BY <1>1, WhyIs DEF Fits, CmdDos, Reach, Asks, Ends, Final, Begins, Beginning, Takes, flags
<1> QED
  BY <1>1, <1>2, StartsOne DEF a

LEMMA DropFromStarts ==
  ASSUME NEW i \in Items, NEW c \in Chests \cup {None},
         drop_pending' = drop_pending \cup {i}, UNCHANGED equip_pending
  PROVE  Starts(<<Ask("drop", i, c)>>)
<1> DEFINE a == Ask("drop", i, c)
<1>1. a \in Steps /\ Asks(a) /\ a.why = "drop" /\ a.item = i
  BY AskIs DEF Asked
<1> HIDE DEF a
<1>2. a.do \in {"hold", "take"} /\ a.why # None
  BY <1>1, WhyIs DEF Asks
<1>3. Fits("cmd", a)
  BY <1>1, <1>2 DEF Fits, CmdDos, Reach, Asks
<1>4. Ends(a) /\ Begins(a, a) /\ Beginning(a)
  BY <1>1, <1>2, WhyIs DEF Reach, Asks, Ends, Final, Begins, Beginning, Takes
<1> QED
  BY <1>1, <1>3, <1>4, StartsOne DEF a

LEMMA DropCarriedStarts ==
  ASSUME NEW i \in Items, UNCHANGED flags
  PROVE  Starts(Relocate(i) \o <<Step("unbook", i)>>)
<1> DEFINE a == Step("room-drop", i)
           b == Step("set-parent", i)
           x == Step("unbook", i)
<1>1. a \in Steps /\ a.do = "room-drop" /\ a.why = None /\ a.item = i
  BY StepIs DEF Dos
<1>2. b \in Steps /\ b.do = "set-parent" /\ b.why = None /\ b.item = i
  BY StepIs DEF Dos
<1>3. x \in Steps /\ x.do = "unbook" /\ x.why = None /\ x.item = i
  BY StepIs DEF Dos
<1>4. Relocate(i) = <<a, b>>
  BY RelocateIs
<1> HIDE DEF a, b, x
<1>5. <<a, b>> \o <<x>> = <<a, b, x>>
  BY <1>1, <1>2, <1>3, ThreeAre
<1>6. Fits("cmd", a) /\ Fits("cmd", b) /\ Fits("cmd", x)
  BY <1>1, <1>2, <1>3 DEF Fits, CmdDos, Reach, Asks
<1>7. Follows(a, b) /\ Follows(b, x) /\ Ends(x)
  BY <1>1, <1>2, <1>3 DEF Follows, Ends, Final
<1>8. Begins(a, a) /\ Begins(a, b) /\ Begins(a, x) /\ Beginning(a)
  BY <1>1, <1>2, <1>3, WhyIs DEF Begins, Beginning, Reach, Takes, Asks, flags
<1>9. Starts(<<a, b, x>>)
  BY <1>1, <1>2, <1>3, <1>6, <1>7, <1>8, StartsThree
<1> QED
  BY <1>4, <1>5, <1>9 DEF x

LEMMA UserIs ==
  ASSUME Typed, User
  PROVE  Reload \/ \E new : Start(new)
<1>0. TypeOK
  BY DEF Typed
<1>1. \/ Reload
      \/ Keep
      \/ Unequip
      \/ Forge
      \/ \E i \in Items : \E c \in Chests \cup {None} :
            Take(i, c) \/ TakeFrom(i, c) \/ Equip(i, c) \/ DropFrom(i, c)
      \/ \E i \in Items : \E c \in Chests : Put(i, c)
      \/ \E i \in Items : Find(i) \/ DropCarried(i) \/ Recycle(i)
  BY DEF User, Known
<1>2. ASSUME Keep
      PROVE  \E new : Start(new)
  <2>1. held \in Items /\ inv \in Chests /\ UNCHANGED flags
    BY <1>0, <1>2 DEF Keep, TypeOK
  <2>2. Command("keep", <<StepAt("put", held, inv)>>)
    BY <1>2 DEF Keep
  <2> QED
    BY <2>1, <2>2, PutStarts, CommandIs
<1>3. ASSUME Unequip
      PROVE  \E new : Start(new)
  BY <1>0, <1>3, UnequipStarts, CommandIs DEF Unequip
<1>4. ASSUME Forge
      PROVE  \E new : Start(new)
  BY <1>4, ForgeStarts, CommandIs DEF Forge
<1>5. ASSUME NEW i \in Items, NEW c \in Chests \cup {None},
             Take(i, c) \/ TakeFrom(i, c) \/ Equip(i, c) \/ DropFrom(i, c)
      PROVE  \E new : Start(new)
  <2>1. ASSUME Take(i, c) \/ TakeFrom(i, c)
        PROVE  \E new : Start(new)
    <3>1. equip_pending' \in {None, equip_pending} /\ UNCHANGED drop_pending
      BY <2>1 DEF Take, TakeFrom, flags
    <3>2. \E name : Command(name, <<Step("clear-hand", None), Ask("take", i, c)>>)
      BY <2>1 DEF Take, TakeFrom
    <3> QED
      BY <3>1, <3>2, TakeStarts, CommandIs
  <2>2. ASSUME Equip(i, c)
        PROVE  \E new : Start(new)
    BY <2>2, EquipStarts, CommandIs DEF Equip
  <2>3. ASSUME DropFrom(i, c)
        PROVE  \E new : Start(new)
    BY <2>3, DropFromStarts, CommandIs DEF DropFrom
  <2> QED
    BY <1>5, <2>1, <2>2, <2>3
<1>6. ASSUME NEW i \in Items, NEW c \in Chests, Put(i, c)
      PROVE  \E new : Start(new)
  BY <1>6, PutStarts, CommandIs DEF Put
<1>7. ASSUME NEW i \in Items, Find(i) \/ DropCarried(i) \/ Recycle(i)
      PROVE  \E new : Start(new)
  <2>1. ASSUME Find(i)
        PROVE  \E new : Start(new)
    <3>1. equip_pending' \in {None, equip_pending} /\ UNCHANGED drop_pending
      BY <2>1 DEF Find
    <3>2. Command("find", <<Step("parent?", i), Step("clear-hand", None),
                            Ask("take", i, None)>>)
      BY <2>1 DEF Find
    <3>3. None \in Chests \cup {None}
      OBVIOUS
    <3> QED
      BY <3>1, <3>2, <3>3, TakeStarts, CommandIs
  <2>2. ASSUME DropCarried(i)
        PROVE  \E new : Start(new)
    BY <2>2, DropCarriedStarts, CommandIs DEF DropCarried
  <2>3. ASSUME Recycle(i)
        PROVE  \E new : Start(new)
    BY <2>3, RecycleStarts, CommandIs DEF Recycle
  <2> QED
    BY <1>7, <2>1, <2>2, <2>3
<1> QED
  BY <1>1, <1>2, <1>3, <1>4, <1>5, <1>6, <1>7

-----------------------------------------------------------------------------
(* Replies.                                                                 *)

Last(t) == todo[t][Len(todo[t])]

\* The task ends, and a command that armed something disarms it.
Failed(t) ==
    /\ Gets(t, <<>>)
    /\ equip_pending' = IF t = "cmd" /\ Last(t).why = "equip" THEN None
                        ELSE equip_pending
    /\ drop_pending' = IF t = "cmd" /\ Last(t).why = "drop"
                       THEN drop_pending \ {Last(t).item} ELSE drop_pending

LEMMA FailIs ==
  ASSUME TypeOK, NEW t \in Tasks, Fail(t)
  PROVE  Failed(t)
<1>1. todo' = [todo EXCEPT ![t] = <<>>] /\ Disarmed(t)
  BY DEF Fail
<1>2. <<>> \in Seq(Steps)
  OBVIOUS
<1>3. Gets(t, <<>>)
  BY <1>1, <1>2, GetsNew
<1> QED
  BY <1>1, <1>3 DEF Failed, Disarmed, Last

\* What a step of task t is done with, and that it is gone.
Ended(t) == Pops(t) /\ UNCHANGED flags

LEMMA EndedIs ==
  ASSUME TypeOK, NEW t \in Tasks, todo[t] # <<>>, Done(t), UNCHANGED flags
  PROVE  Ended(t)
BY PopsOff DEF Ended

LEMMA RefusedIs ==
  ASSUME TypeOK, NEW t \in Tasks, Refused(t)
  PROVE  Failed(t) /\ calm' = FALSE /\ UNCHANGED <<slots, actors, patient, stray>>
BY FailIs DEF Refused

LEMMA FirstIs ==
  ASSUME Typed, NEW t \in Tasks, NEW do, Doing(t, do)
  PROVE  /\ TypeOK /\ todo[t] # <<>> /\ Now(t) = todo[t][1] /\ todo[t][1].do = do
         /\ todo[t][1] \in Steps /\ Fits(t, todo[t][1])
         /\ do \notin {"forge", "clear-hand"} => todo[t][1].item \in Items
<1>1. /\ TypeOK /\ todo[t] # <<>> /\ Now(t) = todo[t][1] /\ todo[t][1].do = do
      /\ todo[t][1] \in Steps /\ 1 \in 1 .. Len(todo[t])
  BY DoingIs DEF Typed
<1>2. Fits(t, todo[t][1])
  BY <1>1 DEF Typed, Shape, Chain
<1> QED
  BY <1>1, <1>2 DEF Fits

LEMMA RoomDropIs ==
  ASSUME Typed, NEW t \in Tasks, RoomDrop(t)
  PROVE  /\ todo[t] # <<>> /\ todo[t][1].do = "room-drop" /\ UNCHANGED cmds
         /\ \/ Ended(t) /\ UNCHANGED <<slots, actors, history>>
            \/ Failed(t) /\ calm' = FALSE /\ UNCHANGED <<slots, actors, patient, stray>>
BY FirstIs, EndedIs, RefusedIs DEF RoomDrop, Call

LEMMA SetParentIs ==
  ASSUME Typed, NEW t \in Tasks, SetParent(t), NEW i, i = todo[t][1].item
  PROVE  /\ todo[t] # <<>> /\ todo[t][1].do = "set-parent" /\ i \in Items /\ UNCHANGED cmds
         /\ \/ /\ place[i] = Gone /\ Ended(t) /\ UNCHANGED <<actors, history>>
               /\ held' = IF held = i THEN None ELSE held
               /\ inv' = IF inv = i THEN None ELSE inv
               /\ inv_entry' = IF inv = i THEN None ELSE inv_entry
            \/ /\ place[i] = Me /\ Ended(t) /\ UNCHANGED <<slots, place, mail, history>>
               /\ want' = [want EXCEPT ![i] = Room]
            \/ place[i] \notin {Me, Gone} /\ Failed(t) /\ UNCHANGED <<slots, actors, history>>
            \/ Failed(t) /\ calm' = FALSE /\ UNCHANGED <<slots, actors, patient, stray>>
<1>1. /\ TypeOK /\ todo[t] # <<>> /\ todo[t][1].do = "set-parent" /\ Now(t) = todo[t][1]
      /\ i \in Items /\ UNCHANGED cmds
  BY FirstIs DEF SetParent, Call
<1>2. \/ /\ place[i] = Gone /\ LetGo(i) /\ Done(t) /\ UNCHANGED <<flags, actors, history>>
         /\ inv' = IF inv = i THEN None ELSE inv
         /\ inv_entry' = IF inv = i THEN None ELSE inv_entry
      \/ /\ place[i] = Me /\ Done(t) /\ UNCHANGED <<slots, flags, place, mail, history>>
         /\ want' = [want EXCEPT ![i] = Room]
      \/ place[i] \notin {Me, Gone} /\ Fail(t) /\ UNCHANGED <<slots, actors, history>>
      \/ Refused(t)
  BY <1>1 DEF SetParent
<1> QED
  BY <1>1, <1>2, EndedIs, FailIs, RefusedIs DEF LetGo

\* An item proposes itself.
Proposed(t, i) ==
    /\ Ended(t) /\ UNCHANGED <<slots, place, history>>
    /\ want' = [want EXCEPT ![i] = Me]
    /\ \E m \in Messages : m.parent = Me /\ Sends(i, m)

LEMMA ProposesIs ==
  ASSUME TypeOK, NEW t \in Tasks, todo[t] # <<>>, Proposes(t), NEW i \in Items,
         i = Now(t).item
  PROVE  Proposed(t, i)
<1>1. Ended(t) /\ UNCHANGED <<slots, place, history>> /\ want' = [want EXCEPT ![i] = Me]
  BY EndedIs DEF Proposes
<1> DEFINE why == Now(t).why
           m == [parent |-> Me, why |-> why]
<1>2. Now(t) \in Steps
  BY NowIs
<1>3. why \in Asked \cup {None} /\ Me \in Places
  BY <1>2, StepType, Distinct
<1> HIDE DEF why
<1>4. m \in Messages /\ m.parent = Me
  BY <1>3, MessageIs
<1>5. mail' = [mail EXCEPT ![i] = Append(@, m)]
  BY DEF Proposes, why
<1> HIDE DEF m
<1>6. Sends(i, m)
  BY <1>4, <1>5, SendsIt
<1> QED
  BY <1>1, <1>4, <1>6 DEF Proposed

\* hold and take.
Asking(t) == Hold(t) \/ TakeOut(t)

LEMMA AskingIs ==
  ASSUME Typed, NEW t \in Tasks, Asking(t), NEW i, i = todo[t][1].item
  PROVE  /\ todo[t] # <<>> /\ Asks(todo[t][1]) /\ i \in Items /\ UNCHANGED cmds
         /\ \/ place[i] # Gone /\ Proposed(t, i)
            \/ /\ Ended(t) /\ calm' = FALSE
               /\ UNCHANGED <<slots, actors, patient, stray>>
            \/ Failed(t) /\ calm' = FALSE /\ UNCHANGED <<slots, actors, patient, stray>>
<1>1. CASE Hold(t)
  <2>1. /\ TypeOK /\ todo[t] # <<>> /\ todo[t][1].do = "hold" /\ Now(t) = todo[t][1]
        /\ i \in Items /\ UNCHANGED cmds
    BY <1>1, FirstIs DEF Hold, Call
  <2>2. (place[i] # Gone /\ Proposes(t)) \/ Refused(t)
    BY <1>1, <2>1 DEF Hold
  <2> QED
    BY <2>1, <2>2, ProposesIs, RefusedIs DEF Asks
<1>2. CASE TakeOut(t)
  <2>1. /\ TypeOK /\ todo[t] # <<>> /\ todo[t][1].do = "take" /\ Now(t) = todo[t][1]
        /\ i \in Items /\ UNCHANGED cmds /\ todo[t][1] \in Steps
    BY <1>2, FirstIs DEF TakeOut, Call
  <2>2. \/ place[i] = todo[t][1].at /\ Proposes(t)
        \/ Done(t) /\ calm' = FALSE /\ UNCHANGED <<slots, flags, actors, patient, stray>>
        \/ Refused(t)
    BY <1>2, <2>1 DEF TakeOut
  <2>3. Gone \notin Chests \cup {None}
    BY Distinct
  <2>4. todo[t][1].at # Gone
    BY <2>1, <2>3, StepType
  <2>5. ASSUME Proposes(t)
        PROVE  Proposed(t, i)
    BY <2>1, <2>5, ProposesIs
  <2>6. ASSUME Done(t), UNCHANGED flags
        PROVE  Ended(t)
    BY <2>1, <2>6, EndedIs
  <2> QED
    BY <2>1, <2>2, <2>4, <2>5, <2>6, RefusedIs DEF Asks
<1> QED
  BY <1>1, <1>2 DEF Asking

LEMMA PutInIs ==
  ASSUME Typed, NEW t \in Tasks, PutIn(t), NEW i, i = todo[t][1].item
  PROVE  /\ todo[t] # <<>> /\ todo[t][1].do = "put" /\ i \in Items /\ UNCHANGED cmds
         /\ \/ /\ place[i] # Gone /\ Ended(t) /\ UNCHANGED <<slots, place, mail, history>>
               /\ \E c \in Chests \cup {None} :
                    c = todo[t][1].at /\ want' = [want EXCEPT ![i] = c]
            \/ Failed(t) /\ calm' = FALSE /\ UNCHANGED <<slots, actors, patient, stray>>
<1>1. /\ TypeOK /\ todo[t] # <<>> /\ todo[t][1].do = "put" /\ Now(t) = todo[t][1]
      /\ i \in Items /\ UNCHANGED cmds /\ todo[t][1] \in Steps
  BY FirstIs DEF PutIn, Call
<1>2. todo[t][1].at \in Chests \cup {None}
  BY <1>1, StepType
<1>3. \/ /\ place[i] # Gone /\ want' = [want EXCEPT ![i] = todo[t][1].at] /\ Done(t)
         /\ UNCHANGED <<slots, flags, place, mail, history>>
      \/ Refused(t)
  BY <1>1 DEF PutIn
<1> QED
  BY <1>1, <1>2, <1>3, EndedIs, RefusedIs

LEMMA ChildIs ==
  ASSUME Typed, NEW t \in Tasks, Child(t), NEW i, i = todo[t][1].item
  PROVE  /\ todo[t] # <<>> /\ todo[t][1].do = "child" /\ i \in Items /\ UNCHANGED cmds
         /\ t = "evt"
         /\ \/ /\ place[i] # Gone /\ want[i] = Me /\ Ended(t)
               /\ place' = [place EXCEPT ![i] = Me] /\ want' = [want EXCEPT ![i] = None]
               /\ stray' = stray \ {i} /\ UNCHANGED <<slots, mail, patient, calm>>
            \/ /\ calm' => ~ (place[i] # Gone /\ want[i] = Me)
               /\ Failed(t) /\ calm' \in {calm, FALSE}
               /\ UNCHANGED <<slots, actors, patient, stray>>
<1>1. /\ TypeOK /\ todo[t] # <<>> /\ todo[t][1].do = "child" /\ Now(t) = todo[t][1]
      /\ i \in Items /\ UNCHANGED cmds /\ Fits(t, todo[t][1])
  BY FirstIs DEF Child, Call
<1>2. t = "evt"
  BY <1>1 DEF Fits, CmdDos, Tasks
<1>3. CASE /\ place[i] # Gone /\ want[i] = Me /\ Done(t)
           /\ place' = [place EXCEPT ![i] = Me] /\ want' = [want EXCEPT ![i] = None]
           /\ stray' = stray \ {i} /\ UNCHANGED <<slots, flags, mail, patient, calm>>
  BY <1>1, <1>2, <1>3, EndedIs
<1>4. CASE /\ ~ (place[i] # Gone /\ want[i] = Me) /\ Fail(t)
           /\ UNCHANGED <<slots, actors, history>>
  BY <1>1, <1>2, <1>4, FailIs DEF history
<1>5. CASE Refused(t)
  BY <1>1, <1>2, <1>5, RefusedIs
<1> QED
  BY <1>1, <1>3, <1>4, <1>5 DEF Child

LEMMA ParentIs ==
  ASSUME Typed, NEW t \in Tasks, Parent(t)
  PROVE  /\ todo[t] # <<>> /\ todo[t][1].do = "parent?"
         /\ UNCHANGED <<cmds, slots, actors, history>>
         /\ Ended(t) \/ Failed(t)
<1>1. TypeOK /\ todo[t] # <<>> /\ todo[t][1].do = "parent?"
  BY FirstIs DEF Parent, Call
<1>2. UNCHANGED <<cmds, slots, actors, history>>
  BY DEF Parent, Call
<1>3. (Done(t) /\ UNCHANGED flags) \/ Fail(t)
  BY DEF Parent
<1> QED
  BY <1>1, <1>2, <1>3, EndedIs, FailIs

LEMMA CreateIs ==
  ASSUME Typed, NEW t \in Tasks, Create(t)
  PROVE  /\ todo[t] # <<>> /\ todo[t][1].do = "forge" /\ UNCHANGED cmds
         /\ \/ \E i \in Items :
                 /\ place[i] = None /\ Ended(t) /\ UNCHANGED <<slots, history>>
                 /\ place' = [place EXCEPT ![i] = Me]
                 /\ want' = [want EXCEPT ![i] = Me]
                 /\ mail' = [mail EXCEPT ![i] = <<[parent |-> Me, why |-> None]>>]
            \/ Failed(t) /\ calm' = FALSE /\ UNCHANGED <<slots, actors, patient, stray>>
BY FirstIs, EndedIs, RefusedIs DEF Create, Call

LEMMA DestroyIs ==
  ASSUME Typed, NEW t \in Tasks, Destroy(t), NEW i, i = todo[t][1].item
  PROVE  /\ todo[t] # <<>> /\ todo[t][1].do = "recycle" /\ i \in Items /\ UNCHANGED cmds
         /\ \/ /\ Ended(t) /\ UNCHANGED <<slots, mail, history>>
               /\ place' = [place EXCEPT ![i] = Gone] /\ want' = [want EXCEPT ![i] = None]
            \/ Failed(t) /\ calm' = FALSE /\ UNCHANGED <<slots, actors, patient, stray>>
<1>1. /\ TypeOK /\ todo[t] # <<>> /\ todo[t][1].do = "recycle" /\ Now(t) = todo[t][1]
      /\ i \in Items /\ UNCHANGED cmds
  BY FirstIs DEF Destroy, Call
<1>2. \/ /\ Done(t) /\ UNCHANGED <<slots, flags, mail, history>>
         /\ place' = [place EXCEPT ![i] = Gone] /\ want' = [want EXCEPT ![i] = None]
      \/ Refused(t)
  BY <1>1 DEF Destroy
<1> QED
  BY <1>1, <1>2, EndedIs, RefusedIs

LEMMA BookedIs ==
  ASSUME Typed, NEW t \in Tasks, Booked(t), NEW i, i = todo[t][1].item
  PROVE  /\ todo[t] # <<>> /\ todo[t][1].do = "booked" /\ i \in Chests /\ i \in Items
         /\ t = "evt" /\ Ended(t) /\ inv_entry' = i /\ inv' = i
         /\ UNCHANGED <<held, cmds, actors, history>>
<1>1. /\ TypeOK /\ todo[t] # <<>> /\ todo[t][1].do = "booked" /\ Now(t) = todo[t][1]
      /\ i \in Items /\ Fits(t, todo[t][1])
  BY FirstIs DEF Booked
<1>2. t = "evt" /\ i \in Chests
  BY <1>1 DEF Fits, CmdDos, Tasks
<1> QED
  BY <1>1, <1>2, EndedIs DEF Booked

LEMMA AcceptIs ==
  ASSUME Typed, NEW t \in Tasks, Accept(t), NEW i, i = todo[t][1].item
  PROVE  /\ todo[t] # <<>> /\ todo[t][1].do = "accept" /\ i \in Items
         /\ t = "evt" /\ Ended(t) /\ UNCHANGED <<inv, cmds, actors, history>>
         /\ \/ i = inv /\ inv_entry' = i /\ UNCHANGED held
            \/ i # inv /\ held' = i /\ UNCHANGED inv_entry
<1>1. /\ TypeOK /\ todo[t] # <<>> /\ todo[t][1].do = "accept" /\ Now(t) = todo[t][1]
      /\ i \in Items /\ Fits(t, todo[t][1])
  BY FirstIs DEF Accept
<1>2. t = "evt"
  BY <1>1 DEF Fits, CmdDos, Tasks
<1> QED
  BY <1>1, <1>2, EndedIs DEF Accept, Accepted

LEMMA UnbookIs ==
  ASSUME Typed, NEW t \in Tasks, Unbook(t), NEW i, i = todo[t][1].item
  PROVE  /\ todo[t] # <<>> /\ todo[t][1].do = "unbook" /\ i \in Items /\ Ended(t)
         /\ inv' = IF inv = i THEN None ELSE inv
         /\ UNCHANGED <<held, inv_entry, cmds, actors, history>>
<1>1. /\ TypeOK /\ todo[t] # <<>> /\ todo[t][1].do = "unbook" /\ Now(t) = todo[t][1]
      /\ i \in Items
  BY FirstIs DEF Unbook
<1> QED
  BY <1>1, EndedIs DEF Unbook

LEMMA CommitIs ==
  ASSUME TypeOK, NEW i \in Items, Commit(i)
  PROVE  /\ want[i] \notin {None, Me} /\ want[i] \in Places
         /\ want' = [want EXCEPT ![i] = None]
         /\ UNCHANGED <<slots, flags, todo, cmds, patient, stray>>
         /\ \/ /\ place' = [place EXCEPT ![i] = want[i]] /\ UNCHANGED calm
               /\ \/ place[i] # Me /\ UNCHANGED mail
                  \/ /\ place[i] = Me
                     /\ \E m \in Messages : m.parent = want[i] /\ Sends(i, m)
            \/ calm' = FALSE /\ UNCHANGED <<place, mail>>
<1>1. want[i] \notin {None, Me} /\ want[i] \in Places
  BY DEF Commit, TypeOK
<1> DEFINE p == want[i]
           m == [parent |-> p, why |-> None]
<1>2. p \in Places /\ None \in Asked \cup {None}
  BY <1>1
<1> HIDE DEF p
<1>3. m \in Messages /\ m.parent = p
  BY <1>2, MessageIs
<1> HIDE DEF m
<1>5. /\ want' = [want EXCEPT ![i] = None]
      /\ UNCHANGED <<slots, flags, todo, cmds, patient, stray>>
      /\ \/ /\ place' = [place EXCEPT ![i] = want[i]] /\ UNCHANGED calm
            /\ \/ place[i] # Me /\ UNCHANGED mail
               \/ place[i] = Me /\ mail' = [mail EXCEPT ![i] = Append(@, m)]
         \/ calm' = FALSE /\ UNCHANGED <<place, mail>>
  BY <1>1 DEF Commit, m, p
<1>6. mail' = [mail EXCEPT ![i] = Append(@, m)] => Sends(i, m)
  BY <1>3, SendsIt
<1> QED
  BY <1>1, <1>3, <1>5, <1>6 DEF p

-----------------------------------------------------------------------------
(* Tasks keep their shape.                                                  *)

LEMMA GetsShape ==
  ASSUME Shape, NEW t \in Tasks, NEW new, Gets(t, new), Chain(t, new)
  PROVE  Shape'
BY DEF Shape, Gets

LEMMA PopsShape ==
  ASSUME Shape, NEW t \in Tasks, Pops(t)
  PROVE  Shape'
<1>1. /\ Len(todo[t]) \in Nat /\ Len(todo'[t]) = Len(todo[t]) - 1
      /\ \A k \in 1 .. Len(todo[t]) - 1 : todo'[t][k] = todo[t][k + 1]
      /\ \A u \in Tasks : u # t => todo'[u] = todo[u]
  BY DEF Pops
<1>2. Chain(t, todo'[t])
  <2> SUFFICES ASSUME NEW k \in 1 .. Len(todo'[t])
               PROVE  /\ Fits(t, todo'[t][k])
                      /\ k < Len(todo'[t]) => Follows(todo'[t][k], todo'[t][k + 1])
                      /\ k = Len(todo'[t]) =>
                            Final(todo'[t][k]) \/ (Reach(todo'[t][k]) /\ todo'[t][k].at = None)
    BY DEF Chain
  <2>1. k \in 1 .. Len(todo[t]) - 1 /\ k + 1 \in 1 .. Len(todo[t])
    BY <1>1
  <2>2. todo'[t][k] = todo[t][k + 1]
    BY <1>1, <2>1
  <2>3. k < Len(todo'[t]) => k + 1 \in 1 .. Len(todo[t]) - 1 /\ k + 1 < Len(todo[t])
    BY <1>1, <2>1
  <2>4. k < Len(todo'[t]) => todo'[t][k + 1] = todo[t][k + 1 + 1]
    BY <1>1, <2>3
  <2>5. k = Len(todo'[t]) => k + 1 = Len(todo[t])
    BY <1>1, <2>1
  <2>6. Chain(t, todo[t])
    BY DEF Shape
  <2> HIDE DEF Chain
  <2>7. /\ Fits(t, todo[t][k + 1])
        /\ k + 1 < Len(todo[t]) => Follows(todo[t][k + 1], todo[t][k + 1 + 1])
        /\ k + 1 = Len(todo[t]) =>
              Final(todo[t][k + 1]) \/ (Reach(todo[t][k + 1]) /\ todo[t][k + 1].at = None)
    BY <2>1, <2>6 DEF Chain
  <2> QED
    BY <2>2, <2>3, <2>4, <2>5, <2>7
<1> QED
  BY <1>1, <1>2 DEF Shape

LEMMA GoesShape ==
  ASSUME Shape, NEW t \in Tasks, NEW new, Goes(t, new), Len(new) >= 1,
         \A k \in 1 .. Len(new) : /\ Fits(t, new[k])
                                  /\ k < Len(new) => Follows(new[k], new[k + 1]),
         Len(todo[t]) = 1 => Ends(new[Len(new)]),
         Len(todo[t]) >= 2 => Follows(new[Len(new)], todo[t][2])
  PROVE  Shape'
<1> DEFINE n == Len(new)
           l == Len(todo[t])
<1>1. /\ n \in Nat /\ n >= 1 /\ l \in Nat /\ l >= 1 /\ Len(todo'[t]) = n + l - 1
      /\ \A k \in 1 .. n : todo'[t][k] = new[k]
      /\ \A k \in 2 .. l : todo'[t][n + k - 1] = todo[t][k]
      /\ \A u \in Tasks : u # t => todo'[u] = todo[u]
  BY DEF Goes
<1>2. Chain(t, todo[t])
  BY DEF Shape
<1>3. /\ \A k \in 1 .. n : Fits(t, new[k]) /\ (k < n => Follows(new[k], new[k + 1]))
      /\ l = 1 => Ends(new[n])
      /\ l >= 2 => Follows(new[n], todo[t][2])
  OBVIOUS
<1>4. \A k \in 1 .. l : /\ Fits(t, todo[t][k])
                        /\ k < l => Follows(todo[t][k], todo[t][k + 1])
                        /\ k = l => Ends(todo[t][k])
  BY <1>2 DEF Chain, Ends
<1> HIDE DEF n, l
<1>5. \A k \in n + 1 .. n + l - 1 : todo'[t][k] = todo[t][k - n + 1]
  <2> TAKE k \in n + 1 .. n + l - 1
  <2>1. k - n + 1 \in 2 .. l /\ n + (k - n + 1) - 1 = k
    BY <1>1
  <2> QED
    BY <1>1, <2>1
<1>6. Chain(t, todo'[t])
  <2> SUFFICES ASSUME NEW k \in 1 .. n + l - 1
               PROVE  /\ Fits(t, todo'[t][k])
                      /\ k < n + l - 1 => Follows(todo'[t][k], todo'[t][k + 1])
                      /\ k = n + l - 1 => Ends(todo'[t][k])
    BY <1>1 DEF Chain, Ends
  <2>1. CASE k < n
    <3>1. k \in 1 .. n /\ k + 1 \in 1 .. n /\ k # n + l - 1
      BY <1>1, <2>1
    <3> QED
      BY <1>1, <1>3, <2>1, <3>1
  <2>2. CASE k = n /\ l = 1
    <3>1. k \in 1 .. n /\ k = n + l - 1
      BY <1>1, <2>2
    <3> QED
      BY <1>1, <1>3, <2>2, <3>1
  <2>3. CASE k = n /\ l >= 2
    <3>1. k \in 1 .. n /\ k # n + l - 1 /\ k + 1 \in n + 1 .. n + l - 1 /\ k + 1 - n + 1 = 2
      BY <1>1, <2>3
    <3>2. todo'[t][k + 1] = todo[t][2] /\ todo'[t][k] = new[n]
      BY <1>1, <1>5, <2>3, <3>1
    <3>3. Fits(t, new[n]) /\ Follows(new[n], todo[t][2])
      BY <1>3, <2>3, <3>1
    <3> QED
      BY <2>3, <3>1, <3>2, <3>3
  <2>4. CASE k > n
    <3> DEFINE j == k - n + 1
    <3>1. k \in n + 1 .. n + l - 1 /\ j \in 1 .. l /\ (k < n + l - 1 => j < l)
          /\ (k = n + l - 1 => j = l)
      BY <1>1, <2>4
    <3>2. todo'[t][k] = todo[t][j]
      BY <1>5, <3>1
    <3>3. k < n + l - 1 => k + 1 \in n + 1 .. n + l - 1 /\ (k + 1) - n + 1 = j + 1
      BY <1>1, <2>4
    <3> HIDE DEF j
    <3>4. k < n + l - 1 => todo'[t][k + 1] = todo[t][j + 1]
      BY <1>5, <3>3
    <3> QED
      BY <1>4, <3>1, <3>2, <3>4
  <2> QED
    BY <1>1, <2>1, <2>2, <2>3, <2>4
<1> QED
  BY <1>1, <1>6 DEF Shape

\* What a step that frees the hand puts in its place.
LEMMA GoesRelocate ==
  ASSUME Typed, NEW t \in Tasks, NEW i \in Items, Goes(t, Relocate(i)),
         Len(todo[t]) >= 2, (Asks(todo[t][2]) /\ todo[t][2].why # "drop")
                            \/ todo[t][2].do \in {"forge", "to-hand"}
  PROVE  Shape' /\ todo' \in [Tasks -> Seq(Steps)]
<1> DEFINE a == Step("room-drop", i)
           b == Step("set-parent", i)
           n == Relocate(i)
<1>1. a \in Steps /\ a.do = "room-drop" /\ a.why = None /\ a.item = i
  BY StepIs DEF Dos
<1>2. b \in Steps /\ b.do = "set-parent" /\ b.why = None /\ b.item = i
  BY StepIs DEF Dos
<1>3. n = <<a, b>>
  BY RelocateIs
<1>4. Len(n) = 2 /\ n[1] = a /\ n[2] = b
  BY <1>3
<1> HIDE DEF a, b, n
<1>5. Fits(t, a) /\ Fits(t, b) /\ Follows(a, b)
  BY <1>1, <1>2 DEF Fits, CmdDos, EvtDos, Reach, Asks, Follows
<1>6. Follows(b, todo[t][2])
  BY <1>2 DEF Follows
<1>7. Len(todo[t]) # 1
  OBVIOUS
<1>8. Goes(t, n)
  BY DEF n
<1>9. \A k \in 1 .. Len(n) : /\ Fits(t, n[k])
                             /\ k < Len(n) => Follows(n[k], n[k + 1])
  <2>1. \A k \in 1 .. Len(n) : k = 1 \/ k = 2
    BY <1>4
  <2> QED
    BY <1>4, <1>5, <2>1
<1>10. Shape
  BY DEF Typed
<1>11. Len(n) >= 1 /\ n[Len(n)] = b
  BY <1>4
<1>12. (Len(todo[t]) = 1 => Ends(n[Len(n)]))
       /\ (Len(todo[t]) >= 2 => Follows(n[Len(n)], todo[t][2]))
  BY <1>6, <1>7, <1>11
<1>13. Shape'
  BY <1>8, <1>9, <1>10, <1>11, <1>12, GoesShape
<1> QED
  BY <1>8, <1>13 DEF Goes

-----------------------------------------------------------------------------
(* Types.                                                                   *)

TodoTyped ==
    /\ Shape /\ todo \in [Tasks -> Seq(Steps)]
    /\ equip_pending \in Chests \cup {None} /\ drop_pending \subseteq Items

SlotsTyped ==
    /\ held \in Items \cup {None}
    /\ inv \in Chests \cup {None} /\ inv_entry \in Chests \cup {None}

ActorsTyped ==
    /\ place \in [Items -> Places \cup {None}]
    /\ want \in [Items -> Places \cup {None}]
    /\ mail \in [Items -> Seq(Messages)]

HistoryTyped ==
    /\ cmds \in 0 .. MaxCmds
    /\ patient \in BOOLEAN /\ calm \in BOOLEAN /\ stray \subseteq Items

LEMMA TypedParts ==
  Typed <=> TodoTyped /\ SlotsTyped /\ ActorsTyped /\ HistoryTyped
BY DEF Typed, TypeOK, TodoTyped, SlotsTyped, ActorsTyped, HistoryTyped

LEMMA EndedTyped ==
  ASSUME Typed, NEW t \in Tasks, Ended(t) \/ Failed(t)
  PROVE  TodoTyped'
<1>1. Shape /\ TypeOK
  BY DEF Typed
<1>2. CASE Ended(t)
  <2>1. Shape'
    BY <1>1, <1>2, PopsShape DEF Ended
  <2>2. todo' \in [Tasks -> Seq(Steps)] /\ UNCHANGED flags
    BY <1>2 DEF Ended, Pops
  <2> QED
    BY <1>1, <2>1, <2>2 DEF TodoTyped, TypeOK, flags
<1>3. CASE Failed(t)
  <2>1. Gets(t, <<>>) /\ Chain(t, <<>>)
    BY <1>3 DEF Failed, Chain
  <2>2. Shape'
    BY <1>1, <2>1, GetsShape
  <2>3. todo' \in [Tasks -> Seq(Steps)]
    BY <2>1 DEF Gets
  <2>4. /\ equip_pending' \in {None, equip_pending} /\ drop_pending' \subseteq drop_pending
    BY <1>3 DEF Failed
  <2> QED
    BY <1>1, <2>2, <2>3, <2>4 DEF TodoTyped, TypeOK
<1> QED
  BY <1>2, <1>3

LEMMA SameTyped ==
  ASSUME Typed
  PROVE  /\ UNCHANGED slots => SlotsTyped'
         /\ UNCHANGED actors => ActorsTyped'
         /\ UNCHANGED <<cmds, history>> => HistoryTyped'
BY TypedParts DEF SlotsTyped, ActorsTyped, HistoryTyped, slots, actors, history

LEMMA AtLeastTwo ==
  ASSUME NEW n \in Nat, n >= 1, n # 1
  PROVE  n >= 2
OBVIOUS

\* A step that is free of anything behind it but a request to be equipped.
LEMMA ReachEnds ==
  ASSUME Typed, NEW t \in Tasks, todo[t] # <<>>, Reach(todo[t][1]), todo[t][1].at # None
  PROVE  Len(todo[t]) >= 2 /\ Asks(todo[t][2]) /\ todo[t][2].why = "equip"
<1>1. Chain(t, todo[t]) /\ Len(todo[t]) \in Nat /\ Len(todo[t]) >= 1 /\ 1 \in 1 .. Len(todo[t])
  BY NowIs DEF Typed, Shape
<1>2. /\ 1 < Len(todo[t]) => Follows(todo[t][1], todo[t][1 + 1])
      /\ 1 = Len(todo[t]) => Final(todo[t][1])
  BY <1>1 DEF Chain
<1>3. todo[t][1].do \in {"to-hand", "name?"}
  BY DEF Reach
<1>6. ~ Final(todo[t][1])
  BY <1>3 DEF Final
<1>7. Len(todo[t]) # 1
  BY <1>2, <1>6
<1>4. Len(todo[t]) >= 2
  BY <1>1, <1>7, AtLeastTwo
<1>5. Follows(todo[t][1], todo[t][2])
  BY <1>1, <1>2, <1>4
<1> QED
  BY <1>3, <1>4, <1>5 DEF Follows, Asks

LEMMA NextStep ==
  ASSUME Typed, NEW t \in Tasks, todo[t] # <<>>
  PROVE  /\ Len(todo[t]) \in Nat /\ Len(todo[t]) >= 1 /\ Fits(t, todo[t][1])
         /\ Len(todo[t]) = 1 => Ends(todo[t][1])
         /\ Len(todo[t]) >= 2 => Follows(todo[t][1], todo[t][2])
<1>1. Chain(t, todo[t]) /\ Len(todo[t]) \in Nat /\ Len(todo[t]) >= 1 /\ 1 \in 1 .. Len(todo[t])
  BY NowIs DEF Typed, Shape
<1>2. /\ Fits(t, todo[t][1])
      /\ 1 < Len(todo[t]) => Follows(todo[t][1], todo[t][1 + 1])
      /\ 1 = Len(todo[t]) => Ends(todo[t][1])
  BY <1>1 DEF Chain, Ends
<1> QED
  BY <1>1, <1>2

LEMMA ClearHandTyped ==
  ASSUME Typed, NEW t \in Tasks, ClearHandStep(t)
  PROVE  Shape' /\ todo' \in [Tasks -> Seq(Steps)]
<1>1. /\ todo[t] # <<>> /\ todo[t][1].do = "clear-hand"
      /\ \/ held \in Items /\ Goes(t, Relocate(held))
         \/ Pops(t)
  BY ClearHandIs
<1>2. Pops(t) => Shape' /\ todo' \in [Tasks -> Seq(Steps)]
  BY PopsShape DEF Typed, Pops
<1>5. ~ Ends(todo[t][1])
  BY <1>1 DEF Ends, Final, Reach
<1>6. Len(todo[t]) # 1
  BY <1>1, <1>5, NextStep
<1>7. Len(todo[t]) >= 2
  BY <1>1, <1>6, NextStep, AtLeastTwo
<1>3. Len(todo[t]) >= 2 /\ Follows(todo[t][1], todo[t][2])
  BY <1>1, <1>7, NextStep
<1>4. (Asks(todo[t][2]) /\ todo[t][2].why # "drop") \/ todo[t][2].do \in {"forge", "to-hand"}
  BY <1>1, <1>3 DEF Follows
<1> QED
  BY <1>1, <1>2, <1>3, <1>4, GoesRelocate

LEMMA ReachTyped ==
  ASSUME Typed, NEW t \in Tasks, todo[t] # <<>>, Reach(todo[t][1]), NEW i \in Items,
         Pops(t) \/ (todo[t][1].at # None /\ Goes(t, Relocate(i)))
  PROVE  Shape' /\ todo' \in [Tasks -> Seq(Steps)]
<1>1. Pops(t) => Shape' /\ todo' \in [Tasks -> Seq(Steps)]
  BY PopsShape DEF Typed, Pops
<1>2. ASSUME todo[t][1].at # None, Goes(t, Relocate(i))
      PROVE  Shape' /\ todo' \in [Tasks -> Seq(Steps)]
  BY <1>2, ReachEnds, GoesRelocate
<1> QED
  BY <1>1, <1>2

LEMMA ArmTyped ==
  ASSUME Typed, NEW t \in Tasks, Arm(t)
  PROVE  Shape' /\ todo' \in [Tasks -> Seq(Steps)]
<1> DEFINE i == todo[t][1].item
           a == Step("room-drop", held)
           b == Step("set-parent", held)
           x == Unequipping(i)
           l == Len(todo[t])
<1> SUFFICES Shape'
  BY ArmIs DEF Goes, Gets, Pops
<1>1. /\ todo[t] # <<>> /\ todo[t][1].do = "arm" /\ i \in Items /\ TypeOK /\ Shape
  BY ArmIs DEF Typed
<1>2. \/ Gets(t, <<>>) \/ Pops(t)
      \/ inv # None /\ i \in Chests /\ held \in Items /\ Goes(t, <<a, b, x>>)
      \/ inv # None /\ i \in Chests /\ Goes(t, <<x>>)
      \/ held \in Items /\ Goes(t, Relocate(held))
  BY ArmIs
<1>3. l # 1 /\ l \in Nat /\ l >= 1
  <2>1. ~ Ends(todo[t][1])
    BY <1>1 DEF Ends, Final, Reach
  <2> QED
    BY <1>1, <2>1, NextStep
<1>4. l >= 2
  BY <1>3, AtLeastTwo
<1>5. Follows(todo[t][1], todo[t][2]) /\ Fits(t, todo[t][1])
  BY <1>1, <1>4, NextStep
<1>6. Asks(todo[t][2]) /\ todo[t][2].why = "equip"
  BY <1>1, <1>5 DEF Follows
<1>7. ASSUME inv # None, i \in Chests
      PROVE  /\ x \in Steps /\ x.do = "to-hand" /\ x.item = inv /\ inv \in Chests
             /\ x.why = None
  <2>1. inv \in Chests /\ inv \in Items
    BY <1>1, <1>7, Distinct DEF TypeOK
  <2> QED
    BY <1>7, <2>1, StepAtIs DEF Unequipping, Dos
<1>8. ASSUME held \in Items
      PROVE  /\ a \in Steps /\ a.do = "room-drop" /\ a.item = held /\ a.why = None
             /\ b \in Steps /\ b.do = "set-parent" /\ b.item = held /\ b.why = None
  BY <1>8, StepIs DEF Dos
<1> HIDE DEF a, b, x, i
<1>0. t = "cmd"
  BY <1>1, <1>5 DEF Fits, EvtDos, Tasks
<1>9. CASE Gets(t, <<>>)
  <2>1. Chain(t, <<>>)
    BY DEF Chain
  <2> QED
    BY <1>1, <1>9, <2>1, GetsShape
<1>10. CASE Pops(t)
  BY <1>1, <1>10, PopsShape
<1>11. CASE inv # None /\ i \in Chests /\ held \in Items /\ Goes(t, <<a, b, x>>)
  <2> DEFINE n == <<a, b, x>>
  <2>1. Len(n) = 3 /\ n[1] = a /\ n[2] = b /\ n[3] = x
    OBVIOUS
  <2>2. Goes(t, n)
    BY <1>11
  <2> HIDE DEF n
  <2>3. Fits(t, a) /\ Fits(t, b) /\ Fits(t, x)
    BY <1>0, <1>7, <1>8, <1>11, Distinct DEF Fits, CmdDos, Reach, Asks
  <2>4. Follows(a, b) /\ Follows(b, x) /\ Follows(x, todo[t][2])
    BY <1>6, <1>7, <1>8, <1>11 DEF Follows, Reach
  <2>5. \A k \in 1 .. Len(n) : /\ Fits(t, n[k])
                               /\ k < Len(n) => Follows(n[k], n[k + 1])
    <3>1. \A k \in 1 .. Len(n) : k = 1 \/ k = 2 \/ k = 3
      BY <2>1
    <3> QED
      BY <2>1, <2>3, <2>4, <3>1
  <2>6. Len(n) >= 1 /\ n[Len(n)] = x
    BY <2>1
  <2>7. (l = 1 => Ends(n[Len(n)])) /\ (l >= 2 => Follows(n[Len(n)], todo[t][2]))
    BY <1>3, <2>4, <2>6
  <2> QED
    BY <1>1, <2>2, <2>5, <2>6, <2>7, GoesShape
<1>12. CASE inv # None /\ i \in Chests /\ Goes(t, <<x>>)
  <2> DEFINE n == <<x>>
  <2>1. Len(n) = 1 /\ n[1] = x
    OBVIOUS
  <2>2. Goes(t, n)
    BY <1>12
  <2> HIDE DEF n
  <2>3. Fits(t, x)
    BY <1>0, <1>7, <1>12, Distinct DEF Fits, CmdDos, Reach, Asks
  <2>4. Follows(x, todo[t][2])
    BY <1>6, <1>7, <1>12 DEF Follows, Reach
  <2>5. \A k \in 1 .. Len(n) : /\ Fits(t, n[k])
                               /\ k < Len(n) => Follows(n[k], n[k + 1])
    BY <2>1, <2>3
  <2>6. Len(n) >= 1 /\ n[Len(n)] = x
    BY <2>1
  <2>7. (l = 1 => Ends(n[Len(n)])) /\ (l >= 2 => Follows(n[Len(n)], todo[t][2]))
    BY <1>3, <2>4, <2>6
  <2> QED
    BY <1>1, <2>2, <2>5, <2>6, <2>7, GoesShape
<1>13. CASE held \in Items /\ Goes(t, Relocate(held))
  <2>1. todo[t][2].why # "drop"
    BY <1>6
  <2> QED
    BY <1>4, <1>6, <1>13, <2>1, GoesRelocate
<1> QED
  BY <1>2, <1>9, <1>10, <1>11, <1>12, <1>13

LEMMA ToHandTyped ==
  ASSUME Typed, NEW t \in Tasks, ToHand(t)
  PROVE  Shape' /\ todo' \in [Tasks -> Seq(Steps)] /\ SlotsTyped'
<1>1. /\ todo[t] # <<>> /\ todo[t][1].do = "to-hand" /\ Reach(todo[t][1])
      /\ TypeOK /\ Shape
  BY ToHandIs DEF Reach, Typed
<1>2. CASE inv_entry # None
  <2>1. /\ inv_entry \in Chests /\ inv_entry \in Items
        /\ held' = inv_entry /\ inv' = None /\ inv_entry' = None
        /\ Pops(t) \/ (todo[t][1].at # None /\ Goes(t, Relocate(inv_entry)))
    BY <1>2, ToHandIs, Distinct
  <2>2. Shape' /\ todo' \in [Tasks -> Seq(Steps)]
    BY <1>1, <2>1, ReachTyped
  <2> QED
    BY <2>1, <2>2 DEF SlotsTyped
<1>3. CASE inv_entry = None
  <2>1. UNCHANGED slots
    BY <1>3, ToHandIs
  <2>2. PICK z \in Steps : /\ Goes(t, <<z>>) /\ z.do = "name?"
                           /\ z.item = todo[t][1].item /\ z.at = todo[t][1].at
                           /\ z.why = todo[t][1].why
    BY <1>3, ToHandIs
  <2> DEFINE n == <<z>>
  <2>3. Len(n) = 1 /\ n[1] = z /\ Goes(t, n)
    BY <2>2
  <2> HIDE DEF n
  <2>4. Fits(t, todo[t][1]) /\ (Len(todo[t]) = 1 => Ends(todo[t][1]))
        /\ (Len(todo[t]) >= 2 => Follows(todo[t][1], todo[t][2]))
    BY <1>1, NextStep
  <2>5. t = "cmd"
    BY <1>1, <2>4 DEF Fits, EvtDos, Tasks
  <2>6. Fits(t, z)
    <3>1. todo[t][1].why = None
      BY <1>1, <2>4, <2>5 DEF Fits, Asks
    <3> QED
      BY <1>1, <2>2, <2>4, <2>5, <3>1 DEF Fits, CmdDos, Reach, Asks
  <2>7. Ends(todo[t][1]) => Ends(z)
    BY <1>1, <2>2 DEF Ends, Reach, Final
  <2>8. Follows(todo[t][1], todo[t][2]) => Follows(z, todo[t][2])
    BY <1>1, <2>2 DEF Follows, Reach
  <2>9. \A k \in 1 .. Len(n) : /\ Fits(t, n[k])
                               /\ k < Len(n) => Follows(n[k], n[k + 1])
    BY <2>3, <2>6
  <2>10. Len(n) >= 1 /\ n[Len(n)] = z
    BY <2>3
  <2>11. /\ Len(todo[t]) = 1 => Ends(n[Len(n)])
         /\ Len(todo[t]) >= 2 => Follows(n[Len(n)], todo[t][2])
    BY <2>4, <2>7, <2>8, <2>10
  <2>12. Shape'
    BY <1>1, <2>3, <2>9, <2>10, <2>11, GoesShape
  <2>13. todo' \in [Tasks -> Seq(Steps)]
    BY <2>2 DEF Goes
  <2> QED
    BY <2>1, <2>12, <2>13, SameTyped
<1> QED
  BY <1>2, <1>3

LEMMA BookTyped ==
  ASSUME Typed, NEW t \in Tasks, Book(t)
  PROVE  Shape' /\ todo' \in [Tasks -> Seq(Steps)] /\ SlotsTyped' /\ t = "evt"
<1> DEFINE i == todo[t][1].item
           a == Step("room-drop", inv)
           b == Step("set-parent", inv)
           x == Step("booked", i)
           n == <<a, b, x>>
<1>1. /\ todo[t] # <<>> /\ todo[t][1].do = "book" /\ i \in Chests /\ i \in Items
      /\ TypeOK /\ Shape
      /\ held' = IF held = i THEN None ELSE held
  BY BookIs DEF Typed
<1>2. \/ inv' = i /\ inv_entry' = i /\ Pops(t)
      \/ inv \notin {None, i} /\ inv \in Items /\ UNCHANGED <<inv, inv_entry>> /\ Goes(t, n)
  BY BookIs
<1>3. SlotsTyped'
  BY <1>1, <1>2 DEF SlotsTyped, TypeOK
<1>4. t = "evt"
  BY <1>1, NextStep DEF Fits, CmdDos, Tasks
<1>5. CASE Pops(t)
  BY <1>1, <1>3, <1>4, <1>5, PopsShape DEF Pops
<1>6. CASE inv \notin {None, i} /\ inv \in Items /\ Goes(t, n)
  <2>1. Len(n) = 3 /\ n[1] = a /\ n[2] = b /\ n[3] = x
    OBVIOUS
  <2>2. /\ a \in Steps /\ a.do = "room-drop" /\ a.item = inv
        /\ b \in Steps /\ b.do = "set-parent" /\ b.item = inv
        /\ x \in Steps /\ x.do = "booked" /\ x.item = i
    BY <1>1, <1>6, StepIs DEF Dos
  <2>3. i # inv /\ inv \in Items /\ i \in Items /\ i \in Chests
    BY <1>1, <1>6
  <2>4. Len(todo[t]) \in Nat /\ ~ (Len(todo[t]) >= 2)
    <3>1. ~ Follows(todo[t][1], todo[t][2])
      BY <1>1 DEF Follows, Reach
    <3> QED
      BY <1>1, <3>1, NextStep
  <2> HIDE DEF a, b, x, i, n
  <2>5. Fits(t, a) /\ Fits(t, b) /\ Fits(t, x)
    BY <1>4, <2>2, <2>3 DEF Fits, EvtDos, Reach
  <2>6. Follows(a, b) /\ Follows(b, x) /\ Ends(x)
    BY <2>2, <2>3 DEF Follows, Ends, Final
  <2>7. \A k \in 1 .. Len(n) : /\ Fits(t, n[k])
                               /\ k < Len(n) => Follows(n[k], n[k + 1])
    <3>1. \A k \in 1 .. Len(n) : k = 1 \/ k = 2 \/ k = 3
      BY <2>1
    <3> QED
      BY <2>1, <2>5, <2>6, <3>1
  <2>8. Len(n) >= 1 /\ n[Len(n)] = x
    BY <2>1
  <2>9. /\ Len(todo[t]) = 1 => Ends(n[Len(n)])
        /\ Len(todo[t]) >= 2 => Follows(n[Len(n)], todo[t][2])
    BY <2>4, <2>6, <2>8
  <2>10. Shape'
    BY <1>1, <1>6, <2>7, <2>8, <2>9, GoesShape
  <2> QED
    BY <1>3, <1>4, <1>6, <2>10 DEF Goes
<1> QED
  BY <1>2, <1>5, <1>6

LEMMA ReactTyped ==
  ASSUME Typed, NEW i \in Items, React(i)
  PROVE  Typed'
<1>1. /\ TypeOK /\ Shape /\ todo["evt"] = <<>> /\ "evt" \in Tasks
      /\ UNCHANGED <<inv, inv_entry, cmds, place, want, patient, calm>>
  BY ReactIs DEF Typed, Tasks
<1>2. mail' \in [Items -> Seq(Messages)]
  BY ReactIs DEF Reads
<1>3. SlotsTyped' /\ HistoryTyped' /\ equip_pending' \in Chests \cup {None}
      /\ drop_pending' \subseteq Items
  <2>1. /\ held' \in {held, None} /\ stray' \in {stray, stray \cup {i}}
        /\ equip_pending' = equip_pending
        /\ drop_pending' \in {drop_pending, drop_pending \ {i}}
    <3>1. mail[i][1].parent = Me \/ mail[i][1].parent # Me
      OBVIOUS
    <3> QED
      BY ReactIs, <3>1 DEF flags
  <2> QED
    BY <1>1, <2>1 DEF SlotsTyped, HistoryTyped, TypeOK
<1> DEFINE y == Step("child", i)
           p == Step("book", i)
           q == Step("accept", i)
           a == Step("room-drop", i)
           b == Step("set-parent", i)
<1>4. /\ y \in Steps /\ y.do = "child" /\ y.item = i
      /\ p \in Steps /\ p.do = "book" /\ p.item = i
      /\ q \in Steps /\ q.do = "accept" /\ q.item = i
      /\ a \in Steps /\ a.do = "room-drop" /\ a.item = i
      /\ b \in Steps /\ b.do = "set-parent" /\ b.item = i
  BY StepIs DEF Dos
<1>5. \/ UNCHANGED todo
      \/ equip_pending = i /\ Gets("evt", <<y, p>>)
      \/ \E z \in Steps : z.do = "unbook" /\ z.item = i /\ Gets("evt", <<y, a, b, z>>)
      \/ Gets("evt", <<y, q>>)
  BY ReactIs
<1> HIDE DEF y, p, q, a, b
<1>6. "evt" # "cmd" /\ i \in Items
  OBVIOUS
<1>7. /\ Fits("evt", y) /\ Fits("evt", q) /\ Fits("evt", a) /\ Fits("evt", b)
      /\ (i \in Chests => Fits("evt", p))
  BY <1>4, <1>6 DEF Fits, EvtDos, Reach
<1>8. Follows(y, p) /\ Follows(y, q) /\ Follows(y, a) /\ Follows(a, b) /\ Ends(p) /\ Ends(q)
  BY <1>4 DEF Follows, Ends, Final
<1>9. Shape' /\ todo' \in [Tasks -> Seq(Steps)]
  <2>1. CASE UNCHANGED todo
    BY <1>1, <2>1 DEF Shape, TypeOK
  <2>2. CASE equip_pending = i /\ Gets("evt", <<y, p>>)
    <3> DEFINE n == <<y, p>>
    <3>1. Len(n) = 2 /\ n[1] = y /\ n[2] = p /\ Gets("evt", n)
      BY <2>2
    <3> HIDE DEF n
    <3>2. i \in Chests
      BY <1>1, <1>6, <2>2, Distinct DEF TypeOK
    <3>3. Chain("evt", n)
      <4>1. \A k \in 1 .. Len(n) : k = 1 \/ k = 2
        BY <3>1
      <4> QED
        BY <1>7, <1>8, <3>1, <3>2, <4>1 DEF Chain, Ends
    <3> QED
      BY <1>1, <3>1, <3>3, GetsShape DEF Gets
  <2>3. ASSUME NEW z \in Steps, z.do = "unbook", z.item = i, Gets("evt", <<y, a, b, z>>)
        PROVE  Shape' /\ todo' \in [Tasks -> Seq(Steps)]
    <3> DEFINE n == <<y, a, b, z>>
    <3>1. Len(n) = 4 /\ n[1] = y /\ n[2] = a /\ n[3] = b /\ n[4] = z /\ Gets("evt", n)
      BY <2>3
    <3> HIDE DEF n
    <3>2. Fits("evt", z) /\ Follows(b, z) /\ Ends(z)
      BY <1>4, <1>6, <2>3 DEF Fits, EvtDos, Follows, Ends, Final, Reach
    <3>3. Chain("evt", n)
      <4>1. \A k \in 1 .. Len(n) : k = 1 \/ k = 2 \/ k = 3 \/ k = 4
        BY <3>1
      <4>2. SUFFICES ASSUME NEW k \in 1 .. Len(n)
                     PROVE  /\ Fits("evt", n[k])
                            /\ k < Len(n) => Follows(n[k], n[k + 1])
                            /\ k = Len(n) => Ends(n[k])
        BY DEF Chain, Ends
      <4> QED
        BY <1>7, <1>8, <3>1, <3>2, <4>1
    <3> QED
      BY <1>1, <3>1, <3>3, GetsShape DEF Gets
  <2>4. CASE Gets("evt", <<y, q>>)
    <3> DEFINE n == <<y, q>>
    <3>1. Len(n) = 2 /\ n[1] = y /\ n[2] = q /\ Gets("evt", n)
      BY <2>4
    <3> HIDE DEF n
    <3>3. Chain("evt", n)
      <4>1. \A k \in 1 .. Len(n) : k = 1 \/ k = 2
        BY <3>1
      <4> QED
        BY <1>7, <1>8, <3>1, <4>1 DEF Chain, Ends
    <3> QED
      BY <1>1, <3>1, <3>3, GetsShape DEF Gets
  <2> QED
    BY <1>5, <2>1, <2>2, <2>3, <2>4
<1>10. ActorsTyped'
  BY <1>1, <1>2 DEF ActorsTyped, TypeOK
<1>11. TodoTyped'
  BY <1>3, <1>9 DEF TodoTyped
<1>12. (TodoTyped /\ SlotsTyped /\ ActorsTyped /\ HistoryTyped)'
  BY <1>3, <1>10, <1>11
<1>13. Typed' <=> (TodoTyped /\ SlotsTyped /\ ActorsTyped /\ HistoryTyped)'
  BY DEF Typed, TypeOK, TodoTyped, SlotsTyped, ActorsTyped, HistoryTyped
<1> QED
  BY <1>12, <1>13

LEMMA StartTyped ==
  ASSUME Typed, NEW new, Start(new)
  PROVE  Typed'
<1>1. TypeOK /\ Shape /\ "cmd" \in Tasks
  BY DEF Typed, Tasks
<1>2. /\ Starts(new) /\ Gets("cmd", new) /\ Chain("cmd", new) /\ new \in Seq(Steps)
      /\ Len(new) \in Nat /\ Len(new) >= 1
      /\ equip_pending' \in {None, equip_pending}
      /\ drop_pending' \in {drop_pending, drop_pending \cup {new[1].item}}
      /\ new[1].why = "drop" \/ drop_pending' = drop_pending
      /\ cmds < MaxCmds /\ cmds' = cmds + 1
      /\ patient' = (patient /\ Quiet) /\ calm' = (calm /\ Quiet)
      /\ UNCHANGED <<slots, actors, stray>>
  BY DEF Start, Starts
<1>3. Shape' /\ todo' \in [Tasks -> Seq(Steps)]
  BY <1>1, <1>2, GetsShape DEF Gets
<1>4. drop_pending' \subseteq Items
  <2>1. 1 \in 1 .. Len(new)
    BY <1>2
  <2>2. Fits("cmd", new[1])
    BY <1>2, <2>1 DEF Chain
  <2>3. new[1].why = "drop" => new[1].item \in Items
    BY <2>2, WhyIs DEF Fits, Asks
  <2> QED
    BY <1>1, <1>2, <2>3 DEF TypeOK
<1>5. TodoTyped'
  BY <1>1, <1>2, <1>3, <1>4 DEF TodoTyped, TypeOK
<1>6. SlotsTyped' /\ ActorsTyped'
  BY <1>2, SameTyped
<1>7. HistoryTyped'
  <2>1. patient' \in BOOLEAN /\ calm' \in BOOLEAN
    BY <1>1, <1>2 DEF TypeOK
  <2>2. cmds' \in 0 .. MaxCmds
    BY <1>1, <1>2, AvatarAssumption DEF TypeOK
  <2>3. stray' \subseteq Items
    BY <1>1, <1>2 DEF TypeOK
  <2> QED
    BY <2>1, <2>2, <2>3 DEF HistoryTyped
<1> QED
  BY <1>5, <1>6, <1>7 DEF Typed, TypeOK, TodoTyped, SlotsTyped, ActorsTyped, HistoryTyped

LEMMA ReloadTyped ==
  ASSUME Typed, Reload
  PROVE  Typed'
<1>1. TypeOK
  BY DEF Typed
<1>2. /\ held' = None /\ inv_entry' = None /\ UNCHANGED <<inv, actors, patient, stray>>
      /\ equip_pending' = None /\ drop_pending' = {} /\ todo' = [t \in Tasks |-> <<>>]
      /\ cmds < MaxCmds /\ cmds' = cmds + 1 /\ calm' = FALSE
  BY DEF Reload
<1>3. SlotsTyped' /\ ActorsTyped'
  <2>1. ActorsTyped'
    BY <1>2, SameTyped
  <2> QED
    BY <1>1, <1>2, <2>1 DEF SlotsTyped, TypeOK
<1>4. TodoTyped'
  <2>0. <<>> \in Seq(Steps)
    OBVIOUS
  <2>1. todo' \in [Tasks -> Seq(Steps)] /\ \A t \in Tasks : todo'[t] = <<>>
    BY <1>2, <2>0
  <2>2. Shape'
    BY <2>1 DEF Shape, Chain
  <2> QED
    BY <1>2, <2>1, <2>2 DEF TodoTyped
<1>5. HistoryTyped'
  <2>1. cmds' \in 0 .. MaxCmds
    BY <1>1, <1>2, AvatarAssumption DEF TypeOK
  <2>2. patient' \in BOOLEAN /\ calm' \in BOOLEAN /\ stray' \subseteq Items
    BY <1>1, <1>2 DEF TypeOK
  <2> QED
    BY <2>1, <2>2 DEF HistoryTyped
<1> QED
  BY <1>3, <1>4, <1>5 DEF Typed, TypeOK, TodoTyped, SlotsTyped, ActorsTyped, HistoryTyped

LEMMA CommitTyped ==
  ASSUME Typed, NEW i \in Items, Commit(i)
  PROVE  Typed'
<1>1. TypeOK /\ Shape
  BY DEF Typed
<1>2. /\ want[i] \in Places /\ want' = [want EXCEPT ![i] = None]
      /\ UNCHANGED <<slots, flags, todo, cmds, patient, stray>>
      /\ place' \in {place, [place EXCEPT ![i] = want[i]]}
      /\ calm' \in {calm, FALSE}
      /\ UNCHANGED mail \/ \E m \in Messages : Sends(i, m)
  BY <1>1, CommitIs
<1>3. mail' \in [Items -> Seq(Messages)]
  BY <1>1, <1>2 DEF Sends, TypeOK
<1>4. ActorsTyped'
  BY <1>1, <1>2, <1>3 DEF ActorsTyped, TypeOK
<1>5. TodoTyped' /\ SlotsTyped'
  BY <1>1, <1>2 DEF TodoTyped, SlotsTyped, TypeOK, Shape, flags, slots
<1>6. HistoryTyped'
  BY <1>1, <1>2 DEF HistoryTyped, TypeOK
<1> QED
  BY <1>4, <1>5, <1>6 DEF Typed, TypeOK, TodoTyped, SlotsTyped, ActorsTyped, HistoryTyped

LEMMA TaskTyped ==
  ASSUME Typed, NEW t \in Tasks, Task(t)
  PROVE  Typed'
<1> DEFINE i == todo[t][1].item
<1>0. /\ TypeOK /\ Typed
      /\ TodoTyped /\ SlotsTyped /\ ActorsTyped /\ HistoryTyped
  BY TypedParts DEF Typed
<1> SUFFICES TodoTyped' /\ SlotsTyped' /\ ActorsTyped' /\ HistoryTyped'
  BY DEF Typed, TypeOK, TodoTyped, SlotsTyped, ActorsTyped, HistoryTyped
<1>a. ASSUME UNCHANGED flags, Shape' /\ todo' \in [Tasks -> Seq(Steps)]
      PROVE  TodoTyped'
  BY <1>0, <1>a DEF TodoTyped, flags
<1>b. ASSUME UNCHANGED <<cmds, patient, stray>>, calm' \in {calm, FALSE}
      PROVE  HistoryTyped'
  BY <1>0, <1>b DEF HistoryTyped
<1>c. ASSUME UNCHANGED cmds, UNCHANGED history
      PROVE  HistoryTyped'
  BY <1>0, <1>c DEF HistoryTyped, history
<1>1. CASE ClearHandStep(t)
  BY <1>0, <1>1, <1>a, <1>c, ClearHandTyped, SameTyped DEF ClearHandStep
<1>2. CASE Arm(t)
  <2>1. UNCHANGED <<slots, drop_pending, cmds, actors, history>>
    BY <1>2 DEF Arm
  <2>2. Shape' /\ todo' \in [Tasks -> Seq(Steps)]
    BY <1>0, <1>2, ArmTyped
  <2>3. equip_pending' = equip_pending \/ equip_pending' \in Chests
    BY <1>0, <1>2, ArmIs
  <2>4. TodoTyped'
    BY <1>0, <2>1, <2>2, <2>3 DEF TodoTyped
  <2> QED
    BY <1>0, <1>c, <2>1, <2>4, SameTyped
<1>3. CASE ToHand(t)
  BY <1>0, <1>3, <1>a, <1>c, ToHandTyped, SameTyped DEF ToHand
<1>4. CASE Book(t)
  <2>1. Shape' /\ todo' \in [Tasks -> Seq(Steps)] /\ SlotsTyped'
    BY <1>0, <1>4, BookTyped
  <2>2. equip_pending' = None /\ UNCHANGED <<drop_pending, cmds, actors, history>>
    BY <1>4 DEF Book
  <2>3. TodoTyped'
    BY <1>0, <2>1, <2>2 DEF TodoTyped
  <2> QED
    BY <1>0, <1>c, <2>1, <2>2, <2>3, SameTyped
<1>5. CASE Booked(t)
  <2>1. Ended(t) /\ i \in Chests /\ inv_entry' = i /\ inv' = i
        /\ UNCHANGED <<held, cmds, actors, history>>
    BY <1>0, <1>5, BookedIs
  <2>2. SlotsTyped'
    BY <1>0, <2>1 DEF SlotsTyped
  <2> QED
    BY <1>0, <1>c, <2>1, <2>2, SameTyped, EndedTyped
<1>6. CASE Accept(t)
  <2>1. Ended(t) /\ i \in Items /\ UNCHANGED <<inv, cmds, actors, history>>
        /\ \/ i = inv /\ inv_entry' = i /\ UNCHANGED held
           \/ i # inv /\ held' = i /\ UNCHANGED inv_entry
    BY <1>0, <1>6, AcceptIs
  <2>2. SlotsTyped'
    BY <1>0, <2>1, Distinct DEF SlotsTyped
  <2> QED
    BY <1>0, <1>c, <2>1, <2>2, SameTyped, EndedTyped
<1>7. CASE Unbook(t)
  <2>1. Ended(t) /\ inv' \in {inv, None} /\ UNCHANGED <<held, inv_entry, cmds, actors, history>>
    BY <1>0, <1>7, UnbookIs
  <2>2. SlotsTyped'
    BY <1>0, <2>1 DEF SlotsTyped
  <2> QED
    BY <1>0, <1>c, <2>1, <2>2, SameTyped, EndedTyped
<1>8. CASE RoomDrop(t)
  <2>1. /\ Ended(t) \/ Failed(t)
        /\ UNCHANGED <<slots, actors, cmds, patient, stray>> /\ calm' \in {calm, FALSE}
    BY <1>0, <1>8, RoomDropIs DEF history
  <2> QED
    BY <1>0, <1>b, <2>1, SameTyped, EndedTyped
<1>9. CASE SetParent(t)
  <2>1. /\ Ended(t) \/ Failed(t)
        /\ UNCHANGED <<place, mail, cmds, patient, stray>> /\ calm' \in {calm, FALSE}
        /\ i \in Items /\ want' \in {want, [want EXCEPT ![i] = Room]}
        /\ held' \in {held, None} /\ inv' \in {inv, None} /\ inv_entry' \in {inv_entry, None}
    BY <1>0, <1>9, SetParentIs DEF history, actors, slots
  <2>2. SlotsTyped' /\ ActorsTyped'
    BY <1>0, <2>1, Distinct DEF SlotsTyped, ActorsTyped
  <2> QED
    BY <1>0, <1>b, <2>1, <2>2, EndedTyped
<1>10. CASE Asking(t)
  <2>1. /\ Ended(t) \/ Failed(t)
        /\ UNCHANGED <<slots, place, cmds, patient, stray>> /\ calm' \in {calm, FALSE}
        /\ i \in Items /\ want' \in {want, [want EXCEPT ![i] = Me]}
        /\ UNCHANGED mail \/ \E m \in Messages : Sends(i, m)
    BY <1>0, <1>10, AskingIs DEF history, actors, Proposed
  <2>2. mail' \in [Items -> Seq(Messages)]
    BY <1>0, <2>1 DEF ActorsTyped, Sends
  <2>3. ActorsTyped'
    BY <1>0, <2>1, <2>2, Distinct DEF ActorsTyped
  <2> QED
    BY <1>0, <1>b, <2>1, <2>3, SameTyped, EndedTyped
<1>11. CASE PutIn(t)
  <2>1. /\ Ended(t) \/ Failed(t)
        /\ UNCHANGED <<slots, place, mail, cmds, patient, stray>> /\ calm' \in {calm, FALSE}
        /\ i \in Items
        /\ UNCHANGED want \/ \E c \in Chests \cup {None} : want' = [want EXCEPT ![i] = c]
    BY <1>0, <1>11, PutInIs, ZenonT(40) DEF history, actors
  <2>2. want' \in [Items -> Places \cup {None}]
    <3>1. Chests \cup {None} \subseteq Places \cup {None}
      BY Distinct
    <3> QED
      BY <1>0, <2>1, <3>1 DEF ActorsTyped
  <2>3. ActorsTyped'
    BY <1>0, <2>1, <2>2 DEF ActorsTyped
  <2> QED
    BY <1>0, <1>b, <2>1, <2>3, SameTyped, EndedTyped
<1>12. CASE Child(t)
  <2>1. /\ Ended(t) \/ Failed(t)
        /\ UNCHANGED <<slots, mail, cmds, patient>> /\ stray' \in {stray, stray \ {i}}
        /\ calm' \in {calm, FALSE}
        /\ i \in Items
        /\ UNCHANGED <<place, want>> \/ (/\ place' = [place EXCEPT ![i] = Me]
                                         /\ want' = [want EXCEPT ![i] = None])
    BY <1>0, <1>12, ChildIs DEF history, actors
  <2>2. ActorsTyped'
    BY <1>0, <2>1, Distinct DEF ActorsTyped
  <2>3. HistoryTyped'
    BY <1>0, <2>1 DEF HistoryTyped
  <2> QED
    BY <1>0, <2>1, <2>2, <2>3, SameTyped, EndedTyped
<1>13. CASE Parent(t)
  BY <1>0, <1>13, <1>c, ParentIs, SameTyped, EndedTyped
<1>14. CASE Name(t)
  <2>1. /\ todo[t] # <<>> /\ Reach(todo[t][1]) /\ i \in Chests /\ i \in Items
        /\ UNCHANGED <<flags, cmds, actors, history>>
        /\ held' = i /\ inv' = None /\ inv_entry' = None
        /\ Pops(t) \/ (todo[t][1].at # None /\ Goes(t, Relocate(i)))
    BY <1>0, <1>14, NameStepIs DEF Reach
  <2>2. SlotsTyped'
    BY <2>1 DEF SlotsTyped
  <2>3. Shape' /\ todo' \in [Tasks -> Seq(Steps)]
    BY <1>0, <2>1, ReachTyped
  <2> QED
    BY <1>0, <1>a, <1>c, <2>1, <2>2, <2>3, SameTyped
<1>15. CASE Create(t)
  <2>1. /\ Ended(t) \/ Failed(t)
        /\ UNCHANGED <<slots, cmds, patient, stray>> /\ calm' \in {calm, FALSE}
        /\ UNCHANGED actors \/ \E j \in Items :
              /\ place' = [place EXCEPT ![j] = Me]
              /\ want' = [want EXCEPT ![j] = Me]
              /\ mail' = [mail EXCEPT ![j] = <<[parent |-> Me, why |-> None]>>]
    BY <1>0, <1>15, CreateIs DEF history
  <2>2. ActorsTyped'
    <3>1. ASSUME UNCHANGED actors
          PROVE  ActorsTyped'
      BY <1>0, <3>1, SameTyped
    <3>2. ASSUME NEW j \in Items,
                 place' = [place EXCEPT ![j] = Me],
                 want' = [want EXCEPT ![j] = Me],
                 mail' = [mail EXCEPT ![j] = <<[parent |-> Me, why |-> None]>>]
          PROVE  ActorsTyped'
      <4> DEFINE m == [parent |-> Me, why |-> None]
                 S == Messages
                 q == <<m>>
      <4>1. m \in S /\ Me \in Places
        BY MessageIs, Distinct
      <4> HIDE DEF m, S
      <4>2. q \in Seq(S)
        BY <4>1
      <4>3. mail' = [mail EXCEPT ![j] = q] /\ mail \in [Items -> Seq(S)]
        BY <1>0, <3>2 DEF m, S, ActorsTyped
      <4> HIDE DEF q
      <4>4. mail' \in [Items -> Seq(S)]
        BY <4>2, <4>3
      <4> QED
        BY <1>0, <3>2, <4>1, <4>4 DEF S, ActorsTyped
    <3> QED
      BY <2>1, <3>1, <3>2
  <2> QED
    BY <1>0, <1>b, <2>1, <2>2, SameTyped, EndedTyped
<1>16. CASE Destroy(t)
  <2>1. /\ Ended(t) \/ Failed(t)
        /\ UNCHANGED <<slots, mail, cmds, patient, stray>> /\ calm' \in {calm, FALSE}
        /\ i \in Items
        /\ UNCHANGED <<place, want>> \/ (/\ place' = [place EXCEPT ![i] = Gone]
                                         /\ want' = [want EXCEPT ![i] = None])
    BY <1>0, <1>16, DestroyIs DEF history, actors
  <2>2. ActorsTyped'
    BY <1>0, <2>1, Distinct DEF ActorsTyped
  <2> QED
    BY <1>0, <1>b, <2>1, <2>2, SameTyped, EndedTyped
<1> QED
  BY <1>1, <1>2, <1>3, <1>4, <1>5, <1>6, <1>7, <1>8, <1>9, <1>10, <1>11, <1>12, <1>13,
     <1>14, <1>15, <1>16 DEF Task, Asking

LEMMA StepTyped ==
  Typed /\ [Next]_vars => Typed'
<1> SUFFICES ASSUME Typed, [Next]_vars
             PROVE  Typed'
  OBVIOUS
<1>1. CASE UNCHANGED vars
  BY <1>1 DEF Typed, TypeOK, Shape, vars, slots, flags, actors, history
<1>2. CASE User
  BY <1>2, UserIs, StartTyped, ReloadTyped
<1>3. ASSUME NEW t \in Tasks, Task(t)
      PROVE  Typed'
  BY <1>3, TaskTyped
<1>4. ASSUME NEW i \in Items, Commit(i) \/ React(i)
      PROVE  Typed'
  BY <1>4, CommitTyped, ReactTyped
<1> QED
  BY <1>1, <1>2, <1>3, <1>4 DEF Next

LEMMA InitTyped ==
  Init => Typed
<1> SUFFICES ASSUME Init
             PROVE  Typed
  OBVIOUS
<1>1. \A t \in Tasks : todo[t] = <<>>
  BY DEF Init
<1>2. Shape
  BY <1>1 DEF Shape, Chain
<1> DEFINE S == Seq(Steps)
           M == Seq(Messages)
<1>3. <<>> \in S /\ <<>> \in M
  OBVIOUS
<1> HIDE DEF S, M
<1>4. todo \in [Tasks -> S] /\ mail \in [Items -> M]
  BY <1>3 DEF Init
<1>5. /\ place \in [Items -> Places \cup {None}] /\ want \in [Items -> Places \cup {None}]
  <2>1. {Room, None} \cup Chests \subseteq Places \cup {None}
    BY DEF Places
  <2> QED
    BY <2>1 DEF Init
<1>6. cmds \in 0 .. MaxCmds
  BY AvatarAssumption DEF Init
<1> QED
  BY <1>2, <1>4, <1>5, <1>6 DEF Init, Typed, TypeOK, S, M

\* Slots, flags, tasks and messages keep their types, and a task is a chain of
\* steps in which each has the one behind it that the code gives it: a freed
\* hand before what fills it, an acknowledgment before what comes of it.
\* (equip-propose!, drop-held-to-room!, book-inventory!)
THEOREM TypeCorrect == Spec => []Typed
BY InitTyped, StepTyped, PTL DEF Spec

-----------------------------------------------------------------------------
(* What tasks are about to do.                                              *)

At(t, do, i) == todo[t] # <<>> /\ todo[t][1].do = do /\ todo[t][1].item = i
Has(t, do, i) ==
    \E k \in 1 .. Len(todo[t]) : todo[t][k].do = do /\ todo[t][k].item = i

\* The command is about to unequip i.
Reaching(i) == Has("cmd", "to-hand", i) \/ Has("cmd", "name?", i)

\* And it does so to ask for something else.
ReachingFirst(i) ==
    \E k \in 1 .. Len(todo["cmd"]) :
       k < Len(todo["cmd"]) /\ Reach(todo["cmd"][k]) /\ todo["cmd"][k].item = i

\* The handler has taken an item out of the hand and books it once another
\* inventory has left.
Booking == \E i \in Items : Has("evt", "booked", i)

LEMMA EmptyIs ==
  ASSUME TypeOK, NEW t \in Tasks
  PROVE  /\ todo[t] = <<>> <=> Len(todo[t]) = 0
         /\ Len(todo[t]) \in Nat
<1> DEFINE S == Steps
<1>1. todo[t] \in Seq(S)
  BY DEF TypeOK
<1> HIDE DEF S
<1> QED
  BY <1>1, EmptySeq

LEMMA AtHas ==
  ASSUME TypeOK, NEW t \in Tasks, NEW do, NEW i, At(t, do, i)
  PROVE  Has(t, do, i)
BY NowIs DEF At, Has

LEMMA TasksAre ==
  /\ "cmd" \in Tasks /\ "evt" \in Tasks /\ "cmd" # "evt"
  /\ \A t \in Tasks : t = "cmd" \/ t = "evt"
BY DEF Tasks

LEMMA SameTask ==
  ASSUME NEW t, todo'[t] = todo[t], NEW do, NEW i
  PROVE  (Has(t, do, i)' <=> Has(t, do, i)) /\ (At(t, do, i)' <=> At(t, do, i))
BY DEF Has, At

LEMMA SameReach ==
  ASSUME todo'["cmd"] = todo["cmd"], NEW i
  PROVE  /\ Reaching(i)' <=> Reaching(i)
         /\ ReachingFirst(i)' <=> ReachingFirst(i)
BY DEF Reaching, ReachingFirst, Has

LEMMA NoTask ==
  ASSUME NEW t, todo'[t] = <<>>, NEW do, NEW i
  PROVE  ~ Has(t, do, i)' /\ ~ At(t, do, i)'
BY DEF Has, At

LEMMA NoReach ==
  ASSUME todo'["cmd"] = <<>>, NEW i
  PROVE  ~ Reaching(i)' /\ ~ ReachingFirst(i)'
BY DEF Has, Reaching, ReachingFirst

LEMMA PopsHas ==
  ASSUME NEW t, Pops(t), NEW do, NEW i
  PROVE  /\ Has(t, do, i)' => Has(t, do, i)
         /\ Has(t, do, i) => Has(t, do, i)' \/ (todo[t][1].do = do /\ todo[t][1].item = i)
<1>1. /\ Len(todo[t]) >= 1 /\ Len(todo[t]) \in Nat /\ Len(todo'[t]) = Len(todo[t]) - 1
      /\ \A k \in 1 .. Len(todo[t]) - 1 : todo'[t][k] = todo[t][k + 1]
  BY DEF Pops
<1>2. ASSUME NEW k \in 1 .. Len(todo'[t]), todo'[t][k].do = do, todo'[t][k].item = i
      PROVE  Has(t, do, i)
  <2>1. k \in 1 .. Len(todo[t]) - 1 /\ k + 1 \in 1 .. Len(todo[t])
    BY <1>1
  <2>2. todo'[t][k] = todo[t][k + 1]
    BY <1>1, <2>1
  <2> QED
    BY <1>2, <2>1, <2>2 DEF Has
<1>3. ASSUME NEW k \in 1 .. Len(todo[t]), todo[t][k].do = do, todo[t][k].item = i, k # 1
      PROVE  Has(t, do, i)'
  <2>1. k - 1 \in 1 .. Len(todo[t]) - 1 /\ k - 1 \in 1 .. Len(todo'[t]) /\ (k - 1) + 1 = k
    BY <1>1, <1>3
  <2>2. todo'[t][k - 1] = todo[t][k]
    BY <1>1, <2>1
  <2> QED
    BY <1>3, <2>1, <2>2 DEF Has
<1> QED
  BY <1>2, <1>3 DEF Has

LEMMA PopsAt ==
  ASSUME Typed, NEW t \in Tasks, todo[t] # <<>>, Pops(t), NEW do, NEW i, At(t, do, i)'
  PROVE  /\ Follows(todo[t][1], todo'[t][1]) /\ todo'[t][1] = todo[t][2]
         /\ Has(t, do, i)
<1>1. /\ Len(todo[t]) >= 1 /\ Len(todo[t]) \in Nat /\ Len(todo'[t]) = Len(todo[t]) - 1
      /\ \A k \in 1 .. Len(todo[t]) - 1 : todo'[t][k] = todo[t][k + 1]
      /\ todo' \in [Tasks -> Seq(Steps)]
  BY DEF Pops
<1>2. Len(todo'[t]) # 0
  <2> DEFINE S == Steps
             q == todo'[t]
  <2>1. q \in Seq(S) /\ q # <<>>
    BY <1>1 DEF At
  <2> HIDE DEF S, q
  <2>2. Len(q) # 0
    BY <2>1, EmptySeq
  <2> QED
    BY <2>2 DEF q
<1>8. Len(todo[t]) # 1
  BY <1>1, <1>2
<1>9. Len(todo[t]) >= 2
  BY <1>1, <1>8, AtLeastTwo
<1>3. Len(todo[t]) >= 2 /\ 1 \in 1 .. Len(todo[t]) - 1 /\ 2 \in 1 .. Len(todo[t])
  BY <1>1, <1>9
<1>4. todo'[t][1] = todo[t][2]
  <2>1. todo'[t][1] = todo[t][1 + 1]
    BY <1>1, <1>3
  <2> QED
    BY <2>1
<1>5. Follows(todo[t][1], todo[t][2])
  BY <1>3, NextStep
<1>6. todo[t][2].do = do /\ todo[t][2].item = i
  BY <1>4 DEF At
<1>7. Has(t, do, i)
  BY <1>3, <1>6 DEF Has
<1> QED
  BY <1>4, <1>5, <1>7

LEMMA PopsReachingFirst ==
  ASSUME Pops("cmd"), NEW i
  PROVE  ReachingFirst(i) => ReachingFirst(i)' \/ (Reach(todo["cmd"][1]) /\ todo["cmd"][1].item = i)
<1> DEFINE t == "cmd"
<1>1. /\ Len(todo[t]) >= 1 /\ Len(todo[t]) \in Nat /\ Len(todo'[t]) = Len(todo[t]) - 1
      /\ \A k \in 1 .. Len(todo[t]) - 1 : todo'[t][k] = todo[t][k + 1]
  BY DEF Pops
<1>3. ASSUME NEW k \in 1 .. Len(todo[t]), k < Len(todo[t]), Reach(todo[t][k]),
             todo[t][k].item = i, k # 1
      PROVE  ReachingFirst(i)'
  <2>1. k - 1 \in 1 .. Len(todo[t]) - 1 /\ k - 1 \in 1 .. Len(todo'[t]) /\ (k - 1) + 1 = k
        /\ k - 1 < Len(todo'[t])
    BY <1>1, <1>3
  <2>2. todo'[t][k - 1] = todo[t][k]
    BY <1>1, <2>1
  <2>3. Reach(todo'[t][k - 1]) /\ todo'[t][k - 1].item = i
    BY <1>3, <2>2
  <2> QED
    BY <2>1, <2>3 DEF ReachingFirst, Reach
<1> QED
  BY <1>3 DEF ReachingFirst

\* Behind a step that unequips there is at most a request to be equipped.
LEMMA ReachingFirstEnds ==
  ASSUME Typed, NEW i, ReachingFirst(i)
  PROVE  Last("cmd").why = "equip" /\ todo["cmd"] # <<>>
<1>1. PICK k \in 1 .. Len(todo["cmd"]) :
         k < Len(todo["cmd"]) /\ Reach(todo["cmd"][k]) /\ todo["cmd"][k].item = i
  BY DEF ReachingFirst
<1>2. Chain("cmd", todo["cmd"]) /\ Len(todo["cmd"]) \in Nat /\ TypeOK
  BY TasksAre, EmptyIs DEF Typed, Shape
<1>3. k + 1 \in 1 .. Len(todo["cmd"])
  BY <1>1, <1>2
<1>4. Follows(todo["cmd"][k], todo["cmd"][k + 1])
  BY <1>1, <1>2 DEF Chain
<1>5. Asks(todo["cmd"][k + 1]) /\ todo["cmd"][k + 1].why = "equip"
  BY <1>1, <1>4 DEF Follows, Reach, Asks
<1>6. k + 1 < Len(todo["cmd"]) => Follows(todo["cmd"][k + 1], todo["cmd"][k + 1 + 1])
  BY <1>2, <1>3 DEF Chain
<1>7. ~ Follows(todo["cmd"][k + 1], todo["cmd"][k + 1 + 1])
  BY <1>5 DEF Follows, Asks, Reach
<1>8. k + 1 = Len(todo["cmd"])
  BY <1>2, <1>3, <1>6, <1>7
<1>9. todo["cmd"] # <<>>
  BY <1>1, <1>2, TasksAre, EmptyIs
<1> QED
  BY <1>5, <1>8, <1>9 DEF Last

LEMMA GoesHas ==
  ASSUME NEW t, NEW new, Goes(t, new), NEW do, NEW i, Has(t, do, i)'
  PROVE  \/ \E k \in 1 .. Len(new) : new[k].do = do /\ new[k].item = i
         \/ Has(t, do, i)
<1> DEFINE n == Len(new)
           l == Len(todo[t])
<1>1. /\ l >= 1 /\ l \in Nat /\ n \in Nat /\ Len(todo'[t]) = n + l - 1
      /\ \A k \in 1 .. n : todo'[t][k] = new[k]
      /\ \A k \in 2 .. l : todo'[t][n + k - 1] = todo[t][k]
  BY DEF Goes
<1>2. PICK k \in 1 .. Len(todo'[t]) : todo'[t][k].do = do /\ todo'[t][k].item = i
  BY DEF Has
<1>3. CASE k <= n
  <2>1. k \in 1 .. n
    BY <1>1, <1>2, <1>3
  <2> QED
    BY <1>1, <1>2, <2>1
<1>4. CASE ~ (k <= n)
  <2> HIDE DEF n, l
  <2>1. k - n + 1 \in 2 .. l /\ k - n + 1 \in 1 .. l /\ n + (k - n + 1) - 1 = k
    BY <1>1, <1>2, <1>4, SMTT(30)
  <2>2. todo'[t][k] = todo[t][k - n + 1]
    BY <1>1, <2>1
  <2> QED
    BY <1>2, <2>1, <2>2 DEF Has, l
<1> QED
  BY <1>3, <1>4

LEMMA GoesKeeps ==
  ASSUME NEW t, NEW new, Goes(t, new), NEW k \in 2 .. Len(todo[t])
  PROVE  \E j \in 1 .. Len(todo'[t]) :
            todo'[t][j] = todo[t][k] /\ (k < Len(todo[t]) => j < Len(todo'[t]))
<1> DEFINE n == Len(new)
           l == Len(todo[t])
<1>1. /\ l >= 1 /\ l \in Nat /\ n \in Nat /\ Len(todo'[t]) = n + l - 1
      /\ \A j \in 2 .. l : todo'[t][n + j - 1] = todo[t][j]
  BY DEF Goes
<1> HIDE DEF n, l
<1>2. n + k - 1 \in 1 .. n + l - 1 /\ (k < l => n + k - 1 < n + l - 1)
  BY <1>1 DEF l
<1> QED
  BY <1>1, <1>2 DEF l

LEMMA GoesAt ==
  ASSUME NEW t, NEW new, Goes(t, new), Len(new) >= 1, NEW do, NEW i, At(t, do, i)'
  PROVE  new[1].do = do /\ new[1].item = i
<1>1. todo'[t][1] = new[1]
  BY DEF Goes
<1> QED
  BY <1>1 DEF At

-----------------------------------------------------------------------------
(* The inventory and the hand.                                              *)

EntryFollows == inv # None => inv_entry \in {None, inv}

GoneStays == \A i \in Items : place[i] = Gone => want[i] = None

\* A container that waits to be booked is in no slot and not about to be.
BookedFree ==
    \A i \in Items : Has("evt", "booked", i) => i \notin {held, inv, inv_entry} /\ ~ Reaching(i)

\* While a command unequips i, a proposal of i that would be booked finds
\* nothing else equipped, or does not stand any more.
Unproposed(i) == inv \in {None, i} /\ want[i] # Me

Reached(i) ==
    /\ At("evt", "book", i) => inv \in {None, i}
    /\ At("evt", "child", i) /\ Has("evt", "book", i) => inv \in {None, i} \/ want[i] # Me
    /\ equip_pending = i /\ ~ Booking => inv \in {None, i} \/ want[i] # Me
    /\ equip_pending = i /\ Booking => \/ inv = i /\ Has("evt", "set-parent", i)
                                       \/ Unproposed(i)

\* While the handler waits for the inventory to leave, a command that equips
\* it anew has to unequip it first.
Rearmed(i) ==
    /\ equip_pending = i => ReachingFirst(i)
    /\ At("cmd", "arm", i) => Has("evt", "set-parent", i) \/ want[i] # Me

Handed ==
    \A i \in Items : /\ Reaching(i) => Reached(i)
                     /\ Booking /\ inv = i => Rearmed(i)

Slotted == InventoryNotHeld /\ EntryFollows /\ BookedFree

\* What most steps do.
Steady(i) ==
    /\ Reaching(i)' => Reaching(i) \/ (i = inv /\ todo["cmd"] = <<>>)
    /\ At("evt", "book", i)' =>
          \/ At("evt", "book", i)
          \/ At("evt", "child", i) /\ Has("evt", "book", i) /\ want[i] = Me
    /\ At("evt", "child", i)' /\ Has("evt", "book", i)' =>
          \/ At("evt", "child", i) /\ Has("evt", "book", i)
          \/ equip_pending = i /\ ~ Booking
    /\ At("cmd", "arm", i)' => At("cmd", "arm", i) \/ i # inv
    /\ Has("evt", "booked", i)' => Has("evt", "booked", i)
    /\ ReachingFirst(i) /\ equip_pending' = i /\ inv' = i => ReachingFirst(i)'
    /\ want[i] # Me => want'[i] # Me \/ todo'["cmd"] = <<>>
    /\ Booking' /\ inv = i /\ Has("evt", "set-parent", i) =>
          \/ inv' = i /\ Has("evt", "set-parent", i)'
          \/ want'[i] # Me
          \/ inv' # i /\ ~ Reaching(i)'

LEMMA StillHanded ==
  ASSUME Typed, Handed, \A i \in Items : Steady(i), inv' \in {inv, None},
         equip_pending' \in {equip_pending, None}
  PROVE  Handed'
<1> SUFFICES ASSUME NEW i \in Items
             PROVE  /\ Reaching(i)' => Reached(i)'
                    /\ Booking' /\ inv' = i => Rearmed(i)'
  BY DEF Handed
<1>1. Steady(i) /\ i # None /\ "cmd" \in Tasks
  BY Distinct, TasksAre
<1>2. Booking' => Booking
  BY DEF Booking, Steady
<1>3. equip_pending' = i => equip_pending = i
  BY <1>1
<1>4. todo'["cmd"] = <<>> => ~ Reaching(i)' /\ ~ At("cmd", "arm", i)'
  BY NoReach, NoTask
<1>5. todo["cmd"] = <<>> => ~ ReachingFirst(i)
  <2>1. todo["cmd"] = <<>> => Len(todo["cmd"]) = 0
    OBVIOUS
  <2> QED
    BY <2>1 DEF ReachingFirst
<1>6. (Reaching(i) => Reached(i)) /\ (Booking /\ inv = i => Rearmed(i))
  BY DEF Handed
<1>7. ASSUME Reaching(i)'
      PROVE  Reached(i)'
  <2>1. CASE Reaching(i)
    <3>0. Reached(i)
      BY <1>6, <2>1
    <3>1. inv \in {None, i} => inv' \in {None, i}
      OBVIOUS
    <3>2. want[i] # Me => want'[i] # Me
      BY <1>1, <1>4, <1>7 DEF Steady
    <3>3. At("evt", "book", i)' => inv' \in {None, i}
      BY <1>1, <3>0, <3>1 DEF Steady, Reached
    <3>4. At("evt", "child", i)' /\ Has("evt", "book", i)' => inv' \in {None, i} \/ want'[i] # Me
      BY <1>1, <3>0, <3>1, <3>2 DEF Steady, Reached
    <3>5. equip_pending' = i /\ ~ Booking' => inv' \in {None, i} \/ want'[i] # Me
      BY <1>3, <3>0, <3>1, <3>2 DEF Reached, Unproposed
    <3>6. equip_pending' = i /\ Booking' => \/ inv' = i /\ Has("evt", "set-parent", i)'
                                            \/ inv' \in {None, i} /\ want'[i] # Me
      <4> SUFFICES ASSUME equip_pending' = i, Booking'
                   PROVE  \/ inv' = i /\ Has("evt", "set-parent", i)'
                          \/ inv' \in {None, i} /\ want'[i] # Me
        OBVIOUS
      <4>1. (inv = i /\ Has("evt", "set-parent", i)) \/ Unproposed(i)
        BY <1>2, <1>3, <3>0 DEF Reached
      <4>2. CASE inv = i /\ Has("evt", "set-parent", i)
        BY <1>1, <1>7, <3>1, <4>2 DEF Steady
      <4>3. CASE Unproposed(i)
        BY <3>1, <3>2, <4>3 DEF Unproposed
      <4> QED
        BY <4>1, <4>2, <4>3
    <3> QED
      BY <3>3, <3>4, <3>5, <3>6 DEF Reached, Unproposed
  <2>2. CASE i = inv /\ todo["cmd"] = <<>>
    <3>1. inv' \in {None, i}
      BY <2>2
    <3>2. ~ (equip_pending' = i /\ Booking')
      BY <1>2, <1>3, <1>5, <1>6, <2>2 DEF Rearmed
    <3> QED
      BY <3>1, <3>2 DEF Reached
  <2> QED
    BY <1>1, <1>7, <2>1, <2>2 DEF Steady
<1>8. ASSUME Booking', inv' = i
      PROVE  Rearmed(i)'
  <2>1. Booking /\ inv = i /\ Rearmed(i)
    BY <1>1, <1>2, <1>6, <1>8
  <2>2. equip_pending' = i => ReachingFirst(i)'
    BY <1>1, <1>3, <1>8, <2>1 DEF Rearmed, Steady
  <2>3. ASSUME At("cmd", "arm", i)'
        PROVE  Has("evt", "set-parent", i)' \/ want'[i] # Me
    <3>1. Has("evt", "set-parent", i) \/ want[i] # Me
      BY <1>1, <2>1, <2>3 DEF Steady, Rearmed
    <3> QED
      BY <1>1, <1>4, <1>8, <2>1, <2>3, <3>1 DEF Steady
  <2> QED
    BY <2>2, <2>3 DEF Rearmed
<1> QED
  BY <1>7, <1>8

LEMMA StillSlotted ==
  ASSUME Typed, Slotted, held' \in {held, None}, inv' \in {inv, None},
         inv_entry' \in {inv_entry, None},
         \A i \in Items : Has("evt", "booked", i)' => /\ Has("evt", "booked", i)
                                                      /\ ~ Reaching(i)'
  PROVE  Slotted'
<1>1. InventoryNotHeld' /\ EntryFollows'
  BY DEF Slotted, InventoryNotHeld, EntryFollows
<1>2. BookedFree'
  BY Distinct DEF Slotted, BookedFree
<1> QED
  BY <1>1, <1>2 DEF Slotted

LEMMA SteadySlotted ==
  ASSUME Typed, Slotted, held' \in {held, None}, inv' \in {inv, None},
         inv_entry' \in {inv_entry, None}, \A i \in Items : Steady(i)
  PROVE  Slotted'
<1>1. ASSUME NEW i \in Items, Has("evt", "booked", i)'
      PROVE  Has("evt", "booked", i) /\ ~ Reaching(i)'
  <2>1. Steady(i) /\ Has("evt", "booked", i)
    BY <1>1 DEF Steady
  <2>2. i # inv /\ ~ Reaching(i)
    BY <2>1 DEF Slotted, BookedFree
  <2> QED
    BY <2>1, <2>2 DEF Steady
<1> QED
  BY <1>1, StillSlotted

\* A task that ends a step is steady, but for what the step itself did.
LEMMA SteadyEnd ==
  ASSUME Typed, NEW t \in Tasks, todo[t] # <<>>, NEW i \in Items,
         \/ Failed(t)
         \/ /\ Ended(t) /\ ~ Reach(todo[t][1])
            /\ At(t, "child", i) => want[i] = Me
            /\ Booking' /\ inv = i /\ At(t, "set-parent", i) => want'[i] # Me,
         want[i] # Me => want'[i] # Me \/ todo'["cmd"] = <<>>,
         inv' = inv \/ (t = "cmd" /\ todo'["cmd"] = <<>>) \/ (t = "evt" /\ todo'["evt"] = <<>>)
                    \/ At(t, "set-parent", inv)
  PROVE  Steady(i)
<1>0. TypeOK
  BY DEF Typed
<1>1. CASE Failed(t)
  <2>1. todo'[t] = <<>> /\ \A u \in Tasks : u # t => todo'[u] = todo[u]
    BY <1>1 DEF Failed, Gets
  <2>2. CASE t = "cmd"
    <3>1. todo'["cmd"] = <<>> /\ todo'["evt"] = todo["evt"]
      BY <2>1, <2>2, TasksAre
    <3>2. ~ Reaching(i)' /\ ~ At("cmd", "arm", i)'
      BY <3>1, NoReach, NoTask
    <3>3. ReachingFirst(i) => equip_pending' = None
      BY <1>1, <2>2, ReachingFirstEnds DEF Failed
    <3>4. i # None
      BY Distinct
    <3>5. \A do : (Has("evt", do, i)' <=> Has("evt", do, i)) /\ (At("evt", do, i)' <=> At("evt", do, i))
      BY <3>1, SameTask
    <3>6. Booking' => inv' = i \/ inv' # i
      OBVIOUS
    <3> QED
      BY <3>2, <3>3, <3>4, <3>5 DEF Steady
  <2>3. CASE t = "evt"
    <3>1. todo'["evt"] = <<>> /\ todo'["cmd"] = todo["cmd"]
      BY <2>1, <2>3, TasksAre
    <3>2. \A do : ~ Has("evt", do, i)' /\ ~ At("evt", do, i)'
      BY <3>1, NoTask
    <3>3. (Reaching(i)' <=> Reaching(i)) /\ (ReachingFirst(i)' <=> ReachingFirst(i))
      BY <3>1, SameReach
    <3>4. At("cmd", "arm", i)' <=> At("cmd", "arm", i)
      BY <3>1, SameTask
    <3>5. ~ Booking'
      BY <3>1, NoTask DEF Booking
    <3> QED
      BY <3>2, <3>3, <3>4, <3>5 DEF Steady
  <2> QED
    BY <2>2, <2>3, TasksAre
<1>2. CASE /\ Ended(t) /\ ~ Reach(todo[t][1])
           /\ At(t, "child", i) => want[i] = Me
           /\ Booking' /\ inv = i /\ At(t, "set-parent", i) => want'[i] # Me
  <2>1. Pops(t) /\ UNCHANGED flags /\ \A u \in Tasks : u # t => todo'[u] = todo[u]
    BY <1>2 DEF Ended, Pops
  <2>2. CASE t = "cmd"
    <3>1. todo'["evt"] = todo["evt"]
      BY <2>1, <2>2, TasksAre
    <3>2. Reaching(i)' => Reaching(i)
      BY <2>1, <2>2, PopsHas DEF Reaching
    <3>3. ~ At("cmd", "arm", i)'
      <4>1. ASSUME At("cmd", "arm", i)'
            PROVE  FALSE
        <5>1. Follows(todo["cmd"][1], todo'["cmd"][1]) /\ todo'["cmd"][1].do = "arm"
          BY <2>1, <2>2, <4>1, PopsAt DEF At
        <5> QED
          BY <5>1 DEF Follows, Asks
      <4> QED
        BY <4>1
    <3>4. ReachingFirst(i) => ReachingFirst(i)'
      BY <1>2, <2>1, <2>2, PopsReachingFirst
    <3>5. \A do : (Has("evt", do, i)' <=> Has("evt", do, i)) /\ (At("evt", do, i)' <=> At("evt", do, i))
      BY <3>1, SameTask
    <3>6. ASSUME Booking', inv = i, Has("evt", "set-parent", i)
          PROVE  \/ inv' = i /\ Has("evt", "set-parent", i)'
                 \/ want'[i] # Me
                 \/ inv' # i /\ ~ Reaching(i)'
      <4>1. CASE inv' = inv
        BY <3>5, <3>6, <4>1
      <4>2. CASE todo'["cmd"] = <<>>
        BY <3>5, <3>6, <4>2, NoReach
      <4>3. CASE At(t, "set-parent", inv)
        BY <1>2, <3>6, <4>3
      <4> QED
        BY <2>2, <4>1, <4>2, <4>3, TasksAre
    <3> QED
      BY <3>2, <3>3, <3>4, <3>5, <3>6 DEF Steady
  <2>3. CASE t = "evt"
    <3>1. todo'["cmd"] = todo["cmd"]
      BY <2>1, <2>3, TasksAre
    <3>2. (Reaching(i)' <=> Reaching(i)) /\ (ReachingFirst(i)' <=> ReachingFirst(i))
      BY <3>1, SameReach
    <3>3. At("cmd", "arm", i)' <=> At("cmd", "arm", i)
      BY <3>1, SameTask
    <3>4. ASSUME At("evt", "book", i)'
          PROVE  At("evt", "child", i) /\ Has("evt", "book", i) /\ want[i] = Me
      <4>1. Follows(todo["evt"][1], todo'["evt"][1]) /\ todo'["evt"][1].do = "book"
            /\ todo'["evt"][1].item = i /\ Has("evt", "book", i)
        BY <2>1, <2>3, <3>4, PopsAt DEF At
      <4>2. todo["evt"][1].do = "child" /\ todo["evt"][1].item = i
        BY <4>1 DEF Follows, Asks
      <4> QED
        BY <1>2, <2>3, <4>1, <4>2 DEF At
    <3>5. ~ At("evt", "child", i)'
      <4>1. ASSUME At("evt", "child", i)'
            PROVE  FALSE
        <5>1. Follows(todo["evt"][1], todo'["evt"][1]) /\ todo'["evt"][1].do = "child"
          BY <2>1, <2>3, <4>1, PopsAt DEF At
        <5> QED
          BY <5>1 DEF Follows, Asks
      <4> QED
        BY <4>1
    <3>6. Has("evt", "booked", i)' => Has("evt", "booked", i)
      BY <2>1, <2>3, PopsHas
    <3>7. ASSUME Booking', inv = i, Has("evt", "set-parent", i)
          PROVE  \/ inv' = i /\ Has("evt", "set-parent", i)'
                 \/ want'[i] # Me
                 \/ inv' # i /\ ~ Reaching(i)'
      <4>1. Has("evt", "set-parent", i)' \/ At("evt", "set-parent", i)
        BY <2>1, <2>3, <3>7, PopsHas DEF At
      <4>2. todo'["evt"] # <<>>
        BY <3>7, NoTask DEF Booking
      <4>3. At("evt", "set-parent", i) => want'[i] # Me
        BY <1>2, <2>3, <3>7
      <4>4. inv' = inv \/ At("evt", "set-parent", inv)
        BY <2>3, <4>2, TasksAre
      <4> QED
        BY <3>7, <4>1, <4>3, <4>4
    <3> QED
      BY <3>2, <3>3, <3>4, <3>5, <3>6, <3>7 DEF Steady
  <2> QED
    BY <2>2, <2>3, TasksAre
<1> QED
  BY <1>1, <1>2

\* A final step is the last one.
LEMMA FinalAlone ==
  ASSUME Typed, NEW t \in Tasks, todo[t] # <<>>, Final(todo[t][1])
  PROVE  Len(todo[t]) = 1
<1>1. Len(todo[t]) >= 1 /\ Len(todo[t]) \in Nat
  BY NextStep
<1>2. ~ Follows(todo[t][1], todo[t][2])
  BY DEF Final, Follows, Reach
<1>3. ~ (Len(todo[t]) >= 2)
  BY <1>2, NextStep
<1> QED
  BY <1>1, <1>3, AtLeastTwo

LEMMA FinalPops ==
  ASSUME Typed, NEW t \in Tasks, todo[t] # <<>>, Final(todo[t][1]), Pops(t)
  PROVE  todo'[t] = <<>>
<1>1. /\ Len(todo[t]) = 1 /\ Len(todo'[t]) = Len(todo[t]) - 1
      /\ todo' \in [Tasks -> Seq(Steps)]
  BY FinalAlone DEF Pops
<1> DEFINE S == Steps
           q == todo'[t]
<1>2. q \in Seq(S) /\ Len(q) = 0
  BY <1>1
<1> HIDE DEF S, q
<1>3. q = <<>>
  BY <1>2, EmptySeq
<1> QED
  BY <1>3 DEF q

LEMMA SteadyGoes ==
  ASSUME Typed, todo["cmd"] # <<>>, NEW new, Goes("cmd", new), Len(new) >= 1,
         \A k \in 1 .. Len(new) : ~ Reach(new[k]),
         new[1].do # "arm", ~ Reach(todo["cmd"][1]), NEW i \in Items,
         UNCHANGED <<want, inv>>
  PROVE  Steady(i)
<1>1. todo'["evt"] = todo["evt"] /\ "cmd" \in Tasks /\ TypeOK
  BY TasksAre DEF Goes, Typed
<1>2. Reaching(i)' => Reaching(i)
  BY GoesHas DEF Reaching, Reach
<1>3. ~ At("cmd", "arm", i)'
  BY GoesAt
<1>4. ReachingFirst(i) => ReachingFirst(i)'
  <2> SUFFICES ASSUME NEW k \in 1 .. Len(todo["cmd"]), k < Len(todo["cmd"]),
                      Reach(todo["cmd"][k]), todo["cmd"][k].item = i
               PROVE  ReachingFirst(i)'
    BY DEF ReachingFirst
  <2>1. k # 1
    OBVIOUS
  <2>2. k \in 2 .. Len(todo["cmd"])
    BY <2>1
  <2>3. PICK j \in 1 .. Len(todo'["cmd"]) :
           todo'["cmd"][j] = todo["cmd"][k] /\ (k < Len(todo["cmd"]) => j < Len(todo'["cmd"]))
    BY <2>2, GoesKeeps
  <2>4. Reach(todo'["cmd"][j]) /\ todo'["cmd"][j].item = i /\ j < Len(todo'["cmd"])
    BY <2>3
  <2> QED
    BY <2>4 DEF ReachingFirst, Reach
<1>5. \A do : (Has("evt", do, i)' <=> Has("evt", do, i)) /\ (At("evt", do, i)' <=> At("evt", do, i))
  BY <1>1, SameTask
<1> QED
  BY <1>2, <1>3, <1>4, <1>5 DEF Steady

\* What unequips is followed by one request at most.
LEMMA AfterReach ==
  ASSUME Typed, NEW t \in Tasks, todo[t] # <<>>, Reach(todo[t][1]),
         NEW k \in 2 .. Len(todo[t])
  PROVE  k = 2 /\ k = Len(todo[t]) /\ Asks(todo[t][k]) /\ todo[t][k].why = "equip"
<1>1. Chain(t, todo[t]) /\ Len(todo[t]) \in Nat /\ TypeOK
  BY EmptyIs DEF Typed, Shape
<1>2. 1 \in 1 .. Len(todo[t]) /\ 2 \in 1 .. Len(todo[t]) /\ 1 < Len(todo[t])
  BY <1>1
<1>3. Follows(todo[t][1], todo[t][1 + 1])
  BY <1>1, <1>2 DEF Chain
<1>4. Asks(todo[t][2]) /\ todo[t][2].why = "equip"
  BY <1>3 DEF Follows, Reach, Asks
<1>5. 2 < Len(todo[t]) => Follows(todo[t][2], todo[t][2 + 1])
  BY <1>1, <1>2 DEF Chain
<1>6. ~ Follows(todo[t][2], todo[t][2 + 1])
  BY <1>4 DEF Follows, Asks, Reach
<1>7. ~ (2 < Len(todo[t]))
  BY <1>5, <1>6
<1>8. k = 2 /\ k = Len(todo[t])
  BY <1>1, <1>7
<1> QED
  BY <1>4, <1>8

\* Once something is unequipped nothing is about to be.
LEMMA SteadyInHand ==
  ASSUME Typed, todo["cmd"] # <<>>, Reach(todo["cmd"][1]), NEW j \in Items,
         Pops("cmd") \/ Goes("cmd", Relocate(j)), NEW i \in Items,
         UNCHANGED want, inv' = None
  PROVE  Steady(i) /\ ~ Reaching(i)'
<1> DEFINE t == "cmd"
<1>1. todo'["evt"] = todo["evt"] /\ "cmd" \in Tasks /\ TypeOK
  BY TasksAre DEF Goes, Pops, Typed
<1>2. \A k \in 2 .. Len(todo[t]) : todo[t][k].do \notin {"to-hand", "name?", "arm"}
  BY <1>1, AfterReach DEF Asks
<1>3. \A k \in 1 .. Len(todo'[t]) : todo'[t][k].do \notin {"to-hand", "name?", "arm"}
  <2>1. CASE Pops(t)
    <3> TAKE k \in 1 .. Len(todo'[t])
    <3>1. k \in 1 .. Len(todo[t]) - 1 /\ k + 1 \in 2 .. Len(todo[t])
      BY <2>1 DEF Pops
    <3>2. todo'[t][k] = todo[t][k + 1]
      BY <2>1, <3>1 DEF Pops
    <3> QED
      BY <1>2, <3>1, <3>2
  <2>2. CASE Goes(t, Relocate(j))
    <3> DEFINE a == Step("room-drop", j)
               b == Step("set-parent", j)
               n == Relocate(j)
    <3>1. a.do = "room-drop" /\ b.do = "set-parent" /\ n = <<a, b>>
      BY RelocateIs, StepIs DEF Dos
    <3> HIDE DEF a, b
    <3>2. Len(n) = 2 /\ n[1] = a /\ n[2] = b
      BY <3>1
    <3> HIDE DEF n
    <3>3. /\ Len(todo[t]) \in Nat /\ Len(todo[t]) >= 1 /\ Len(todo'[t]) = 2 + Len(todo[t]) - 1
          /\ todo'[t][1] = a /\ todo'[t][2] = b
          /\ \A k \in 2 .. Len(todo[t]) : todo'[t][2 + k - 1] = todo[t][k]
      <4>1. Goes(t, n)
        BY <2>2 DEF n
      <4> QED
        BY <3>2, <4>1 DEF Goes
    <3> TAKE k \in 1 .. Len(todo'[t])
    <3>4. CASE k \in {1, 2}
      BY <3>1, <3>3, <3>4
    <3>5. CASE k \notin {1, 2}
      <4>1. k - 1 \in 2 .. Len(todo[t]) /\ 2 + (k - 1) - 1 = k
        BY <3>3, <3>5
      <4>2. todo'[t][k] = todo[t][k - 1]
        BY <3>3, <4>1
      <4> QED
        BY <1>2, <4>1, <4>2
    <3> QED
      BY <3>4, <3>5
  <2> QED
    BY <2>1, <2>2
<1>4. ~ Reaching(i)'
  BY <1>3 DEF Reaching, Has
<1>5. ~ At("cmd", "arm", i)'
  <2>1. todo' \in [Tasks -> Seq(Steps)]
    BY DEF Goes, Pops
  <2>2. todo'["cmd"] # <<>> => 1 \in 1 .. Len(todo'["cmd"])
    <3> DEFINE S == Steps
               q == todo'["cmd"]
    <3>1. q \in Seq(S)
      BY <1>1, <2>1
    <3> HIDE DEF S, q
    <3>2. q # <<>> => 1 \in 1 .. Len(q)
      BY <3>1
    <3> QED
      BY <3>2 DEF q
  <2> QED
    BY <1>3, <2>2 DEF At
<1>6. \A do : (Has("evt", do, i)' <=> Has("evt", do, i)) /\ (At("evt", do, i)' <=> At("evt", do, i))
  BY <1>1, SameTask
<1>7. inv' # i
  BY Distinct
<1> QED
  BY <1>4, <1>5, <1>6, <1>7 DEF Steady

\* Asking for the name changes nothing.
LEMMA SteadyName ==
  ASSUME Typed, todo["cmd"] # <<>>, todo["cmd"][1].do = "to-hand", NEW z \in Steps,
         Goes("cmd", <<z>>), z.do = "name?", z.item = todo["cmd"][1].item,
         UNCHANGED <<want, inv>>, NEW i \in Items
  PROVE  Steady(i)
<1> DEFINE t == "cmd"
<1>1. todo'["evt"] = todo["evt"] /\ "cmd" \in Tasks /\ TypeOK
  BY TasksAre DEF Goes, Typed
<1>2. /\ Len(todo[t]) \in Nat /\ Len(todo[t]) >= 1 /\ Len(todo'[t]) = Len(todo[t])
      /\ todo'[t][1] = z /\ \A k \in 2 .. Len(todo[t]) : todo'[t][k] = todo[t][k]
  <2> DEFINE n == <<z>>
  <2>1. Len(n) = 1 /\ n[1] = z /\ Goes(t, n)
    OBVIOUS
  <2> HIDE DEF n
  <2>2. /\ Len(todo[t]) \in Nat /\ Len(todo[t]) >= 1 /\ Len(todo'[t]) = 1 + Len(todo[t]) - 1
        /\ todo'[t][1] = z
        /\ \A k \in 2 .. Len(todo[t]) : todo'[t][1 + k - 1] = todo[t][k]
    BY <2>1 DEF Goes
  <2>3. \A k \in 2 .. Len(todo[t]) : 1 + k - 1 = k
    OBVIOUS
  <2> QED
    BY <2>2, <2>3
<1>3. \A k \in 1 .. Len(todo[t]) : /\ todo'[t][k].item = todo[t][k].item
                                   /\ Reach(todo'[t][k]) <=> Reach(todo[t][k])
  <2> TAKE k \in 1 .. Len(todo[t])
  <2>1. k = 1 \/ k \in 2 .. Len(todo[t])
    OBVIOUS
  <2> QED
    BY <1>2, <2>1 DEF Reach
<1>4. Reaching(i)' => Reaching(i)
  BY <1>2, <1>3 DEF Reaching, Has, Reach
<1>5. ReachingFirst(i) => ReachingFirst(i)'
  BY <1>2, <1>3 DEF ReachingFirst, Reach
<1>6. ~ At("cmd", "arm", i)'
  BY <1>2 DEF At
<1>7. \A do : (Has("evt", do, i)' <=> Has("evt", do, i)) /\ (At("evt", do, i)' <=> At("evt", do, i))
  BY <1>1, SameTask
<1> QED
  BY <1>4, <1>5, <1>6, <1>7 DEF Steady

-----------------------------------------------------------------------------
(* Every step of a task keeps the hand and the inventory apart.             *)

Settled == Handed /\ Slotted /\ GoneStays

\* Steps that end, and shrink the slots at most.
LEMMA SettledEnd ==
  ASSUME Typed, Settled, NEW t \in Tasks, todo[t] # <<>>,
         \/ Failed(t)
         \/ /\ Ended(t) /\ ~ Reach(todo[t][1])
            /\ todo[t][1].do = "child" => want[todo[t][1].item] = Me
            /\ todo[t][1].do = "set-parent" => want'[todo[t][1].item] # Me,
         \A i \in Items : want[i] # Me => want'[i] # Me \/ todo'["cmd"] = <<>>,
         inv' \in {inv, None},
         inv' = inv \/ todo'[t] = <<>> \/ At(t, "set-parent", inv)
  PROVE  /\ Handed'
         /\ held' \in {held, None} /\ inv_entry' \in {inv_entry, None} => Slotted'
<1>1. equip_pending' \in {equip_pending, None}
  BY DEF Failed, Ended, flags
<1>2. ASSUME NEW i \in Items
      PROVE  Steady(i)
  <2>1. At(t, "child", i) => todo[t][1].do = "child" /\ todo[t][1].item = i
    BY DEF At
  <2>2. At(t, "set-parent", i) => todo[t][1].do = "set-parent" /\ todo[t][1].item = i
    BY DEF At
  <2>3. \/ Failed(t)
        \/ /\ Ended(t) /\ ~ Reach(todo[t][1])
           /\ At(t, "child", i) => want[i] = Me
           /\ Booking' /\ inv = i /\ At(t, "set-parent", i) => want'[i] # Me
    BY <2>1, <2>2
  <2>4. inv' = inv \/ (t = "cmd" /\ todo'["cmd"] = <<>>) \/ (t = "evt" /\ todo'["evt"] = <<>>)
                   \/ At(t, "set-parent", inv)
    BY TasksAre
  <2>5. Failed(t) \/ Ended(t)
    OBVIOUS
  <2> QED
    BY <2>3, <2>4, SteadyEnd
<1> QED
  BY <1>1, <1>2, StillHanded, SteadySlotted DEF Settled

LEMMA PlainSettled ==
  ASSUME Typed, Settled, NEW t \in Tasks, todo[t] # <<>>, Ended(t) \/ Failed(t),
         ~ Reach(todo[t][1]), todo[t][1].do # "child", todo[t][1].do # "set-parent",
         UNCHANGED <<slots, want, place>>
  PROVE  Settled'
<1>1. Handed' /\ Slotted'
  BY SettledEnd DEF slots
<1>2. GoneStays'
  BY DEF Settled, GoneStays
<1> QED
  BY <1>1, <1>2 DEF Settled

LEMMA SetParentSettled ==
  ASSUME Typed, Settled, NEW t \in Tasks, SetParent(t)
  PROVE  Settled'
<1> DEFINE i == todo[t][1].item
<1>1. /\ todo[t] # <<>> /\ todo[t][1].do = "set-parent" /\ i \in Items /\ TypeOK
  BY SetParentIs DEF Typed
<1>2. ~ Reach(todo[t][1]) /\ GoneStays
  BY <1>1 DEF Reach, Settled
<1>3. CASE /\ place[i] = Gone /\ Ended(t) /\ UNCHANGED <<actors, history>>
           /\ held' = IF held = i THEN None ELSE held
           /\ inv' = IF inv = i THEN None ELSE inv
           /\ inv_entry' = IF inv = i THEN None ELSE inv_entry
  <2>1. want'[i] # Me /\ UNCHANGED <<want, place>>
    BY <1>1, <1>2, <1>3, Distinct DEF GoneStays, actors
  <2>2. inv' = inv \/ At(t, "set-parent", inv)
    BY <1>1, <1>3 DEF At
  <2>3. Handed' /\ Slotted'
    BY <1>1, <1>2, <1>3, <2>1, <2>2, SettledEnd
  <2>4. GoneStays'
    BY <1>2, <2>1 DEF GoneStays
  <2> QED
    BY <2>3, <2>4 DEF Settled
<1>4. CASE /\ place[i] = Me /\ Ended(t) /\ UNCHANGED <<slots, place, mail, history>>
           /\ want' = [want EXCEPT ![i] = Room]
  <2>1. want'[i] # Me /\ \A j \in Items : j # i => want'[j] = want[j]
    BY <1>1, <1>4, Distinct DEF TypeOK
  <2>2. \A j \in Items : want[j] # Me => want'[j] # Me
    BY <2>1
  <2>3. Handed' /\ Slotted'
    BY <1>1, <1>2, <1>4, <2>1, <2>2, SettledEnd DEF slots
  <2>4. GoneStays'
    BY <1>1, <1>2, <1>4, <2>1, Distinct DEF GoneStays
  <2> QED
    BY <2>3, <2>4 DEF Settled
<1>5. CASE Failed(t) /\ UNCHANGED <<slots, actors>>
  <2>1. Handed' /\ Slotted'
    BY <1>1, <1>5, SettledEnd DEF slots, actors
  <2>2. GoneStays'
    BY <1>2, <1>5 DEF GoneStays, actors
  <2> QED
    BY <2>1, <2>2 DEF Settled
<1> QED
  BY <1>3, <1>4, <1>5, SetParentIs

LEMMA AskingSettled ==
  ASSUME Typed, Settled, NEW t \in Tasks, Asking(t)
  PROVE  Settled'
<1> DEFINE i == todo[t][1].item
<1>1. /\ todo[t] # <<>> /\ Asks(todo[t][1]) /\ i \in Items /\ TypeOK
  BY AskingIs DEF Typed
<1>2. /\ ~ Reach(todo[t][1]) /\ GoneStays /\ Final(todo[t][1])
      /\ todo[t][1].do # "child" /\ todo[t][1].do # "set-parent"
  BY <1>1 DEF Reach, Settled, Asks, Final
<1>3. t = "cmd"
  BY <1>1, NextStep, TasksAre DEF Fits, EvtDos, Asks
<1>4. CASE place[i] # Gone /\ Proposed(t, i)
  <2>1. Ended(t) /\ UNCHANGED <<slots, place>> /\ want' = [want EXCEPT ![i] = Me]
    BY <1>4 DEF Proposed
  <2>2. todo'["cmd"] = <<>>
    BY <1>1, <1>2, <1>3, <2>1, FinalPops DEF Ended
  <2>3. Handed' /\ Slotted'
    BY <1>1, <1>2, <2>1, <2>2, SettledEnd DEF slots
  <2>4. GoneStays'
    BY <1>1, <1>2, <1>4, <2>1 DEF GoneStays, TypeOK
  <2> QED
    BY <2>3, <2>4 DEF Settled
<1>5. CASE (Ended(t) \/ Failed(t)) /\ UNCHANGED <<slots, actors>>
  BY <1>1, <1>2, <1>5, PlainSettled DEF actors
<1> QED
  BY <1>4, <1>5, AskingIs

LEMMA PutInSettled ==
  ASSUME Typed, Settled, NEW t \in Tasks, PutIn(t)
  PROVE  Settled'
<1> DEFINE i == todo[t][1].item
<1>1. /\ todo[t] # <<>> /\ todo[t][1].do = "put" /\ i \in Items /\ TypeOK
  BY PutInIs DEF Typed
<1>2. /\ ~ Reach(todo[t][1]) /\ GoneStays
      /\ todo[t][1].do # "child" /\ todo[t][1].do # "set-parent"
  BY <1>1 DEF Reach, Settled
<1>3. ASSUME NEW c \in Chests \cup {None}, place[i] # Gone, Ended(t),
             UNCHANGED <<slots, place, mail, history>>, want' = [want EXCEPT ![i] = c]
      PROVE  Settled'
  <2>1. c # Me
    BY Distinct
  <2>2. \A j \in Items : want[j] # Me => want'[j] # Me
    BY <1>1, <1>3, <2>1 DEF TypeOK
  <2>3. Handed' /\ Slotted'
    BY <1>1, <1>2, <1>3, <2>2, SettledEnd DEF slots
  <2>4. GoneStays'
    BY <1>1, <1>2, <1>3 DEF GoneStays, TypeOK
  <2> QED
    BY <2>3, <2>4 DEF Settled
<1>4. CASE Failed(t) /\ UNCHANGED <<slots, actors>>
  BY <1>1, <1>2, <1>4, PlainSettled DEF actors
<1> QED
  BY <1>3, <1>4, PutInIs

LEMMA ChildSettled ==
  ASSUME Typed, Settled, NEW t \in Tasks, Child(t)
  PROVE  Settled'
<1>0. PICK i : i = todo[t][1].item
  OBVIOUS
<1>1. /\ todo[t] # <<>> /\ todo[t][1].do = "child" /\ i \in Items /\ TypeOK
  BY <1>0, ChildIs DEF Typed
<1>2. ~ Reach(todo[t][1]) /\ GoneStays
  BY <1>1 DEF Reach, Settled
<1>3. CASE /\ place[i] # Gone /\ want[i] = Me /\ Ended(t)
           /\ place' = [place EXCEPT ![i] = Me] /\ want' = [want EXCEPT ![i] = None]
           /\ UNCHANGED slots
  <2>1. \A j \in Items : want[j] # Me => want'[j] # Me
    BY <1>1, <1>3, Distinct DEF TypeOK
  <2>2. Handed' /\ Slotted'
    BY <1>0, <1>1, <1>2, <1>3, <2>1, SettledEnd DEF slots
  <2>3. GoneStays'
    BY <1>1, <1>2, <1>3, Distinct DEF GoneStays, TypeOK
  <2> QED
    BY <2>2, <2>3 DEF Settled
<1>4. CASE Failed(t) /\ UNCHANGED <<slots, actors>>
  <2>1. Handed' /\ Slotted'
    BY <1>0, <1>1, <1>4, SettledEnd DEF slots, actors
  <2>2. GoneStays'
    BY <1>2, <1>4 DEF GoneStays, actors
  <2> QED
    BY <2>1, <2>2 DEF Settled
<1>5. \/ /\ place[i] # Gone /\ want[i] = Me /\ Ended(t)
         /\ place' = [place EXCEPT ![i] = Me] /\ want' = [want EXCEPT ![i] = None]
         /\ UNCHANGED slots
      \/ Failed(t) /\ UNCHANGED <<slots, actors>>
  BY <1>0, ChildIs
<1> QED
  BY <1>3, <1>4, <1>5

LEMMA CreateSettled ==
  ASSUME Typed, Settled, NEW t \in Tasks, Create(t)
  PROVE  Settled'
<1>1. todo[t] # <<>> /\ todo[t][1].do = "forge" /\ TypeOK
  BY CreateIs DEF Typed
<1>2. /\ ~ Reach(todo[t][1]) /\ GoneStays /\ Final(todo[t][1])
      /\ todo[t][1].do # "child" /\ todo[t][1].do # "set-parent"
  BY <1>1 DEF Reach, Settled, Final
<1>3. t = "cmd"
  BY <1>1, NextStep, TasksAre DEF Fits, EvtDos
<1>4. ASSUME NEW i \in Items, Ended(t), UNCHANGED slots,
             place' = [place EXCEPT ![i] = Me], want' = [want EXCEPT ![i] = Me]
      PROVE  Settled'
  <2>1. todo'["cmd"] = <<>>
    BY <1>1, <1>2, <1>3, <1>4, FinalPops DEF Ended
  <2>2. Handed' /\ Slotted'
    BY <1>1, <1>2, <1>4, <2>1, SettledEnd DEF slots
  <2>3. GoneStays'
    BY <1>1, <1>2, <1>4, Distinct DEF GoneStays, TypeOK
  <2> QED
    BY <2>2, <2>3 DEF Settled
<1>5. CASE Failed(t) /\ UNCHANGED <<slots, actors>>
  BY <1>1, <1>2, <1>5, PlainSettled DEF actors
<1> QED
  BY <1>4, <1>5, CreateIs

LEMMA DestroySettled ==
  ASSUME Typed, Settled, NEW t \in Tasks, Destroy(t)
  PROVE  Settled'
<1> DEFINE i == todo[t][1].item
<1>1. /\ todo[t] # <<>> /\ todo[t][1].do = "recycle" /\ i \in Items /\ TypeOK
  BY DestroyIs DEF Typed
<1>2. /\ ~ Reach(todo[t][1]) /\ GoneStays
      /\ todo[t][1].do # "child" /\ todo[t][1].do # "set-parent"
  BY <1>1 DEF Reach, Settled
<1>3. CASE /\ Ended(t) /\ UNCHANGED slots
           /\ place' = [place EXCEPT ![i] = Gone] /\ want' = [want EXCEPT ![i] = None]
  <2>1. \A j \in Items : want[j] # Me => want'[j] # Me
    BY <1>1, <1>3, Distinct DEF TypeOK
  <2>2. Handed' /\ Slotted'
    BY <1>1, <1>2, <1>3, <2>1, SettledEnd DEF slots
  <2>3. GoneStays'
    BY <1>1, <1>2, <1>3 DEF GoneStays, TypeOK
  <2> QED
    BY <2>2, <2>3 DEF Settled
<1>4. CASE Failed(t) /\ UNCHANGED <<slots, actors>>
  BY <1>1, <1>2, <1>4, PlainSettled DEF actors
<1> QED
  BY <1>3, <1>4, DestroyIs

LEMMA UnbookSettled ==
  ASSUME Typed, Settled, NEW t \in Tasks, Unbook(t)
  PROVE  Settled'
<1> DEFINE i == todo[t][1].item
<1>1. /\ todo[t] # <<>> /\ todo[t][1].do = "unbook" /\ i \in Items /\ Ended(t)
      /\ inv' = IF inv = i THEN None ELSE inv
      /\ UNCHANGED <<held, inv_entry, cmds, actors, history>>
  BY UnbookIs
<1>2. /\ ~ Reach(todo[t][1]) /\ GoneStays /\ Final(todo[t][1])
      /\ todo[t][1].do # "child" /\ todo[t][1].do # "set-parent"
  BY <1>1 DEF Reach, Settled, Final
<1>3. todo'[t] = <<>>
  BY <1>1, <1>2, FinalPops DEF Ended
<1>4. Handed' /\ Slotted'
  BY <1>1, <1>2, <1>3, SettledEnd DEF actors
<1>5. GoneStays'
  BY <1>1, <1>2 DEF GoneStays, actors
<1> QED
  BY <1>4, <1>5 DEF Settled

LEMMA AcceptSettled ==
  ASSUME Typed, Settled, NEW t \in Tasks, Accept(t)
  PROVE  Settled'
<1> DEFINE i == todo[t][1].item
<1>1. /\ todo[t] # <<>> /\ todo[t][1].do = "accept" /\ i \in Items /\ t = "evt" /\ Ended(t)
      /\ UNCHANGED <<inv, cmds, actors, history>>
      /\ \/ i = inv /\ inv_entry' = i /\ UNCHANGED held
         \/ i # inv /\ held' = i /\ UNCHANGED inv_entry
  BY AcceptIs
<1>2. /\ ~ Reach(todo[t][1]) /\ GoneStays /\ Final(todo[t][1])
      /\ todo[t][1].do # "child" /\ todo[t][1].do # "set-parent"
  BY <1>1 DEF Reach, Settled, Final
<1>3. todo'["evt"] = <<>>
  BY <1>1, <1>2, FinalPops DEF Ended
<1>4. Handed'
  BY <1>1, <1>2, SettledEnd DEF actors
<1>5. InventoryNotHeld' /\ EntryFollows'
  BY <1>1 DEF Settled, Slotted, InventoryNotHeld, EntryFollows
<1>6. BookedFree'
  BY <1>3, NoTask DEF BookedFree
<1>7. GoneStays'
  BY <1>1, <1>2 DEF GoneStays, actors
<1> QED
  BY <1>4, <1>5, <1>6, <1>7 DEF Settled, Slotted

LEMMA ClearHandSettled ==
  ASSUME Typed, Settled, NEW t \in Tasks, ClearHandStep(t)
  PROVE  Settled'
<1>1. /\ todo[t] # <<>> /\ todo[t][1].do = "clear-hand"
      /\ \/ held \in Items /\ Goes(t, Relocate(held))
         \/ Pops(t)
      /\ UNCHANGED <<slots, flags, cmds, actors, history>>
  BY ClearHandIs DEF ClearHandStep
<1>2. /\ ~ Reach(todo[t][1]) /\ todo[t][1].do # "child" /\ todo[t][1].do # "set-parent"
  BY <1>1 DEF Reach
<1>3. t = "cmd"
  BY <1>1, NextStep, TasksAre DEF Fits, EvtDos
<1>4. CASE Pops(t)
  BY <1>1, <1>2, <1>4, PlainSettled DEF Ended, actors
<1>5. CASE held \in Items /\ Goes(t, Relocate(held))
  <2> DEFINE a == Step("room-drop", held)
             b == Step("set-parent", held)
             n == Relocate(held)
  <2>1. a.do = "room-drop" /\ b.do = "set-parent" /\ n = <<a, b>>
    BY <1>5, RelocateIs, StepIs DEF Dos
  <2> HIDE DEF a, b
  <2>2. Len(n) = 2 /\ n[1] = a /\ n[2] = b /\ Goes("cmd", n)
    BY <1>3, <1>5, <2>1
  <2> HIDE DEF n
  <2>3. \A k \in 1 .. Len(n) : ~ Reach(n[k])
    <3>1. \A k \in 1 .. Len(n) : k = 1 \/ k = 2
      BY <2>2
    <3> QED
      BY <2>1, <2>2, <3>1 DEF Reach
  <2>4. n[1].do # "arm" /\ Len(n) >= 1 /\ UNCHANGED <<want, inv>>
    BY <1>1, <2>1, <2>2 DEF slots, actors
  <2>5. \A i \in Items : Steady(i)
    BY <1>1, <1>2, <1>3, <2>2, <2>3, <2>4, SteadyGoes
  <2>6. Handed' /\ Slotted'
    BY <1>1, <2>5, StillHanded, SteadySlotted DEF Settled, slots, flags
  <2>7. GoneStays'
    BY <1>1 DEF Settled, GoneStays, actors
  <2> QED
    BY <2>6, <2>7 DEF Settled
<1> QED
  BY <1>1, <1>4, <1>5

\* Something leaves the inventory for the hand.
LEMMA InHandSettled ==
  ASSUME Typed, Settled, todo["cmd"] # <<>>, Reach(todo["cmd"][1]), NEW j \in Items,
         Pops("cmd") \/ Goes("cmd", Relocate(j)),
         held' = j, inv' = None, inv_entry' = None, UNCHANGED <<flags, actors>>,
         \A i \in Items : Has("evt", "booked", i) => i # j
  PROVE  Settled'
<1>1. UNCHANGED <<want, place, equip_pending>>
  BY DEF actors, flags
<1>2. \A i \in Items : Steady(i) /\ ~ Reaching(i)'
  BY <1>1, SteadyInHand
<1>3. Handed'
  BY <1>1, <1>2, StillHanded DEF Settled
<1>4. InventoryNotHeld' /\ EntryFollows'
  BY Distinct DEF InventoryNotHeld, EntryFollows
<1>5. \A i \in Items : Has("evt", "booked", i)' => Has("evt", "booked", i)
  BY <1>2 DEF Steady
<1>6. BookedFree'
  BY <1>2, <1>5, Distinct DEF BookedFree
<1>7. GoneStays'
  BY <1>1 DEF Settled, GoneStays
<1> QED
  BY <1>3, <1>4, <1>6, <1>7 DEF Settled, Slotted

LEMMA ToHandSettled ==
  ASSUME Typed, Settled, NEW t \in Tasks, ToHand(t)
  PROVE  Settled'
<1>1. /\ todo[t] # <<>> /\ todo[t][1].do = "to-hand" /\ Reach(todo[t][1])
      /\ UNCHANGED <<flags, actors>>
  BY ToHandIs DEF Reach
<1>2. t = "cmd"
  BY <1>1, NextStep, TasksAre DEF Fits, EvtDos
<1>3. CASE inv_entry # None
  <2>1. /\ inv_entry \in Items
        /\ held' = inv_entry /\ inv' = None /\ inv_entry' = None
        /\ Pops("cmd") \/ Goes("cmd", Relocate(inv_entry))
    BY <1>2, <1>3, ToHandIs, Distinct
  <2>2. \A i \in Items : Has("evt", "booked", i) => i # inv_entry
    BY DEF Settled, Slotted, BookedFree
  <2> QED
    BY <1>1, <1>2, <2>1, <2>2, InHandSettled
<1>4. CASE inv_entry = None
  <2>1. UNCHANGED slots
    BY <1>4, ToHandIs
  <2>2. PICK z \in Steps : /\ Goes("cmd", <<z>>) /\ z.do = "name?"
                           /\ z.item = todo["cmd"][1].item
    BY <1>2, <1>4, ToHandIs
  <2>3. \A i \in Items : Steady(i)
    BY <1>1, <1>2, <2>1, <2>2, SteadyName DEF slots, actors
  <2>4. Handed' /\ Slotted'
    BY <1>1, <2>1, <2>3, StillHanded, SteadySlotted DEF Settled, slots, flags
  <2>5. GoneStays'
    BY <1>1 DEF Settled, GoneStays, actors
  <2> QED
    BY <2>4, <2>5 DEF Settled
<1> QED
  BY <1>3, <1>4

LEMMA NameSettled ==
  ASSUME Typed, Settled, NEW t \in Tasks, Name(t)
  PROVE  Settled'
<1> DEFINE j == todo[t][1].item
<1>1. /\ todo[t] # <<>> /\ todo[t][1].do = "name?" /\ Reach(todo[t][1]) /\ j \in Items
      /\ UNCHANGED <<flags, actors>>
      /\ held' = j /\ inv' = None /\ inv_entry' = None
      /\ Pops(t) \/ Goes(t, Relocate(j))
  BY NameStepIs DEF Reach
<1>2. t = "cmd"
  BY <1>1, NextStep, TasksAre DEF Fits, EvtDos
<1>3. Reaching(j)
  <2>1. 1 \in 1 .. Len(todo["cmd"])
    BY <1>1, <1>2, NowIs DEF Typed
  <2> QED
    BY <1>1, <1>2, <2>1 DEF Reaching, Has
<1>4. \A i \in Items : Has("evt", "booked", i) => i # j
  BY <1>3 DEF Settled, Slotted, BookedFree
<1> HIDE DEF j
<1> QED
  BY <1>1, <1>2, <1>4, InHandSettled

LEMMA BookedSettled ==
  ASSUME Typed, Settled, NEW t \in Tasks, Booked(t)
  PROVE  Settled'
<1> DEFINE j == todo[t][1].item
<1>1. /\ todo[t] # <<>> /\ todo[t][1].do = "booked" /\ j \in Items /\ t = "evt" /\ Ended(t)
      /\ inv_entry' = j /\ inv' = j /\ UNCHANGED <<held, cmds, actors, history>>
  BY BookedIs
<1>2. Final(todo[t][1]) /\ Pops(t) /\ UNCHANGED flags
  BY <1>1 DEF Final, Ended
<1>3. todo'["evt"] = <<>> /\ todo'["cmd"] = todo["cmd"]
  BY <1>1, <1>2, FinalPops, TasksAre DEF Pops
<1>4. 1 \in 1 .. Len(todo["evt"]) /\ Has("evt", "booked", j) /\ TypeOK
  BY <1>1, NowIs DEF Has, Typed
<1>5. Booking /\ ~ Booking'
  BY <1>1, <1>3, <1>4, NoTask DEF Booking
<1>6. j # held
  BY <1>1, <1>4 DEF Settled, Slotted, BookedFree
<1>7. InventoryNotHeld' /\ EntryFollows' /\ BookedFree'
  BY <1>1, <1>3, <1>6, NoTask DEF InventoryNotHeld, EntryFollows, BookedFree
<1>8. ASSUME NEW i \in Items, Reaching(i)'
      PROVE  Reached(i)'
  <2>1. Reached(i)
    BY <1>3, <1>8, SameReach DEF Settled, Handed
  <2>2. ~ Has("evt", "set-parent", i)
    <3>1. Len(todo["evt"]) = 1
      BY <1>1, <1>2, FinalAlone
    <3> QED
      BY <1>1, <3>1 DEF Has
  <2>3. equip_pending' = i => want'[i] # Me
    BY <1>1, <1>2, <1>5, <2>1, <2>2 DEF Reached, Unproposed, flags, actors
  <2> QED
    BY <1>3, <1>5, <2>3, NoTask DEF Reached
<1>9. Handed'
  BY <1>5, <1>8 DEF Handed
<1>10. GoneStays'
  BY <1>1 DEF Settled, GoneStays, actors
<1> QED
  BY <1>7, <1>9, <1>10 DEF Settled, Slotted

LEMMA BookSettled ==
  ASSUME Typed, Settled, NEW t \in Tasks, Book(t)
  PROVE  Settled'
<1>0. PICK j : j = todo[t][1].item
  OBVIOUS
<1>1. /\ todo[t] # <<>> /\ todo[t][1].do = "book" /\ j \in Chests /\ j \in Items
      /\ equip_pending' = None /\ held' = IF held = j THEN None ELSE held
      /\ UNCHANGED <<drop_pending, cmds, actors, history>>
      /\ \/ inv \in {None, j} /\ inv' = j /\ inv_entry' = j /\ Pops(t)
         \/ /\ inv \notin {None, j} /\ inv \in Items /\ UNCHANGED <<inv, inv_entry>>
            /\ Goes(t, <<Step("room-drop", inv), Step("set-parent", inv),
                         Step("booked", j)>>)
  BY <1>0, BookIs
<1>2. t = "evt" /\ TypeOK
  BY <1>1, NextStep, TasksAre DEF Fits, CmdDos, Typed
<1>3. At("evt", "book", j)
  BY <1>0, <1>1, <1>2 DEF At
<1>4. GoneStays'
  BY <1>1 DEF Settled, GoneStays, actors
<1>5. \A i \in Items : equip_pending' # i
  BY <1>1, Distinct
<1>6. CASE inv \in {None, j} /\ inv' = j /\ inv_entry' = j /\ Pops(t)
  <2>1. todo'["evt"] = <<>>
    BY <1>1, <1>2, <1>6, FinalPops DEF Final
  <2>2. ~ Booking'
    BY <2>1, NoTask DEF Booking
  <2>3. Handed'
    BY <1>5, <2>1, <2>2, NoTask DEF Handed, Reached
  <2>4. Slotted'
    BY <1>1, <1>6, <2>1, NoTask DEF Slotted, InventoryNotHeld, EntryFollows, BookedFree
  <2> QED
    BY <1>4, <2>3, <2>4 DEF Settled
<1>7. CASE /\ inv \notin {None, j} /\ inv \in Items /\ UNCHANGED <<inv, inv_entry>>
           /\ Goes(t, <<Step("room-drop", inv), Step("set-parent", inv), Step("booked", j)>>)
  <2> DEFINE a == Step("room-drop", inv)
             b == Step("set-parent", inv)
             x == Step("booked", j)
             n == <<a, b, x>>
  <2>1. /\ a.do = "room-drop" /\ a.item = inv
        /\ b.do = "set-parent" /\ b.item = inv
        /\ x.do = "booked" /\ x.item = j
    BY <1>1, <1>7, StepIs DEF Dos
  <2> HIDE DEF a, b, x
  <2>2. Len(n) = 3 /\ n[1] = a /\ n[2] = b /\ n[3] = x /\ Goes("evt", n)
    BY <1>2, <1>7 DEF a, b, x
  <2> HIDE DEF n
  <2>3. \A k \in 1 .. Len(n) : k = 1 \/ k = 2 \/ k = 3
    BY <2>2
  <2>4. todo'["cmd"] = todo["cmd"]
    BY <2>2, TasksAre DEF Goes
  <2>5. ASSUME NEW i \in Items
        PROVE  ~ At("evt", "book", i)' /\ ~ At("evt", "child", i)'
    BY <2>1, <2>2, GoesAt
  <2>6. ASSUME NEW i \in Items, Has("evt", "booked", i)'
        PROVE  i = j
    <3>1. ~ Has("evt", "booked", i)
      <4>1. ~ (Len(todo["evt"]) >= 2)
        <5>1. ~ Follows(todo["evt"][1], todo["evt"][2])
          BY <1>1, <1>2 DEF Follows, Reach
        <5> QED
          BY <1>1, <1>2, <5>1, NextStep
      <4>2. \A k \in 1 .. Len(todo["evt"]) : k = 1
        BY <1>2, <4>1, EmptyIs
      <4> QED
        BY <1>1, <1>2, <4>2 DEF Has
    <3>2. \E k \in 1 .. Len(n) : n[k].do = "booked" /\ n[k].item = i
      BY <2>2, <2>6, <3>1, GoesHas
    <3> QED
      BY <2>1, <2>2, <2>3, <3>2
  <2>7. Has("evt", "set-parent", inv)'
    <3>1. /\ todo'["evt"][2] = b /\ 2 \in 1 .. Len(todo'["evt"])
      BY <2>2 DEF Goes
    <3> QED
      BY <1>7, <2>1, <3>1 DEF Has
  <2>8. Handed'
    BY <1>5, <1>7, <2>5, <2>7 DEF Handed, Reached, Rearmed
  <2>9. j # inv_entry /\ ~ Reaching(j)
    <3>1. j # inv /\ j # None /\ inv # None
      BY <1>1, <1>7, Distinct
    <3>2. inv_entry \in {None, inv}
      BY <3>1 DEF Settled, Slotted, EntryFollows
    <3>3. Reaching(j) => Reached(j)
      BY <1>1 DEF Settled, Handed
    <3>4. Reached(j) => inv \in {None, j}
      BY <1>3 DEF Reached
    <3> QED
      BY <3>1, <3>2, <3>3, <3>4
  <2>10. ~ Reaching(j)'
    BY <2>4, <2>9, SameReach
  <2>11. BookedFree'
    BY <1>1, <1>7, <2>6, <2>9, <2>10, Distinct DEF BookedFree
  <2>12. InventoryNotHeld' /\ EntryFollows'
    BY <1>1, <1>7 DEF Settled, Slotted, InventoryNotHeld, EntryFollows
  <2> QED
    BY <1>4, <2>8, <2>11, <2>12 DEF Settled, Slotted
<1> QED
  BY <1>1, <1>6, <1>7

LEMMA ArmSettled ==
  ASSUME Typed, Settled, NEW t \in Tasks, Arm(t)
  PROVE  Settled'
<1> DEFINE j == todo[t][1].item
           a == Step("room-drop", held)
           b == Step("set-parent", held)
           x == Unequipping(j)
<1>1. /\ todo[t] # <<>> /\ todo[t][1].do = "arm" /\ j \in Items /\ TypeOK
      /\ UNCHANGED <<slots, drop_pending, cmds, actors, history>>
      /\ \/ Gets(t, <<>>) /\ UNCHANGED equip_pending
         \/ /\ equip_pending' = j /\ j \in Chests
            /\ \/ inv # None /\ held \in Items /\ Goes(t, <<a, b, x>>)
               \/ inv # None /\ Goes(t, <<x>>)
               \/ inv = None /\ Pops(t)
               \/ inv = None /\ held \in Items /\ Goes(t, Relocate(held))
  BY ArmIs DEF Typed
<1>2. t = "cmd"
  BY <1>1, NextStep, TasksAre DEF Fits, EvtDos
<1>3. GoneStays'
  BY <1>1 DEF Settled, GoneStays, actors
<1>4. todo'["evt"] = todo["evt"] /\ UNCHANGED <<held, inv, inv_entry, want>>
  BY <1>1, <1>2, TasksAre DEF Gets, Goes, Pops, slots, actors
<1>5. \A i \in Items : \A do : /\ Has("evt", do, i)' <=> Has("evt", do, i)
                               /\ At("evt", do, i)' <=> At("evt", do, i)
  BY <1>4, SameTask
<1>6. Booking' <=> Booking
  BY <1>5 DEF Booking
\* An armed command does not unequip anything but what it adds now.
<1>7. /\ Len(todo["cmd"]) \in Nat /\ Len(todo["cmd"]) >= 2
      /\ \A k \in 1 .. Len(todo["cmd"]) : ~ Reach(todo["cmd"][k])
  <2>0. Chain("cmd", todo["cmd"]) /\ Len(todo["cmd"]) \in Nat /\ Len(todo["cmd"]) >= 1
    BY <1>1, <1>2, TasksAre, NextStep DEF Typed, Shape
  <2>1. ~ Ends(todo["cmd"][1])
    BY <1>1, <1>2 DEF Ends, Final, Reach
  <2>2. Len(todo["cmd"]) # 1
    BY <1>1, <1>2, <2>1, NextStep
  <2>3. Len(todo["cmd"]) >= 2
    BY <2>0, <2>2, AtLeastTwo
  <2>4. Follows(todo["cmd"][1], todo["cmd"][2])
    BY <1>1, <1>2, <2>3, NextStep
  <2>5. Asks(todo["cmd"][2])
    BY <1>1, <1>2, <2>4 DEF Follows
  <2>6. ~ Follows(todo["cmd"][2], todo["cmd"][2 + 1])
    BY <2>5 DEF Follows, Asks, Reach
  <2>7. 2 \in 1 .. Len(todo["cmd"])
    BY <2>0, <2>3
  <2>8. 2 < Len(todo["cmd"]) => Follows(todo["cmd"][2], todo["cmd"][2 + 1])
    BY <2>0, <2>7 DEF Chain
  <2>9. \A k \in 1 .. Len(todo["cmd"]) : k = 1 \/ k = 2
    BY <2>0, <2>3, <2>6, <2>8
  <2> QED
    BY <1>1, <1>2, <2>0, <2>3, <2>5, <2>9 DEF Asks, Reach
<1>8. \A i \in Items : ~ Reaching(i)
  BY <1>7 DEF Reaching, Has, Reach
<1> HIDE DEF j
<1>9. ASSUME inv # None, j \in Chests
      PROVE  x.do = "to-hand" /\ x.item = inv /\ inv \in Chests
  <2>1. inv \in Chests /\ inv \in Items
    BY <1>1, <1>9, Distinct DEF TypeOK
  <2> QED
    BY <1>9, <2>1, StepAtIs DEF Unequipping, Dos
<1>10. ASSUME held \in Items
       PROVE  a.do = "room-drop" /\ b.do = "set-parent"
  BY <1>10, StepIs DEF Dos
<1>11. ASSUME NEW new, Goes("cmd", new), Len(new) \in 1 .. 3,
              \A k \in 1 .. Len(new) : \/ ~ Reach(new[k])
                                       \/ inv # None /\ new[k].item = inv,
              new[1].do # "arm", equip_pending' = j,
              inv # None => Reach(new[Len(new)]) /\ new[Len(new)].item = inv
       PROVE  Settled'
  <2>1. \A i \in Items : Reaching(i)' => inv = i
    <3> SUFFICES ASSUME NEW i \in Items, Reaching(i)'
                 PROVE  inv = i
      OBVIOUS
    <3>1. PICK do \in {"to-hand", "name?"} : Has("cmd", do, i)'
      BY DEF Reaching
    <3>2. ~ Has("cmd", do, i)
      BY <1>8 DEF Reaching
    <3>3. PICK k \in 1 .. Len(new) : new[k].do = do /\ new[k].item = i
      BY <1>11, <3>1, <3>2, GoesHas
    <3> QED
      BY <1>11, <3>3 DEF Reach
  <2>2. \A i \in Items : ~ At("cmd", "arm", i)'
    BY <1>11, GoesAt
  <2>3. inv # None => ReachingFirst(inv)'
    <3> SUFFICES ASSUME inv # None
                 PROVE  ReachingFirst(inv)'
      OBVIOUS
    <3>1. /\ Len(todo'["cmd"]) = Len(new) + Len(todo["cmd"]) - 1
          /\ todo'["cmd"][Len(new)] = new[Len(new)]
      BY <1>11 DEF Goes
    <3>2. Len(new) \in 1 .. Len(todo'["cmd"]) /\ Len(new) < Len(todo'["cmd"])
      BY <1>7, <1>11, <3>1
    <3>3. Reach(todo'["cmd"][Len(new)]) /\ todo'["cmd"][Len(new)].item = inv
      BY <1>11, <3>1
    <3> QED
      BY <1>4, <3>2, <3>3 DEF ReachingFirst, Reach
  <2>4. ASSUME NEW i \in Items, Reaching(i)'
        PROVE  Reached(i)'
    <3>1. inv' = i /\ inv = i
      BY <1>4, <2>1, <2>4
    <3>2. ASSUME equip_pending' = i, Booking'
          PROVE  Has("evt", "set-parent", i)' \/ want'[i] # Me
      <4>1. j = i /\ Booking /\ At("cmd", "arm", i)
        BY <1>1, <1>2, <1>6, <1>11, <3>2 DEF At, j
      <4>2. Rearmed(i)
        BY <3>1, <4>1 DEF Settled, Handed
      <4> QED
        BY <1>4, <1>5, <4>1, <4>2 DEF Rearmed
    <3> QED
      BY <3>1, <3>2 DEF Reached, Unproposed
  <2>5. ASSUME NEW i \in Items, Booking', inv' = i
        PROVE  Rearmed(i)'
    BY <1>4, <2>2, <2>3, <2>5, Distinct DEF Rearmed
  <2>6. Handed'
    BY <2>4, <2>5 DEF Handed
  <2>7. \A i \in Items : Has("evt", "booked", i)' => Has("evt", "booked", i) /\ ~ Reaching(i)'
    BY <1>5, <2>1 DEF Settled, Slotted, BookedFree
  <2>8. Slotted'
    BY <1>4, <2>7, StillSlotted DEF Settled
  <2> QED
    BY <1>3, <2>6, <2>8 DEF Settled
<1>12. CASE Gets(t, <<>>) /\ UNCHANGED equip_pending
  <2>1. todo'["cmd"] = <<>>
    BY <1>2, <1>12 DEF Gets
  <2>2. \A i \in Items : ~ ReachingFirst(i)
    BY <1>7 DEF ReachingFirst
  <2>3. \A i \in Items : Steady(i)
    BY <1>4, <1>5, <2>1, <2>2, NoReach, NoTask DEF Steady
  <2>4. Handed' /\ Slotted'
    BY <1>4, <1>12, <2>3, StillHanded, SteadySlotted DEF Settled
  <2> QED
    BY <1>3, <2>4 DEF Settled
<1>13. CASE equip_pending' = j /\ inv # None /\ j \in Chests /\ held \in Items /\ Goes(t, <<a, b, x>>)
  <2> DEFINE n == <<a, b, x>>
  <2>0. a.do = "room-drop" /\ b.do = "set-parent" /\ x.do = "to-hand" /\ x.item = inv
    BY <1>9, <1>10, <1>13
  <2> HIDE DEF a, b, x
  <2>1. Len(n) = 3 /\ n[1] = a /\ n[2] = b /\ n[3] = x /\ Goes("cmd", n)
    BY <1>2, <1>13
  <2> HIDE DEF n
  <2>2. \A k \in 1 .. Len(n) : k = 1 \/ k = 2 \/ k = 3
    BY <2>1
  <2>3. \A k \in 1 .. Len(n) : ~ Reach(n[k]) \/ (inv # None /\ n[k].item = inv)
    BY <1>13, <2>0, <2>1, <2>2 DEF Reach
  <2>4. n[1].do # "arm" /\ Len(n) \in 1 .. 3 /\ Reach(n[Len(n)]) /\ n[Len(n)].item = inv
    BY <2>0, <2>1 DEF Reach
  <2> QED
    BY <1>11, <1>13, <2>1, <2>3, <2>4
<1>14. CASE equip_pending' = j /\ inv # None /\ j \in Chests /\ Goes(t, <<x>>)
  <2> DEFINE n == <<x>>
  <2>0. x.do = "to-hand" /\ x.item = inv
    BY <1>9, <1>14
  <2> HIDE DEF x
  <2>1. Len(n) = 1 /\ n[1] = x /\ Goes("cmd", n)
    BY <1>2, <1>14
  <2> HIDE DEF n
  <2>3. \A k \in 1 .. Len(n) : ~ Reach(n[k]) \/ (inv # None /\ n[k].item = inv)
    BY <1>14, <2>0, <2>1 DEF Reach
  <2>4. n[1].do # "arm" /\ Len(n) \in 1 .. 3 /\ Reach(n[Len(n)]) /\ n[Len(n)].item = inv
    BY <2>0, <2>1 DEF Reach
  <2> QED
    BY <1>11, <1>14, <2>1, <2>3, <2>4
<1>15. CASE equip_pending' = j /\ inv = None /\ Pops(t)
  <2>1. \A i \in Items : ~ Reaching(i)'
    BY <1>2, <1>8, <1>15, PopsHas DEF Reaching
  <2>2. \A i \in Items : inv' # i
    BY <1>4, <1>15, Distinct
  <2>3. Handed'
    BY <2>1, <2>2 DEF Handed
  <2>4. Slotted'
    BY <1>4, <1>5, <2>1, StillSlotted DEF Settled
  <2> QED
    BY <1>3, <2>3, <2>4 DEF Settled
<1>16. CASE equip_pending' = j /\ inv = None /\ held \in Items /\ Goes(t, Relocate(held))
  <2> DEFINE n == Relocate(held)
  <2>0. a.do = "room-drop" /\ b.do = "set-parent" /\ n = <<a, b>>
    BY <1>10, <1>16, RelocateIs
  <2> HIDE DEF a, b
  <2>1. Len(n) = 2 /\ n[1] = a /\ n[2] = b /\ Goes("cmd", n)
    BY <1>2, <1>16, <2>0
  <2> HIDE DEF n
  <2>2. \A k \in 1 .. Len(n) : k = 1 \/ k = 2
    BY <2>1
  <2>3. \A k \in 1 .. Len(n) : ~ Reach(n[k]) \/ (inv # None /\ n[k].item = inv)
    BY <2>0, <2>1, <2>2 DEF Reach
  <2>4. n[1].do # "arm" /\ Len(n) \in 1 .. 3
    BY <2>0, <2>1
  <2> QED
    BY <1>11, <1>16, <2>1, <2>3, <2>4
<1> QED
  BY <1>1, <1>12, <1>13, <1>14, <1>15, <1>16

LEMMA ReactSettled ==
  ASSUME Typed, Settled, NEW j \in Items, React(j)
  PROVE  Settled'
<1>1. /\ todo["evt"] = <<>> /\ UNCHANGED <<inv, inv_entry, want, place, equip_pending>>
      /\ TypeOK
  BY ReactIs DEF Typed, flags
<1>2. GoneStays'
  BY <1>1 DEF Settled, GoneStays
<1>3. \A i \in Items : \A do : ~ Has("evt", do, i) /\ ~ At("evt", do, i)
  <2>1. Len(todo["evt"]) = 0
    BY <1>1
  <2> QED
    BY <1>1, <2>1 DEF Has, At
<1>4. ~ Booking
  BY <1>3 DEF Booking
<1>5. CASE UNCHANGED todo /\ held' \in {held, None}
  <2>1. \A i \in Items : Steady(i)
    BY <1>1, <1>3, <1>5, SameTask, SameReach DEF Steady, Booking
  <2> QED
    BY <1>1, <1>2, <1>5, <2>1, StillHanded, SteadySlotted DEF Settled
<1>6. ASSUME NEW new, Gets("evt", new), UNCHANGED held, Len(new) \in 2 .. 4,
             \A k \in 1 .. Len(new) : /\ new[k].do # "booked"
                                      /\ new[k].do = "book" => equip_pending = j,
             new[1].do = "child" /\ new[1].item = j
      PROVE  Settled'
  <2>1. todo'["evt"] = new /\ todo'["cmd"] = todo["cmd"]
    BY <1>6, TasksAre DEF Gets
  <2>2. \A i \in Items : ~ Has("evt", "booked", i)'
    BY <1>6, <2>1 DEF Has
  <2>3. \A i \in Items : ~ At("evt", "book", i)'
    BY <1>6, <2>1 DEF At
  <2>4. ASSUME NEW i \in Items, At("evt", "child", i)', Has("evt", "book", i)'
        PROVE  equip_pending = i
    <3>1. i = j
      BY <1>6, <2>1, <2>4 DEF At
    <3>2. \E k \in 1 .. Len(new) : new[k].do = "book"
      BY <2>1, <2>4 DEF Has
    <3> QED
      BY <1>6, <3>1, <3>2
  <2>5. ASSUME NEW i \in Items
        PROVE  Steady(i)
    <3>1. (Reaching(i)' <=> Reaching(i)) /\ (ReachingFirst(i)' <=> ReachingFirst(i))
      BY <2>1, SameReach
    <3>2. At("cmd", "arm", i)' <=> At("cmd", "arm", i)
      BY <2>1, SameTask
    <3> QED
      BY <1>1, <1>3, <1>4, <2>2, <2>3, <2>4, <3>1, <3>2 DEF Steady
  <2> QED
    BY <1>1, <1>2, <1>6, <2>5, StillHanded, SteadySlotted DEF Settled
<1> DEFINE y == Step("child", j)
           p == Step("book", j)
           q == Step("accept", j)
           a == Step("room-drop", j)
           b == Step("set-parent", j)
<1>7. \/ UNCHANGED todo /\ held' \in {held, None}
      \/ UNCHANGED held /\ equip_pending = j /\ Gets("evt", <<y, p>>)
      \/ /\ UNCHANGED held
         /\ \E z \in Steps : z.do = "unbook" /\ z.item = j /\ Gets("evt", <<y, a, b, z>>)
      \/ UNCHANGED held /\ Gets("evt", <<y, q>>)
  BY ReactIs
<1>8. /\ y.do = "child" /\ y.item = j /\ p.do = "book" /\ q.do = "accept"
      /\ a.do = "room-drop" /\ b.do = "set-parent"
  BY StepIs DEF Dos
<1> HIDE DEF y, p, q, a, b
<1>9. CASE UNCHANGED held /\ equip_pending = j /\ Gets("evt", <<y, p>>)
  <2> DEFINE n == <<y, p>>
  <2>1. Len(n) = 2 /\ n[1] = y /\ n[2] = p /\ Gets("evt", n)
    BY <1>9
  <2> HIDE DEF n
  <2>2. \A k \in 1 .. Len(n) : k = 1 \/ k = 2
    BY <2>1
  <2>3. \A k \in 1 .. Len(n) : /\ n[k].do # "booked"
                               /\ n[k].do = "book" => equip_pending = j
    BY <1>8, <1>9, <2>1, <2>2
  <2>4. Len(n) \in 2 .. 4 /\ n[1].do = "child" /\ n[1].item = j
    BY <1>8, <2>1
  <2> QED
    BY <1>6, <1>9, <2>1, <2>3, <2>4
<1>10. ASSUME NEW z \in Steps, z.do = "unbook", Gets("evt", <<y, a, b, z>>), UNCHANGED held
       PROVE  Settled'
  <2> DEFINE n == <<y, a, b, z>>
  <2>1. Len(n) = 4 /\ n[1] = y /\ n[2] = a /\ n[3] = b /\ n[4] = z /\ Gets("evt", n)
    BY <1>10
  <2> HIDE DEF n
  <2>2. \A k \in 1 .. Len(n) : k = 1 \/ k = 2 \/ k = 3 \/ k = 4
    BY <2>1
  <2>3. \A k \in 1 .. Len(n) : /\ n[k].do # "booked"
                               /\ n[k].do = "book" => equip_pending = j
    BY <1>8, <1>10, <2>1, <2>2
  <2>4. Len(n) \in 2 .. 4 /\ n[1].do = "child" /\ n[1].item = j
    BY <1>8, <2>1
  <2> QED
    BY <1>6, <1>10, <2>1, <2>3, <2>4
<1>11. CASE UNCHANGED held /\ Gets("evt", <<y, q>>)
  <2> DEFINE n == <<y, q>>
  <2>1. Len(n) = 2 /\ n[1] = y /\ n[2] = q /\ Gets("evt", n)
    BY <1>11
  <2> HIDE DEF n
  <2>2. \A k \in 1 .. Len(n) : k = 1 \/ k = 2
    BY <2>1
  <2>3. \A k \in 1 .. Len(n) : /\ n[k].do # "booked"
                               /\ n[k].do = "book" => equip_pending = j
    BY <1>8, <2>1, <2>2
  <2>4. Len(n) \in 2 .. 4 /\ n[1].do = "child" /\ n[1].item = j
    BY <1>8, <2>1
  <2> QED
    BY <1>6, <1>11, <2>1, <2>3, <2>4
<1> QED
  BY <1>5, <1>7, <1>9, <1>10, <1>11

LEMMA StartSettled ==
  ASSUME Typed, Settled, NEW new, Start(new)
  PROVE  Settled'
<1>1. /\ todo["cmd"] = <<>> /\ Gets("cmd", new) /\ Len(new) >= 1
      /\ \A k \in 1 .. Len(new) : Reach(new[k]) => inv # None /\ new[k].item = inv
      /\ new[1].do = "arm" => new[1].item # inv
      /\ equip_pending' \in {None, equip_pending}
      /\ UNCHANGED <<held, inv, inv_entry, want, place>>
  BY DEF Start, Starts, slots, actors
<1>2. todo'["cmd"] = new /\ todo'["evt"] = todo["evt"]
  BY <1>1, TasksAre DEF Gets
<1>3. ASSUME NEW i \in Items
      PROVE  Steady(i)
  <2>1. Reaching(i)' => i = inv
    BY <1>1, <1>2 DEF Reaching, Has, Reach
  <2>2. At("cmd", "arm", i)' => i # inv
    BY <1>1, <1>2 DEF At
  <2>3. ~ ReachingFirst(i)
    <3>1. Len(todo["cmd"]) = 0
      BY <1>1
    <3> QED
      BY <3>1 DEF ReachingFirst
  <2>4. \A do : (Has("evt", do, i)' <=> Has("evt", do, i)) /\ (At("evt", do, i)' <=> At("evt", do, i))
    BY <1>2, SameTask
  <2> QED
    BY <1>1, <2>1, <2>2, <2>3, <2>4 DEF Steady
<1>4. Handed'
  BY <1>1, <1>3, StillHanded DEF Settled
<1>5. Slotted'
  <2>1. ASSUME NEW i \in Items, Has("evt", "booked", i)'
        PROVE  Has("evt", "booked", i) /\ ~ Reaching(i)'
    <3>1. Has("evt", "booked", i)
      BY <1>2, <2>1, SameTask
    <3>2. i # inv
      BY <3>1 DEF Settled, Slotted, BookedFree
    <3> QED
      BY <1>1, <1>2, <3>1, <3>2 DEF Reaching, Has, Reach
  <2> QED
    BY <1>1, <2>1, StillSlotted DEF Settled
<1>6. GoneStays'
  BY <1>1 DEF Settled, GoneStays
<1> QED
  BY <1>4, <1>5, <1>6 DEF Settled

LEMMA ReloadSettled ==
  ASSUME Typed, Settled, Reload
  PROVE  Settled'
<1>1. /\ held' = None /\ inv_entry' = None /\ UNCHANGED <<inv, want, place>>
      /\ \A t \in Tasks : todo'[t] = <<>>
  BY DEF Reload, actors
<1>2. todo'["cmd"] = <<>> /\ todo'["evt"] = <<>>
  BY <1>1, TasksAre
<1>3. \A i \in Items : ~ Reaching(i)' /\ ~ Has("evt", "booked", i)'
  BY <1>2, NoReach, NoTask
<1>4. Handed'
  BY <1>3 DEF Handed, Booking
<1>5. Slotted'
  BY <1>1, <1>3 DEF Slotted, InventoryNotHeld, EntryFollows, BookedFree
<1>6. GoneStays'
  BY <1>1 DEF Settled, GoneStays
<1> QED
  BY <1>4, <1>5, <1>6 DEF Settled

LEMMA CommitSettled ==
  ASSUME Typed, Settled, NEW j \in Items, Commit(j)
  PROVE  Settled'
<1>1. /\ TypeOK /\ want' = [want EXCEPT ![j] = None]
      /\ UNCHANGED <<held, inv, inv_entry, equip_pending, todo>>
      /\ place' \in {place, [place EXCEPT ![j] = want[j]]}
  BY CommitIs DEF Typed, slots, flags
<1>2. \A i \in Items : want[i] # Me => want'[i] # Me
  BY <1>1, Distinct DEF TypeOK
<1>3. \A i \in Items : Steady(i)
  BY <1>1, <1>2, SameTask, SameReach DEF Steady, Booking
<1>4. Handed' /\ Slotted'
  BY <1>1, <1>3, StillHanded, SteadySlotted DEF Settled
<1>5. GoneStays'
  BY <1>1 DEF Settled, GoneStays, TypeOK
<1> QED
  BY <1>4, <1>5 DEF Settled

LEMMA TaskSettled ==
  ASSUME Typed, Settled, NEW t \in Tasks, Task(t)
  PROVE  Settled'
<1>1. CASE RoomDrop(t)
  <2>1. /\ todo[t] # <<>> /\ todo[t][1].do = "room-drop" /\ (Ended(t) \/ Failed(t))
        /\ UNCHANGED <<slots, want, place>>
    BY <1>1, RoomDropIs DEF actors
  <2> QED
    BY <2>1, PlainSettled DEF Reach
<1>2. CASE Parent(t)
  <2>1. /\ todo[t] # <<>> /\ todo[t][1].do = "parent?" /\ (Ended(t) \/ Failed(t))
        /\ UNCHANGED <<slots, want, place>>
    BY <1>2, ParentIs DEF actors
  <2> QED
    BY <2>1, PlainSettled DEF Reach
<1> QED
  BY <1>1, <1>2, ClearHandSettled, ArmSettled, ToHandSettled, BookSettled, BookedSettled,
     AcceptSettled, UnbookSettled, SetParentSettled, AskingSettled, PutInSettled,
     ChildSettled, NameSettled, CreateSettled, DestroySettled DEF Task, Asking

LEMMA StepSettled ==
  ASSUME Typed, Settled, [Next]_vars
  PROVE  Settled'
<1>1. CASE UNCHANGED vars
  <2>1. UNCHANGED <<todo, held, inv, inv_entry, want, place, equip_pending>>
    BY <1>1 DEF vars, slots, actors, flags
  <2>2. \A i \in Items : Steady(i)
    BY <2>1, SameTask, SameReach DEF Steady, Booking
  <2>3. GoneStays'
    BY <2>1 DEF Settled, GoneStays
  <2> QED
    BY <2>1, <2>2, <2>3, StillHanded, SteadySlotted DEF Settled
<1>2. CASE User
  BY <1>2, UserIs, StartSettled, ReloadSettled
<1>3. ASSUME NEW t \in Tasks, Task(t)
      PROVE  Settled'
  BY <1>3, TaskSettled
<1>4. ASSUME NEW i \in Items, Commit(i) \/ React(i)
      PROVE  Settled'
  BY <1>4, CommitSettled, ReactSettled
<1> QED
  BY <1>1, <1>2, <1>3, <1>4 DEF Next

LEMMA InitSettled ==
  Init => Settled
<1> SUFFICES ASSUME Init
             PROVE  Settled
  OBVIOUS
<1>1. /\ held = None /\ inv = None /\ inv_entry = None
      /\ \A t \in Tasks : todo[t] = <<>>
      /\ \A i \in Items : want[i] = None
  BY DEF Init
<1>2. todo["cmd"] = <<>> /\ todo["evt"] = <<>> /\ Len(<<>>) = 0
  BY <1>1, TasksAre
<1>3. \A i \in Items : ~ Reaching(i) /\ ~ Has("evt", "booked", i)
  BY <1>2 DEF Reaching, Has
<1>4. Handed
  BY <1>3 DEF Handed, Booking
<1>5. Slotted /\ GoneStays
  BY <1>1, <1>3 DEF Slotted, InventoryNotHeld, EntryFollows, BookedFree, GoneStays
<1> QED
  BY <1>4, <1>5 DEF Settled

\* The equipped inventory and the hand never name the same container, not even
\* while a command or the handler is suspended, whatever the other one does.
\* The invariant says why no suspended unequipping can bring into the hand what
\* the handler is about to book.  (book-inventory!, unequip-to-hand!)
THEOREM InventoryNotHeldHolds == Spec => []InventoryNotHeld
<1>1. Init => Typed /\ Settled
  BY InitTyped, InitSettled
<1>2. Typed /\ Settled /\ [Next]_vars => Typed' /\ Settled'
  BY StepTyped, StepSettled
<1>3. Typed /\ Settled => InventoryNotHeld
  BY DEF Settled, Slotted
<1> QED
  BY <1>1, <1>2, <1>3, PTL DEF Spec

-----------------------------------------------------------------------------
(* What the slots name is the avatar's.                                     *)

\* The avatar has i in a slot, or is about to put it there unasked.
Claimed(i) ==
    \/ i \in {held, inv, inv_entry} \/ Reaching(i)
    \/ At("evt", "book", i) \/ At("evt", "accept", i) \/ Has("evt", "booked", i)

\* A message says that i has left.
Told(i) == \E k \in 1 .. Len(mail[i]) : mail[i][k].parent # Me

Fine(i) == place[i] \in {Me, Gone} \/ i \in stray \/ Told(i)

Grounded == \A i \in Items : Claimed(i) => Fine(i)

\* What every step does but that of hearing that an item has left.
Grounds(i) ==
    /\ Claimed(i)' => Claimed(i) \/ place'[i] = Me
    /\ Fine(i) => Fine(i)'

LEMMA ClaimsFail ==
  ASSUME NEW t \in Tasks, Failed(t), UNCHANGED slots, NEW i
  PROVE  Claimed(i)' => Claimed(i)
<1>1. todo'[t] = <<>> /\ \A u \in Tasks : u # t => todo'[u] = todo[u]
  BY DEF Failed, Gets
<1>2. UNCHANGED <<held, inv, inv_entry>>
  BY DEF slots
<1>3. CASE t = "cmd"
  <2>1. todo'["cmd"] = <<>> /\ todo'["evt"] = todo["evt"]
    BY <1>1, <1>3, TasksAre
  <2> QED
    BY <1>2, <2>1, NoReach, SameTask DEF Claimed
<1>4. CASE t = "evt"
  <2>1. todo'["evt"] = <<>> /\ todo'["cmd"] = todo["cmd"]
    BY <1>1, <1>4, TasksAre
  <2> QED
    BY <1>2, <2>1, NoTask, SameReach DEF Claimed
<1> QED
  BY <1>3, <1>4, TasksAre

LEMMA ClaimsPop ==
  ASSUME Typed, NEW t \in Tasks, todo[t] # <<>>, Pops(t), NEW i,
         i \in {held', inv', inv_entry'} => Claimed(i)
  PROVE  Claimed(i)' => Claimed(i) \/ At(t, "child", i)
<1>1. \A u \in Tasks : u # t => todo'[u] = todo[u]
  BY DEF Pops
<1>2. CASE t = "cmd"
  <2>1. todo'["evt"] = todo["evt"]
    BY <1>1, <1>2, TasksAre
  <2>2. Reaching(i)' => Reaching(i)
    BY <1>2, PopsHas DEF Reaching
  <2> QED
    BY <2>1, <2>2, SameTask DEF Claimed
<1>3. CASE t = "evt"
  <2>1. todo'["cmd"] = todo["cmd"]
    BY <1>1, <1>3, TasksAre
  <2>2. Has("evt", "booked", i)' => Has("evt", "booked", i)
    BY <1>3, PopsHas
  <2>3. ASSUME NEW do \in {"book", "accept"}, At("evt", do, i)'
        PROVE  At(t, "child", i)
    <3>1. Follows(todo["evt"][1], todo'["evt"][1])
      BY <1>3, <2>3, PopsAt
    <3>2. todo'["evt"][1].do \in {"book", "accept"} /\ todo'["evt"][1].item = i
      BY <2>3 DEF At
    <3>3. todo["evt"][1].do = "child" /\ todo["evt"][1].item = i
      BY <3>1, <3>2 DEF Follows, Asks
    <3> QED
      BY <1>3, <3>3 DEF At
  <2>4. Reaching(i)' => Reaching(i)
    BY <2>1, SameReach
  <2> QED
    BY <2>2, <2>3, <2>4 DEF Claimed
<1> QED
  BY <1>2, <1>3, TasksAre

LEMMA ClaimsGo ==
  ASSUME NEW t \in Tasks, NEW new, Goes(t, new), Len(new) >= 1, NEW i,
         i \in {held', inv', inv_entry'} => Claimed(i),
         new[1].do \notin {"book", "accept"},
         \A k \in 1 .. Len(new) :
            (Reach(new[k]) \/ new[k].do = "booked") /\ new[k].item = i => Claimed(i)
  PROVE  Claimed(i)' => Claimed(i)
<1>1. \A u \in Tasks : u # t => todo'[u] = todo[u]
  BY DEF Goes
<1>2. CASE t = "cmd"
  <2>1. todo'["evt"] = todo["evt"]
    BY <1>1, <1>2, TasksAre
  <2>2. ASSUME NEW do \in {"to-hand", "name?"}, Has("cmd", do, i)'
        PROVE  Claimed(i)
    <3>1. \/ \E k \in 1 .. Len(new) : new[k].do = do /\ new[k].item = i
          \/ Has("cmd", do, i)
      BY <1>2, <2>2, GoesHas
    <3> QED
      BY <3>1 DEF Reach, Claimed, Reaching
  <2>3. Reaching(i)' => Claimed(i)
    BY <2>2 DEF Reaching
  <2> QED
    BY <2>1, <2>3, SameTask DEF Claimed
<1>3. CASE t = "evt"
  <2>1. todo'["cmd"] = todo["cmd"]
    BY <1>1, <1>3, TasksAre
  <2>2. Has("evt", "booked", i)' => Claimed(i)
    <3> SUFFICES ASSUME Has("evt", "booked", i)'
                 PROVE  Claimed(i)
      OBVIOUS
    <3>1. \/ \E k \in 1 .. Len(new) : new[k].do = "booked" /\ new[k].item = i
          \/ Has("evt", "booked", i)
      BY <1>3, GoesHas
    <3> QED
      BY <3>1 DEF Claimed
  <2>3. ~ At("evt", "book", i)' /\ ~ At("evt", "accept", i)'
    BY <1>3, GoesAt
  <2>4. Reaching(i)' => Reaching(i)
    BY <2>1, SameReach
  <2> QED
    BY <2>2, <2>3, <2>4 DEF Claimed
<1> QED
  BY <1>2, <1>3, TasksAre

LEMMA FineSame ==
  ASSUME UNCHANGED <<place, mail, stray>>, NEW i
  PROVE  Fine(i) => Fine(i)'
BY DEF Fine, Told

LEMMA ToldSends ==
  ASSUME TypeOK, NEW j \in Items, NEW m \in Messages, Sends(j, m), NEW i \in Items
  PROVE  /\ Told(i) => Told(i)'
         /\ m.parent # Me => Told(j)'
<1>1. \A k \in 1 .. Len(mail[j]) : k \in 1 .. Len(mail'[j]) /\ mail'[j][k] = mail[j][k]
  BY DEF Sends
<1>2. Len(mail'[j]) \in 1 .. Len(mail'[j]) /\ mail'[j][Len(mail'[j])] = m
  BY DEF Sends
<1>3. i # j => mail'[i] = mail[i]
  BY DEF Sends
<1> QED
  BY <1>1, <1>2, <1>3 DEF Told

LEMMA RelocateGrounds ==
  ASSUME NEW t \in Tasks, NEW j \in Items, Goes(t, Relocate(j)),
         UNCHANGED <<place, mail, stray>>,
         \A i \in Items : i \in {held', inv', inv_entry'} => Claimed(i)
  PROVE  \A i \in Items : Grounds(i)
<1> DEFINE a == Step("room-drop", j)
           b == Step("set-parent", j)
           n == Relocate(j)
<1>1. a.do = "room-drop" /\ b.do = "set-parent" /\ n = <<a, b>>
  BY RelocateIs, StepIs DEF Dos
<1> HIDE DEF a, b
<1>2. Len(n) = 2 /\ n[1] = a /\ n[2] = b
  BY <1>1
<1> HIDE DEF n
<1>3. Goes(t, n)
  BY DEF n
<1>4. \A k \in 1 .. Len(n) : k = 1 \/ k = 2
  BY <1>2
<1>5. \A k \in 1 .. Len(n) : ~ (Reach(n[k]) \/ n[k].do = "booked")
  BY <1>1, <1>2, <1>4 DEF Reach
<1>6. n[1].do \notin {"book", "accept"} /\ Len(n) >= 1
  BY <1>1, <1>2
<1> TAKE i \in Items
<1>7. Claimed(i)' => Claimed(i)
  BY <1>3, <1>5, <1>6, ClaimsGo
<1> QED
  BY <1>7, FineSame DEF Grounds

\* A reply that leaves the slots and the items alone.
LEMMA PlainGrounds ==
  ASSUME Typed, NEW t \in Tasks, todo[t] # <<>>, Ended(t) \/ Failed(t),
         todo[t][1].do # "child", UNCHANGED <<slots, place, mail, stray>>
  PROVE  \A i \in Items : Grounds(i)
<1> TAKE i \in Items
<1>1. Fine(i) => Fine(i)'
  BY FineSame
<1>2. ~ At(t, "child", i)
  BY DEF At
<1>3. i \in {held', inv', inv_entry'} => Claimed(i)
  BY DEF slots, Claimed
<1>4. Claimed(i)' => Claimed(i)
  BY <1>2, <1>3, ClaimsFail, ClaimsPop DEF Ended
<1> QED
  BY <1>1, <1>4 DEF Grounds

\* A step that ends, and fills the slots with what is claimed only.
LEMMA SlotGrounds ==
  ASSUME Typed, NEW t \in Tasks, todo[t] # <<>>, Pops(t), todo[t][1].do # "child",
         UNCHANGED <<place, mail, stray>>,
         \A i \in Items : i \in {held', inv', inv_entry'} => Claimed(i)
  PROVE  \A i \in Items : Grounds(i)
<1> TAKE i \in Items
<1>1. Fine(i) => Fine(i)'
  BY FineSame
<1>2. ~ At(t, "child", i)
  BY DEF At
<1>3. Claimed(i)' => Claimed(i)
  BY <1>2, ClaimsPop
<1> QED
  BY <1>1, <1>3 DEF Grounds

LEMMA ClearHandGrounds ==
  ASSUME Typed, NEW t \in Tasks, ClearHandStep(t)
  PROVE  \A i \in Items : Grounds(i)
<1>1. /\ todo[t] # <<>> /\ todo[t][1].do = "clear-hand"
      /\ \/ held \in Items /\ Goes(t, Relocate(held))
         \/ Pops(t)
      /\ UNCHANGED <<slots, flags, cmds, actors, history>>
  BY ClearHandIs DEF ClearHandStep
<1>2. UNCHANGED <<place, mail, stray>> /\ todo[t][1].do # "child"
  BY <1>1 DEF actors, history
<1>3. \A i \in Items : i \in {held', inv', inv_entry'} => Claimed(i)
  BY <1>1 DEF slots, Claimed
<1>4. CASE Pops(t)
  BY <1>1, <1>2, <1>3, <1>4, SlotGrounds
<1>5. CASE held \in Items /\ Goes(t, Relocate(held))
  BY <1>2, <1>3, <1>5, RelocateGrounds
<1> QED
  BY <1>1, <1>4, <1>5

LEMMA ToHandGrounds ==
  ASSUME Typed, NEW t \in Tasks, ToHand(t)
  PROVE  \A i \in Items : Grounds(i)
<1>1. /\ todo[t] # <<>> /\ todo[t][1].do = "to-hand"
      /\ UNCHANGED <<flags, cmds, actors, history>>
      /\ \/ /\ inv_entry # None /\ inv_entry \in Chests
            /\ held' = inv_entry /\ inv' = None /\ inv_entry' = None
            /\ Pops(t) \/ Goes(t, Relocate(inv_entry))
         \/ /\ UNCHANGED slots
            /\ \E z \in Steps : /\ Goes(t, <<z>>) /\ z.do = "name?"
                                /\ z.item = todo[t][1].item
  BY ToHandIs
<1>2. UNCHANGED <<place, mail, stray>> /\ todo[t][1].do # "child" /\ TypeOK
  BY <1>1 DEF actors, history, Typed
<1>3. t = "cmd" /\ 1 \in 1 .. Len(todo[t])
  BY <1>1, <1>2, NextStep, NowIs, TasksAre DEF Fits, EvtDos
<1>4. CASE /\ inv_entry # None /\ inv_entry \in Chests
           /\ held' = inv_entry /\ inv' = None /\ inv_entry' = None
           /\ Pops(t) \/ Goes(t, Relocate(inv_entry))
  <2>1. \A i \in Items : i \in {held', inv', inv_entry'} => Claimed(i)
    BY <1>4, Distinct DEF Claimed
  <2>2. inv_entry \in Items
    BY <1>4, Distinct
  <2> QED
    BY <1>1, <1>2, <1>4, <2>1, <2>2, SlotGrounds, RelocateGrounds
<1>5. ASSUME UNCHANGED slots, NEW z \in Steps, Goes(t, <<z>>), z.do = "name?",
             z.item = todo[t][1].item
      PROVE  \A i \in Items : Grounds(i)
  <2> TAKE i \in Items
  <2> DEFINE n == <<z>>
  <2>1. Goes(t, n) /\ Len(n) = 1 /\ n[1] = z
    BY <1>5
  <2> HIDE DEF n
  <2>2. i \in {held', inv', inv_entry'} => Claimed(i)
    BY <1>5 DEF slots, Claimed
  <2>3. z.item = i => Claimed(i)
    BY <1>1, <1>3, <1>5 DEF Claimed, Reaching, Has
  <2>4. \A k \in 1 .. Len(n) :
           (Reach(n[k]) \/ n[k].do = "booked") /\ n[k].item = i => Claimed(i)
    BY <2>1, <2>3
  <2>5. n[1].do \notin {"book", "accept"} /\ Len(n) >= 1
    BY <1>5, <2>1
  <2>6. Claimed(i)' => Claimed(i)
    BY <2>1, <2>2, <2>4, <2>5, ClaimsGo
  <2> QED
    BY <1>2, <2>6, FineSame DEF Grounds
<1> QED
  BY <1>1, <1>4, <1>5

LEMMA NameGrounds ==
  ASSUME Typed, NEW t \in Tasks, Name(t)
  PROVE  \A i \in Items : Grounds(i)
<1>0. PICK j : j = todo[t][1].item
  OBVIOUS
<1>1. /\ todo[t] # <<>> /\ todo[t][1].do = "name?" /\ j \in Items
      /\ UNCHANGED <<flags, cmds, actors, history>>
      /\ held' = j /\ inv' = None /\ inv_entry' = None
      /\ Pops(t) \/ Goes(t, Relocate(j))
  BY <1>0, NameStepIs
<1>2. UNCHANGED <<place, mail, stray>> /\ todo[t][1].do # "child" /\ TypeOK
  BY <1>1 DEF actors, history, Typed
<1>3. t = "cmd" /\ 1 \in 1 .. Len(todo[t])
  BY <1>1, <1>2, NextStep, NowIs, TasksAre DEF Fits, EvtDos
<1>4. Claimed(j)
  BY <1>0, <1>1, <1>3 DEF Claimed, Reaching, Has
<1>5. \A i \in Items : i \in {held', inv', inv_entry'} => Claimed(i)
  BY <1>1, <1>4, Distinct
<1> QED
  BY <1>1, <1>2, <1>5, SlotGrounds, RelocateGrounds

LEMMA BookGrounds ==
  ASSUME Typed, NEW t \in Tasks, Book(t)
  PROVE  \A i \in Items : Grounds(i)
<1>0. PICK j : j = todo[t][1].item
  OBVIOUS
<1>1. /\ todo[t] # <<>> /\ todo[t][1].do = "book" /\ j \in Items
      /\ held' = IF held = j THEN None ELSE held
      /\ UNCHANGED <<actors, history>>
      /\ \/ inv' = j /\ inv_entry' = j /\ Pops(t)
         \/ /\ inv \in Items /\ UNCHANGED <<inv, inv_entry>>
            /\ Goes(t, <<Step("room-drop", inv), Step("set-parent", inv),
                         Step("booked", j)>>)
  BY <1>0, BookIs
<1>2. UNCHANGED <<place, mail, stray>> /\ todo[t][1].do # "child"
  BY <1>1 DEF actors, history
<1>3. t = "evt"
  BY <1>1, NextStep, TasksAre DEF Fits, CmdDos
<1>4. Claimed(j)
  BY <1>0, <1>1, <1>3 DEF Claimed, At
<1>5. \A i \in Items : i \in {held', inv', inv_entry'} => Claimed(i)
  BY <1>1, <1>4, Distinct DEF Claimed
<1>6. CASE Pops(t)
  BY <1>1, <1>2, <1>5, <1>6, SlotGrounds
<1>7. CASE /\ inv \in Items
           /\ Goes(t, <<Step("room-drop", inv), Step("set-parent", inv), Step("booked", j)>>)
  <2> TAKE i \in Items
  <2> DEFINE a == Step("room-drop", inv)
             b == Step("set-parent", inv)
             x == Step("booked", j)
             n == <<a, b, x>>
  <2>1. a.do = "room-drop" /\ b.do = "set-parent" /\ x.do = "booked" /\ x.item = j
    BY <1>1, <1>7, StepIs DEF Dos
  <2> HIDE DEF a, b, x
  <2>2. Len(n) = 3 /\ n[1] = a /\ n[2] = b /\ n[3] = x /\ Goes(t, n)
    BY <1>7 DEF a, b, x
  <2> HIDE DEF n
  <2>3. \A k \in 1 .. Len(n) : k = 1 \/ k = 2 \/ k = 3
    BY <2>2
  <2>4. \A k \in 1 .. Len(n) :
           (Reach(n[k]) \/ n[k].do = "booked") /\ n[k].item = i => Claimed(i)
    BY <1>4, <2>1, <2>2, <2>3 DEF Reach
  <2>5. n[1].do \notin {"book", "accept"} /\ Len(n) >= 1
    BY <2>1, <2>2
  <2>6. Claimed(i)' => Claimed(i)
    BY <1>5, <2>2, <2>4, <2>5, ClaimsGo
  <2> QED
    BY <1>2, <2>6, FineSame DEF Grounds
<1> QED
  BY <1>1, <1>6, <1>7

LEMMA BookedGrounds ==
  ASSUME Typed, NEW t \in Tasks, Booked(t)
  PROVE  \A i \in Items : Grounds(i)
<1>0. PICK j : j = todo[t][1].item
  OBVIOUS
<1>1. /\ todo[t] # <<>> /\ todo[t][1].do = "booked" /\ t = "evt" /\ Ended(t)
      /\ inv_entry' = j /\ inv' = j /\ UNCHANGED <<held, cmds, actors, history>>
  BY <1>0, BookedIs
<1>2. 1 \in 1 .. Len(todo["evt"])
  BY <1>1, NowIs DEF Typed
<1>3. Claimed(j)
  BY <1>0, <1>1, <1>2 DEF Claimed, Has
<1>4. \A i \in Items : i \in {held', inv', inv_entry'} => Claimed(i)
  BY <1>1, <1>3 DEF Claimed
<1> QED
  BY <1>1, <1>4, SlotGrounds DEF Ended, actors, history

LEMMA AcceptGrounds ==
  ASSUME Typed, NEW t \in Tasks, Accept(t)
  PROVE  \A i \in Items : Grounds(i)
<1>0. PICK j : j = todo[t][1].item
  OBVIOUS
<1>1. /\ todo[t] # <<>> /\ todo[t][1].do = "accept" /\ t = "evt" /\ Ended(t)
      /\ UNCHANGED <<inv, cmds, actors, history>>
      /\ held' \in {held, j} /\ inv_entry' \in {inv_entry, j}
  BY <1>0, AcceptIs
<1>2. Claimed(j)
  BY <1>0, <1>1 DEF Claimed, At
<1>3. \A i \in Items : i \in {held', inv', inv_entry'} => Claimed(i)
  BY <1>1, <1>2 DEF Claimed
<1> QED
  BY <1>1, <1>3, SlotGrounds DEF Ended, actors, history

LEMMA UnbookGrounds ==
  ASSUME Typed, NEW t \in Tasks, Unbook(t)
  PROVE  \A i \in Items : Grounds(i)
<1>1. /\ todo[t] # <<>> /\ todo[t][1].do = "unbook" /\ Ended(t) /\ inv' \in {inv, None}
      /\ UNCHANGED <<held, inv_entry, cmds, actors, history>>
  BY UnbookIs
<1>2. \A i \in Items : i \in {held', inv', inv_entry'} => Claimed(i)
  BY <1>1, Distinct DEF Claimed
<1> QED
  BY <1>1, <1>2, SlotGrounds DEF Ended, actors, history

LEMMA SetParentGrounds ==
  ASSUME Typed, NEW t \in Tasks, SetParent(t)
  PROVE  \A i \in Items : Grounds(i)
<1>1. /\ todo[t] # <<>> /\ todo[t][1].do = "set-parent"
      /\ \/ /\ Ended(t) /\ UNCHANGED <<place, mail, stray>>
            /\ held' \in {held, None} /\ inv' \in {inv, None}
            /\ inv_entry' \in {inv_entry, None}
         \/ Ended(t) /\ UNCHANGED <<slots, place, mail, stray>>
         \/ Failed(t) /\ UNCHANGED <<slots, place, mail, stray>>
  BY SetParentIs DEF actors, history
<1>2. todo[t][1].do # "child"
  BY <1>1
<1>3. CASE /\ Ended(t) /\ UNCHANGED <<place, mail, stray>>
           /\ held' \in {held, None} /\ inv' \in {inv, None}
           /\ inv_entry' \in {inv_entry, None}
  <2>1. \A i \in Items : i \in {held', inv', inv_entry'} => Claimed(i)
    BY <1>3, Distinct DEF Claimed
  <2> QED
    BY <1>1, <1>2, <1>3, <2>1, SlotGrounds DEF Ended
<1> QED
  BY <1>1, <1>2, <1>3, PlainGrounds

\* A proposal is mail as well, but takes nothing back.
LEMMA SendGrounds ==
  ASSUME Typed, NEW j \in Items, NEW m \in Messages, Sends(j, m), NEW i \in Items,
         UNCHANGED <<place, stray>>
  PROVE  Fine(i) => Fine(i)'
BY ToldSends DEF Fine, Typed

LEMMA AskingGrounds ==
  ASSUME Typed, NEW t \in Tasks, Asking(t)
  PROVE  \A i \in Items : Grounds(i)
<1>0. PICK j : j = todo[t][1].item
  OBVIOUS
<1>1. /\ todo[t] # <<>> /\ Asks(todo[t][1]) /\ j \in Items
      /\ \/ Proposed(t, j)
         \/ Ended(t) /\ UNCHANGED <<slots, actors, stray>>
         \/ Failed(t) /\ UNCHANGED <<slots, actors, stray>>
  BY <1>0, AskingIs
<1>2. todo[t][1].do # "child"
  BY <1>1 DEF Asks
<1>3. CASE Proposed(t, j)
  <2> TAKE i \in Items
  <2>1. Ended(t) /\ UNCHANGED <<slots, place, stray>>
    BY <1>3 DEF Proposed, history
  <2>2. PICK m \in Messages : Sends(j, m)
    BY <1>3 DEF Proposed
  <2>3. Fine(i) => Fine(i)'
    BY <1>1, <2>1, <2>2, SendGrounds
  <2>4. i \in {held', inv', inv_entry'} => Claimed(i)
    BY <2>1 DEF slots, Claimed
  <2>5. Claimed(i)' => Claimed(i)
    BY <1>1, <1>2, <2>1, <2>4, ClaimsPop DEF Ended, At
  <2> QED
    BY <2>3, <2>5 DEF Grounds
<1>4. CASE (Ended(t) \/ Failed(t)) /\ UNCHANGED <<slots, actors, stray>>
  BY <1>1, <1>2, <1>4, PlainGrounds DEF actors
<1> QED
  BY <1>1, <1>3, <1>4

LEMMA PutInGrounds ==
  ASSUME Typed, NEW t \in Tasks, PutIn(t)
  PROVE  \A i \in Items : Grounds(i)
<1>1. /\ todo[t] # <<>> /\ todo[t][1].do = "put" /\ (Ended(t) \/ Failed(t))
      /\ UNCHANGED <<slots, place, mail, stray>>
  BY PutInIs DEF actors, history
<1> QED
  BY <1>1, PlainGrounds

LEMMA ChildGrounds ==
  ASSUME Typed, NEW t \in Tasks, Child(t)
  PROVE  \A i \in Items : Grounds(i)
<1>0. PICK j : j = todo[t][1].item
  OBVIOUS
<1>1. /\ todo[t] # <<>> /\ j \in Items
      /\ \/ /\ Ended(t) /\ place' = [place EXCEPT ![j] = Me] /\ stray' = stray \ {j}
            /\ UNCHANGED <<slots, mail>>
         \/ Failed(t) /\ UNCHANGED <<slots, actors, stray>>
  BY <1>0, ChildIs
<1>2. TypeOK
  BY DEF Typed
<1> TAKE i \in Items
<1>3. CASE /\ Ended(t) /\ place' = [place EXCEPT ![j] = Me] /\ stray' = stray \ {j}
           /\ UNCHANGED <<slots, mail>>
  <2>1. place'[j] = Me /\ (i # j => place'[i] = place[i])
    BY <1>1, <1>2, <1>3 DEF TypeOK
  <2>2. Fine(i) => Fine(i)'
    BY <1>3, <2>1 DEF Fine, Told
  <2>3. i \in {held', inv', inv_entry'} => Claimed(i)
    BY <1>3 DEF slots, Claimed
  <2>4. Claimed(i)' => Claimed(i) \/ At(t, "child", i)
    BY <1>1, <1>3, <2>3, ClaimsPop DEF Ended
  <2>5. At(t, "child", i) => i = j
    BY <1>0 DEF At
  <2> QED
    BY <2>1, <2>2, <2>4, <2>5 DEF Grounds
<1>4. CASE Failed(t) /\ UNCHANGED <<slots, actors, stray>>
  BY <1>4, ClaimsFail, FineSame DEF Grounds, actors
<1> QED
  BY <1>1, <1>3, <1>4

LEMMA CreateGrounds ==
  ASSUME Typed, NEW t \in Tasks, Create(t)
  PROVE  \A i \in Items : Grounds(i)
<1>1. /\ todo[t] # <<>> /\ todo[t][1].do = "forge" /\ TypeOK
      /\ \/ \E j \in Items :
              /\ Ended(t) /\ UNCHANGED <<slots, history>>
              /\ place' = [place EXCEPT ![j] = Me]
              /\ mail' = [mail EXCEPT ![j] = <<[parent |-> Me, why |-> None]>>]
         \/ Failed(t) /\ UNCHANGED <<slots, actors, stray>>
  BY CreateIs DEF Typed
<1>2. todo[t][1].do # "child"
  BY <1>1
<1>3. ASSUME NEW j \in Items, Ended(t), UNCHANGED <<slots, history>>,
             place' = [place EXCEPT ![j] = Me],
             mail' = [mail EXCEPT ![j] = <<[parent |-> Me, why |-> None]>>]
      PROVE  \A i \in Items : Grounds(i)
  <2> TAKE i \in Items
  <2>1. place'[j] = Me /\ (i # j => place'[i] = place[i] /\ mail'[i] = mail[i])
    BY <1>1, <1>3 DEF TypeOK
  <2>2. Fine(i) => Fine(i)'
    BY <1>3, <2>1 DEF Fine, Told, history
  <2>3. i \in {held', inv', inv_entry'} => Claimed(i)
    BY <1>3 DEF slots, Claimed
  <2>4. Claimed(i)' => Claimed(i)
    BY <1>1, <1>2, <1>3, <2>3, ClaimsPop DEF Ended, At
  <2> QED
    BY <2>2, <2>4 DEF Grounds
<1>4. CASE Failed(t) /\ UNCHANGED <<slots, actors, stray>>
  BY <1>1, <1>2, <1>4, PlainGrounds DEF actors
<1> QED
  BY <1>1, <1>3, <1>4

LEMMA DestroyGrounds ==
  ASSUME Typed, NEW t \in Tasks, Destroy(t)
  PROVE  \A i \in Items : Grounds(i)
<1>0. PICK j : j = todo[t][1].item
  OBVIOUS
<1>1. /\ todo[t] # <<>> /\ todo[t][1].do = "recycle" /\ j \in Items /\ TypeOK
      /\ \/ Ended(t) /\ UNCHANGED <<slots, mail, history>> /\ place' = [place EXCEPT ![j] = Gone]
         \/ Failed(t) /\ UNCHANGED <<slots, actors, stray>>
  BY <1>0, DestroyIs DEF Typed
<1>2. todo[t][1].do # "child"
  BY <1>1
<1>3. CASE Ended(t) /\ UNCHANGED <<slots, mail, history>> /\ place' = [place EXCEPT ![j] = Gone]
  <2> TAKE i \in Items
  <2>1. place'[j] = Gone /\ (i # j => place'[i] = place[i])
    BY <1>1, <1>3 DEF TypeOK
  <2>2. Fine(i) => Fine(i)'
    BY <1>3, <2>1 DEF Fine, Told, history
  <2>3. i \in {held', inv', inv_entry'} => Claimed(i)
    BY <1>3 DEF slots, Claimed
  <2>4. Claimed(i)' => Claimed(i)
    BY <1>1, <1>2, <1>3, <2>3, ClaimsPop DEF Ended, At
  <2> QED
    BY <2>2, <2>4 DEF Grounds
<1>4. CASE Failed(t) /\ UNCHANGED <<slots, actors, stray>>
  BY <1>1, <1>2, <1>4, PlainGrounds DEF actors
<1> QED
  BY <1>1, <1>3, <1>4

LEMMA ArmGrounds ==
  ASSUME Typed, NEW t \in Tasks, Arm(t)
  PROVE  \A i \in Items : Grounds(i)
<1>0. PICK j : j = todo[t][1].item
  OBVIOUS
<1> DEFINE a == Step("room-drop", held)
           b == Step("set-parent", held)
           x == Unequipping(j)
<1>1. /\ todo[t] # <<>> /\ todo[t][1].do = "arm" /\ j \in Items /\ TypeOK
      /\ UNCHANGED <<slots, actors, history>>
      /\ \/ Gets(t, <<>>)
         \/ /\ j \in Chests
            /\ \/ inv # None /\ held \in Items /\ Goes(t, <<a, b, x>>)
               \/ inv # None /\ Goes(t, <<x>>)
               \/ Pops(t)
               \/ held \in Items /\ Goes(t, Relocate(held))
  BY <1>0, ArmIs DEF Typed
<1>2. UNCHANGED <<place, mail, stray>> /\ todo[t][1].do # "child"
  BY <1>1 DEF actors, history
<1>3. t = "cmd"
  BY <1>1, NextStep, TasksAre DEF Fits, EvtDos
<1>4. \A i \in Items : i \in {held', inv', inv_entry'} => Claimed(i)
  BY <1>1 DEF slots, Claimed
<1>5. CASE Gets(t, <<>>)
  <2>1. todo'["cmd"] = <<>> /\ todo'["evt"] = todo["evt"]
    BY <1>3, <1>5, TasksAre DEF Gets
  <2>2. UNCHANGED <<held, inv, inv_entry>>
    BY <1>1 DEF slots
  <2> TAKE i \in Items
  <2>3. Claimed(i)' => Claimed(i)
    BY <2>1, <2>2, NoReach, SameTask DEF Claimed
  <2> QED
    BY <1>2, <2>3, FineSame DEF Grounds
<1>6. ASSUME inv # None, j \in Chests
      PROVE  x.do = "to-hand" /\ x.item = inv
  <2>1. inv \in Chests /\ inv \in Items
    BY <1>1, <1>6, Distinct DEF TypeOK
  <2> QED
    BY <1>6, <2>1, StepAtIs DEF Unequipping, Dos
<1> HIDE DEF x
<1>7. ASSUME NEW new, Goes(t, new), Len(new) >= 1,
             \A k \in 1 .. Len(new) : \/ ~ Reach(new[k]) /\ new[k].do # "booked"
                                      \/ new[k].item = inv,
             new[1].do \notin {"book", "accept"}
      PROVE  \A i \in Items : Grounds(i)
  <2> TAKE i \in Items
  <2>1. i = inv => Claimed(i)
    BY DEF Claimed
  <2>2. Claimed(i)' => Claimed(i)
    BY <1>4, <1>7, <2>1, ClaimsGo
  <2> QED
    BY <1>2, <2>2, FineSame DEF Grounds
<1>8. CASE inv # None /\ j \in Chests /\ held \in Items /\ Goes(t, <<a, b, x>>)
  <2> DEFINE n == <<a, b, x>>
  <2>1. a.do = "room-drop" /\ b.do = "set-parent" /\ x.do = "to-hand" /\ x.item = inv
    BY <1>6, <1>8, StepIs DEF Dos
  <2> HIDE DEF a, b
  <2>2. Len(n) = 3 /\ n[1] = a /\ n[2] = b /\ n[3] = x /\ Goes(t, n)
    BY <1>8
  <2> HIDE DEF n
  <2>3. \A k \in 1 .. Len(n) : k = 1 \/ k = 2 \/ k = 3
    BY <2>2
  <2>4. /\ \A k \in 1 .. Len(n) : \/ ~ Reach(n[k]) /\ n[k].do # "booked"
                                  \/ n[k].item = inv
        /\ n[1].do \notin {"book", "accept"} /\ Len(n) >= 1
    BY <2>1, <2>2, <2>3 DEF Reach
  <2> QED
    BY <1>7, <2>2, <2>4
<1>9. CASE inv # None /\ j \in Chests /\ Goes(t, <<x>>)
  <2> DEFINE n == <<x>>
  <2>1. x.do = "to-hand" /\ x.item = inv
    BY <1>6, <1>9
  <2>2. Len(n) = 1 /\ n[1] = x /\ Goes(t, n)
    BY <1>9
  <2> HIDE DEF n
  <2>3. /\ \A k \in 1 .. Len(n) : \/ ~ Reach(n[k]) /\ n[k].do # "booked"
                                  \/ n[k].item = inv
        /\ n[1].do \notin {"book", "accept"} /\ Len(n) >= 1
    BY <2>1, <2>2 DEF Reach
  <2> QED
    BY <1>7, <2>2, <2>3
<1>10. CASE Pops(t)
  BY <1>1, <1>2, <1>4, <1>10, SlotGrounds
<1>11. CASE held \in Items /\ Goes(t, Relocate(held))
  BY <1>2, <1>4, <1>11, RelocateGrounds
<1> QED
  BY <1>1, <1>5, <1>8, <1>9, <1>10, <1>11

LEMMA TaskGrounds ==
  ASSUME Typed, NEW t \in Tasks, Task(t)
  PROVE  \A i \in Items : Grounds(i)
<1>1. CASE RoomDrop(t)
  <2>1. /\ todo[t] # <<>> /\ todo[t][1].do = "room-drop" /\ (Ended(t) \/ Failed(t))
        /\ UNCHANGED <<slots, place, mail, stray>>
    BY <1>1, RoomDropIs DEF actors, history
  <2> QED
    BY <2>1, PlainGrounds
<1>2. CASE Parent(t)
  <2>1. /\ todo[t] # <<>> /\ todo[t][1].do = "parent?" /\ (Ended(t) \/ Failed(t))
        /\ UNCHANGED <<slots, place, mail, stray>>
    BY <1>2, ParentIs DEF actors, history
  <2> QED
    BY <2>1, PlainGrounds
<1> QED
  BY <1>1, <1>2, ClearHandGrounds, ArmGrounds, ToHandGrounds, BookGrounds, BookedGrounds,
     AcceptGrounds, UnbookGrounds, SetParentGrounds, AskingGrounds, PutInGrounds,
     ChildGrounds, NameGrounds, CreateGrounds, DestroyGrounds DEF Task, Asking

LEMMA StartGrounds ==
  ASSUME Typed, NEW new, Start(new)
  PROVE  \A i \in Items : Grounds(i)
<1>1. /\ Gets("cmd", new)
      /\ \A k \in 1 .. Len(new) : Reach(new[k]) => inv # None /\ new[k].item = inv
      /\ UNCHANGED <<held, inv, inv_entry, place, mail, stray>>
  BY DEF Start, Starts, slots, actors
<1>2. todo'["cmd"] = new /\ todo'["evt"] = todo["evt"]
  BY <1>1, TasksAre DEF Gets
<1> TAKE i \in Items
<1>3. Reaching(i)' => i = inv
  BY <1>1, <1>2 DEF Reaching, Has, Reach
<1>4. Claimed(i)' => Claimed(i)
  BY <1>1, <1>2, <1>3, SameTask DEF Claimed
<1> QED
  BY <1>1, <1>4, FineSame DEF Grounds

LEMMA ReloadGrounds ==
  ASSUME Typed, Reload
  PROVE  \A i \in Items : Grounds(i)
<1>1. /\ held' = None /\ inv_entry' = None /\ UNCHANGED <<inv, place, mail, stray>>
      /\ \A t \in Tasks : todo'[t] = <<>>
  BY DEF Reload, actors
<1>2. todo'["cmd"] = <<>> /\ todo'["evt"] = <<>>
  BY <1>1, TasksAre
<1> TAKE i \in Items
<1>3. Claimed(i)' => Claimed(i)
  BY <1>1, <1>2, NoReach, NoTask, Distinct DEF Claimed
<1> QED
  BY <1>1, <1>3, FineSame DEF Grounds

\* What leaves the avatar says so, and what was recycled does not move.
LEMMA CommitGrounds ==
  ASSUME Typed, GoneStays, NEW j \in Items, Commit(j)
  PROVE  \A i \in Items : Grounds(i)
<1>1. /\ TypeOK /\ want[j] \notin {None, Me}
      /\ UNCHANGED <<held, inv, inv_entry, todo, stray>>
      /\ \/ /\ place' = [place EXCEPT ![j] = want[j]]
            /\ \/ place[j] # Me /\ UNCHANGED mail
               \/ /\ place[j] = Me
                  /\ \E m \in Messages : m.parent = want[j] /\ Sends(j, m)
         \/ UNCHANGED <<place, mail>>
  BY CommitIs DEF Typed, slots
<1>2. place[j] # Gone
  BY <1>1 DEF GoneStays
<1> TAKE i \in Items
<1>3. Claimed(i)' => Claimed(i)
  BY <1>1, SameTask, SameReach DEF Claimed
<1>4. CASE UNCHANGED <<place, mail>>
  BY <1>1, <1>3, <1>4, FineSame DEF Grounds
<1>5. CASE place' = [place EXCEPT ![j] = want[j]] /\ place[j] # Me /\ UNCHANGED mail
  <2>1. i # j => place'[i] = place[i]
    BY <1>1, <1>5 DEF TypeOK
  <2>2. Fine(i) => Fine(i)'
    BY <1>1, <1>2, <1>5, <2>1 DEF Fine, Told
  <2> QED
    BY <1>3, <2>2 DEF Grounds
<1>6. ASSUME place' = [place EXCEPT ![j] = want[j]], NEW m \in Messages,
             m.parent = want[j], Sends(j, m)
      PROVE  Grounds(i)
  <2>1. i # j => place'[i] = place[i]
    BY <1>1, <1>6 DEF TypeOK
  <2>2. (Told(i) => Told(i)') /\ Told(j)'
    BY <1>1, <1>6, ToldSends
  <2>3. Fine(i) => Fine(i)'
    BY <1>1, <2>1, <2>2 DEF Fine
  <2> QED
    BY <1>3, <2>3 DEF Grounds
<1> QED
  BY <1>1, <1>4, <1>5, <1>6

\* The avatar hears that an item has left: it leaves the hand, and what is
\* named elsewhere is kept account of.
LEMMA ReactGrounded ==
  ASSUME Typed, Grounded, NEW j \in Items, React(j)
  PROVE  Grounded'
<1>1. /\ TypeOK /\ todo["evt"] = <<>> /\ Reads(j)
      /\ UNCHANGED <<inv, inv_entry, place>>
  BY ReactIs DEF Typed
<1>2. \A i \in Items : \A do : ~ Has("evt", do, i) /\ ~ At("evt", do, i)
  <2>1. Len(todo["evt"]) = 0
    BY <1>1
  <2> QED
    BY <1>1, <2>1 DEF Has, At
<1>3. ASSUME NEW i \in Items, i # j, Told(i)
      PROVE  Told(i)'
  BY <1>1, <1>3 DEF Reads, Told
<1>4. CASE /\ mail[j][1].parent # Me
           /\ held' = IF held = j THEN None ELSE held
           /\ stray' = IF Equipped(j) THEN stray \cup {j} ELSE stray
           /\ UNCHANGED todo
  <2> SUFFICES ASSUME NEW i \in Items, Claimed(i)'
               PROVE  Fine(i)'
    BY DEF Grounded
  <2>1. \A do : ~ Has("evt", do, i)' /\ ~ At("evt", do, i)'
    BY <1>2, <1>4, SameTask
  <2>2. i \in {held', inv, inv_entry} \/ Reaching(i)
    BY <1>1, <1>4, <2>1, SameReach DEF Claimed
  <2>3. CASE i = j
    <3>1. i \in {inv, inv_entry} \/ Reaching(i)
      BY <1>4, <2>2, <2>3, Distinct
    <3>2. Equipped(i)
      BY <3>1, TasksAre DEF Equipped, Reaching, Has
    <3> QED
      BY <1>4, <2>3, <3>2 DEF Fine
  <2>4. CASE i # j
    <3>1. Claimed(i)
      BY <1>4, <2>2, Distinct DEF Claimed
    <3>2. Fine(i)
      BY <3>1 DEF Grounded
    <3> QED
      BY <1>1, <1>3, <1>4, <2>4, <3>2 DEF Fine
  <2> QED
    BY <2>3, <2>4
<1>5. ASSUME mail[j][1].parent = Me, UNCHANGED <<held, stray>>, NEW new, Gets("evt", new),
             Len(new) \in 2 .. 4, new[1].do = "child",
             \A k \in 1 .. Len(new) : new[k].do # "booked"
      PROVE  Grounded'
  <2> SUFFICES ASSUME NEW i \in Items, Claimed(i)'
               PROVE  Fine(i)'
    BY DEF Grounded
  <2>1. todo'["evt"] = new /\ todo'["cmd"] = todo["cmd"]
    BY <1>5, TasksAre DEF Gets
  <2>2. ~ Has("evt", "booked", i)' /\ ~ At("evt", "book", i)' /\ ~ At("evt", "accept", i)'
    BY <1>5, <2>1 DEF Has, At
  <2>3. Claimed(i)
    BY <1>1, <1>5, <2>1, <2>2, SameReach DEF Claimed
  <2>4. Fine(i)
    BY <2>3 DEF Grounded
  <2>5. ASSUME Told(j)
        PROVE  Told(j)'
    <3>1. PICK k \in 1 .. Len(mail[j]) : mail[j][k].parent # Me
      BY <2>5 DEF Told
    <3>2. k # 1
      BY <1>5, <3>1
    <3>3. Len(mail[j]) \in Nat /\ Len(mail'[j]) = Len(mail[j]) - 1
      BY <1>1 DEF Reads
    <3>4. k - 1 \in 1 .. Len(mail[j]) - 1 /\ k - 1 \in 1 .. Len(mail'[j]) /\ (k - 1) + 1 = k
      BY <3>2, <3>3
    <3>5. mail'[j][k - 1] = mail[j][(k - 1) + 1]
      BY <1>1, <3>4 DEF Reads
    <3> QED
      BY <3>1, <3>4, <3>5 DEF Told
  <2> QED
    BY <1>1, <1>3, <1>5, <2>4, <2>5 DEF Fine
<1> DEFINE y == Step("child", j)
           p == Step("book", j)
           q == Step("accept", j)
           a == Step("room-drop", j)
           b == Step("set-parent", j)
<1>6. \/ /\ mail[j][1].parent # Me
         /\ held' = IF held = j THEN None ELSE held
         /\ stray' = IF Equipped(j) THEN stray \cup {j} ELSE stray
         /\ UNCHANGED todo
      \/ /\ mail[j][1].parent = Me /\ UNCHANGED <<held, stray>>
         /\ \/ Gets("evt", <<y, p>>)
            \/ Gets("evt", <<y, q>>)
            \/ \E z \in Steps : z.do = "unbook" /\ Gets("evt", <<y, a, b, z>>)
  BY ReactIs
<1>7. /\ y.do = "child" /\ p.do = "book" /\ q.do = "accept"
      /\ a.do = "room-drop" /\ b.do = "set-parent"
  BY StepIs DEF Dos
<1> HIDE DEF y, p, q, a, b
<1>8. ASSUME mail[j][1].parent = Me, UNCHANGED <<held, stray>>, NEW x,
             x.do \in {"book", "accept"}, Gets("evt", <<y, x>>)
      PROVE  Grounded'
  <2> DEFINE n == <<y, x>>
  <2>1. Len(n) = 2 /\ n[1] = y /\ n[2] = x /\ Gets("evt", n)
    BY <1>8
  <2> HIDE DEF n
  <2>2. \A k \in 1 .. Len(n) : k = 1 \/ k = 2
    BY <2>1
  <2>3. (\A k \in 1 .. Len(n) : n[k].do # "booked") /\ Len(n) \in 2 .. 4 /\ n[1].do = "child"
    BY <1>7, <1>8, <2>1, <2>2
  <2> QED
    BY <1>5, <1>8, <2>1, <2>3
<1>9. ASSUME mail[j][1].parent = Me, UNCHANGED <<held, stray>>, NEW z \in Steps,
             z.do = "unbook", Gets("evt", <<y, a, b, z>>)
      PROVE  Grounded'
  <2> DEFINE n == <<y, a, b, z>>
  <2>1. Len(n) = 4 /\ n[1] = y /\ n[2] = a /\ n[3] = b /\ n[4] = z /\ Gets("evt", n)
    BY <1>9
  <2> HIDE DEF n
  <2>2. \A k \in 1 .. Len(n) : k = 1 \/ k = 2 \/ k = 3 \/ k = 4
    BY <2>1
  <2>3. (\A k \in 1 .. Len(n) : n[k].do # "booked") /\ Len(n) \in 2 .. 4 /\ n[1].do = "child"
    BY <1>7, <1>9, <2>1, <2>2
  <2> QED
    BY <1>5, <1>9, <2>1, <2>3
<1>10. CASE Gets("evt", <<y, p>>) /\ mail[j][1].parent = Me /\ UNCHANGED <<held, stray>>
  BY <1>7, <1>8, <1>10
<1>11. CASE Gets("evt", <<y, q>>) /\ mail[j][1].parent = Me /\ UNCHANGED <<held, stray>>
  BY <1>7, <1>8, <1>11
<1> QED
  BY <1>4, <1>6, <1>9, <1>10, <1>11

LEMMA GroundsAll ==
  ASSUME Grounded, \A i \in Items : Grounds(i)
  PROVE  Grounded'
BY DEF Grounded, Grounds, Fine

LEMMA StepGrounded ==
  ASSUME Typed, GoneStays, Grounded, [Next]_vars
  PROVE  Grounded'
<1>1. CASE UNCHANGED vars
  <2>1. UNCHANGED <<todo, held, inv, inv_entry, place, mail, stray>>
    BY <1>1 DEF vars, slots, actors, history
  <2>2. \A i \in Items : Grounds(i)
    BY <2>1, SameTask, SameReach, FineSame DEF Grounds, Claimed
  <2> QED
    BY <2>2, GroundsAll
<1>2. CASE User
  BY <1>2, UserIs, StartGrounds, ReloadGrounds, GroundsAll
<1>3. ASSUME NEW t \in Tasks, Task(t)
      PROVE  Grounded'
  BY <1>3, TaskGrounds, GroundsAll
<1>4. ASSUME NEW i \in Items, Commit(i) \/ React(i)
      PROVE  Grounded'
  BY <1>4, CommitGrounds, GroundsAll, ReactGrounded
<1> QED
  BY <1>1, <1>2, <1>3, <1>4 DEF Next

LEMMA InitGrounded ==
  Init => Grounded
<1> SUFFICES ASSUME Init
             PROVE  Grounded
  OBVIOUS
<1>1. /\ held = None /\ inv = None /\ inv_entry = None
      /\ todo["cmd"] = <<>> /\ todo["evt"] = <<>> /\ Len(<<>>) = 0
  BY TasksAre DEF Init
<1> QED
  BY <1>1, Distinct DEF Grounded, Claimed, Reaching, Has, At

\* Once every message is handled the hand holds what is the avatar's, or has
\* been recycled, or is known to have left while it was equipped.  A slot is
\* filled from another slot, or by the handler right after the item has moved;
\* what leaves the avatar says so, and until it is heard its message waits.
\* (handle-avatar-parent!)
THEOREM HandIsMineHolds == Spec => []HandIsMine
<1>1. Init => Typed /\ Settled /\ Grounded
  BY InitTyped, InitSettled, InitGrounded
<1>2. Typed /\ Settled /\ Grounded /\ [Next]_vars => Typed' /\ Settled' /\ Grounded'
  BY StepTyped, StepSettled, StepGrounded DEF Settled
<1>3. Typed /\ Grounded => HandIsMine
  <2> SUFFICES ASSUME Typed, Grounded, Quiet, held # None, held \notin stray
               PROVE  place[held] \in {Me, Gone}
    BY DEF HandIsMine
  <2>1. held \in Items
    BY DEF Typed, TypeOK
  <2>2. Fine(held)
    BY <2>1 DEF Grounded, Claimed
  <2>3. Len(mail[held]) = 0
    BY <2>1 DEF Quiet
  <2>4. ~ Told(held)
    BY <2>3 DEF Told
  <2> QED
    BY <2>2, <2>4 DEF Fine
<1> QED
  BY <1>1, <1>2, <1>3, PTL DEF Spec

-----------------------------------------------------------------------------
(* Nothing is mislaid.                                                      *)
(*                                                                          *)
(* As long as no command is given before all is quiet, and none is refused, *)
(* the avatar does one thing at a time: it rests, carries out a command, has *)
(* a proposal under way or handles one.  The flags say just what that thing *)
(* needs, and whatever the avatar is parent of is in a slot, or is leaving, *)
(* or is about to be put into one.                                          *)

First(t) == todo[t][1]

Proposal(i) == \E k \in 1 .. Len(mail[i]) : mail[i][k].parent = Me
Alone == \A i \in Items : ~ Proposal(i)

\* The item is not the avatar's, or is about to go.
Leaves(i) == place[i] = Me => want[i] \notin {None, Me}

\* The hand can take item i.
FreeFor(i) == held \in {None, i} \/ Leaves(held)

Resting ==
    /\ todo["cmd"] = <<>> /\ todo["evt"] = <<>> /\ Alone
    /\ equip_pending = None /\ drop_pending = {}

\* The flags are those of the command under way.
Flagged ==
    /\ drop_pending = IF First("cmd").why = "drop" THEN {First("cmd").item} ELSE {}
    /\ equip_pending = IF Last("cmd").why = "equip" /\ First("cmd").do # "arm"
                       THEN Last("cmd").item ELSE None

\* What is equipped is unequipped before something else is booked.
Vacating ==
    equip_pending # None =>
       inv = None \/ \E k \in 1 .. Len(todo["cmd"]) : Reach(todo["cmd"][k])
Named == \A k \in 1 .. Len(todo["cmd"]) :
            Reach(todo["cmd"][k]) => todo["cmd"][k].item = inv

\* The hand is cleared before it takes something.
Clearing ==
    /\ Takes(First("cmd")) => FreeFor(None)
    /\ First("cmd").do \in {"room-drop", "set-parent"}
          /\ (\E k \in 1 .. Len(todo["cmd"]) : Takes(todo["cmd"][k]))
       => held \in {None, First("cmd").item} /\ First("cmd").item # inv
    /\ First("cmd").do = "unbook" => Leaves(First("cmd").item)
    /\ First("cmd").do = "put" => First("cmd").at # None

Commanding ==
    /\ todo["cmd"] # <<>> /\ todo["evt"] = <<>> /\ Alone
    /\ Flagged /\ Vacating /\ Named /\ Clearing

Proposing(i) ==
    /\ Proposal(i) /\ \A j \in Items : Proposal(j) => j = i
    /\ todo["cmd"] = <<>> /\ todo["evt"] = <<>>
    /\ want[i] = Me /\ place[i] # Gone
    /\ \/ equip_pending = i /\ drop_pending = {} /\ inv = None
       \/ equip_pending = None /\ drop_pending = {i}
       \/ equip_pending = None /\ drop_pending = {} /\ FreeFor(i)

Handling(i) ==
    /\ todo["cmd"] = <<>> /\ todo["evt"] # <<>> /\ Alone /\ drop_pending = {}
    /\ \A k \in 1 .. Len(todo["evt"]) :
          todo["evt"][k].do # "booked" /\ todo["evt"][k].item = i
    /\ equip_pending = IF Last("evt").do = "book" THEN i ELSE None
    /\ Last("evt").do = "book" => inv = None
    /\ Last("evt").do = "accept" => FreeFor(i)
    /\ Last("evt").do \in {"book", "accept"} =>
          \/ Len(todo["evt"]) = 1
          \/ Len(todo["evt"]) = 2 /\ First("evt").do = "child"
    /\ First("evt").do = "child" => want[i] = Me /\ place[i] # Gone /\ mail[i] = <<>>
    /\ First("evt").do = "unbook" => Leaves(i)

\* A proposal is the last word of an item that is not the avatar's yet.
Mailed(i) ==
    \A k \in 1 .. Len(mail[i]) :
       IF mail[i][k].parent = Me THEN k = Len(mail[i]) ELSE place[i] # Me

\* The handler of an event is about to put the item where it belongs.
Moving(i) ==
    /\ todo["evt"] # <<>> /\ First("evt").item = i
    /\ First("evt").do \in {"child", "accept", "book", "room-drop", "set-parent"}

Kept(i) == Leaves(i) \/ i \in {held, inv} \/ Proposal(i) \/ Moving(i)

Phase == Resting \/ Commanding \/ \E i \in Items : Proposing(i) \/ Handling(i)
Tidy == calm => Phase /\ \A i \in Items : Mailed(i) /\ Kept(i)

\* The next step of a task.
LEMMA PopsOn ==
  ASSUME Typed, NEW t \in Tasks, todo[t] # <<>>, Pops(t)
  PROVE  \/ Len(todo[t]) = 1 /\ todo'[t] = <<>>
         \/ /\ Len(todo[t]) >= 2 /\ todo'[t] # <<>>
            /\ First(t)' = todo[t][2] /\ Follows(First(t), First(t)')
            /\ Last(t)' = Last(t) /\ ~ Final(First(t))
            /\ Fits(t, First(t)') /\ First(t)' \in Steps
<1>1. /\ Len(todo[t]) \in Nat /\ Len(todo[t]) >= 1
      /\ Len(todo[t]) >= 2 => Follows(todo[t][1], todo[t][2])
  BY NextStep
<1>2. /\ Len(todo'[t]) = Len(todo[t]) - 1 /\ todo' \in [Tasks -> Seq(Steps)]
      /\ \A k \in 1 .. Len(todo[t]) - 1 : todo'[t][k] = todo[t][k + 1]
  BY DEF Pops
<1>3. CASE Len(todo[t]) = 1
  <2> DEFINE S == Steps
             q == todo'[t]
  <2>1. q \in Seq(S) /\ Len(q) = 0
    BY <1>2, <1>3
  <2> HIDE DEF S, q
  <2>2. q = <<>>
    BY <2>1, EmptySeq
  <2> QED
    BY <1>3, <2>2 DEF q
<1>4. CASE Len(todo[t]) >= 2
  <2>1. /\ 1 \in 1 .. Len(todo[t]) - 1 /\ Len(todo[t]) - 1 \in 1 .. Len(todo[t]) - 1
        /\ 1 + 1 = 2 /\ (Len(todo[t]) - 1) + 1 = Len(todo[t]) /\ 2 \in 1 .. Len(todo[t])
        /\ Len(todo'[t]) # 0 /\ Len(todo[t]) # 1
    BY <1>1, <1>2, <1>4
  <2>2. todo'[t][1] = todo[t][2] /\ todo'[t][Len(todo'[t])] = todo[t][Len(todo[t])]
    BY <1>2, <2>1
  <2>3. todo'[t] # <<>>
    BY <2>1
  <2>4. ~ Final(todo[t][1])
    BY <2>1, FinalAlone
  <2>5. Chain(t, todo[t]) /\ todo[t][2] \in Steps
    BY <2>1, NowIs DEF Typed, Shape
  <2>6. Fits(t, todo[t][2])
    BY <2>1, <2>5 DEF Chain
  <2> QED
    BY <1>1, <1>4, <2>2, <2>3, <2>4, <2>5, <2>6 DEF First, Last
<1> QED
  BY <1>1, <1>3, <1>4, AtLeastTwo

LEMMA GoesOnTo ==
  ASSUME Typed, NEW t \in Tasks, todo[t] # <<>>, NEW new, Goes(t, new), Len(new) >= 1
  PROVE  /\ todo'[t] # <<>> /\ First(t)' = new[1]
         /\ Last(t)' = IF Len(todo[t]) = 1 THEN new[Len(new)] ELSE Last(t)
<1>1. /\ Len(todo[t]) >= 1 /\ Len(todo[t]) \in Nat /\ Len(new) \in Nat
      /\ Len(todo'[t]) = Len(new) + Len(todo[t]) - 1
      /\ \A k \in 1 .. Len(new) : todo'[t][k] = new[k]
      /\ \A k \in 2 .. Len(todo[t]) : todo'[t][Len(new) + k - 1] = todo[t][k]
  BY DEF Goes
<1>2. 1 \in 1 .. Len(new) /\ Len(new) \in 1 .. Len(new) /\ Len(todo'[t]) # 0
  BY <1>1
<1>3. todo'[t] # <<>> /\ todo'[t][1] = new[1]
  BY <1>1, <1>2
<1>4. CASE Len(todo[t]) = 1
  <2>1. Len(todo'[t]) = Len(new)
    BY <1>1, <1>4
  <2> QED
    BY <1>1, <1>2, <1>3, <1>4, <2>1 DEF First, Last
<1>5. CASE Len(todo[t]) >= 2
  <2>1. Len(todo[t]) \in 2 .. Len(todo[t]) /\ Len(todo[t]) # 1
        /\ Len(new) + Len(todo[t]) - 1 = Len(todo'[t])
    BY <1>1, <1>5
  <2>2. todo'[t][Len(todo'[t])] = todo[t][Len(todo[t])]
    BY <1>1, <2>1
  <2> QED
    BY <1>3, <2>1, <2>2 DEF First, Last
<1> QED
  BY <1>1, <1>4, <1>5, AtLeastTwo

\* Some step of what is left of a task was there, or is new.
LEMMA PopsFrom ==
  ASSUME NEW t, Pops(t), NEW k \in 1 .. Len(todo'[t])
  PROVE  \E j \in 1 .. Len(todo[t]) : todo'[t][k] = todo[t][j] /\ j >= 2
<1>1. /\ Len(todo[t]) >= 1 /\ Len(todo[t]) \in Nat
      /\ Len(todo'[t]) = Len(todo[t]) - 1
      /\ \A i \in 1 .. Len(todo[t]) - 1 : todo'[t][i] = todo[t][i + 1]
  BY DEF Pops
<1>2. k \in 1 .. Len(todo[t]) - 1 /\ k + 1 \in 1 .. Len(todo[t]) /\ k + 1 >= 2
  BY <1>1
<1> QED
  BY <1>1, <1>2

LEMMA GoesFrom ==
  ASSUME NEW t, NEW new, Goes(t, new), NEW k \in 1 .. Len(todo'[t])
  PROVE  \/ \E j \in 1 .. Len(new) : todo'[t][k] = new[j]
         \/ \E j \in 1 .. Len(todo[t]) : todo'[t][k] = todo[t][j] /\ j >= 2
<1>1. /\ Len(todo[t]) >= 1 /\ Len(todo[t]) \in Nat /\ Len(new) \in Nat
      /\ Len(todo'[t]) = Len(new) + Len(todo[t]) - 1
      /\ \A i \in 1 .. Len(new) : todo'[t][i] = new[i]
      /\ \A i \in 2 .. Len(todo[t]) : todo'[t][Len(new) + i - 1] = todo[t][i]
  BY DEF Goes
<1>2. CASE k <= Len(new)
  BY <1>1, <1>2
<1>3. CASE ~ (k <= Len(new))
  <2>1. /\ k - Len(new) + 1 \in 2 .. Len(todo[t])
        /\ Len(new) + (k - Len(new) + 1) - 1 = k
    BY <1>1, <1>3
  <2>2. todo'[t][Len(new) + (k - Len(new) + 1) - 1] = todo[t][k - Len(new) + 1]
    BY <1>1, <2>1
  <2>3. todo'[t][k] = todo[t][k - Len(new) + 1]
    BY <2>1, <2>2
  <2>4. k - Len(new) + 1 \in 1 .. Len(todo[t]) /\ k - Len(new) + 1 >= 2
    BY <1>1, <2>1
  <2> QED
    BY <2>3, <2>4
<1> QED
  BY <1>2, <1>3

\* A command asks last.
LEMMA AskLast ==
  ASSUME Typed, todo["cmd"] # <<>>
  PROVE  /\ Fits("cmd", First("cmd")) /\ First("cmd") \in Steps
         /\ First("cmd").why # None <=> Asks(First("cmd"))
         /\ Final(First("cmd")) => Len(todo["cmd"]) = 1 /\ Last("cmd") = First("cmd")
         /\ First("cmd").why # None => Final(First("cmd"))
<1>1. Fits("cmd", todo["cmd"][1]) /\ todo["cmd"][1] \in Steps
  BY NextStep, NowIs, TasksAre DEF Typed
<1>2. Final(todo["cmd"][1]) => Len(todo["cmd"]) = 1
  BY FinalAlone, TasksAre
<1> QED
  BY <1>1, <1>2 DEF First, Last, Fits, Asks, Final

\* What a step of a command may come behind.
LEMMA FollowsIs ==
  ASSUME NEW a, NEW b, Follows(a, b), Fits("cmd", b)
  PROVE  /\ b.do \notin {"arm", "put"} /\ b.why # "drop"
         /\ Takes(b) => a.do \in {"clear-hand", "set-parent"}
         /\ b.do = "room-drop" => a.do = "child"
         /\ b.do = "set-parent" => a.do = "room-drop" /\ b.item = a.item
         /\ b.do = "unbook" => a.do = "set-parent" /\ b.item = a.item
<1>1. b.why # None <=> Asks(b)
  BY DEF Fits
<1> QED
  BY <1>1, WhyIs DEF Follows, Asks, Reach, Takes

LEMMA JustTwo ==
  ASSUME NEW n \in Nat, n >= 2, ~ (2 < n)
  PROVE  n = 2
OBVIOUS

\* What is armed is what will be asked for.
LEMMA ArmLast ==
  ASSUME Typed, todo["cmd"] # <<>>, First("cmd").do = "arm"
  PROVE  /\ Len(todo["cmd"]) >= 2
         /\ Last("cmd").why = "equip" /\ Last("cmd").item = First("cmd").item
<1>1. /\ Chain("cmd", todo["cmd"]) /\ Len(todo["cmd"]) \in Nat /\ Len(todo["cmd"]) >= 1
      /\ 1 \in 1 .. Len(todo["cmd"])
  BY NowIs, TasksAre DEF Typed, Shape
<1>2. /\ 1 < Len(todo["cmd"]) => Follows(todo["cmd"][1], todo["cmd"][1 + 1])
      /\ 1 = Len(todo["cmd"]) => Ends(todo["cmd"][1])
  BY <1>1 DEF Chain, Ends
<1>3. todo["cmd"][1].do = "arm" /\ ~ Ends(todo["cmd"][1])
  BY DEF First, Ends, Final, Reach
<1>4. Len(todo["cmd"]) >= 2
  BY <1>1, <1>2, <1>3, AtLeastTwo
<1>5. Follows(todo["cmd"][1], todo["cmd"][2])
  BY <1>1, <1>2, <1>4
<1>6. /\ Asks(todo["cmd"][2]) /\ todo["cmd"][2].why = "equip"
      /\ todo["cmd"][2].item = todo["cmd"][1].item
  BY <1>3, <1>5 DEF Follows, Reach
<1>7. 2 \in 1 .. Len(todo["cmd"])
  BY <1>1, <1>4
<1>8. 2 < Len(todo["cmd"]) => Follows(todo["cmd"][2], todo["cmd"][2 + 1])
  BY <1>1, <1>7 DEF Chain
<1>9. ~ Follows(todo["cmd"][2], todo["cmd"][2 + 1])
  BY <1>6 DEF Follows, Asks, Reach
<1>10. ~ (2 < Len(todo["cmd"]))
  BY <1>8, <1>9
<1>11. Len(todo["cmd"]) = 2
  BY <1>1, <1>4, <1>10, JustTwo
<1> QED
  BY <1>4, <1>6, <1>11 DEF First, Last

\* A command goes on to what is left of it, or is done.
LEMMA CmdPops ==
  ASSUME Typed, Commanding, Pops("cmd"), ~ Asks(First("cmd")), UNCHANGED mail,
         UNCHANGED drop_pending,
         equip_pending' = IF First("cmd").do = "arm" THEN First("cmd").item
                          ELSE equip_pending,
         \/ inv' = inv /\ ~ Reach(First("cmd"))
         \/ inv' = None /\ \A k \in 2 .. Len(todo["cmd"]) : ~ Reach(todo["cmd"][k]),
         First("cmd").do = "arm" => inv' = None,
         todo'["cmd"] # <<>> => Clearing'
  PROVE  Resting' \/ Commanding'
<1> DEFINE a == First("cmd")
<1>1. /\ todo["cmd"] # <<>> /\ todo["evt"] = <<>> /\ Alone /\ Flagged /\ Vacating /\ Named
      /\ todo'["evt"] = <<>>
  BY TasksAre DEF Commanding, Pops
<1>2. /\ Fits("cmd", a) /\ a.why = None /\ a.why # "drop" /\ a.why # "equip"
      /\ Final(a) => Len(todo["cmd"]) = 1
  BY <1>1, AskLast, WhyIs
<1>3. Alone'
  BY <1>1 DEF Alone, Proposal
<1>4. drop_pending' = {}
  BY <1>1, <1>2 DEF Flagged
<1>5. CASE Len(todo["cmd"]) = 1 /\ todo'["cmd"] = <<>>
  <2>1. a.do # "arm"
    BY <1>1, <1>5, ArmLast
  <2>2. equip_pending' = None
    BY <1>1, <1>2, <1>5, <2>1 DEF Flagged, First, Last
  <2> QED
    BY <1>1, <1>3, <1>4, <1>5, <2>2 DEF Resting
<1>6. CASE /\ Len(todo["cmd"]) >= 2 /\ todo'["cmd"] # <<>>
           /\ First("cmd")' = todo["cmd"][2] /\ Follows(a, First("cmd")')
           /\ Last("cmd")' = Last("cmd") /\ Fits("cmd", First("cmd")')
  <2>1. First("cmd")'.do # "arm" /\ First("cmd")'.why # "drop"
    BY <1>6, FollowsIs
  <2>2. equip_pending' = IF Last("cmd").why = "equip" THEN Last("cmd").item ELSE None
    BY <1>1, ArmLast DEF Flagged
  <2>3. Flagged'
    BY <1>4, <1>6, <2>1, <2>2 DEF Flagged
  <2>4. Vacating'
    <3>1. SUFFICES ASSUME equip_pending' # None, inv' # None
                   PROVE  \E k \in 1 .. Len(todo'["cmd"]) : Reach(todo'["cmd"][k])
      BY DEF Vacating
    <3>2. inv' = inv /\ ~ Reach(a) /\ a.do # "arm"
      BY <3>1
    <3>3. PICK k \in 1 .. Len(todo["cmd"]) : Reach(todo["cmd"][k])
      BY <1>1, <3>1, <3>2 DEF Vacating
    <3>4. k # 1
      BY <3>2, <3>3 DEF First
    <3>5. /\ Len(todo["cmd"]) \in Nat /\ Len(todo'["cmd"]) = Len(todo["cmd"]) - 1
          /\ \A j \in 1 .. Len(todo["cmd"]) - 1 : todo'["cmd"][j] = todo["cmd"][j + 1]
      BY DEF Pops
    <3>6. /\ k - 1 \in 1 .. Len(todo["cmd"]) - 1 /\ k - 1 \in 1 .. Len(todo'["cmd"])
          /\ (k - 1) + 1 = k
      BY <3>3, <3>4, <3>5
    <3>7. todo'["cmd"][k - 1] = todo["cmd"][k]
      BY <3>5, <3>6
    <3> QED
      BY <3>3, <3>6, <3>7
  <2>5. Named'
    <3>1. SUFFICES ASSUME NEW k \in 1 .. Len(todo'["cmd"]), Reach(todo'["cmd"][k])
                   PROVE  todo'["cmd"][k].item = inv'
      BY DEF Named
    <3>2. PICK j \in 1 .. Len(todo["cmd"]) : todo'["cmd"][k] = todo["cmd"][j] /\ j >= 2
      BY PopsFrom
    <3>3. j \in 2 .. Len(todo["cmd"])
      BY <3>2
    <3>4. inv' = inv
      BY <3>1, <3>2, <3>3
    <3> QED
      BY <1>1, <3>1, <3>2, <3>4 DEF Named
  <2> QED
    BY <1>1, <1>3, <1>6, <2>3, <2>4, <2>5 DEF Commanding
<1> QED
  BY <1>1, <1>5, <1>6, PopsOn, TasksAre

LEMMA CmdGoes ==
  ASSUME Typed, Commanding, NEW new, Goes("cmd", new), Len(new) >= 1,
         \A k \in 1 .. Len(new) : new[k].why = None /\ new[k].do # "arm",
         ~ Asks(First("cmd")), UNCHANGED mail, UNCHANGED drop_pending,
         equip_pending' = IF First("cmd").do = "arm" THEN First("cmd").item
                          ELSE equip_pending,
         \/ /\ inv' = inv /\ \A k \in 1 .. Len(new) : Reach(new[k]) => new[k].item = inv
            /\ Reach(First("cmd")) => \E k \in 1 .. Len(new) : Reach(new[k])
         \/ /\ inv' = None /\ \A k \in 2 .. Len(todo["cmd"]) : ~ Reach(todo["cmd"][k])
            /\ \A k \in 1 .. Len(new) : ~ Reach(new[k]),
         First("cmd").do = "arm" => inv' = None \/ \E k \in 1 .. Len(new) : Reach(new[k]),
         Clearing'
  PROVE  Commanding'
<1> DEFINE a == First("cmd")
<1>1. /\ todo["cmd"] # <<>> /\ todo["evt"] = <<>> /\ Alone /\ Flagged /\ Vacating /\ Named
      /\ todo'["evt"] = <<>>
  BY TasksAre DEF Commanding, Goes
<1>2. a.why = None /\ a.why # "drop" /\ a.why # "equip" /\ None # "equip" /\ None # "drop"
  BY <1>1, AskLast, WhyIs
<1>3. Alone'
  BY <1>1 DEF Alone, Proposal
<1>4. drop_pending' = {}
  BY <1>1, <1>2 DEF Flagged
<1>5. /\ todo'["cmd"] # <<>> /\ First("cmd")' = new[1]
      /\ Last("cmd")' = IF Len(todo["cmd"]) = 1 THEN new[Len(new)] ELSE Last("cmd")
  BY <1>1, GoesOnTo, TasksAre
<1>6. Len(new) \in Nat /\ 1 \in 1 .. Len(new) /\ Len(new) \in 1 .. Len(new)
  BY DEF Goes
<1>7. /\ new[1].why = None /\ new[1].do # "arm" /\ new[Len(new)].why = None
  BY <1>6
<1>8. Len(todo["cmd"]) = 1 => Last("cmd") = a
  BY DEF First, Last
<1>9. a.do = "arm" => Len(todo["cmd"]) # 1
  BY <1>1, ArmLast
<1>10. equip_pending' = IF Last("cmd").why = "equip" THEN Last("cmd").item ELSE None
  BY <1>1, ArmLast DEF Flagged
<1>11. Flagged'
  BY <1>2, <1>4, <1>5, <1>7, <1>8, <1>9, <1>10 DEF Flagged
<1>12. /\ Len(todo["cmd"]) >= 1 /\ Len(todo["cmd"]) \in Nat
       /\ Len(todo'["cmd"]) = Len(new) + Len(todo["cmd"]) - 1
       /\ \A k \in 1 .. Len(new) : todo'["cmd"][k] = new[k]
  BY DEF Goes
<1>13. Vacating'
  <2>1. SUFFICES ASSUME equip_pending' # None, inv' # None
                 PROVE  \E k \in 1 .. Len(todo'["cmd"]) : Reach(todo'["cmd"][k])
    BY DEF Vacating
  <2>2. ASSUME NEW k \in 1 .. Len(new), Reach(new[k])
        PROVE  \E j \in 1 .. Len(todo'["cmd"]) : Reach(todo'["cmd"][j])
    <3>1. k \in 1 .. Len(todo'["cmd"])
      BY <1>6, <1>12
    <3> QED
      BY <1>12, <2>2, <3>1
  <2>3. CASE a.do = "arm" \/ Reach(a)
    BY <2>1, <2>2, <2>3
  <2>4. CASE a.do # "arm" /\ ~ Reach(a)
    <3>1. inv' = inv
      BY <2>1
    <3>2. PICK k \in 1 .. Len(todo["cmd"]) : Reach(todo["cmd"][k])
      BY <1>1, <2>1, <2>4, <3>1 DEF Vacating
    <3>3. k # 1
      BY <2>4, <3>2 DEF First
    <3>4. k \in 2 .. Len(todo["cmd"])
      BY <3>2, <3>3
    <3> QED
      BY <3>2, <3>4, GoesKeeps
  <2> QED
    BY <2>3, <2>4
<1>14. Named'
  <2>1. SUFFICES ASSUME NEW k \in 1 .. Len(todo'["cmd"]), Reach(todo'["cmd"][k])
                 PROVE  todo'["cmd"][k].item = inv'
    BY DEF Named
  <2>2. CASE \E j \in 1 .. Len(new) : todo'["cmd"][k] = new[j]
    BY <2>1, <2>2
  <2>3. CASE \E j \in 1 .. Len(todo["cmd"]) : todo'["cmd"][k] = todo["cmd"][j] /\ j >= 2
    <3>1. PICK j \in 1 .. Len(todo["cmd"]) : todo'["cmd"][k] = todo["cmd"][j] /\ j >= 2
      BY <2>3
    <3>2. j \in 2 .. Len(todo["cmd"])
      BY <3>1
    <3>3. inv' = inv
      BY <2>1, <3>1, <3>2
    <3> QED
      BY <1>1, <2>1, <3>1, <3>3 DEF Named
  <2> QED
    BY <2>2, <2>3, GoesFrom
<1> QED
  BY <1>1, <1>3, <1>5, <1>11, <1>13, <1>14 DEF Commanding

\* A command that is given up, with nobody refusing it.
LEMMA CmdFails ==
  ASSUME Typed, Commanding, Failed("cmd"), UNCHANGED mail, ~ Asks(First("cmd"))
  PROVE  Resting'
<1>1. /\ todo["cmd"] # <<>> /\ todo["evt"] = <<>> /\ Alone /\ Flagged
      /\ todo'["evt"] = <<>> /\ todo'["cmd"] = <<>>
  BY TasksAre DEF Commanding, Failed, Gets
<1>2. First("cmd").why = None /\ First("cmd").why # "drop"
  BY <1>1, AskLast, WhyIs
<1>3. drop_pending = {} /\ (equip_pending # None => Last("cmd").why = "equip")
  BY <1>1, <1>2 DEF Flagged
<1>4. drop_pending' = {} /\ equip_pending' = None
  BY <1>3 DEF Failed
<1>5. Alone'
  BY <1>1 DEF Alone, Proposal
<1> QED
  BY <1>1, <1>4, <1>5 DEF Resting

\* A command leaves the items alone, but for those its step is about.
LEMMA CmdTidy ==
  ASSUME Tidy, calm, todo["cmd"] # <<>>
  PROVE  /\ Commanding /\ \A i \in Items : Mailed(i) /\ Kept(i)
         /\ \A i \in Items : Leaves(i) \/ i \in {held, inv}
<1>1. Phase /\ \A i \in Items : Mailed(i) /\ Kept(i)
  BY DEF Tidy
<1>2. Commanding
  BY <1>1 DEF Phase, Resting, Proposing, Handling
<1>3. todo["evt"] = <<>> /\ Alone
  BY <1>2 DEF Commanding
<1> QED
  BY <1>1, <1>2, <1>3 DEF Kept, Moving, Alone

LEMMA KeptOn ==
  ASSUME \A i \in Items : Mailed(i) /\ Kept(i), UNCHANGED mail, todo'["evt"] = todo["evt"],
         \A i \in Items : /\ place'[i] = Me => place[i] = Me
                          /\ Leaves(i) => Leaves(i)'
                          /\ i \in {held, inv} => i \in {held', inv'} \/ Leaves(i)'
  PROVE  \A i \in Items : Mailed(i)' /\ Kept(i)'
<1> TAKE i \in Items
<1>1. Mailed(i)'
  BY DEF Mailed
<1>2. (Proposal(i) => Proposal(i)') /\ (Moving(i) => Moving(i)')
  BY DEF Proposal, Moving, First
<1> QED
  BY <1>1, <1>2 DEF Kept

LEMMA SameKept ==
  ASSUME \A i \in Items : Mailed(i) /\ Kept(i), UNCHANGED <<place, want, mail>>,
         todo'["evt"] = todo["evt"],
         \A i \in Items : i \in {held, inv} => i \in {held', inv'} \/ Leaves(i)
  PROVE  \A i \in Items : Mailed(i)' /\ Kept(i)'
BY KeptOn DEF Leaves

LEMMA SameLeaves ==
  ASSUME UNCHANGED <<place, want>>, NEW i
  PROVE  Leaves(i)' <=> Leaves(i)
BY DEF Leaves

LEMMA RelocateNew ==
  ASSUME NEW i \in Items, NEW new, new = Relocate(i)
  PROVE  /\ Len(new) = 2 /\ new[1].do = "room-drop" /\ new[1].item = i
         /\ \A k \in 1 .. Len(new) : /\ new[k].why = None /\ ~ Reach(new[k])
                                     /\ new[k].do # "arm"
<1> DEFINE a == Step("room-drop", i)
           b == Step("set-parent", i)
<1>1. a.do = "room-drop" /\ a.item = i /\ b.do = "set-parent" /\ a.why = None /\ b.why = None
  BY StepIs DEF Dos
<1>2. new = <<a, b>>
  BY RelocateIs
<1> HIDE DEF a, b
<1>3. Len(new) = 2 /\ new[1] = a /\ new[2] = b
  BY <1>2
<1>4. \A k \in 1 .. Len(new) : k = 1 \/ k = 2
  BY <1>3
<1> QED
  BY <1>1, <1>3, <1>4 DEF Reach

\* To make room for an item the one in the way goes first.
LEMMA RelocateClears ==
  ASSUME Typed, Commanding, NEW i \in Items, Goes("cmd", Relocate(i)), held' = i, i # inv'
  PROVE  Clearing'
<1> DEFINE n == Relocate(i)
<1>1. Len(n) = 2 /\ n[1].do = "room-drop" /\ n[1].item = i /\ n[1].why = None
  BY RelocateNew
<1>2. Goes("cmd", n)
  OBVIOUS
<1> HIDE DEF n
<1>3. First("cmd")' = n[1]
  BY <1>1, <1>2, GoesOnTo, TasksAre DEF Commanding
<1>4. ~ Takes(n[1])
  BY <1>1 DEF Takes, Asks, Reach
<1> QED
  BY <1>1, <1>3, <1>4 DEF Clearing

LEMMA ClearHandTidy ==
  ASSUME Typed, Settled, Tidy, calm, ClearHandStep("cmd")
  PROVE  Tidy'
<1>1. /\ todo["cmd"] # <<>> /\ First("cmd").do = "clear-hand"
      /\ \/ HandInTheWay /\ held \in Items /\ Goes("cmd", Relocate(held))
         \/ ~ HandInTheWay /\ Pops("cmd")
      /\ UNCHANGED <<slots, flags, actors>>
  BY ClearHandIs, TasksAre DEF ClearHandStep, First
<1>2. /\ UNCHANGED <<held, inv, mail, place, want, drop_pending, equip_pending>>
      /\ todo'["evt"] = todo["evt"]
  BY <1>1, TasksAre DEF slots, flags, actors, Goes, Pops
<1>3. Commanding /\ \A i \in Items : Mailed(i) /\ Kept(i)
  BY <1>1, CmdTidy
<1>4. \A i \in Items : Mailed(i)' /\ Kept(i)'
  BY <1>2, <1>3, SameKept
<1>5. ~ Asks(First("cmd")) /\ ~ Reach(First("cmd")) /\ First("cmd").do # "arm"
  BY <1>1 DEF Asks, Reach
<1>6. CASE HandInTheWay /\ held \in Items /\ Goes("cmd", Relocate(held))
  <2> DEFINE n == Relocate(held)
  <2>1. /\ Len(n) = 2 /\ \A k \in 1 .. Len(n) : /\ n[k].why = None /\ ~ Reach(n[k])
                                                /\ n[k].do # "arm"
    BY <1>6, RelocateNew
  <2>2. held # inv'
    BY <1>2, <1>6 DEF HandInTheWay
  <2>3. Clearing'
    BY <1>2, <1>3, <1>6, <2>2, RelocateClears
  <2>4. Goes("cmd", n)
    BY <1>6
  <2> HIDE DEF n
  <2>5. /\ \A k \in 1 .. Len(n) : n[k].why = None /\ n[k].do # "arm"
        /\ \A k \in 1 .. Len(n) : Reach(n[k]) => n[k].item = inv
        /\ Len(n) >= 1
    BY <2>1
  <2>6. Commanding'
    BY <1>2, <1>3, <1>5, <2>3, <2>4, <2>5, CmdGoes
  <2> QED
    BY <1>4, <2>6 DEF Tidy, Phase
<1>7. CASE ~ HandInTheWay /\ Pops("cmd")
  <2>1. held' = None
    BY <1>2, <1>7 DEF HandInTheWay, Settled, Slotted, InventoryNotHeld
  <2>2. FreeFor(None)'
    BY <2>1 DEF FreeFor
  <2>3. ASSUME todo'["cmd"] # <<>>
        PROVE  Clearing'
    <3>1. Follows(First("cmd"), First("cmd")') /\ Fits("cmd", First("cmd")')
      BY <1>1, <1>7, <2>3, PopsOn, TasksAre
    <3>2. First("cmd")'.do \notin {"room-drop", "set-parent", "unbook", "put"}
      BY <1>1, <3>1, FollowsIs
    <3> QED
      BY <2>2, <3>2 DEF Clearing
  <2>4. Resting' \/ Commanding'
    BY <1>2, <1>3, <1>5, <1>7, <2>3, CmdPops
  <2> QED
    BY <1>4, <2>4 DEF Tidy, Phase
<1> QED
  BY <1>1, <1>6, <1>7

LEMMA ArmTidy ==
  ASSUME Typed, Settled, Tidy, calm, Arm("cmd")
  PROVE  Tidy'
<1> DEFINE i == todo["cmd"][1].item
           a == Step("room-drop", held)
           b == Step("set-parent", held)
           x == Unequipping(i)
<1>1. /\ todo["cmd"] # <<>> /\ First("cmd").do = "arm" /\ i \in Items /\ TypeOK
      /\ UNCHANGED <<slots, drop_pending, actors>>
      /\ \/ Gets("cmd", <<>>) /\ UNCHANGED equip_pending
         \/ /\ equip_pending' = i
            /\ \/ inv # None /\ HandInTheWay /\ held \in Items /\ Goes("cmd", <<a, b, x>>)
               \/ inv # None /\ ~ HandInTheWay /\ Goes("cmd", <<x>>)
               \/ inv = None /\ Pops("cmd")
               \/ inv = None /\ HandInTheWay /\ held \in Items /\ Goes("cmd", Relocate(held))
  BY ArmIs, TasksAre DEF Typed, First
<1>2. /\ UNCHANGED <<held, inv, mail, place, want, drop_pending>>
      /\ todo'["evt"] = todo["evt"]
  BY <1>1, TasksAre DEF slots, actors, Goes, Pops, Gets
<1>3. Commanding /\ \A j \in Items : Mailed(j) /\ Kept(j)
  BY <1>1, CmdTidy
<1>4. \A j \in Items : Mailed(j)' /\ Kept(j)'
  BY <1>2, <1>3, SameKept
<1>5. ~ Asks(First("cmd")) /\ ~ Reach(First("cmd")) /\ i = First("cmd").item
  BY <1>1 DEF Asks, Reach, First
<1>6. ASSUME inv # None
      PROVE  x.do = "to-hand" /\ x.item = inv /\ x.why = None
  <2>1. inv \in Items \cup {None} /\ inv \in Chests
    BY <1>1, <1>6, Distinct DEF TypeOK
  <2> QED
    BY <1>6, <2>1 DEF Unequipping, StepAt
<1>7. None # "equip" /\ None # "drop"
  BY WhyIs
<1> HIDE DEF i, x
<1>8. CASE Gets("cmd", <<>>) /\ UNCHANGED equip_pending
  <2>1. todo'["cmd"] = <<>> /\ todo'["evt"] = <<>> /\ Alone'
    BY <1>2, <1>3, <1>8 DEF Gets, Commanding, Alone, Proposal
  <2>2. First("cmd").why = None
    BY <1>1, <1>5, AskLast
  <2>3. equip_pending' = None /\ drop_pending' = {}
    BY <1>1, <1>2, <1>3, <1>7, <1>8, <2>2 DEF Commanding, Flagged
  <2> QED
    BY <1>4, <2>1, <2>3 DEF Tidy, Phase, Resting
<1>9. ASSUME NEW new, Goes("cmd", new), Len(new) >= 1, equip_pending' = i, inv # None,
             \A k \in 1 .. Len(new) : new[k].why = None /\ new[k].do # "arm",
             \A k \in 1 .. Len(new) : Reach(new[k]) => new[k].item = inv,
             \E k \in 1 .. Len(new) : Reach(new[k]), Clearing'
      PROVE  Tidy'
  <2>1. Commanding'
    BY <1>1, <1>2, <1>3, <1>5, <1>9, CmdGoes
  <2> QED
    BY <1>4, <2>1 DEF Tidy, Phase
<1>10. CASE /\ equip_pending' = i /\ inv # None /\ HandInTheWay /\ held \in Items
            /\ Goes("cmd", <<a, b, x>>)
  <2> DEFINE n == <<a, b, x>>
  <2>1. /\ a.do = "room-drop" /\ a.item = held /\ b.do = "set-parent"
        /\ a.why = None /\ b.why = None
    BY <1>10, StepIs DEF Dos
  <2> HIDE DEF a, b
  <2>2. Len(n) = 3 /\ n[1] = a /\ n[2] = b /\ n[3] = x /\ Goes("cmd", n)
    BY <1>10
  <2> HIDE DEF n
  <2>3. \A k \in 1 .. Len(n) : k = 1 \/ k = 2 \/ k = 3
    BY <2>2
  <2>4. /\ \A k \in 1 .. Len(n) : n[k].why = None /\ n[k].do # "arm"
        /\ \A k \in 1 .. Len(n) : Reach(n[k]) => n[k].item = inv
    BY <1>6, <1>10, <2>1, <2>2, <2>3 DEF Reach
  <2>5. 3 \in 1 .. Len(n) /\ Reach(n[3]) /\ Len(n) >= 1
    BY <1>6, <1>10, <2>2 DEF Reach
  <2>6. First("cmd")' = a
    BY <1>1, <2>2, <2>5, GoesOnTo, TasksAre
  <2>7. ~ Takes(a) /\ held' # inv'
    BY <1>2, <1>10, <2>1 DEF Takes, Asks, Reach, HandInTheWay
  <2>8. Clearing'
    BY <1>2, <2>1, <2>6, <2>7 DEF Clearing
  <2> QED
    BY <1>9, <1>10, <2>2, <2>4, <2>5, <2>8
<1>11. CASE equip_pending' = i /\ inv # None /\ ~ HandInTheWay /\ Goes("cmd", <<x>>)
  <2> DEFINE n == <<x>>
  <2>1. Len(n) = 1 /\ n[1] = x /\ Goes("cmd", n)
    BY <1>11
  <2> HIDE DEF n
  <2>2. \A k \in 1 .. Len(n) : k = 1
    BY <2>1
  <2>3. /\ \A k \in 1 .. Len(n) : n[k].why = None /\ n[k].do # "arm"
        /\ \A k \in 1 .. Len(n) : Reach(n[k]) => n[k].item = inv
    BY <1>6, <1>11, <2>1, <2>2
  <2>4. 1 \in 1 .. Len(n) /\ Reach(n[1]) /\ Len(n) >= 1
    BY <1>6, <1>11, <2>1 DEF Reach
  <2>5. First("cmd")' = x
    BY <1>1, <2>1, <2>4, GoesOnTo, TasksAre
  <2>6. held' = None
    BY <1>2, <1>11 DEF HandInTheWay, Settled, Slotted, InventoryNotHeld
  <2>7. Clearing'
    BY <1>6, <1>11, <2>5, <2>6 DEF Clearing, FreeFor
  <2> QED
    BY <1>9, <1>11, <2>1, <2>3, <2>4, <2>7
<1>12. CASE equip_pending' = i /\ inv = None /\ Pops("cmd")
  <2>1. ASSUME todo'["cmd"] # <<>>
        PROVE  Clearing'
    <3>1. Follows(First("cmd"), First("cmd")') /\ Fits("cmd", First("cmd")')
      BY <1>1, <1>12, <2>1, PopsOn, TasksAre
    <3>2. /\ First("cmd")'.do \notin {"room-drop", "set-parent", "unbook", "put"}
          /\ ~ Takes(First("cmd")')
      BY <1>1, <3>1, FollowsIs
    <3> QED
      BY <3>2 DEF Clearing, Takes, Asks, Reach
  <2>2. Resting' \/ Commanding'
    BY <1>1, <1>2, <1>3, <1>5, <1>12, <2>1, CmdPops
  <2> QED
    BY <1>4, <2>2 DEF Tidy, Phase
<1>13. CASE /\ equip_pending' = i /\ inv = None /\ HandInTheWay /\ held \in Items
            /\ Goes("cmd", Relocate(held))
  <2> DEFINE n == Relocate(held)
  <2>1. /\ Len(n) = 2 /\ \A k \in 1 .. Len(n) : /\ n[k].why = None /\ ~ Reach(n[k])
                                                /\ n[k].do # "arm"
    BY <1>13, RelocateNew
  <2>2. held # inv'
    BY <1>2, <1>13 DEF HandInTheWay
  <2>3. Clearing'
    BY <1>2, <1>3, <1>13, <2>2, RelocateClears
  <2>4. Goes("cmd", n)
    BY <1>13
  <2> HIDE DEF n
  <2>5. /\ \A k \in 1 .. Len(n) : n[k].why = None /\ n[k].do # "arm"
        /\ \A k \in 1 .. Len(n) : Reach(n[k]) => n[k].item = inv
        /\ Len(n) >= 1 /\ inv' = None
    BY <1>2, <1>13, <2>1
  <2>6. Commanding'
    BY <1>1, <1>2, <1>3, <1>5, <1>13, <2>3, <2>4, <2>5, CmdGoes
  <2> QED
    BY <1>4, <2>6 DEF Tidy, Phase
<1> QED
  BY <1>1, <1>8, <1>10, <1>11, <1>12, <1>13

\* What is unequipped goes to a hand that is free.
LEMMA InHandTidy ==
  ASSUME Typed, Settled, Tidy, calm, todo["cmd"] # <<>>, Reach(First("cmd")),
         NEW j \in Items, j = inv, held' = j, inv' = None, UNCHANGED <<flags, actors>>,
         Pops("cmd") \/ (First("cmd").at # None /\ Goes("cmd", Relocate(j)))
  PROVE  Tidy'
<1>1. /\ UNCHANGED <<mail, place, want, drop_pending, equip_pending>>
      /\ todo'["evt"] = todo["evt"]
  BY TasksAre DEF flags, actors, Goes, Pops
<1>2. Commanding /\ \A i \in Items : Mailed(i) /\ Kept(i)
  BY CmdTidy
<1>3. Takes(First("cmd")) /\ ~ Asks(First("cmd")) /\ First("cmd").do # "arm"
  BY DEF Takes, Reach, Asks
<1>4. FreeFor(None)
  BY <1>2, <1>3 DEF Commanding, Clearing
<1>5. \A i \in Items : i \in {held, inv} => i \in {held', inv'} \/ Leaves(i)
  BY <1>4, Distinct DEF FreeFor
<1>6. \A i \in Items : Mailed(i)' /\ Kept(i)'
  BY <1>1, <1>2, <1>5, SameKept
<1>7. \A k \in 2 .. Len(todo["cmd"]) : ~ Reach(todo["cmd"][k])
  BY AfterReach, TasksAre DEF Asks, Reach, First
<1>8. CASE Pops("cmd")
  <2>1. ASSUME todo'["cmd"] # <<>>
        PROVE  Clearing'
    <3>1. Follows(First("cmd"), First("cmd")') /\ Fits("cmd", First("cmd")')
      BY <1>8, <2>1, PopsOn, TasksAre
    <3>2. /\ First("cmd")'.do \notin {"room-drop", "set-parent", "unbook", "put"}
          /\ ~ Takes(First("cmd")')
      BY <3>1, FollowsIs DEF Reach
    <3> QED
      BY <3>2 DEF Clearing, Takes, Asks, Reach
  <2>2. Resting' \/ Commanding'
    BY <1>1, <1>2, <1>3, <1>7, <1>8, <2>1, CmdPops
  <2> QED
    BY <1>6, <2>2 DEF Tidy, Phase
<1>9. CASE Goes("cmd", Relocate(j))
  <2> DEFINE n == Relocate(j)
  <2>1. /\ Len(n) = 2 /\ \A k \in 1 .. Len(n) : /\ n[k].why = None /\ ~ Reach(n[k])
                                                /\ n[k].do # "arm"
    BY RelocateNew
  <2>2. j # inv'
    BY Distinct
  <2>3. Clearing'
    BY <1>2, <1>9, <2>2, RelocateClears
  <2>4. Goes("cmd", n)
    BY <1>9
  <2> HIDE DEF n
  <2>5. /\ \A k \in 1 .. Len(n) : n[k].why = None /\ n[k].do # "arm"
        /\ \A k \in 1 .. Len(n) : ~ Reach(n[k])
        /\ Len(n) >= 1
    BY <2>1
  <2>6. Commanding'
    BY <1>1, <1>2, <1>3, <1>7, <2>3, <2>4, <2>5, CmdGoes
  <2> QED
    BY <1>6, <2>6 DEF Tidy, Phase
<1> QED
  BY <1>8, <1>9

LEMMA ToHandTidy ==
  ASSUME Typed, Settled, Tidy, calm, ToHand("cmd")
  PROVE  Tidy'
<1>1. /\ todo["cmd"] # <<>> /\ First("cmd").do = "to-hand" /\ UNCHANGED <<flags, actors>>
      /\ \/ /\ inv_entry # None /\ inv_entry \in Chests /\ held' = inv_entry /\ inv' = None
            /\ Pops("cmd") \/ (First("cmd").at # None /\ Goes("cmd", Relocate(inv_entry)))
         \/ /\ UNCHANGED slots
            /\ \E z \in Steps : /\ Goes("cmd", <<z>>) /\ z.do = "name?"
                                /\ z.item = First("cmd").item /\ z.why = First("cmd").why
  BY ToHandIs, TasksAre DEF First
<1>2. Commanding /\ \A i \in Items : Mailed(i) /\ Kept(i)
  BY <1>1, CmdTidy
<1>3. /\ Reach(First("cmd")) /\ ~ Asks(First("cmd")) /\ Takes(First("cmd"))
      /\ First("cmd").do # "arm"
  BY <1>1 DEF Reach, Asks, Takes
<1>4. First("cmd") \in Steps /\ First("cmd").why = None /\ First("cmd").item \in Chests
  BY <1>1, <1>3, AskLast DEF Fits
<1>5. First("cmd").item = inv /\ inv # None /\ inv \in Items
  <2>1. 1 \in 1 .. Len(todo["cmd"])
    BY <1>1, NowIs, TasksAre DEF Typed
  <2>2. First("cmd").item = inv
    BY <1>2, <1>3, <2>1 DEF Commanding, Named, First
  <2> QED
    BY <1>4, <2>2, Distinct
<1>6. CASE /\ inv_entry # None /\ held' = inv_entry /\ inv' = None
           /\ Pops("cmd") \/ (First("cmd").at # None /\ Goes("cmd", Relocate(inv_entry)))
  <2>1. inv_entry = inv
    BY <1>5, <1>6 DEF Settled, Slotted, EntryFollows
  <2> QED
    BY <1>1, <1>3, <1>5, <1>6, <2>1, InHandTidy
<1>7. ASSUME UNCHANGED slots, NEW z \in Steps, Goes("cmd", <<z>>), z.do = "name?",
             z.item = First("cmd").item, z.why = First("cmd").why
      PROVE  Tidy'
  <2> DEFINE n == <<z>>
  <2>1. Len(n) = 1 /\ n[1] = z /\ Goes("cmd", n)
    BY <1>7
  <2> HIDE DEF n
  <2>2. \A k \in 1 .. Len(n) : k = 1
    BY <2>1
  <2>3. /\ UNCHANGED <<held, inv, mail, place, want, drop_pending, equip_pending>>
        /\ todo'["evt"] = todo["evt"]
    BY <1>1, <1>7, <2>1, TasksAre DEF slots, flags, actors, Goes
  <2>4. \A i \in Items : Mailed(i)' /\ Kept(i)'
    BY <1>2, <2>3, SameKept
  <2>5. /\ \A k \in 1 .. Len(n) : n[k].why = None /\ n[k].do # "arm"
        /\ \A k \in 1 .. Len(n) : Reach(n[k]) => n[k].item = inv
        /\ Len(n) >= 1
    BY <1>4, <1>5, <1>7, <2>1, <2>2
  <2>6. \E k \in 1 .. Len(n) : Reach(n[k])
    BY <1>7, <2>1 DEF Reach
  <2>7. First("cmd")' = z
    BY <1>1, <2>1, <2>5, GoesOnTo, TasksAre
  <2>8. FreeFor(None)'
    BY <1>2, <1>3, <2>3, SameLeaves DEF Commanding, Clearing, FreeFor
  <2>9. Clearing'
    BY <1>7, <2>7, <2>8 DEF Clearing
  <2>10. Commanding'
    BY <1>2, <1>3, <2>1, <2>3, <2>5, <2>6, <2>9, CmdGoes
  <2> QED
    BY <2>4, <2>10 DEF Tidy, Phase
<1> QED
  BY <1>1, <1>6, <1>7

LEMMA NameTidy ==
  ASSUME Typed, Settled, Tidy, calm, Name("cmd")
  PROVE  Tidy'
<1> DEFINE i == First("cmd").item
<1>1. /\ todo["cmd"] # <<>> /\ First("cmd").do = "name?" /\ UNCHANGED <<flags, actors>>
      /\ i \in Items /\ held' = i /\ inv' = None
      /\ Pops("cmd") \/ (First("cmd").at # None /\ Goes("cmd", Relocate(i)))
  BY NameStepIs, TasksAre DEF First
<1>2. Reach(First("cmd")) /\ 1 \in 1 .. Len(todo["cmd"])
  BY <1>1, NowIs, TasksAre DEF Typed, Reach
<1>3. i = inv
  BY <1>1, <1>2, CmdTidy DEF Commanding, Named, First
<1> HIDE DEF i
<1> QED
  BY <1>1, <1>2, <1>3, InHandTidy

LEMMA RoomDropTidy ==
  ASSUME Typed, Tidy, calm, RoomDrop("cmd"), calm'
  PROVE  Tidy'
<1>1. /\ todo["cmd"] # <<>> /\ First("cmd").do = "room-drop"
      /\ Ended("cmd") /\ UNCHANGED <<slots, actors>>
  BY RoomDropIs, TasksAre DEF First
<1>2. /\ UNCHANGED <<held, inv, mail, place, want, drop_pending, equip_pending>>
      /\ todo'["evt"] = todo["evt"] /\ Pops("cmd")
  BY <1>1, TasksAre DEF slots, flags, actors, Ended, Pops
<1>3. Commanding /\ \A i \in Items : Mailed(i) /\ Kept(i)
  BY <1>1, CmdTidy
<1>4. \A i \in Items : Mailed(i)' /\ Kept(i)'
  BY <1>2, <1>3, SameKept
<1>5. ~ Asks(First("cmd")) /\ ~ Reach(First("cmd")) /\ First("cmd").do # "arm"
  BY <1>1 DEF Asks, Reach
<1>6. ASSUME todo'["cmd"] # <<>>
      PROVE  Clearing'
  <2>1. Follows(First("cmd"), First("cmd")')
    BY <1>1, <1>2, <1>6, PopsOn, TasksAre
  <2>2. First("cmd")'.do = "set-parent" /\ First("cmd")'.item = First("cmd").item
    BY <1>1, <2>1 DEF Follows, Reach
  <2>3. ~ Takes(First("cmd")')
    BY <2>2 DEF Takes, Asks, Reach
  <2>4. (\E k \in 1 .. Len(todo'["cmd"]) : Takes(todo'["cmd"][k]))
           => \E k \in 1 .. Len(todo["cmd"]) : Takes(todo["cmd"][k])
    BY <1>2, PopsFrom
  <2> QED
    BY <1>1, <1>2, <1>3, <2>2, <2>3, <2>4 DEF Commanding, Clearing
<1>7. Resting' \/ Commanding'
  BY <1>2, <1>3, <1>5, <1>6, CmdPops
<1> QED
  BY <1>4, <1>7 DEF Tidy, Phase

LEMMA ParentTidy ==
  ASSUME Typed, Tidy, calm, Parent("cmd")
  PROVE  Tidy'
<1>1. /\ todo["cmd"] # <<>> /\ First("cmd").do = "parent?"
      /\ Ended("cmd") \/ Failed("cmd")
      /\ UNCHANGED <<slots, actors>>
  BY ParentIs, TasksAre DEF First
<1>2. /\ UNCHANGED <<held, inv, mail, place, want>> /\ todo'["evt"] = todo["evt"]
  BY <1>1, TasksAre DEF slots, actors, Ended, Pops, Failed, Gets
<1>3. Commanding /\ \A i \in Items : Mailed(i) /\ Kept(i)
  BY <1>1, CmdTidy
<1>4. \A i \in Items : Mailed(i)' /\ Kept(i)'
  BY <1>2, <1>3, SameKept
<1>5. ~ Asks(First("cmd")) /\ ~ Reach(First("cmd")) /\ First("cmd").do # "arm"
  BY <1>1 DEF Asks, Reach
<1>6. CASE Ended("cmd")
  <2>1. Pops("cmd") /\ UNCHANGED <<drop_pending, equip_pending>>
    BY <1>6 DEF Ended, flags
  <2>2. ASSUME todo'["cmd"] # <<>>
        PROVE  Clearing'
    <3>1. Follows(First("cmd"), First("cmd")')
      BY <1>1, <2>1, <2>2, PopsOn, TasksAre
    <3>2. First("cmd")'.do = "clear-hand"
      BY <1>1, <3>1 DEF Follows, Reach
    <3> QED
      BY <3>2 DEF Clearing, Takes, Asks, Reach
  <2>3. Resting' \/ Commanding'
    BY <1>2, <1>3, <1>5, <2>1, <2>2, CmdPops
  <2> QED
    BY <1>4, <2>3 DEF Tidy, Phase
<1>7. CASE Failed("cmd")
  <2>1. Resting'
    BY <1>2, <1>3, <1>5, <1>7, CmdFails
  <2> QED
    BY <1>4, <2>1 DEF Tidy, Phase
<1> QED
  BY <1>1, <1>6, <1>7

LEMMA SetParentCmdTidy ==
  ASSUME Typed, Settled, Tidy, calm, SetParent("cmd"), calm'
  PROVE  Tidy'
<1>0. PICK i : i = First("cmd").item
  OBVIOUS
<1>1. /\ todo["cmd"] # <<>> /\ First("cmd").do = "set-parent" /\ i \in Items /\ TypeOK
      /\ \/ /\ place[i] = Gone /\ Ended("cmd") /\ UNCHANGED actors
            /\ held' = IF held = i THEN None ELSE held
            /\ inv' = IF inv = i THEN None ELSE inv
         \/ /\ place[i] = Me /\ Ended("cmd") /\ UNCHANGED <<slots, place, mail>>
            /\ want' = [want EXCEPT ![i] = Room]
         \/ Failed("cmd") /\ UNCHANGED <<slots, actors>>
  BY <1>0, SetParentIs, TasksAre DEF Typed, First
<1>2. Commanding /\ \A j \in Items : Mailed(j) /\ Kept(j)
  BY <1>1, CmdTidy
<1>3. /\ ~ Asks(First("cmd")) /\ ~ Reach(First("cmd")) /\ First("cmd").do # "arm"
      /\ i = First("cmd").item
  BY <1>0, <1>1 DEF Asks, Reach
<1>4. ASSUME Ended("cmd"), UNCHANGED mail, Leaves(i)', NEW k \in 1 .. Len(todo["cmd"]),
             Takes(todo["cmd"][k]), held' \in {None, held}
      PROVE  FreeFor(None)'
  BY <1>1, <1>2, <1>3, <1>4 DEF Commanding, Clearing, FreeFor
<1>5. ASSUME Ended("cmd"), UNCHANGED mail, Leaves(i)', held' \in {None, held},
             inv' = inv \/ (inv = i /\ inv' = None),
             \A j \in Items : Mailed(j)' /\ Kept(j)'
      PROVE  Tidy'
  <2>1. Pops("cmd") /\ UNCHANGED <<drop_pending, equip_pending>>
    BY <1>5 DEF Ended, flags
  <2>2. ASSUME todo'["cmd"] # <<>>
        PROVE  Clearing'
    <3>1. /\ Follows(First("cmd"), First("cmd")') /\ First("cmd")' = todo["cmd"][2]
          /\ Len(todo["cmd"]) >= 2 /\ Fits("cmd", First("cmd")')
      BY <1>1, <2>1, <2>2, PopsOn, TasksAre
    <3>2. 2 \in 1 .. Len(todo["cmd"])
      BY <1>1, <3>1, NowIs, TasksAre
    <3>3. Takes(First("cmd")') => FreeFor(None)'
      BY <1>4, <1>5, <3>1, <3>2
    <3>4. /\ First("cmd")'.do \notin {"room-drop", "set-parent", "put"}
          /\ First("cmd")'.do = "unbook" => First("cmd")'.item = i
      BY <1>1, <1>3, <3>1, FollowsIs
    <3> QED
      BY <1>5, <3>3, <3>4 DEF Clearing
  <2>3. inv' = inv \/ (inv' = None /\ \A k \in 2 .. Len(todo["cmd"]) : ~ Reach(todo["cmd"][k]))
    <3>1. ASSUME inv = i, NEW k \in 2 .. Len(todo["cmd"]), Reach(todo["cmd"][k])
          PROVE  FALSE
      <4>1. Takes(todo["cmd"][k]) /\ k \in 1 .. Len(todo["cmd"])
        BY <3>1 DEF Takes
      <4> QED
        BY <1>1, <1>2, <1>3, <3>1, <4>1 DEF Commanding, Clearing
    <3> QED
      BY <1>5, <3>1
  <2>4. Resting' \/ Commanding'
    BY <1>2, <1>3, <1>5, <2>1, <2>2, <2>3, CmdPops
  <2> QED
    BY <1>5, <2>4 DEF Tidy, Phase
<1>6. (Ended("cmd") \/ Failed("cmd")) => todo'["evt"] = todo["evt"]
  BY TasksAre DEF Ended, Pops, Failed, Gets
<1>7. CASE /\ place[i] = Gone /\ Ended("cmd") /\ UNCHANGED actors
           /\ held' = IF held = i THEN None ELSE held
           /\ inv' = IF inv = i THEN None ELSE inv
  <2>1. UNCHANGED <<mail, place, want>>
    BY <1>7 DEF actors
  <2>2. Leaves(i) /\ Leaves(i)'
    BY <1>7, <2>1, Distinct DEF Leaves
  <2>3. \A j \in Items : Mailed(j)' /\ Kept(j)'
    BY <1>2, <1>6, <1>7, <2>1, <2>2, SameKept
  <2> QED
    BY <1>5, <1>7, <2>1, <2>2, <2>3
<1>8. CASE /\ place[i] = Me /\ Ended("cmd") /\ UNCHANGED <<slots, place, mail>>
           /\ want' = [want EXCEPT ![i] = Room]
  <2>1. want'[i] = Room /\ \A j \in Items : j # i => want'[j] = want[j]
    BY <1>1, <1>8 DEF TypeOK
  <2>2. Leaves(i)' /\ \A j \in Items : Leaves(j) => Leaves(j)'
    BY <1>8, <2>1, Distinct DEF Leaves
  <2>3. held' = held /\ inv' = inv
    BY <1>8 DEF slots
  <2>4. \A j \in Items : Mailed(j)' /\ Kept(j)'
    BY <1>2, <1>6, <1>8, <2>2, <2>3, KeptOn
  <2> QED
    BY <1>5, <1>8, <2>2, <2>3, <2>4
<1>9. CASE Failed("cmd") /\ UNCHANGED <<slots, actors>>
  <2>1. UNCHANGED <<held, inv, mail, place, want>>
    BY <1>9 DEF slots, actors
  <2>2. \A j \in Items : Mailed(j)' /\ Kept(j)'
    BY <1>2, <1>6, <1>9, <2>1, SameKept
  <2>3. Resting'
    BY <1>2, <1>3, <1>9, <2>1, CmdFails
  <2> QED
    BY <2>2, <2>3 DEF Tidy, Phase
<1> QED
  BY <1>1, <1>7, <1>8, <1>9

\* The last step of a command that asks for nothing.
LEMMA CmdLastTidy ==
  ASSUME Typed, Tidy, calm, todo["cmd"] # <<>>, Final(First("cmd")), ~ Asks(First("cmd")),
         Ended("cmd"), UNCHANGED mail, inv' \in {inv, None},
         \A i \in Items : Mailed(i)' /\ Kept(i)'
  PROVE  Tidy'
<1>1. Pops("cmd") /\ UNCHANGED <<drop_pending, equip_pending>>
  BY DEF Ended, flags
<1>2. todo'["cmd"] = <<>> /\ Len(todo["cmd"]) = 1
  BY <1>1, FinalPops, AskLast, TasksAre DEF First
<1>3. Commanding /\ First("cmd").do # "arm" /\ ~ Reach(First("cmd"))
  BY CmdTidy DEF Final, Reach
<1>4. \A k \in 2 .. Len(todo["cmd"]) : ~ Reach(todo["cmd"][k])
  BY <1>2
<1>5. Resting' \/ Commanding'
  BY <1>1, <1>2, <1>3, <1>4, CmdPops
<1> QED
  BY <1>5 DEF Tidy, Phase

LEMMA PutInTidy ==
  ASSUME Typed, Tidy, calm, PutIn("cmd"), calm'
  PROVE  Tidy'
<1> DEFINE i == First("cmd").item
           c == First("cmd").at
<1>1. /\ todo["cmd"] # <<>> /\ First("cmd").do = "put" /\ i \in Items /\ TypeOK
      /\ Ended("cmd") /\ UNCHANGED <<slots, place, mail>>
      /\ c \in Chests \cup {None} /\ want' = [want EXCEPT ![i] = c]
  BY PutInIs, TasksAre DEF Typed, First
<1> HIDE DEF i, c
<1>2. Commanding /\ \A j \in Items : Mailed(j) /\ Kept(j)
  BY <1>1, CmdTidy
<1>3. c \notin {None, Me}
  BY <1>1, <1>2, Distinct DEF Commanding, Clearing, c
<1>4. want'[i] = c /\ \A j \in Items : j # i => want'[j] = want[j]
  BY <1>1 DEF TypeOK
<1>5. \A j \in Items : Leaves(j) => Leaves(j)'
  BY <1>1, <1>3, <1>4 DEF Leaves
<1>6. held' = held /\ inv' = inv /\ todo'["evt"] = todo["evt"]
  BY <1>1, TasksAre DEF slots, Ended, Pops
<1>7. \A j \in Items : Mailed(j)' /\ Kept(j)'
  BY <1>1, <1>2, <1>5, <1>6, KeptOn
<1> QED
  BY <1>1, <1>6, <1>7, CmdLastTidy DEF Final, Asks

LEMMA DestroyTidy ==
  ASSUME Typed, Tidy, calm, Destroy("cmd"), calm'
  PROVE  Tidy'
<1> DEFINE i == First("cmd").item
<1>1. /\ todo["cmd"] # <<>> /\ First("cmd").do = "recycle" /\ i \in Items /\ TypeOK
      /\ Ended("cmd") /\ UNCHANGED <<slots, mail>>
      /\ place' = [place EXCEPT ![i] = Gone] /\ want' = [want EXCEPT ![i] = None]
  BY DestroyIs, TasksAre DEF Typed, First
<1> HIDE DEF i
<1>2. Commanding /\ \A j \in Items : Mailed(j) /\ Kept(j)
  BY <1>1, CmdTidy
<1>3. /\ place'[i] = Gone
      /\ \A j \in Items : j # i => want'[j] = want[j] /\ place'[j] = place[j]
  BY <1>1 DEF TypeOK
<1>4. \A j \in Items : (Leaves(j) => Leaves(j)') /\ (place'[j] = Me => place[j] = Me)
  BY <1>1, <1>3, Distinct DEF Leaves
<1>5. held' = held /\ inv' = inv /\ todo'["evt"] = todo["evt"]
  BY <1>1, TasksAre DEF slots, Ended, Pops
<1>6. \A j \in Items : Mailed(j)' /\ Kept(j)'
  BY <1>1, <1>2, <1>4, <1>5, KeptOn
<1> QED
  BY <1>1, <1>5, <1>6, CmdLastTidy DEF Final, Asks

LEMMA UnbookCmdTidy ==
  ASSUME Typed, Tidy, calm, Unbook("cmd")
  PROVE  Tidy'
<1> DEFINE i == First("cmd").item
<1>1. /\ todo["cmd"] # <<>> /\ First("cmd").do = "unbook" /\ i \in Items
      /\ Ended("cmd") /\ UNCHANGED <<held, actors>>
      /\ inv' = IF inv = i THEN None ELSE inv
  BY UnbookIs, TasksAre DEF Typed, First
<1>2. Commanding /\ \A j \in Items : Mailed(j) /\ Kept(j)
  BY <1>1, CmdTidy
<1>3. Leaves(i)
  BY <1>1, <1>2 DEF Commanding, Clearing
<1> HIDE DEF i
<1>4. UNCHANGED <<place, want, mail>> /\ todo'["evt"] = todo["evt"]
  BY <1>1, TasksAre DEF actors, Ended, Pops
<1>5. \A j \in Items : Mailed(j)' /\ Kept(j)'
  BY <1>1, <1>2, <1>3, <1>4, SameKept
<1> QED
  BY <1>1, <1>4, <1>5, CmdLastTidy DEF Final, Asks

\* The last step of a command makes an item propose itself.
LEMMA CmdProposes ==
  ASSUME Typed, Tidy, calm, todo["cmd"] # <<>>, Ended("cmd"), UNCHANGED slots,
         NEW i \in Items,
         (Asks(First("cmd")) /\ First("cmd").item = i) \/ First("cmd").do = "forge",
         want'[i] = Me, place'[i] # Gone, Proposal(i)', Mailed(i)',
         \A j \in Items : j # i => /\ place'[j] = place[j] /\ want'[j] = want[j]
                                   /\ mail'[j] = mail[j]
  PROVE  Tidy'
<1>1. /\ Commanding /\ \A j \in Items : Mailed(j) /\ Kept(j)
      /\ \A j \in Items : Leaves(j) \/ j \in {held, inv}
  BY CmdTidy
<1>2. /\ todo["evt"] = <<>> /\ Alone /\ Flagged /\ Vacating /\ Clearing /\ TypeOK
  BY <1>1 DEF Commanding, Typed
<1>3. Final(First("cmd"))
  BY DEF Asks, Final
<1>4. /\ Len(todo["cmd"]) = 1 /\ Last("cmd") = First("cmd") /\ First("cmd") \in Steps
      /\ First("cmd").why # None <=> Asks(First("cmd"))
  BY <1>3, AskLast
<1>5. /\ Pops("cmd") /\ todo'["cmd"] = <<>> /\ todo'["evt"] = <<>>
      /\ UNCHANGED <<held, inv, equip_pending, drop_pending>>
  BY <1>2, <1>3, FinalPops, TasksAre DEF Ended, Pops, flags, slots, First
<1>6. \A j \in Items : j # i => /\ Leaves(j)' <=> Leaves(j)
                                /\ Proposal(j)' <=> Proposal(j)
                                /\ Mailed(j)' <=> Mailed(j)
  BY DEF Leaves, Proposal, Mailed
<1>7. \A j \in Items : Mailed(j)' /\ Kept(j)'
  BY <1>1, <1>5, <1>6 DEF Kept
<1>8. \A j \in Items : Proposal(j)' => j = i
  BY <1>2, <1>6 DEF Alone
<1>9. Takes(First("cmd")) => FreeFor(i)'
  <2>1. SUFFICES ASSUME Takes(First("cmd")), held # None, held # i
                 PROVE  Leaves(held)'
    BY <1>5 DEF FreeFor
  <2>2. Leaves(held) /\ held \in Items
    BY <1>2, <2>1 DEF Clearing, FreeFor, TypeOK
  <2> QED
    BY <1>5, <1>6, <2>1, <2>2 DEF Leaves
<1>10. First("cmd").why \in {None, "take", "equip", "drop"}
  BY <1>4, StepType DEF Asked
<1>11. First("cmd").do # "arm" /\ ~ Reach(First("cmd"))
  BY DEF Asks, Reach
<1>12. CASE First("cmd").why = "equip"
  <2>1. First("cmd").item = i /\ i # None
    BY <1>4, <1>12, WhyIs, Distinct DEF Asks
  <2>2. equip_pending' = i /\ drop_pending' = {}
    BY <1>2, <1>4, <1>5, <1>11, <1>12, <2>1 DEF Flagged
  <2>3. \A k \in 1 .. Len(todo["cmd"]) : ~ Reach(todo["cmd"][k])
    BY <1>4, <1>11 DEF First
  <2>4. inv' = None
    BY <1>2, <1>5, <2>1, <2>2, <2>3 DEF Vacating
  <2> QED
    BY <1>5, <1>7, <1>8, <2>2, <2>4 DEF Proposing, Tidy, Phase
<1>13. CASE First("cmd").why = "drop"
  <2>1. First("cmd").item = i
    BY <1>4, <1>13, WhyIs DEF Asks
  <2>2. equip_pending' = None /\ drop_pending' = {i}
    BY <1>2, <1>4, <1>5, <1>13, <2>1 DEF Flagged
  <2> QED
    BY <1>5, <1>7, <1>8, <2>2 DEF Proposing, Tidy, Phase
<1>14. CASE First("cmd").why \in {None, "take"}
  <2>1. Takes(First("cmd"))
    BY <1>4, <1>14, WhyIs DEF Takes
  <2>2. equip_pending' = None /\ drop_pending' = {}
    BY <1>2, <1>4, <1>5, <1>14, WhyIs DEF Flagged
  <2> QED
    BY <1>5, <1>7, <1>8, <1>9, <2>1, <2>2 DEF Proposing, Tidy, Phase
<1> QED
  BY <1>7, <1>10, <1>12, <1>13, <1>14 DEF Tidy, Phase

LEMMA AskingTidy ==
  ASSUME Typed, Tidy, calm, Asking("cmd"), calm'
  PROVE  Tidy'
<1>0. PICK i : i = First("cmd").item
  OBVIOUS
<1>1. /\ todo["cmd"] # <<>> /\ Asks(First("cmd")) /\ i \in Items /\ TypeOK
      /\ place[i] # Gone /\ Proposed("cmd", i)
  BY <1>0, AskingIs, TasksAre DEF Typed, First
<1>2. Commanding /\ \A j \in Items : Mailed(j) /\ Kept(j)
  BY <1>1, CmdTidy
<1>3. PICK m \in Messages : m.parent = Me /\ Sends(i, m)
  BY <1>1 DEF Proposed
<1>4. /\ want'[i] = Me /\ UNCHANGED <<slots, place>> /\ Ended("cmd")
      /\ \A j \in Items : j # i => want'[j] = want[j] /\ mail'[j] = mail[j]
  BY <1>1, <1>3 DEF Proposed, Sends, TypeOK
<1>5. /\ Len(mail[i]) \in Nat /\ Len(mail'[i]) = Len(mail[i]) + 1
      /\ mail'[i][Len(mail[i]) + 1] = m
      /\ \A k \in 1 .. Len(mail[i]) : mail'[i][k] = mail[i][k]
  BY <1>3 DEF Sends
<1>6. Len(mail'[i]) \in 1 .. Len(mail'[i]) /\ mail'[i][Len(mail'[i])].parent = Me
  BY <1>3, <1>5
<1>7. Proposal(i)'
  BY <1>6 DEF Proposal
<1>8. Mailed(i)'
  <2>1. SUFFICES ASSUME NEW k \in 1 .. Len(mail'[i]), k # Len(mail'[i])
                 PROVE  mail'[i][k].parent # Me /\ place'[i] # Me
    BY <1>6 DEF Mailed
  <2>2. k \in 1 .. Len(mail[i])
    BY <1>5, <2>1
  <2>3. mail[i][k].parent # Me
    BY <1>1, <1>2, <2>2 DEF Commanding, Alone, Proposal
  <2>4. place[i] # Me
    BY <1>1, <1>2, <2>2, <2>3 DEF Mailed
  <2> QED
    BY <1>4, <1>5, <2>2, <2>3, <2>4
<1> QED
  BY <1>0, <1>1, <1>4, <1>7, <1>8, CmdProposes

LEMMA CreateTidy ==
  ASSUME Typed, Tidy, calm, Create("cmd"), calm'
  PROVE  Tidy'
<1>1. /\ todo["cmd"] # <<>> /\ First("cmd").do = "forge" /\ TypeOK
      /\ \E i \in Items : /\ Ended("cmd") /\ UNCHANGED slots
                          /\ place' = [place EXCEPT ![i] = Me]
                          /\ want' = [want EXCEPT ![i] = Me]
                          /\ mail' = [mail EXCEPT ![i] = <<[parent |-> Me, why |-> None]>>]
  BY CreateIs, TasksAre DEF Typed, First
<1>2. PICK i \in Items : /\ Ended("cmd") /\ UNCHANGED slots
                         /\ place' = [place EXCEPT ![i] = Me]
                         /\ want' = [want EXCEPT ![i] = Me]
                         /\ mail' = [mail EXCEPT ![i] = <<[parent |-> Me, why |-> None]>>]
  BY <1>1
<1> DEFINE m == [parent |-> Me, why |-> None]
           q == <<m>>
<1>3. m.parent = Me /\ Len(q) = 1 /\ q[1] = m /\ mail' = [mail EXCEPT ![i] = q]
  BY <1>2
<1> HIDE DEF m, q
<1>4. /\ want'[i] = Me /\ place'[i] = Me /\ mail'[i] = q
      /\ \A j \in Items : j # i => /\ place'[j] = place[j] /\ want'[j] = want[j]
                                   /\ mail'[j] = mail[j]
  BY <1>1, <1>2, <1>3 DEF TypeOK
<1>5. /\ 1 \in 1 .. Len(q) /\ q[1].parent = Me
      /\ \A k \in 1 .. Len(q) : k = 1 /\ k = Len(q)
  BY <1>3
<1>6. Proposal(i)' /\ Mailed(i)'
  BY <1>4, <1>5 DEF Proposal, Mailed
<1> QED
  BY <1>1, <1>2, <1>4, <1>6, CmdProposes, Distinct

\* The handler of an event is about one item.
LEMMA EvtTidy ==
  ASSUME Typed, Tidy, calm, todo["evt"] # <<>>, NEW i, i = First("evt").item
  PROVE  /\ i \in Items /\ Handling(i) /\ \A j \in Items : Mailed(j) /\ Kept(j)
         /\ \A j \in Items : Moving(j) => j = i
<1>1. Phase /\ \A j \in Items : Mailed(j) /\ Kept(j)
  BY DEF Tidy
<1>2. PICK j \in Items : Handling(j)
  BY <1>1 DEF Phase, Resting, Commanding, Proposing
<1>3. 1 \in 1 .. Len(todo["evt"])
  BY NowIs, TasksAre DEF Typed
<1>4. i = j
  BY <1>2, <1>3 DEF Handling, First
<1> QED
  BY <1>1, <1>2, <1>4 DEF Moving

\* It goes on ...
LEMMA EvtOn ==
  ASSUME Typed, NEW i \in Items, Handling(i), Pops("evt"), todo'["evt"] # <<>>,
         UNCHANGED <<equip_pending, drop_pending, mail>>,
         First("evt").do = "child" => inv' = inv /\ (FreeFor(i) => FreeFor(i)'),
         First("evt")'.do = "unbook" => Leaves(i)'
  PROVE  /\ Handling(i)' /\ First("evt")'.item = i
         /\ Follows(First("evt"), First("evt")')
<1>1. /\ todo["cmd"] = <<>> /\ todo["evt"] # <<>> /\ Alone /\ drop_pending = {}
      /\ \A k \in 1 .. Len(todo["evt"]) :
            todo["evt"][k].do # "booked" /\ todo["evt"][k].item = i
  BY DEF Handling
<1>2. /\ Len(todo["evt"]) >= 2 /\ Last("evt")' = Last("evt")
      /\ Follows(First("evt"), First("evt")')
  BY <1>1, PopsOn, TasksAre
<1>3. /\ Len(todo["evt"]) \in Nat /\ Len(todo'["evt"]) = Len(todo["evt"]) - 1
      /\ todo'["cmd"] = todo["cmd"]
  BY TasksAre DEF Pops
<1>4. Alone'
  BY <1>1 DEF Alone, Proposal
<1>5. \A k \in 1 .. Len(todo'["evt"]) :
         todo'["evt"][k].do # "booked" /\ todo'["evt"][k].item = i
  BY <1>1, PopsFrom
<1>6. 1 \in 1 .. Len(todo'["evt"])
  BY <1>2, <1>3
<1>7. First("evt")'.item = i /\ First("evt")'.do # "child"
  <2>1. First("evt")'.item = i
    BY <1>5, <1>6 DEF First
  <2>2. First("evt")'.do # "child"
    BY <1>2 DEF Follows, Asks, Reach
  <2> QED
    BY <2>1, <2>2
<1>8. Last("evt").do \in {"book", "accept"} =>
         First("evt").do = "child" /\ Len(todo'["evt"]) = 1
  BY <1>2, <1>3 DEF Handling
<1>9. /\ Last("evt").do = "book" => inv' = None
      /\ Last("evt").do = "accept" => FreeFor(i)'
  BY <1>8 DEF Handling
<1>10. equip_pending' = IF Last("evt").do = "book" THEN i ELSE None
  BY DEF Handling
<1> QED
  BY <1>1, <1>2, <1>3, <1>4, <1>5, <1>7, <1>8, <1>9, <1>10 DEF Handling

\* ... or is done.
LEMMA EvtEnds ==
  ASSUME NEW i \in Items, Handling(i), todo'["evt"] = <<>>, todo'["cmd"] = todo["cmd"],
         UNCHANGED <<drop_pending, mail>>, equip_pending' = None
  PROVE  Resting'
BY DEF Handling, Resting, Alone, Proposal

LEMMA EvtKept ==
  ASSUME NEW i \in Items, \A j \in Items : Mailed(j) /\ Kept(j),
         \A j \in Items : Moving(j) => j = i, Kept(i)', UNCHANGED mail,
         \A j \in Items : /\ place'[j] = Me => place[j] = Me
                          /\ Leaves(j) => Leaves(j)'
                          /\ j \in {held, inv} => j \in {held', inv'} \/ Leaves(j)' \/ j = i
  PROVE  \A j \in Items : Mailed(j)' /\ Kept(j)'
<1> TAKE j \in Items
<1>1. Mailed(j)'
  BY DEF Mailed
<1>2. Proposal(j) => Proposal(j)'
  BY DEF Proposal
<1> QED
  BY <1>1, <1>2 DEF Kept

LEMMA ChildTidy ==
  ASSUME Typed, Tidy, calm, Child("evt"), calm'
  PROVE  Tidy'
<1>0. PICK i : i = First("evt").item
  OBVIOUS
<1>1. /\ todo["evt"] # <<>> /\ First("evt").do = "child" /\ TypeOK
      /\ \/ /\ Ended("evt") /\ place' = [place EXCEPT ![i] = Me]
            /\ want' = [want EXCEPT ![i] = None] /\ UNCHANGED <<slots, mail>>
         \/ ~ (place[i] # Gone /\ want[i] = Me)
  BY <1>0, ChildIs, TasksAre DEF Typed, First
<1>2. /\ i \in Items /\ Handling(i) /\ \A j \in Items : Mailed(j) /\ Kept(j)
      /\ \A j \in Items : Moving(j) => j = i
  BY <1>0, <1>1, EvtTidy
<1>3. want[i] = Me /\ place[i] # Gone /\ mail[i] = <<>>
  BY <1>1, <1>2 DEF Handling
<1>4. /\ Pops("evt") /\ UNCHANGED <<equip_pending, drop_pending, mail, held, inv>>
      /\ \A j \in Items : j # i => place'[j] = place[j] /\ want'[j] = want[j]
  BY <1>1, <1>2, <1>3 DEF Ended, flags, slots, TypeOK
<1>5. todo'["evt"] # <<>>
  <2>1. ~ Ends(todo["evt"][1])
    BY <1>1 DEF Ends, Final, Reach, First
  <2>2. Len(todo["evt"]) # 1
    BY <1>1, <2>1, NextStep, TasksAre
  <2> QED
    BY <1>1, <1>4, <2>2, PopsOn, TasksAre
<1>6. Follows(First("evt"), First("evt")')
  BY <1>1, <1>4, <1>5, PopsOn, TasksAre
<1>7. First("evt")'.do \in {"book", "accept", "room-drop"}
  BY <1>1, <1>6 DEF Follows, Reach
<1>8. \A j \in Items : j # i => (Leaves(j)' <=> Leaves(j))
  BY <1>4 DEF Leaves
<1>9. FreeFor(i) => FreeFor(i)'
  <2>1. SUFFICES ASSUME held \notin {None, i}, Leaves(held)
                 PROVE  Leaves(held)'
    BY <1>4 DEF FreeFor
  <2>2. held \in Items
    BY <1>1, <2>1 DEF TypeOK
  <2> QED
    BY <1>4, <2>1, <2>2 DEF Leaves
<1>10. Handling(i)' /\ First("evt")'.item = i
  BY <1>2, <1>4, <1>5, <1>7, <1>9, EvtOn
<1>11. Kept(i)' /\ Mailed(i)'
  <2>1. Moving(i)'
    BY <1>5, <1>7, <1>10 DEF Moving
  <2>2. Len(mail[i]) = 0
    BY <1>3
  <2>3. Mailed(i)'
    BY <1>4, <2>2 DEF Mailed
  <2> QED
    BY <2>1, <2>3 DEF Kept
<1>12. ASSUME NEW j \in Items, j # i
       PROVE  Mailed(j)' /\ Kept(j)'
  <2>1. Mailed(j)' /\ (Proposal(j) => Proposal(j)')
    BY <1>2, <1>4, <1>12 DEF Mailed, Proposal
  <2> QED
    BY <1>2, <1>4, <1>8, <1>12, <2>1 DEF Kept
<1> QED
  BY <1>2, <1>10, <1>11, <1>12 DEF Tidy, Phase

LEMMA RoomDropEvtTidy ==
  ASSUME Typed, Tidy, calm, RoomDrop("evt"), calm'
  PROVE  Tidy'
<1>0. PICK i : i = First("evt").item
  OBVIOUS
<1>1. /\ todo["evt"] # <<>> /\ First("evt").do = "room-drop"
      /\ Ended("evt") /\ UNCHANGED <<slots, actors>>
  BY RoomDropIs, TasksAre DEF First
<1>2. /\ i \in Items /\ Handling(i) /\ \A j \in Items : Mailed(j) /\ Kept(j)
      /\ \A j \in Items : Moving(j) => j = i
  BY <1>0, <1>1, EvtTidy
<1>3. /\ Pops("evt")
      /\ UNCHANGED <<equip_pending, drop_pending, mail, held, inv, place, want>>
  BY <1>1 DEF Ended, flags, slots, actors
<1>4. todo'["evt"] # <<>>
  <2>1. ~ Ends(todo["evt"][1])
    BY <1>1 DEF Ends, Final, Reach, First
  <2>2. Len(todo["evt"]) # 1
    BY <1>1, <2>1, NextStep, TasksAre
  <2> QED
    BY <1>1, <1>3, <2>2, PopsOn, TasksAre
<1>5. Follows(First("evt"), First("evt")')
  BY <1>1, <1>3, <1>4, PopsOn, TasksAre
<1>6. First("evt")'.do = "set-parent"
  BY <1>1, <1>5 DEF Follows, Reach
<1>7. Handling(i)' /\ First("evt")'.item = i
  BY <1>1, <1>2, <1>3, <1>4, <1>6, EvtOn
<1>8. Kept(i)'
  BY <1>4, <1>6, <1>7 DEF Kept, Moving
<1>9. \A j \in Items : Leaves(j) => Leaves(j)'
  BY <1>3 DEF Leaves
<1>10. \A j \in Items : Mailed(j)' /\ Kept(j)'
  BY <1>2, <1>3, <1>8, <1>9, EvtKept
<1> QED
  BY <1>2, <1>7, <1>10 DEF Tidy, Phase

LEMMA SetParentEvtTidy ==
  ASSUME Typed, Tidy, calm, SetParent("evt"), calm'
  PROVE  Tidy'
<1>0. PICK i : i = First("evt").item
  OBVIOUS
<1>1. /\ todo["evt"] # <<>> /\ First("evt").do = "set-parent" /\ TypeOK
      /\ \/ /\ place[i] = Gone /\ Ended("evt") /\ UNCHANGED actors
            /\ held' = IF held = i THEN None ELSE held
            /\ inv' = IF inv = i THEN None ELSE inv
         \/ /\ place[i] = Me /\ Ended("evt") /\ UNCHANGED <<slots, place, mail>>
            /\ want' = [want EXCEPT ![i] = Room]
         \/ place[i] \notin {Me, Gone} /\ Failed("evt") /\ UNCHANGED <<slots, actors>>
  BY <1>0, SetParentIs, TasksAre DEF Typed, First
<1>2. /\ i \in Items /\ Handling(i) /\ \A j \in Items : Mailed(j) /\ Kept(j)
      /\ \A j \in Items : Moving(j) => j = i
  BY <1>0, <1>1, EvtTidy
<1>3. Len(todo["evt"]) # 1
  <2>1. ~ Ends(todo["evt"][1])
    BY <1>1 DEF Ends, Final, Reach, First
  <2> QED
    BY <1>1, <2>1, NextStep, TasksAre
<1>4. ASSUME Ended("evt"), UNCHANGED mail, Leaves(i)',
             \A j \in Items : /\ place'[j] = place[j] /\ (Leaves(j) => Leaves(j)')
                              /\ j \in {held, inv} => j \in {held', inv'} \/ j = i
      PROVE  Tidy'
  <2>1. Pops("evt") /\ UNCHANGED <<equip_pending, drop_pending>>
    BY <1>4 DEF Ended, flags
  <2>2. todo'["evt"] # <<>>
    BY <1>1, <1>3, <2>1, PopsOn, TasksAre
  <2>3. Handling(i)'
    BY <1>1, <1>2, <1>4, <2>1, <2>2, EvtOn
  <2>4. Kept(i)'
    BY <1>4 DEF Kept
  <2>5. \A j \in Items : Mailed(j)' /\ Kept(j)'
    BY <1>2, <1>4, <2>4, EvtKept
  <2> QED
    BY <1>2, <2>3, <2>5 DEF Tidy, Phase
<1>5. CASE /\ place[i] = Gone /\ Ended("evt") /\ UNCHANGED actors
           /\ held' = IF held = i THEN None ELSE held
           /\ inv' = IF inv = i THEN None ELSE inv
  <2>1. UNCHANGED <<place, want, mail>>
    BY <1>5 DEF actors
  <2>2. Leaves(i)' /\ \A j \in Items : Leaves(j) => Leaves(j)'
    BY <1>5, <2>1, Distinct DEF Leaves
  <2> QED
    BY <1>4, <1>5, <2>1, <2>2
<1>6. CASE /\ place[i] = Me /\ Ended("evt") /\ UNCHANGED <<slots, place, mail>>
           /\ want' = [want EXCEPT ![i] = Room]
  <2>1. want'[i] = Room /\ \A j \in Items : j # i => want'[j] = want[j]
    BY <1>1, <1>2, <1>6 DEF TypeOK
  <2>2. Leaves(i)' /\ \A j \in Items : Leaves(j) => Leaves(j)'
    BY <1>6, <2>1, Distinct DEF Leaves
  <2> QED
    BY <1>4, <1>6, <2>2 DEF slots
<1>7. CASE place[i] \notin {Me, Gone} /\ Failed("evt") /\ UNCHANGED <<slots, actors>>
  <2>1. /\ UNCHANGED <<held, inv, place, want, mail, equip_pending, drop_pending>>
        /\ todo'["evt"] = <<>> /\ todo'["cmd"] = todo["cmd"]
    BY <1>7, TasksAre DEF Failed, Gets, slots, actors
  <2>2. Last("evt").do # "book"
    BY <1>1, <1>2, <1>3 DEF Handling
  <2>3. equip_pending' = None
    BY <1>2, <2>1, <2>2 DEF Handling
  <2>4. Resting'
    BY <1>2, <2>1, <2>3, EvtEnds
  <2>5. Leaves(i)' /\ \A j \in Items : Leaves(j) => Leaves(j)'
    BY <1>7, <2>1 DEF Leaves
  <2>6. \A j \in Items : Mailed(j)' /\ Kept(j)'
    BY <1>2, <2>1, <2>5, EvtKept DEF Kept
  <2> QED
    BY <2>4, <2>6 DEF Tidy, Phase
<1> QED
  BY <1>1, <1>5, <1>6, <1>7

\* The last step of the handler of an event.
LEMMA EvtLast ==
  ASSUME Typed, Tidy, calm, todo["evt"] # <<>>, Final(First("evt")), Pops("evt"),
         NEW i, i = First("evt").item, First("evt").do # "book" => UNCHANGED equip_pending,
         First("evt").do = "book" => equip_pending' = None, UNCHANGED <<drop_pending, actors>>,
         Kept(i)',
         \A j \in Items : j \in {held, inv} => j \in {held', inv'} \/ Leaves(j) \/ j = i
  PROVE  Tidy'
<1>1. /\ i \in Items /\ Handling(i) /\ \A j \in Items : Mailed(j) /\ Kept(j)
      /\ \A j \in Items : Moving(j) => j = i
  BY EvtTidy
<1>2. /\ todo'["evt"] = <<>> /\ todo'["cmd"] = todo["cmd"] /\ UNCHANGED <<place, want, mail>>
  BY FinalPops, TasksAre DEF First, Pops, actors
<1>3. Last("evt") = First("evt")
  BY FinalAlone, TasksAre DEF First, Last
<1>4. equip_pending' = None
  BY <1>1, <1>3 DEF Handling
<1>5. Resting'
  BY <1>1, <1>2, <1>4, EvtEnds
<1>6. \A j \in Items : Leaves(j) => Leaves(j)'
  BY <1>2 DEF Leaves
<1>7. \A j \in Items : Mailed(j)' /\ Kept(j)'
  BY <1>1, <1>2, <1>6, EvtKept
<1> QED
  BY <1>5, <1>7 DEF Tidy, Phase

LEMMA BookTidy ==
  ASSUME Typed, Tidy, calm, Book("evt")
  PROVE  Tidy'
<1>0. PICK i : i = First("evt").item
  OBVIOUS
<1>1. /\ todo["evt"] # <<>> /\ First("evt").do = "book"
      /\ equip_pending' = None /\ held' = IF held = i THEN None ELSE held
      /\ UNCHANGED <<drop_pending, actors>>
      /\ \/ inv' = i /\ Pops("evt")
         \/ inv \notin {None, i}
  BY <1>0, BookIs, TasksAre DEF First
<1>2. Final(First("evt")) /\ Last("evt") = First("evt")
  BY <1>1, FinalAlone, TasksAre DEF First, Last, Final
<1>3. inv = None
  BY <1>0, <1>1, <1>2, EvtTidy DEF Handling
<1>4. inv' = i /\ Pops("evt")
  BY <1>1, <1>3
<1>5. Kept(i)'
  BY <1>4 DEF Kept
<1> QED
  BY <1>0, <1>1, <1>2, <1>3, <1>4, <1>5, Distinct, EvtLast

LEMMA AcceptTidy ==
  ASSUME Typed, Tidy, calm, Accept("evt")
  PROVE  Tidy'
<1>0. PICK i : i = First("evt").item
  OBVIOUS
<1>1. /\ todo["evt"] # <<>> /\ First("evt").do = "accept"
      /\ Ended("evt") /\ UNCHANGED <<inv, actors>>
      /\ \/ i = inv /\ UNCHANGED held
         \/ i # inv /\ held' = i
  BY <1>0, AcceptIs, TasksAre DEF First
<1>2. Final(First("evt")) /\ Last("evt") = First("evt")
  BY <1>1, FinalAlone, TasksAre DEF First, Last, Final
<1>3. FreeFor(i)
  BY <1>0, <1>1, <1>2, EvtTidy DEF Handling
<1>4. Pops("evt") /\ UNCHANGED <<equip_pending, drop_pending>>
  BY <1>1 DEF Ended, flags
<1>5. Kept(i)'
  BY <1>1 DEF Kept
<1>6. \A j \in Items : j \in {held, inv} => j \in {held', inv'} \/ Leaves(j) \/ j = i
  BY <1>1, <1>3, Distinct DEF FreeFor
<1> QED
  BY <1>0, <1>1, <1>2, <1>4, <1>5, <1>6, EvtLast

LEMMA UnbookEvtTidy ==
  ASSUME Typed, Tidy, calm, Unbook("evt")
  PROVE  Tidy'
<1>0. PICK i : i = First("evt").item
  OBVIOUS
<1>1. /\ todo["evt"] # <<>> /\ First("evt").do = "unbook"
      /\ Ended("evt") /\ UNCHANGED <<held, actors>>
      /\ inv' = IF inv = i THEN None ELSE inv
  BY <1>0, UnbookIs, TasksAre DEF First
<1>2. Final(First("evt"))
  BY <1>1 DEF Final
<1>3. Leaves(i)
  BY <1>0, <1>1, EvtTidy DEF Handling
<1>4. Pops("evt") /\ UNCHANGED <<equip_pending, drop_pending, place, want>>
  BY <1>1 DEF Ended, flags, actors
<1>5. Kept(i)'
  BY <1>3, <1>4 DEF Kept, Leaves
<1>6. \A j \in Items : j \in {held, inv} => j \in {held', inv'} \/ Leaves(j) \/ j = i
  BY <1>1
<1> QED
  BY <1>0, <1>1, <1>2, <1>4, <1>5, <1>6, EvtLast

-----------------------------------------------------------------------------

LEMMA TaskTidy ==
  ASSUME Typed, Settled, Tidy, NEW t \in Tasks, Task(t)
  PROVE  Tidy'
<1>1. SUFFICES ASSUME calm'
               PROVE  Tidy'
  BY DEF Tidy
<1>2. calm
  <2>1. UNCHANGED history \/ UNCHANGED calm \/ calm' = FALSE
    BY DEF Task, ClearHandStep, Arm, ToHand, Book, Booked, Accept, Unbook, RoomDrop,
       SetParent, Hold, TakeOut, PutIn, Child, Parent, Name, Create, Destroy, Proposes,
       Refused
  <2> QED
    BY <1>1, <2>1 DEF history
<1>3. CASE t = "cmd"
  <2>1. ASSUME NEW do, Doing("cmd", do)
        PROVE  do \in CmdDos
    BY <2>1, FirstIs, TasksAre DEF Fits
  <2>2. ~ Book("cmd") /\ ~ Booked("cmd") /\ ~ Accept("cmd") /\ ~ Child("cmd")
    BY <2>1 DEF Book, Booked, Accept, Child, Call, CmdDos
  <2> QED
    BY <1>1, <1>2, <1>3, <2>2, ClearHandTidy, ArmTidy, ToHandTidy, NameTidy, RoomDropTidy,
       SetParentCmdTidy, AskingTidy, PutInTidy, ParentTidy, CreateTidy, DestroyTidy,
       UnbookCmdTidy DEF Task, Asking
<1>4. CASE t = "evt"
  <2>1. ASSUME NEW do, Doing("evt", do)
        PROVE  do \in EvtDos
    BY <2>1, FirstIs, TasksAre DEF Fits
  <2>2. /\ ~ ClearHandStep("evt") /\ ~ Arm("evt") /\ ~ ToHand("evt") /\ ~ Hold("evt")
        /\ ~ TakeOut("evt") /\ ~ PutIn("evt") /\ ~ Parent("evt") /\ ~ Name("evt")
        /\ ~ Create("evt") /\ ~ Destroy("evt")
    BY <2>1 DEF ClearHandStep, Arm, ToHand, Hold, TakeOut, PutIn, Parent, Name, Create,
       Destroy, Call, EvtDos
  <2>3. ~ Booked("evt")
    <3>1. SUFFICES ASSUME Doing("evt", "booked")
                   PROVE  FALSE
      BY DEF Booked
    <3>2. /\ todo["evt"] # <<>> /\ todo["evt"][1].do = "booked"
          /\ 1 \in 1 .. Len(todo["evt"])
      BY <3>1, DoingIs, TasksAre DEF Typed
    <3>3. PICK i : i = First("evt").item
      OBVIOUS
    <3>4. Handling(i)
      BY <1>2, <3>2, <3>3, EvtTidy
    <3> QED
      BY <3>2, <3>4 DEF Handling
  <2> QED
    BY <1>1, <1>2, <1>4, <2>2, <2>3, BookTidy, AcceptTidy, UnbookEvtTidy, RoomDropEvtTidy,
       SetParentEvtTidy, ChildTidy DEF Task
<1> QED
  BY <1>3, <1>4, TasksAre

\* A command is given only when all is quiet.
LEMMA StartTidy ==
  ASSUME Typed, Tidy, NEW new, Start(new)
  PROVE  Tidy'
<1>1. SUFFICES ASSUME calm'
               PROVE  Tidy'
  BY DEF Tidy
<1>2. /\ calm /\ Quiet /\ TypeOK /\ Starts(new) /\ Gets("cmd", new)
      /\ UNCHANGED <<held, inv, place, want, mail>>
  BY <1>1 DEF Start, Typed, slots, actors
<1>3. todo["cmd"] = <<>> /\ todo["evt"] = <<>> /\ todo'["cmd"] = new /\ todo'["evt"] = <<>>
  BY <1>2, TasksAre DEF Quiet, Gets
<1>4. Phase /\ \A i \in Items : Mailed(i) /\ Kept(i)
  BY <1>2 DEF Tidy
<1>5. \A i \in Items : ~ Proposal(i)
  <2>1. \A i \in Items : Len(mail[i]) = 0
    BY <1>2 DEF Quiet
  <2> QED
    BY <2>1 DEF Proposal
<1>6. Resting
  BY <1>3, <1>4, <1>5 DEF Phase, Commanding, Proposing, Handling
<1>7. \A i \in Items : Mailed(i)' /\ Kept(i)'
  BY <1>2, <1>3, <1>4, SameKept
<1>8. /\ Len(new) \in Nat /\ Len(new) >= 1 /\ 1 \in 1 .. Len(new)
      /\ Len(new) \in 1 .. Len(new)
  BY <1>2 DEF Starts
<1>9. First("cmd")' = new[1] /\ Last("cmd")' = new[Len(new)] /\ todo'["cmd"] # <<>>
  BY <1>3, <1>8 DEF First, Last
<1>10. Flagged'
  <2>1. new[Len(new)].why = "equip" => new[1].do = "arm"
    BY <1>2, <1>8 DEF Starts
  <2>2. equip_pending' = None
    BY <1>2, <1>6 DEF Starts, Resting
  <2>3. drop_pending' = IF new[1].why = "drop" THEN {new[1].item} ELSE {}
    BY <1>2, <1>6 DEF Starts, Resting
  <2> QED
    BY <1>9, <2>1, <2>2, <2>3 DEF Flagged
<1>11. Vacating'
  BY <1>2, <1>6 DEF Starts, Resting, Vacating
<1>12. Named'
  BY <1>2, <1>3 DEF Starts, Named
<1>13. Clearing'
  <2>1. /\ ~ Takes(new[1]) /\ new[1].do \notin {"set-parent", "unbook"}
        /\ new[1].do = "put" => new[1].at # None
        /\ \A k \in 1 .. Len(new) : new[1].do = "room-drop" => ~ Takes(new[k])
    BY <1>2 DEF Starts
  <2> QED
    BY <1>3, <1>9, <2>1 DEF Clearing
<1>14. Alone'
  BY <1>2, <1>5 DEF Alone, Proposal
<1>15. Commanding'
  BY <1>3, <1>9, <1>10, <1>11, <1>12, <1>13, <1>14 DEF Commanding
<1> QED
  BY <1>7, <1>15 DEF Tidy, Phase

\* What a move, or the news of one, leaves as it is.
LEMMA DriftPhase ==
  ASSUME Typed, Phase, UNCHANGED <<todo, equip_pending, drop_pending, inv>>,
         held' \in {held, None},
         \A i \in Items : /\ Leaves(i) => Leaves(i)'
                          /\ Proposal(i)' <=> Proposal(i)
                          /\ want[i] = Me =>
                                /\ want'[i] = Me
                                /\ place[i] # Gone => place'[i] # Gone
                                /\ mail[i] = <<>> => mail'[i] = <<>>
  PROVE  Phase'
<1>1. Alone => Alone'
  BY DEF Alone
<1>2. ASSUME NEW x, FreeFor(x)
      PROVE  FreeFor(x)'
  <2>1. SUFFICES ASSUME held' \notin {None, x}
                 PROVE  Leaves(held)'
    BY DEF FreeFor
  <2>2. held' = held /\ held \in Items /\ Leaves(held)
    BY <1>2, <2>1 DEF FreeFor, Typed, TypeOK
  <2>3. place'[held] = Me => want'[held] \notin {None, Me}
    BY <2>2 DEF Leaves
  <2> QED
    BY <2>2, <2>3 DEF Leaves
<1>3. Resting => Resting'
  BY <1>1 DEF Resting
<1>4. ASSUME Commanding
      PROVE  Commanding'
  <2>1. UNCHANGED <<First("cmd"), Last("cmd")>>
    BY DEF First, Last
  <2>2. Flagged' /\ Vacating' /\ Named'
    BY <1>4, <2>1 DEF Commanding, Flagged, Vacating, Named
  <2>3. Clearing'
    <3>1. Takes(First("cmd")) => FreeFor(None)'
      BY <1>2, <1>4 DEF Commanding, Clearing
    <3>2. ASSUME First("cmd").do = "unbook", NEW i, i = First("cmd").item
          PROVE  Leaves(i)'
      <4>1. i \in Items
        BY <1>4, <3>2, AskLast DEF Commanding, Fits
      <4> QED
        BY <1>4, <3>2, <4>1 DEF Commanding, Clearing
    <3> QED
      BY <1>4, <2>1, <3>1, <3>2 DEF Commanding, Clearing
  <2> QED
    BY <1>1, <1>4, <2>2, <2>3 DEF Commanding
<1>5. ASSUME NEW i \in Items, Proposing(i)
      PROVE  Proposing(i)'
  BY <1>2, <1>5 DEF Proposing
<1>6. ASSUME NEW i \in Items, Handling(i)
      PROVE  Handling(i)'
  <2>1. UNCHANGED <<First("evt"), Last("evt")>>
    BY DEF First, Last
  <2> QED
    BY <1>1, <1>2, <1>6, <2>1 DEF Handling
<1> QED
  BY <1>3, <1>4, <1>5, <1>6 DEF Phase

LEMMA CommitTidy ==
  ASSUME Typed, Tidy, NEW j \in Items, Commit(j)
  PROVE  Tidy'
<1>1. SUFFICES ASSUME calm'
               PROVE  Tidy'
  BY DEF Tidy
<1>2. /\ TypeOK /\ want[j] \notin {None, Me} /\ want' = [want EXCEPT ![j] = None]
      /\ UNCHANGED <<held, inv, equip_pending, drop_pending, todo>> /\ calm
      /\ place' = [place EXCEPT ![j] = want[j]]
      /\ \/ place[j] # Me /\ UNCHANGED mail
         \/ \E m \in Messages : m.parent = want[j] /\ Sends(j, m)
  BY <1>1, CommitIs DEF Typed, slots, flags
<1>3. Phase /\ \A i \in Items : Mailed(i) /\ Kept(i)
  BY <1>2 DEF Tidy
<1>4. /\ place'[j] = want[j]
      /\ \A i \in Items : i # j => place'[i] = place[i] /\ want'[i] = want[i]
  BY <1>2 DEF TypeOK
<1>5. \A i \in Items : Leaves(i) => Leaves(i)'
  BY <1>2, <1>4 DEF Leaves
<1>6. ~ Proposal(j)
  BY <1>2, <1>3 DEF Phase, Resting, Commanding, Proposing, Handling, Alone
<1>7. /\ \A i \in Items : i # j => mail'[i] = mail[i]
      /\ ~ Proposal(j)' /\ Mailed(j)'
  <2>1. CASE place[j] # Me /\ UNCHANGED mail
    BY <1>2, <1>4, <1>6, <2>1 DEF Proposal, Mailed
  <2>2. ASSUME NEW m \in Messages, m.parent = want[j], Sends(j, m)
        PROVE  /\ \A i \in Items : i # j => mail'[i] = mail[i]
              /\ ~ Proposal(j)' /\ Mailed(j)'
    <3>1. /\ Len(mail[j]) \in Nat /\ Len(mail'[j]) = Len(mail[j]) + 1
          /\ mail'[j][Len(mail[j]) + 1] = m
          /\ \A k \in 1 .. Len(mail[j]) : mail'[j][k] = mail[j][k]
          /\ \A i \in Items : i # j => mail'[i] = mail[i]
      BY <2>2 DEF Sends
    <3>2. ASSUME NEW k \in 1 .. Len(mail'[j])
          PROVE  mail'[j][k].parent # Me
      <4>1. k = Len(mail[j]) + 1 \/ k \in 1 .. Len(mail[j])
        BY <3>1
      <4> QED
        BY <1>2, <1>6, <2>2, <3>1, <4>1 DEF Proposal
    <3> QED
      BY <1>2, <1>4, <3>1, <3>2 DEF Proposal, Mailed
  <2> QED
    BY <1>2, <2>1, <2>2
<1>8. \A i \in Items : i # j => (Proposal(i)' <=> Proposal(i)) /\ (Mailed(i) => Mailed(i)')
  BY <1>4, <1>7 DEF Proposal, Mailed
<1>9. Phase'
  <2>1. \A i \in Items : Proposal(i)' <=> Proposal(i)
    BY <1>6, <1>7, <1>8
  <2>2. \A i \in Items : want[i] = Me => /\ want'[i] = Me /\ place'[i] = place[i]
                                         /\ mail'[i] = mail[i]
    BY <1>2, <1>4, <1>7
  <2> QED
    BY <1>2, <1>3, <1>5, <2>1, <2>2, DriftPhase
<1>10. \A i \in Items : Moving(i) => Moving(i)'
  BY <1>2 DEF Moving, First
<1>11. \A i \in Items : Mailed(i)' /\ Kept(i)'
  BY <1>2, <1>3, <1>5, <1>6, <1>7, <1>8, <1>10 DEF Kept
<1> QED
  BY <1>9, <1>11 DEF Tidy

\* The handler hears that an item has left.
LEMMA LeftTidy ==
  ASSUME Typed, Tidy, NEW j \in Items, Reads(j), mail[j][1].parent # Me,
         held' = IF held = j THEN None ELSE held,
         UNCHANGED <<todo, flags, inv, place, want, calm>>
  PROVE  Tidy'
<1>1. SUFFICES ASSUME calm
               PROVE  Tidy'
  BY DEF Tidy
<1>2. Phase /\ \A i \in Items : Mailed(i) /\ Kept(i)
  BY <1>1 DEF Tidy
<1>3. /\ Len(mail[j]) \in Nat /\ Len(mail[j]) >= 1 /\ Len(mail'[j]) = Len(mail[j]) - 1
      /\ \A k \in 1 .. Len(mail[j]) - 1 : mail'[j][k] = mail[j][k + 1]
      /\ \A i \in Items : i # j => mail'[i] = mail[i]
  BY DEF Reads
<1>4. \A i \in Items : Leaves(i) => Leaves(i)'
  BY DEF Leaves
<1>5. Leaves(j)'
  <2>1. 1 \in 1 .. Len(mail[j])
    BY <1>3
  <2> QED
    BY <1>2, <2>1 DEF Mailed, Leaves
<1>6. Proposal(j)' <=> Proposal(j)
  <2>1. ASSUME Proposal(j)
        PROVE  Proposal(j)'
    <3>1. PICK k \in 1 .. Len(mail[j]) : mail[j][k].parent = Me
      BY <2>1 DEF Proposal
    <3>2. k # 1
      BY <3>1
    <3>3. /\ k - 1 \in 1 .. Len(mail[j]) - 1 /\ k - 1 \in 1 .. Len(mail'[j])
          /\ (k - 1) + 1 = k
      BY <1>3, <3>1, <3>2
    <3>4. mail'[j][k - 1] = mail[j][k]
      BY <1>3, <3>3
    <3> QED
      BY <3>1, <3>3, <3>4 DEF Proposal
  <2>2. ASSUME Proposal(j)'
        PROVE  Proposal(j)
    <3>1. PICK k \in 1 .. Len(mail'[j]) : mail'[j][k].parent = Me
      BY <2>2 DEF Proposal
    <3>2. k \in 1 .. Len(mail[j]) - 1 /\ k + 1 \in 1 .. Len(mail[j])
      BY <1>3, <3>1
    <3> QED
      BY <1>3, <3>1, <3>2 DEF Proposal
  <2> QED
    BY <2>1, <2>2
<1>7. \A i \in Items : Proposal(i)' <=> Proposal(i)
  BY <1>3, <1>6 DEF Proposal
<1>8. Mailed(j)'
  <2>1. SUFFICES ASSUME NEW k \in 1 .. Len(mail'[j])
                 PROVE  IF mail'[j][k].parent = Me THEN k = Len(mail'[j]) ELSE place'[j] # Me
    BY DEF Mailed
  <2>2. k \in 1 .. Len(mail[j]) - 1 /\ k + 1 \in 1 .. Len(mail[j])
    BY <1>3, <2>1
  <2>3. mail'[j][k] = mail[j][k + 1]
    BY <1>3, <2>2
  <2>4. IF mail[j][k + 1].parent = Me THEN k + 1 = Len(mail[j]) ELSE place[j] # Me
    BY <1>2, <2>2 DEF Mailed
  <2> QED
    BY <1>3, <2>2, <2>3, <2>4
<1>9. Phase'
  <2>1. \A i \in Items : mail[i] = <<>> => mail'[i] = <<>>
    <3>1. Len(mail[j]) # 0
      BY <1>3
    <3> QED
      BY <1>3, <3>1
  <2> QED
    BY <1>2, <1>4, <1>7, <2>1, DriftPhase DEF flags
<1>10. ASSUME NEW i \in Items, i # j
       PROVE  Mailed(i)' /\ Kept(i)'
  <2>1. Mailed(i)' /\ (Moving(i) => Moving(i)')
    BY <1>2, <1>3, <1>10 DEF Mailed, Moving, First
  <2> QED
    BY <1>2, <1>4, <1>7, <1>10, <2>1, Distinct DEF Kept
<1>11. Kept(j)'
  BY <1>5 DEF Kept
<1> QED
  BY <1>8, <1>9, <1>10, <1>11 DEF Tidy

\* ... or that one wants to come.
LEMMA HandlerTidy ==
  ASSUME Typed, Tidy, calm, NEW j \in Items, Proposing(j), Reads(j), mail[j][1].parent = Me,
         UNCHANGED <<held, inv, place, want>>, NEW new, Gets("evt", new),
         Len(new) \in Nat, Len(new) >= 1, new[1].do = "child",
         \A k \in 1 .. Len(new) : new[k].do # "booked" /\ new[k].item = j,
         NEW last, last = new[Len(new)].do, drop_pending' = {},
         equip_pending' = IF last = "book" THEN j ELSE None,
         last = "book" => inv = None, last = "accept" => FreeFor(j),
         last \in {"book", "accept"} => Len(new) = 2
  PROVE  Tidy'
<1>1. \A i \in Items : Mailed(i) /\ Kept(i)
  BY DEF Tidy
<1>2. /\ todo'["cmd"] = <<>> /\ todo'["evt"] = new /\ todo["evt"] = <<>>
  BY TasksAre DEF Gets, Proposing
<1>3. /\ Len(mail[j]) \in Nat /\ Len(mail[j]) >= 1 /\ Len(mail'[j]) = Len(mail[j]) - 1
      /\ mail' \in [Items -> Seq(Messages)]
      /\ \A i \in Items : i # j => mail'[i] = mail[i]
  BY DEF Reads
<1>4. Len(mail'[j]) = 0
  <2>1. 1 \in 1 .. Len(mail[j])
    BY <1>3
  <2>2. 1 = Len(mail[j])
    BY <1>1, <2>1 DEF Mailed
  <2> QED
    BY <1>3, <2>2
<1>5. mail'[j] = <<>>
  <2> DEFINE M == Messages
             q == mail'[j]
  <2>1. q \in Seq(M) /\ Len(q) = 0
    BY <1>3, <1>4
  <2> HIDE DEF M, q
  <2>2. q = <<>>
    BY <2>1, EmptySeq
  <2> QED
    BY <2>2 DEF q
<1>6. Alone' /\ Mailed(j)'
  <2>1. ~ Proposal(j)' /\ Mailed(j)'
    BY <1>4 DEF Proposal, Mailed
  <2>2. \A i \in Items : i # j => ~ Proposal(i)
    BY DEF Proposing
  <2>3. \A i \in Items : i # j => ~ Proposal(i)'
    BY <1>3, <2>2 DEF Proposal
  <2> QED
    BY <2>1, <2>3 DEF Alone
<1>7. 1 \in 1 .. Len(new) /\ todo'["evt"] # <<>>
  BY <1>2
<1>8. First("evt")' = new[1] /\ Last("evt")' = new[Len(new)]
  BY <1>2 DEF First, Last
<1>9. /\ \A i \in Items : Leaves(i)' <=> Leaves(i)
      /\ FreeFor(j) => FreeFor(j)'
  BY DEF Leaves, FreeFor
<1>10. Handling(j)'
  BY <1>2, <1>5, <1>6, <1>7, <1>8, <1>9 DEF Handling, Proposing
<1>11. Moving(j)'
  BY <1>7, <1>8 DEF Moving
<1>12. ASSUME NEW i \in Items, i # j
       PROVE  Mailed(i)' /\ Kept(i)'
  <2>1. ~ Moving(i) /\ ~ Proposal(i) /\ (Mailed(i) => Mailed(i)')
    BY <1>2, <1>3, <1>12 DEF Moving, Proposing, Mailed
  <2> QED
    BY <1>1, <1>9, <1>12, <2>1 DEF Kept
<1> QED
  BY <1>6, <1>10, <1>11, <1>12 DEF Tidy, Phase, Kept

LEMMA ReactTidy ==
  ASSUME Typed, Tidy, NEW j \in Items, React(j)
  PROVE  Tidy'
<1> DEFINE y == Step("child", j)
           p == Step("book", j)
           q == Step("accept", j)
           a == Step("room-drop", j)
           b == Step("set-parent", j)
<1>1. SUFFICES ASSUME calm'
               PROVE  Tidy'
  BY DEF Tidy
<1>2. /\ todo["evt"] = <<>> /\ Reads(j) /\ calm
      /\ UNCHANGED <<inv, place, want, calm>>
      /\ \/ /\ mail[j][1].parent # Me
            /\ held' = IF held = j THEN None ELSE held
            /\ UNCHANGED <<todo, flags>>
         \/ /\ mail[j][1].parent = Me /\ UNCHANGED held
            /\ \/ /\ equip_pending = j /\ UNCHANGED flags
                  /\ Gets("evt", <<y, p>>)
               \/ /\ equip_pending # j /\ j \in drop_pending
                  /\ drop_pending' = drop_pending \ {j} /\ UNCHANGED equip_pending
                  /\ \E z \in Steps : /\ z.do = "unbook" /\ z.item = j
                                      /\ Gets("evt", <<y, a, b, z>>)
               \/ /\ equip_pending # j /\ j \notin drop_pending /\ UNCHANGED flags
                  /\ Gets("evt", <<y, q>>)
  BY <1>1, ReactIs
<1>3. /\ y.do = "child" /\ p.do = "book" /\ q.do = "accept" /\ a.do = "room-drop"
      /\ b.do = "set-parent" /\ y.item = j /\ p.item = j /\ q.item = j /\ a.item = j
      /\ b.item = j
  BY StepIs DEF Dos
<1> HIDE DEF y, p, q, a, b
<1>4. CASE /\ mail[j][1].parent # Me
           /\ held' = IF held = j THEN None ELSE held
           /\ UNCHANGED <<todo, flags>>
  BY <1>2, <1>4, LeftTidy
<1>5. ASSUME mail[j][1].parent = Me
      PROVE  Proposing(j)
  <2>1. 1 \in 1 .. Len(mail[j])
    BY <1>2 DEF Reads
  <2>2. Proposal(j) /\ Phase
    BY <1>2, <1>5, <2>1 DEF Proposal, Tidy
  <2> QED
    BY <2>2 DEF Phase, Resting, Commanding, Handling, Alone, Proposing
<1>6. ASSUME mail[j][1].parent = Me, UNCHANGED held, drop_pending' = {}, NEW x,
             x.do \in {"book", "accept"}, x.item = j, Gets("evt", <<y, x>>),
             equip_pending' = IF x.do = "book" THEN j ELSE None,
             x.do = "book" => inv = None, x.do = "accept" => FreeFor(j)
      PROVE  Tidy'
  <2> DEFINE n == <<y, x>>
  <2>1. Len(n) = 2 /\ n[1] = y /\ n[2] = x /\ Gets("evt", n)
    BY <1>6
  <2> HIDE DEF n
  <2>2. \A k \in 1 .. Len(n) : k = 1 \/ k = 2
    BY <2>1
  <2>3. \A k \in 1 .. Len(n) : n[k].do # "booked" /\ n[k].item = j
    BY <1>3, <1>6, <2>1, <2>2
  <2>4. Len(n) \in Nat /\ Len(n) >= 1 /\ n[1].do = "child" /\ n[Len(n)].do = x.do
    BY <1>3, <2>1
  <2> QED
    BY <1>2, <1>5, <1>6, <2>1, <2>3, <2>4, HandlerTidy, ZenonT(40)
<1>7. ASSUME mail[j][1].parent = Me, UNCHANGED held, drop_pending' = {}, NEW z \in Steps,
             z.do = "unbook", z.item = j, Gets("evt", <<y, a, b, z>>),
             equip_pending' = None
      PROVE  Tidy'
  <2> DEFINE n == <<y, a, b, z>>
  <2>1. Len(n) = 4 /\ n[1] = y /\ n[2] = a /\ n[3] = b /\ n[4] = z /\ Gets("evt", n)
    BY <1>7
  <2> HIDE DEF n
  <2>2. \A k \in 1 .. Len(n) : k = 1 \/ k = 2 \/ k = 3 \/ k = 4
    BY <2>1
  <2>3. \A k \in 1 .. Len(n) : n[k].do # "booked" /\ n[k].item = j
    BY <1>3, <1>7, <2>1, <2>2
  <2>4. Len(n) \in Nat /\ Len(n) >= 1 /\ n[1].do = "child" /\ n[Len(n)].do = "unbook"
    BY <1>3, <1>7, <2>1
  <2> QED
    BY <1>2, <1>5, <1>7, <2>1, <2>3, <2>4, HandlerTidy
<1>8. CASE /\ mail[j][1].parent = Me /\ UNCHANGED held
           /\ equip_pending = j /\ UNCHANGED flags /\ Gets("evt", <<y, p>>)
  <2>1. drop_pending = {} /\ inv = None
    BY <1>5, <1>8, Distinct DEF Proposing
  <2> QED
    BY <1>3, <1>6, <1>8, <2>1 DEF flags
<1>9. ASSUME mail[j][1].parent = Me, UNCHANGED held, equip_pending # j, j \in drop_pending,
             drop_pending' = drop_pending \ {j}, UNCHANGED equip_pending, NEW z \in Steps,
             z.do = "unbook", z.item = j, Gets("evt", <<y, a, b, z>>)
      PROVE  Tidy'
  <2>1. drop_pending = {j} /\ equip_pending = None
    BY <1>5, <1>9 DEF Proposing
  <2> QED
    BY <1>7, <1>9, <2>1
<1>10. CASE /\ mail[j][1].parent = Me /\ UNCHANGED held /\ equip_pending # j
            /\ j \notin drop_pending /\ UNCHANGED flags /\ Gets("evt", <<y, q>>)
  <2>1. drop_pending = {} /\ equip_pending = None /\ FreeFor(j)
    BY <1>5, <1>10 DEF Proposing
  <2> QED
    BY <1>3, <1>6, <1>10, <2>1 DEF flags
<1> QED
  BY <1>2, <1>4, <1>8, <1>9, <1>10

LEMMA StepTidy ==
  ASSUME Typed, Settled, Tidy, [Next]_vars
  PROVE  Tidy'
<1>1. CASE UNCHANGED vars
  <2>1. SUFFICES ASSUME calm
                 PROVE  Phase' /\ \A i \in Items : Mailed(i)' /\ Kept(i)'
    BY <1>1 DEF Tidy, vars, history
  <2>2. UNCHANGED <<todo, equip_pending, drop_pending, held, inv, place, want, mail>>
    BY <1>1 DEF vars, slots, flags, actors
  <2>3. Phase /\ \A i \in Items : Mailed(i) /\ Kept(i)
    BY <2>1 DEF Tidy
  <2>4. Phase'
    BY <2>2, <2>3, DriftPhase DEF Leaves, Proposal
  <2>5. \A i \in Items : Mailed(i)' /\ Kept(i)'
    BY <2>2, <2>3, SameKept
  <2> QED
    BY <2>4, <2>5
<1>2. CASE User
  <2>1. Reload => Tidy'
    BY DEF Reload, Tidy
  <2> QED
    BY <1>2, <2>1, UserIs, StartTidy
<1>3. ASSUME NEW t \in Tasks, Task(t)
      PROVE  Tidy'
  BY <1>3, TaskTidy
<1>4. ASSUME NEW i \in Items, Commit(i) \/ React(i)
      PROVE  Tidy'
  BY <1>4, CommitTidy, ReactTidy
<1> QED
  BY <1>1, <1>2, <1>3, <1>4 DEF Next

LEMMA InitTidy ==
  Init => Tidy
<1> SUFFICES ASSUME Init
             PROVE  Tidy
  OBVIOUS
<1>1. /\ equip_pending = None /\ drop_pending = {}
      /\ todo["cmd"] = <<>> /\ todo["evt"] = <<>>
  BY TasksAre DEF Init
<1>2. \A i \in Items : Len(mail[i]) = 0 /\ place[i] \in {Room, None} \cup Chests
  BY DEF Init
<1>3. \A i \in Items : ~ Proposal(i) /\ Mailed(i)
  BY <1>2 DEF Proposal, Mailed
<1>4. \A i \in Items : Kept(i)
  BY <1>2, Distinct DEF Kept, Leaves
<1> QED
  BY <1>1, <1>3, <1>4 DEF Tidy, Phase, Resting, Alone

\* When all is quiet, and no command was hurried, refused or cut short, whatever
\* the avatar is parent of is in the hand or equipped: it is put into a slot by
\* the handler that accepts it, and leaves the slot only on its way out.
\* (drop-held-to-room!, book-inventory!)
THEOREM NothingMislaidHolds == Spec => []NothingMislaid
<1>1. Init => Typed /\ Settled /\ Tidy
  BY InitTyped, InitSettled, InitTidy
<1>2. Typed /\ Settled /\ Tidy /\ [Next]_vars => Typed' /\ Settled' /\ Tidy'
  BY StepTyped, StepSettled, StepTidy
<1>3. Tidy => NothingMislaid
  <2> SUFFICES ASSUME Tidy, Quiet, calm, NEW i \in Items, place[i] = Me
               PROVE  i \in {held, inv}
    BY DEF NothingMislaid
  <2>1. todo["evt"] = <<>> /\ Len(mail[i]) = 0 /\ want[i] = None
    BY TasksAre DEF Quiet
  <2>2. ~ Moving(i) /\ ~ Proposal(i) /\ ~ Leaves(i)
    BY <2>1 DEF Moving, Proposal, Leaves
  <2> QED
    BY <2>2 DEF Tidy, Kept
<1> QED
  BY <1>1, <1>2, <1>3, PTL DEF Spec
=============================================================================
