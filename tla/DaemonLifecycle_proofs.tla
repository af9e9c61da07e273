----------------------- MODULE DaemonLifecycle_proofs -----------------------
(***************************************************************************)
(* Proofs about DaemonLifecycle.  TypeOK is an invariant for all values of  *)
(* the constants.  When no two daemons start at the same time, a serving    *)
(* daemon is the one at the socket path, so at most one serves: what saves  *)
(* the path is that a claimant that finds it dead is the only process that  *)
(* can bind it before the claimant has removed the file.                    *)
(***************************************************************************)
EXTENDS DaemonLifecycle, TLAPS

-----------------------------------------------------------------------------
(* Typing.                                                                  *)

\* The daemon a claimant waits for, or `zscheme stop` asks, is a process.
TargetKnown == \A p \in Procs : dpc[p] = "ask" => target[p] \in Procs
ServerKnown == \A c \in Clients : cpc[c] = "asking" => server[c] \in Procs

Typed == TypeOK /\ TargetKnown /\ ServerKnown

LEMMA InitTyped == Init => Typed
  BY LifecycleAssumption
  DEF Init, Typed, TypeOK, TargetKnown, ServerKnown, ProcPCs, ClientPCs

\* Every step keeps the types, and the target of a process that asks.
LEMMA TypedStep == Typed /\ [Next]_vars => Typed'
<1> SUFFICES ASSUME Typed, [Next]_vars PROVE Typed'
  OBVIOUS
<1> USE LifecycleAssumption
<1> USE DEF Typed, TypeOK, TargetKnown, ServerKnown
<1> USE DEF Goto, ProcPCs, Starting, Listening, Holding, Ended, session, network
<1>1. CASE \E p \in Procs : CheckBundle(p) \/ Publish(p) \/ PathExists(p)
                              \/ CloseEndpoint(p)
  BY <1>1 DEF CheckBundle, Publish, PathExists, CloseEndpoint, fvars
<1>0. ASSUME NEW p \in Procs, GenerateBundle(p) \/ BuildEndpoint(p)
      PROVE Typed'
  BY <1>0 DEF GenerateBundle, BuildEndpoint, fvars
<1>2. ASSUME NEW p \in Procs, ClaimConnect(p) PROVE Typed'
  BY <1>2 DEF ClaimConnect, Connectable, fvars
<1>3. CASE \E p \in Procs : StopAnswered(p) \/ StopUnanswered(p)
                              \/ Recheck(p) \/ RemoveStale(p)
  BY <1>3 DEF StopAnswered, StopUnanswered, Recheck, RemoveStale, fvars
<1>4. ASSUME NEW p \in Procs, WaitForRelease(p) PROVE Typed'
  BY <1>4 DEF WaitForRelease, PollsLeft, Polled, fvars
<1>5. CASE \E p \in Procs : LoadImage(p) \/ Bind(p) \/ Define(p)
                              \/ LeaveLoop(p)
  BY <1>5 DEF LoadImage, Bind, Define, LeaveLoop, pvars, fvars
<1>6. CASE \E p \in Procs : Unlink(p) \/ TruncateImage(p) \/ WriteImage(p)
                              \/ Signal(p) \/ Kill(p)
  BY <1>6 DEF Unlink, TruncateImage, WriteImage, Signal, Kill, fvars
<1>7. CASE \E c \in Clients : StopCommand(c) \/ StopReported(c)
  BY <1>7 DEF StopCommand, StopReported, Connectable, ClientPCs, pvars
<1>13. ASSUME NEW c \in Clients, StopHandled(c) PROVE Typed'
  BY <1>13 DEF StopHandled, ClientPCs
<1>8. ASSUME NEW p \in Procs, StartDaemon(p) PROVE Typed'
  BY <1>8 DEF StartDaemon, MayStart, fvars
<1>9. CASE \E c \in Clients : Connect(c) \/ Hello(c) \/ Dropped(c)
  BY <1>9 DEF Connect, Hello, Dropped, Connectable, ClientPCs, pvars
<1>10. ASSUME NEW c \in Clients, SpawnDaemon(c) PROVE Typed'
  BY <1>10 DEF SpawnDaemon, MayStart, ClientPCs
<1>11. ASSUME NEW c \in Clients, Retry(c) PROVE Typed'
  BY <1>11 DEF Retry, Connectable, TriesLeft, Tried, ClientPCs, pvars
<1>12. CASE UNCHANGED vars
  BY <1>12 DEF vars, pvars, fvars
<1> QED
  BY <1>0, <1>1, <1>2, <1>3, <1>4, <1>5, <1>6, <1>7, <1>8, <1>9, <1>10,
     <1>11, <1>12, <1>13 DEF Next, Process, Frontend, User

\* Every variable keeps its type: the poll and retry counters stay within
\* their limits, and a claimant only ever asks a process.  (claim_socket,
\* connect_or_spawn)
THEOREM TypeCorrect == Spec => []TypeOK
<1>1. Spec => []Typed
  BY InitTyped, TypedStep, PTL DEF Spec
<1>2. Typed => TypeOK
  BY DEF Typed
<1> QED
  BY <1>1, <1>2, PTL

-----------------------------------------------------------------------------
(* The socket path, when daemons start one at a time.                       *)

OneStarting ==
    \A p, q \in Procs : dpc[p] \in Starting /\ dpc[q] \in Starting => p = q

\* A claimant about to remove the file cannot hit a live one.
RemovesStale ==
    \A p, q \in Procs : dpc[p] = "remove" => dpc[q] \notin Holding

PathInv == Typed /\ OneStarting /\ ServingReachable /\ RemovesStale

LEMMA InitPathInv == Init => PathInv
<1> SUFFICES ASSUME Init PROVE PathInv
  OBVIOUS
<1>1. Typed
  BY InitTyped
<1> QED
  BY <1>1 DEF Init, PathInv, OneStarting, ServingReachable, RemovesStale,
              Starting, Holding

\* The steps of a process that has not bound the path, that keep it where it
\* is and leave every other process alone.
Harmless(p) ==
    /\ sock' = sock
    /\ dpc[p] \notin Holding
    /\ \E l \in ProcPCs \ (Holding \cup {"remove"}) :
          /\ dpc' = [dpc EXCEPT ![p] = l]
          /\ dpc[p] \notin Starting => l \notin Starting

LEMMA HarmlessStep ==
  ASSUME PathInv, Typed', NEW p \in Procs, Harmless(p)
  PROVE  PathInv'
  BY DEF PathInv, Typed, TypeOK, OneStarting, ServingReachable, RemovesStale,
         Harmless, Starting, Holding

\* A step preserves the invariant when daemons start one at a time.
LEMMA PathInvStep ==
  ASSUME Overlap = FALSE, PathInv, [Next]_vars
  PROVE  PathInv'
<1> USE LifecycleAssumption
<1>t. Typed'
  BY TypedStep DEF PathInv
<1>1. ASSUME NEW p \in Procs,
             CheckBundle(p) \/ GenerateBundle(p) \/ BuildEndpoint(p)
               \/ Publish(p) \/ PathExists(p) \/ StopAnswered(p)
               \/ StopUnanswered(p) \/ WaitForRelease(p) \/ LoadImage(p)
               \/ TruncateImage(p) \/ WriteImage(p) \/ CloseEndpoint(p)
      PROVE PathInv'
  <2>1. Harmless(p)
    BY <1>1 DEF Harmless, CheckBundle, GenerateBundle, BuildEndpoint, Publish, PathExists, StopAnswered,
      StopUnanswered, WaitForRelease, LoadImage, TruncateImage, WriteImage,
      CloseEndpoint, Goto, ProcPCs, Starting, Listening, Holding, Ended
  <2> QED
    BY <2>1, <1>t, HarmlessStep
<1>2. ASSUME NEW p \in Procs, ClaimConnect(p) \/ Recheck(p)
      PROVE PathInv'
  <2>1. CASE Connectable
    <3>1. Harmless(p)
      BY <1>2, <2>1 DEF Harmless, ClaimConnect, Recheck, Goto, ProcPCs,
        Starting, Listening, Holding
    <3> QED
      BY <3>1, <1>t, HarmlessStep
  <2>2. CASE ~Connectable
    <3>1. \A q \in Procs : dpc[q] \notin Holding
      BY <2>2 DEF PathInv, ServingReachable, Connectable, Listening
    <3>2. /\ dpc[p] \in Starting
          /\ dpc' = [dpc EXCEPT ![p] = "remove"]
          /\ sock' = sock
      BY <1>2, <2>2 DEF ClaimConnect, Recheck, Goto, Starting
    <3> QED
      BY <3>1, <3>2, <1>t DEF PathInv, Typed, TypeOK, OneStarting,
        ServingReachable, RemovesStale, Starting, Holding
  <2> QED
    BY <2>1, <2>2
<1>3. ASSUME NEW p \in Procs, RemoveStale(p) PROVE PathInv'
  BY <1>3, <1>t DEF RemoveStale, Goto, PathInv, Typed, TypeOK, OneStarting,
    ServingReachable, RemovesStale, Starting, Holding
<1>4. ASSUME NEW p \in Procs, Bind(p) PROVE PathInv'
  <2>1. CASE sock = None
    <3>1. \A q \in Procs : dpc[q] \notin Holding
      BY <2>1 DEF PathInv, ServingReachable
    <3>2. dpc[p] = "bind" /\ sock' = p /\ dpc' = [dpc EXCEPT ![p] = "serve"]
      BY <1>4, <2>1 DEF Bind, Goto
    <3>3. \A q \in Procs : dpc[q] # "remove"
      BY <3>2 DEF PathInv, OneStarting, Starting
    <3> QED
      BY <3>1, <3>2, <3>3, <1>t DEF PathInv, Typed, TypeOK, OneStarting,
        ServingReachable, RemovesStale, Starting, Holding
  <2>2. CASE sock # None
    <3>1. Harmless(p)
      BY <1>4, <2>2 DEF Harmless, Bind, Goto, ProcPCs, Starting, Holding
    <3> QED
      BY <3>1, <1>t, HarmlessStep
  <2> QED
    BY <2>1, <2>2
<1>5. ASSUME NEW p \in Procs, LeaveLoop(p) PROVE PathInv'
  BY <1>5, <1>t DEF LeaveLoop, Goto, PathInv, Typed, TypeOK, OneStarting,
    ServingReachable, RemovesStale, Starting, Holding
<1>6. ASSUME NEW p \in Procs, Unlink(p) PROVE PathInv'
  <2>1. /\ dpc[p] = "unlink" /\ sock' = None
        /\ \E l \in {"truncate", "close"} : dpc' = [dpc EXCEPT ![p] = l]
    BY <1>6 DEF Unlink, Goto
  <2>2. \A q \in Procs \ {p} : dpc[q] \notin Holding
    BY <2>1 DEF PathInv, ServingReachable, Holding
  <2> QED
    BY <2>1, <2>2, <1>t DEF PathInv, Typed, TypeOK, OneStarting,
      ServingReachable, RemovesStale, Starting, Holding
<1>7. ASSUME NEW p \in Procs, Kill(p) PROVE PathInv'
  BY <1>7, <1>t DEF Kill, Goto, PathInv, Typed, TypeOK, OneStarting,
    ServingReachable, RemovesStale, Starting, Holding
<1>8. ASSUME NEW p \in Procs, MayStart(p), Goto(p, "start"), sock' = sock
      PROVE PathInv'
  BY <1>8, <1>t DEF MayStart, Goto, PathInv, Typed, TypeOK, OneStarting,
    ServingReachable, RemovesStale, Starting, Holding
<1>9. ASSUME UNCHANGED <<dpc, sock>> PROVE PathInv'
  BY <1>9, <1>t DEF PathInv, OneStarting, ServingReachable, RemovesStale
<1>10. CASE \E p \in Procs : Process(p)
  BY <1>1, <1>2, <1>3, <1>4, <1>5, <1>6, <1>10 DEF Process
<1>11. CASE \E c \in Clients : Frontend(c)
  BY <1>9, <1>11 DEF Frontend, Retry, Hello, Dropped, StopHandled,
    StopReported, pvars
<1>12. CASE User
  <2>1. CASE \E p \in Procs : StartDaemon(p)
    BY <1>8, <2>1 DEF StartDaemon
  <2>2. CASE \E p \in Procs : Define(p) \/ Signal(p)
    BY <1>9, <2>2 DEF Define, Signal, pvars
  <2>3. CASE \E c \in Clients : Connect(c) \/ StopCommand(c)
    BY <1>9, <2>3 DEF Connect, StopCommand, pvars
  <2>4. CASE \E c \in Clients : SpawnDaemon(c)
    BY <1>8, <2>4 DEF SpawnDaemon
  <2> QED
    BY <1>7, <1>12, <2>1, <2>2, <2>3, <2>4 DEF User
<1>13. CASE UNCHANGED vars
  BY <1>9, <1>13 DEF vars, pvars
<1> QED
  BY <1>10, <1>11, <1>12, <1>13 DEF Next

\* When daemons start one at a time, a daemon whose main loop runs is the one
\* at the socket path, for any number of processes, takeovers, kills, stops
\* and frontends.  (claim_socket, run)
THEOREM SerialServingReachable ==
  ASSUME Overlap = FALSE
  PROVE  Spec => []ServingReachable
<1>1. PathInv /\ [Next]_vars => PathInv'
  BY PathInvStep
<1>2. Spec => []PathInv
  BY InitPathInv, <1>1, PTL DEF Spec
<1>3. PathInv => ServingReachable
  BY DEF PathInv
<1> QED
  BY <1>2, <1>3, PTL

\* ... and so at most one daemon serves.  Without the premise TLC refutes
\* this.  (daemon.rs:32)
THEOREM SerialOneServing ==
  ASSUME Overlap = FALSE
  PROVE  Spec => []OneServing
<1>1. ServingReachable => OneServing
  BY DEF ServingReachable, OneServing
<1> QED
  BY <1>1, SerialServingReachable, PTL

-----------------------------------------------------------------------------
(* The identity, when daemons start one at a time.                          *)

\* A process generates an identity only while nobody has one.
IdentityInv ==
    /\ PathInv
    /\ \A p \in endpoint : id[p] = bundle /\ bundle # 0
    /\ \A p \in Procs : dpc[p] = "generate" => bundle = 0
    /\ \A p \in Procs : dpc[p] = "open" => bundle # 0

LEMMA IdentityInvStep ==
  ASSUME Overlap = FALSE, IdentityInv, [Next]_vars
  PROVE  IdentityInv'
<1>t. Typed /\ OneStarting /\ PathInv'
  BY PathInvStep DEF IdentityInv, PathInv
<1> USE <1>t
<1> USE DEF IdentityInv, Typed, TypeOK, Goto
<1>1. ASSUME NEW p \in Procs, CheckBundle(p) PROVE IdentityInv'
  BY <1>1 DEF CheckBundle, BundleMissing, network
<1>2. ASSUME NEW p \in Procs, GenerateBundle(p) PROVE IdentityInv'
  <2>1. dpc[p] = "generate" /\ bundle = 0
    BY <1>2 DEF GenerateBundle
  <2>2. endpoint = {}
    BY <2>1
  <2>3. \A q \in Procs \ {p} : dpc[q] # "generate"
    BY <2>1 DEF OneStarting, Starting
  <2> QED
    BY <1>2, <2>1, <2>2, <2>3 DEF GenerateBundle
<1>3. ASSUME NEW p \in Procs, BuildEndpoint(p) PROVE IdentityInv'
  BY <1>3 DEF BuildEndpoint
<1>4. ASSUME NEW p \in Procs, UNCHANGED <<bundle, id>>,
             endpoint' \subseteq endpoint,
             \E l \in ProcPCs \ {"generate", "open"} :
                dpc' = [dpc EXCEPT ![p] = l]
      PROVE IdentityInv'
  BY <1>4
<1>5. ASSUME UNCHANGED <<dpc, network>> PROVE IdentityInv'
  BY <1>5 DEF network
<1>6. ASSUME NEW p \in Procs, Process(p) PROVE IdentityInv'
  <2> USE DEF ProcPCs, Starting, Listening, Holding, Ended, network
  <2>1. CASE Publish(p) \/ PathExists(p) \/ ClaimConnect(p)
             \/ StopAnswered(p) \/ StopUnanswered(p) \/ WaitForRelease(p)
    BY <1>4, <2>1 DEF Publish, PathExists, ClaimConnect, StopAnswered,
      StopUnanswered, WaitForRelease
  <2>2. CASE Recheck(p) \/ RemoveStale(p) \/ LoadImage(p) \/ Bind(p)
             \/ LeaveLoop(p)
    BY <1>4, <2>2 DEF Recheck, RemoveStale, LoadImage, Bind, LeaveLoop
  <2>3. CASE Unlink(p) \/ TruncateImage(p) \/ WriteImage(p)
             \/ CloseEndpoint(p)
    BY <1>4, <2>3 DEF Unlink, TruncateImage, WriteImage, CloseEndpoint
  <2> QED
    BY <1>1, <1>2, <1>3, <1>6, <2>1, <2>2, <2>3 DEF Process
<1>7. CASE \E c \in Clients : Frontend(c)
  BY <1>5, <1>7 DEF Frontend, Retry, Hello, Dropped, StopHandled,
    StopReported, pvars
<1>8. CASE User
  <2>1. ASSUME NEW p \in Procs, StartDaemon(p) \/ Kill(p) PROVE IdentityInv'
    BY <1>4, <2>1 DEF StartDaemon, Kill, network, ProcPCs, Starting, Ended
  <2>2. ASSUME NEW p \in Procs, Define(p) \/ Signal(p) PROVE IdentityInv'
    BY <1>5, <2>2 DEF Define, Signal, pvars
  <2>3. ASSUME NEW c \in Clients,
               Connect(c) \/ SpawnDaemon(c) \/ StopCommand(c)
        PROVE IdentityInv'
    BY <1>4, <1>5, <2>3 DEF Connect, SpawnDaemon, StopCommand, pvars, network,
      ProcPCs, Starting
  <2> QED
    BY <1>8, <2>1, <2>2, <2>3 DEF User
<1>9. CASE UNCHANGED vars
  BY <1>5, <1>9 DEF vars, pvars
<1> QED
  BY <1>6, <1>7, <1>8, <1>9 DEF Next

\* When daemons start one at a time, no daemon replaces an identity in use,
\* whatever is killed or fails in between.  (main)
THEOREM SerialIdentityKept ==
  ASSUME Overlap = FALSE
  PROVE  Spec => []IdentityKept
<1>1. Init => IdentityInv
  BY InitPathInv DEF Init, IdentityInv
<1>2. IdentityInv /\ [Next]_vars => IdentityInv'
  BY IdentityInvStep
<1>3. Spec => []IdentityInv
  BY <1>1, <1>2, PTL DEF Spec
<1>4. IdentityInv => IdentityKept
  BY DEF IdentityInv, IdentityKept
<1> QED
  BY <1>3, <1>4, PTL
=============================================================================
