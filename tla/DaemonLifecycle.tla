-------------------------- MODULE DaemonLifecycle --------------------------
(***************************************************************************)
(* How daemon processes come and go: startup and takeover (claim_socket and *)
(* run in src/src/daemon.rs, main.rs), shutdown, the frontends that connect *)
(* to a daemon or spawn one, and the stop command (connect_or_spawn and     *)
(* stop in client.rs).                                                      *)
(*                                                                          *)
(* The processes share three things: the socket path, the network identity  *)
(* of the user, and the session image.  Each file-system call is a step of  *)
(* its own, because nothing serialises the processes.                       *)
(***************************************************************************)
EXTENDS Naturals, FiniteSets

CONSTANTS
    Procs,      \* daemon processes; each is started at most once
    Clients,    \* frontend processes, which may also be `zscheme stop`
    Events,     \* what the user does, a subset of AllEvents
    Overlap,    \* TRUE: daemons may be started while another is starting
    MaxPolls,   \* polls for the path to vanish (50 in the code)
    MaxTries,   \* connection attempts after spawning (40 in the code)
    None

AllEvents == {"daemon", "stop", "signal", "kill", "define"}

ASSUME LifecycleAssumption ==
    /\ Events \subseteq AllEvents
    /\ Overlap \in BOOLEAN
    /\ MaxPolls \in Nat \ {0} /\ MaxTries \in Nat \ {0}
    /\ None \notin Procs

VARIABLES
    dpc,        \* dpc[p]: where process p is
    sock,       \* the process that bound the file at the socket path, or None
    bundle,     \* the secret bundle on disk: the identities generated so far
    id,         \* id[p]: the identity p loaded, 0 before
    endpoint,   \* processes that hold an iroh endpoint of the identity
    target,     \* target[p]: the daemon p asked to stop, or None
    polls,      \* polls[p]: polls p has made
    stopped,    \* processes whose main loop has been told to stop
    env,        \* env[p]: the processes whose defines p's environment holds
    image,      \* the processes whose defines the session image holds
    img,        \* processes started with --img
    cpc,        \* cpc[c]: where client c is
    server,     \* server[c]: the daemon c has connected to, or None
    tries       \* tries[c]: attempts c has made since it spawned a daemon

pvars == <<dpc, target, polls, stopped>>
session == <<env, image, img>>
fvars == <<cpc, server, tries>>
network == <<endpoint, bundle, id>>
vars == <<pvars, sock, network, session, fvars>>

-----------------------------------------------------------------------------
Starting == {"start", "generate", "open", "publish", "exists", "connect",
             "ask", "wait", "recheck", "remove", "load", "bind"}
\* The main loop runs, or has just been left.
Holding == {"serve", "unlink"}
\* The listener is dropped when run returns, after the image is written.
Listening == Holding \cup {"truncate", "write"}
Ended == {"exited", "killed"}
ProcPCs == {"off", "close"} \cup Starting \cup Listening \cup Ended
\* "told": `zscheme stop` has said that the daemon stopped.
ClientPCs == {"off", "retry", "hello", "up", "failed", "dropped",
              "asking", "answered", "told"}

(* Faulty variants of the helpers below: no action uses them.               *)

NeverConnectable == FALSE
PollsOffByOne(p) == polls[p] <= MaxPolls
PollUncounted(p) == polls
TryUncounted(c) == tries
NeverTold(p) == FALSE
AlwaysMissing == TRUE

\* A connection to the socket path is accepted by the kernel.
Connectable == sock # None /\ dpc[sock] \in Listening

\* A poll of the path, and an attempt to connect, count towards their limits.
PollsLeft(p) == polls[p] < MaxPolls
TriesLeft(c) == tries[c] + 1 < MaxTries
Polled(p) == [polls EXCEPT ![p] = @ + 1]
Tried(c) == [tries EXCEPT ![c] = @ + 1]

ToldToStop(p) == p \in stopped

BundleMissing == bundle = 0

\* A daemon is started: nothing in the code prevents two from starting at
\* once; Overlap = FALSE restricts the user to one at a time.
MayStart(p) ==
    /\ dpc[p] = "off"
    /\ Overlap \/ \A q \in Procs : dpc[q] \notin Starting

Goto(p, l) == dpc' = [dpc EXCEPT ![p] = l]

Init ==
    /\ dpc = [p \in Procs |-> "off"]
    /\ sock = None
    /\ bundle \in {0, 1}
    /\ id = [p \in Procs |-> 0]
    /\ endpoint = {}
    /\ target = [p \in Procs |-> None]
    /\ polls = [p \in Procs |-> 0]
    /\ stopped = {}
    /\ env = [p \in Procs |-> {}]
    /\ image = {}
    /\ img = {}
    /\ cpc = [c \in Clients |-> "off"]
    /\ server = [c \in Clients |-> None]
    /\ tries = [c \in Clients |-> 0]

-----------------------------------------------------------------------------
(* Startup: main loads the identity, which it generates if there is none,   *)
(* builds the endpoint and publishes the DID document, then run claims the  *)
(* socket.                                                                  *)

StartDaemon(p) ==
    /\ "daemon" \in Events /\ MayStart(p)
    /\ Goto(p, "start")
    /\ img' \in {img, img \cup {p}}
    /\ UNCHANGED <<target, polls, stopped, sock, network, env, image, fvars>>

CheckBundle(p) ==
    /\ dpc[p] = "start"
    /\ Goto(p, IF BundleMissing THEN "generate" ELSE "open")
    /\ UNCHANGED <<target, polls, stopped, sock, network, session, fvars>>

\* gen_headless writes a fresh identity, over another one too.
GenerateBundle(p) ==
    /\ dpc[p] = "generate"
    /\ bundle' = bundle + 1
    /\ Goto(p, "open")
    /\ UNCHANGED <<target, polls, stopped, sock, endpoint, id, session, fvars>>

\* load_secret_bundle fails without the passphrase.
BuildEndpoint(p) ==
    /\ dpc[p] = "open"
    /\ \/ /\ id' = [id EXCEPT ![p] = bundle]
          /\ endpoint' = endpoint \cup {p}
          /\ Goto(p, "publish")
       \/ Goto(p, "exited") /\ UNCHANGED <<id, endpoint>>
    /\ UNCHANGED <<target, polls, stopped, sock, bundle, session, fvars>>

\* Publication may fail; main then returns and the process ends.
Publish(p) ==
    /\ dpc[p] = "publish"
    /\ \/ Goto(p, "exists") /\ UNCHANGED endpoint
       \/ Goto(p, "exited") /\ endpoint' = endpoint \ {p}
    /\ UNCHANGED <<target, polls, stopped, sock, bundle, id, session, fvars>>

PathExists(p) ==
    /\ dpc[p] = "exists"
    /\ Goto(p, IF sock = None THEN "load" ELSE "connect")
    /\ UNCHANGED <<target, polls, stopped, sock, network, session, fvars>>

\* A refused connection is taken for a stale file.
ClaimConnect(p) ==
    /\ dpc[p] = "connect"
    /\ IF Connectable
       THEN target' = [target EXCEPT ![p] = sock] /\ Goto(p, "ask")
       ELSE Goto(p, "remove") /\ UNCHANGED target
    /\ UNCHANGED <<polls, stopped, sock, network, session, fvars>>

\* The running daemon handles the Stop request and answers Stopping.
StopAnswered(p) ==
    /\ dpc[p] = "ask" /\ dpc[target[p]] = "serve"
    /\ stopped' = stopped \cup {target[p]}
    /\ Goto(p, "wait")
    /\ UNCHANGED <<target, polls, sock, network, session, fvars>>

\* It goes away instead: end of file, or an error that ends the claim.
StopUnanswered(p) ==
    /\ dpc[p] = "ask" /\ dpc[target[p]] \notin Listening
    /\ \E l \in {"wait", "close"} : Goto(p, l)
    /\ UNCHANGED <<target, polls, stopped, sock, network, session, fvars>>

WaitForRelease(p) ==
    /\ dpc[p] = "wait"
    /\ IF PollsLeft(p)
       THEN /\ polls' = Polled(p)
            /\ Goto(p, IF sock = None THEN "load" ELSE "wait")
       ELSE /\ Goto(p, "recheck")
            /\ UNCHANGED polls
    /\ UNCHANGED <<target, stopped, sock, network, session, fvars>>

\* Somebody still answers at the path: the claim fails.
Recheck(p) ==
    /\ dpc[p] = "recheck"
    /\ Goto(p, IF Connectable THEN "close" ELSE "remove")
    /\ UNCHANGED <<target, polls, stopped, sock, network, session, fvars>>

\* remove_file, whatever is at the path by now; it fails on a missing file.
RemoveStale(p) ==
    /\ dpc[p] = "remove"
    /\ sock' = None
    /\ Goto(p, IF sock = None THEN "close" ELSE "load")
    /\ UNCHANGED <<target, polls, stopped, network, session, fvars>>

\* An image that is there but cannot be read ends the start.
LoadImage(p) ==
    /\ dpc[p] = "load"
    /\ \/ /\ env' = [env EXCEPT ![p] = IF p \in img THEN image ELSE {}]
          /\ Goto(p, "bind")
       \/ p \in img /\ Goto(p, "close") /\ UNCHANGED env
    /\ UNCHANGED <<target, polls, stopped, sock, network, image, img, fvars>>

\* bind fails when the path exists.
Bind(p) ==
    /\ dpc[p] = "bind"
    /\ IF sock = None THEN sock' = p /\ Goto(p, "serve")
                      ELSE Goto(p, "close") /\ UNCHANGED sock
    /\ UNCHANGED <<target, polls, stopped, network, session, fvars>>

-----------------------------------------------------------------------------
(* Serving and shutting down.                                               *)

\* Some evaluation defines something.
Define(p) ==
    /\ "define" \in Events /\ dpc[p] = "serve"
    /\ env' = [env EXCEPT ![p] = @ \cup {p}]
    /\ UNCHANGED <<pvars, sock, network, image, img, fvars>>

LeaveLoop(p) ==
    /\ dpc[p] = "serve" /\ ToldToStop(p)
    /\ Goto(p, "unlink")
    /\ UNCHANGED <<target, polls, stopped, sock, network, session, fvars>>

\* remove_file, whatever is at the path by now.
Unlink(p) ==
    /\ dpc[p] = "unlink"
    /\ sock' = None
    /\ Goto(p, IF p \in img THEN "truncate" ELSE "close")
    /\ UNCHANGED <<target, polls, stopped, network, session, fvars>>

\* std::fs::write truncates the image, then writes it.
TruncateImage(p) ==
    /\ dpc[p] = "truncate"
    /\ image' = {}
    /\ Goto(p, "write")
    /\ UNCHANGED <<target, polls, stopped, sock, network, env, img, fvars>>

WriteImage(p) ==
    /\ dpc[p] = "write"
    /\ image' = env[p]
    /\ Goto(p, "close")
    /\ UNCHANGED <<target, polls, stopped, sock, network, env, img, fvars>>

\* run has returned, with or without an error.
CloseEndpoint(p) ==
    /\ dpc[p] = "close"
    /\ endpoint' = endpoint \ {p}
    /\ Goto(p, "exited")
    /\ UNCHANGED <<target, polls, stopped, sock, bundle, id, session, fvars>>

Signal(p) ==
    /\ "signal" \in Events /\ dpc[p] = "serve"
    /\ stopped' = stopped \cup {p}
    /\ UNCHANGED <<dpc, target, polls, sock, network, session, fvars>>

\* The process dies without cleaning up: the file at the path goes stale.
Kill(p) ==
    /\ "kill" \in Events /\ dpc[p] \notin Ended \cup {"off"}
    /\ endpoint' = endpoint \ {p}
    /\ Goto(p, "killed")
    /\ UNCHANGED <<target, polls, stopped, sock, bundle, id, session, fvars>>

-----------------------------------------------------------------------------
(* Frontends.                                                               *)

\* connect_or_spawn: use the running daemon, or spawn one and retry.
Connect(c) ==
    /\ cpc[c] = "off" /\ Connectable
    /\ cpc' = [cpc EXCEPT ![c] = "hello"]
    /\ server' = [server EXCEPT ![c] = sock]
    /\ UNCHANGED <<pvars, sock, network, session, tries>>

SpawnDaemon(c) ==
    /\ cpc[c] = "off" /\ ~Connectable
    /\ \E p \in Procs : MayStart(p) /\ Goto(p, "start")
    /\ cpc' = [cpc EXCEPT ![c] = "retry"]
    /\ UNCHANGED <<target, polls, stopped, sock, network, session,
                   server, tries>>

Retry(c) ==
    /\ cpc[c] = "retry"
    /\ IF Connectable
       THEN /\ cpc' = [cpc EXCEPT ![c] = "hello"]
            /\ server' = [server EXCEPT ![c] = sock]
            /\ UNCHANGED tries
       ELSE /\ cpc' = [cpc EXCEPT ![c] = IF TriesLeft(c) THEN @ ELSE "failed"]
            /\ tries' = IF TriesLeft(c) THEN Tried(c) ELSE tries
            /\ UNCHANGED server
    /\ UNCHANGED <<pvars, sock, network, session>>

\* The handshake: answered by the handler of the connection, which the daemon
\* may still run while its endpoint closes, or cut when the listener goes.
Hello(c) ==
    /\ cpc[c] = "hello"
    /\ \/ /\ dpc[server[c]] \in {"serve", "close"}
          /\ cpc' = [cpc EXCEPT ![c] = "up"]
       \/ /\ dpc[server[c]] \notin Listening
          /\ cpc' = [cpc EXCEPT ![c] = "failed"]
    /\ UNCHANGED <<pvars, sock, network, session, server, tries>>

\* The daemon process ends under a connected frontend.
Dropped(c) ==
    /\ cpc[c] = "up" /\ dpc[server[c]] \in Ended
    /\ cpc' = [cpc EXCEPT ![c] = "dropped"]
    /\ UNCHANGED <<pvars, sock, network, session, server, tries>>

\* `zscheme stop`: connects, if there is a daemon, ...
StopCommand(c) ==
    /\ "stop" \in Events
    /\ cpc[c] = "off" /\ Connectable
    /\ cpc' = [cpc EXCEPT ![c] = "asking"]
    /\ server' = [server EXCEPT ![c] = sock]
    /\ UNCHANGED <<pvars, sock, network, session, tries>>

\* ... has its request handled, where Hello is: Stopping is sent and the main
\* loop notified, ...
StopHandled(c) ==
    /\ cpc[c] = "asking" /\ dpc[server[c]] \in {"serve", "close"}
    /\ cpc' = [cpc EXCEPT ![c] = "answered"]
    /\ stopped' = stopped \cup {server[c]}
    /\ UNCHANGED <<dpc, target, polls, sock, network, session, server, tries>>

\* ... and says "zscheme daemon stopped" when it reads Stopping or the end of
\* the connection, unless the connection fails.
StopReported(c) ==
    /\ \/ cpc[c] = "answered" /\ cpc' = [cpc EXCEPT ![c] = "told"]
       \/ /\ cpc[c] = "asking" /\ dpc[server[c]] \notin Listening
          /\ \E l \in {"told", "failed"} : cpc' = [cpc EXCEPT ![c] = l]
       \/ /\ cpc[c] = "answered" /\ dpc[server[c]] \in Ended
          /\ cpc' = [cpc EXCEPT ![c] = "failed"]
    /\ UNCHANGED <<pvars, sock, network, session, server, tries>>

-----------------------------------------------------------------------------
Process(p) ==
    \/ CheckBundle(p)
    \/ GenerateBundle(p)
    \/ BuildEndpoint(p)
    \/ Publish(p)
    \/ PathExists(p)
    \/ ClaimConnect(p)
    \/ StopAnswered(p)
    \/ StopUnanswered(p)
    \/ WaitForRelease(p)
    \/ Recheck(p)
    \/ RemoveStale(p)
    \/ LoadImage(p)
    \/ Bind(p)
    \/ LeaveLoop(p)
    \/ Unlink(p)
    \/ TruncateImage(p)
    \/ WriteImage(p)
    \/ CloseEndpoint(p)

Frontend(c) ==
    \/ Retry(c)
    \/ Hello(c)
    \/ Dropped(c)
    \/ StopHandled(c)
    \/ StopReported(c)

User ==
    \/ \E p \in Procs : StartDaemon(p) \/ Define(p) \/ Signal(p) \/ Kill(p)
    \/ \E c \in Clients : Connect(c) \/ SpawnDaemon(c) \/ StopCommand(c)

Next ==
    \/ \E p \in Procs : Process(p)
    \/ \E c \in Clients : Frontend(c)
    \/ User

Spec == Init /\ [][Next]_vars

\* Processes that are not killed keep running; users need do nothing.
FairSpec ==
    /\ Spec
    /\ \A p \in Procs : WF_vars(Process(p))
    /\ \A c \in Clients : WF_vars(Frontend(c))

-----------------------------------------------------------------------------
(* Properties.                                                              *)

TypeOK ==
    /\ dpc \in [Procs -> ProcPCs]
    /\ sock \in Procs \cup {None}
    /\ bundle \in Nat
    /\ id \in [Procs -> Nat]
    /\ endpoint \subseteq Procs
    /\ target \in [Procs -> Procs \cup {None}]
    /\ polls \in [Procs -> 0 .. MaxPolls]
    /\ stopped \subseteq Procs
    /\ env \in [Procs -> SUBSET Procs]
    /\ image \subseteq Procs
    /\ img \subseteq Procs
    /\ cpc \in [Clients -> ClientPCs]
    /\ server \in [Clients -> Procs \cup {None}]
    /\ tries \in [Clients -> 0 .. MaxTries - 1]

\* A daemon whose main loop runs can be reached at the socket path: neither a
\* claimant's removal nor an old daemon's late unlink takes the path from it.
\* (claim_socket and the end of run.)
ServingReachable == \A p \in Procs : dpc[p] \in Holding => sock = p

\* At most one daemon serves.  (daemon.rs:32, a running daemon is asked to
\* stop first.)
OneServing ==
    \A p, q \in Procs : dpc[p] \in Holding /\ dpc[q] \in Holding => p = q

\* Whoever is on the network is who the bundle on disk says: nobody replaces
\* an identity in use, so that it survives restarts and takeovers.  (main
\* generates one only if the bundle is missing; the documents published for an
\* identity whose bundle is gone can never be renewed.)
IdentityKept == \A p \in endpoint : id[p] = bundle

\* Every daemon that is started comes to serve or ends, even when the daemon
\* it asked to stop dies without releasing the path.
StartsSettle ==
    \A p \in Procs : dpc[p] = "start" ~> dpc[p] \in {"serve"} \cup Ended

\* A daemon that is told to stop ends, and so does one that `zscheme stop` has
\* called stopped, which it may say of a daemon that still serves, or is about
\* to write its image.  (run; client.rs, stop.)
StopsSettle ==
    /\ \A p \in Procs : p \in stopped ~> dpc[p] \in Ended
    /\ \A c \in Clients :
          cpc[c] = "told" ~> cpc[c] = "told" /\ dpc[server[c]] \in Ended

\* A frontend that spawned a daemon is connected or gives up, even when the
\* daemon it spawned never serves or loses the path to another one's.
FrontendsSettle ==
    \A c \in Clients : cpc[c] = "retry" ~> cpc[c] \in {"up", "failed",
                                                       "dropped"}

\* A takeover ends with one process less at the identity's endpoint: two of
\* them hold one only for a while.  (README, Backend daemon: only one process
\* may own it at a time; main builds it before the old daemon has stopped.)
EndpointsReleased ==
    \A p, q \in Procs :
       p # q => ({p, q} \subseteq endpoint ~> ~({p, q} \subseteq endpoint))
=============================================================================
