----------------------------- MODULE WakeRegistry -----------------------------
(***************************************************************************)
(* The registry of wakeable Codex sessions: one file of rows that MCP      *)
(* children, the wake daemon and the CLI read and write under a lock file. *)
(* A managed launch (wakeable-launcher.ts) hosts the first children, of    *)
(* which one is root; a desktop chat binds to the thread of its first      *)
(* call.  The election is the abstract one that RootClaim implements.      *)
(***************************************************************************)
EXTENDS Naturals, LockFile

CONSTANTS
  Launched,    \* MCP children of the managed launch
  Desktop,     \* MCP children of desktop chats
  Tools,       \* runs of the wake daemon and of the CLI
  Peers,       \* bound: peer ids the broker hands out, 1 .. n
  None,        \* no process
  MaxFaults,   \* bound: kills, app-servers that do not come up
  QuickExits   \* bound: may a process end while a reclaimer that read its record has not probed it

Sessions == Launched \cup Desktop
LaunchThread == "launch"
Thread(s) == IF s \in Launched THEN LaunchThread ELSE s

ASSUME RegistryAssumption ==
  /\ Procs = Sessions \cup Tools /\ Launched \cap Desktop = {} /\ Sessions \cap Tools = {}
  /\ LaunchThread \notin Desktop /\ None \notin Procs /\ 0 \notin Peers
  /\ MaxFaults \in Nat /\ QuickExits \in BOOLEAN

VARIABLES
  guard,       \* who created the .reclaim file
  file,        \* rows of wake-registry.json
  pc, op,      \* of each process: its step, and the operation it is in
  seen,        \* owner that a reclaimer read
  snapshot,    \* rows that the holder of the lock read
  session,     \* of each session: peer, binding, registered peer, wakeable
  launch,      \* the launch claim and its TUI
  root,        \* owner of the root lock of the claim
  registered,  \* peer ids handed out
  retired,     \* history: peers whose row was removed on purpose
  faults

registry == <<lock, guard, file, seen, snapshot>>
vars == <<lock, guard, file, pc, op, seen, snapshot, session, launch, root, registered, retired, faults>>

WakeRegistryEntry == [peer : Peers, thread : {LaunchThread} \cup Desktop, mcp : Sessions]
Operation == [kind : {"none", "upsert", "remove", "prune"}, peer : Peers \cup {0}]
NoOp == [kind |-> "none", peer |-> 0]
Waiting == {"create", "guard", "owner", "probe", "drop"}
Holding == {"write", "read", "commit", "release"}

TypeOK ==
  /\ LockTypeOK /\ guard \in Procs \cup {None} /\ file \subseteq WakeRegistryEntry
  /\ pc \in [Procs -> {"none", "born", "inert", "join", "idle", "dead"} \cup Waiting \cup Holding]
  /\ op \in [Procs -> Operation] /\ seen \in [Procs -> Procs \cup {None}]
  /\ snapshot \in [Procs -> SUBSET WakeRegistryEntry]
  /\ session \in [Sessions -> [peer : Peers \cup {0}, bind : {"new", "none", "bound", "invalid"},
                               reg : Peers \cup {0}, wakeable : BOOLEAN]]
  /\ launch \in {"none", "starting", "ready", "open", "over", "failed"} /\ root \in Launched \cup {None}
  /\ registered \in Peers \cup {0} /\ retired \subseteq Peers /\ faults \in 0 .. MaxFaults
  /\ \A r, q \in file : r # q => r.peer # q.peer /\ r.thread # q.thread

Init ==
  /\ lock = Absent /\ guard = None /\ file = {}
  /\ pc = [p \in Procs |-> "none"] /\ op = [p \in Procs |-> NoOp] /\ seen = [p \in Procs |-> None]
  /\ snapshot = [p \in Procs |-> {}]
  /\ session = [s \in Sessions |-> [peer |-> 0, bind |-> "new", reg |-> 0, wakeable |-> FALSE]]
  /\ launch = "none" /\ root = None /\ registered = 0 /\ retired = {} /\ faults = 0

Fault == faults < MaxFaults /\ faults' = faults + 1
At(p, l) == pc[p] = l
Goto(p, l) == pc' = [pc EXCEPT ![p] = l]
Alive(p) == pc[p] \notin {"none", "dead"}
Begin(p, kind, peer) == Goto(p, "create") /\ op' = [op EXCEPT ![p] = [kind |-> kind, peer |-> peer]]

-----------------------------------------------------------------------------
(* The managed launch *)

createClaim == launch = "none" /\ launch' = "starting" /\ UNCHANGED faults

ServerIsReady ==
  /\ launch = "starting"
  /\ \/ launch' = "ready" /\ UNCHANGED faults
     \/ launch' = "failed" /\ Fault

TuiOpens == launch = "ready" /\ launch' = "open" /\ UNCHANGED faults

\* The launcher stops the app-server.
TuiExits == launch = "open" /\ launch' = "over" /\ UNCHANGED faults

runWakeableLauncher ==
  /\ createClaim \/ ServerIsReady \/ TuiOpens \/ TuiExits
  /\ UNCHANGED <<registry, pc, op, session, root, registered, retired>>

Spawn(s) ==
  /\ At(s, "none") /\ (s \in Launched => launch = "open")
  /\ Goto(s, IF s \in Launched THEN "born" ELSE "join")
  /\ UNCHANGED <<registry, op, session, launch, root, registered, retired, faults>>

findMatching == launch \in {"ready", "open", "over"}

\* The election: the root takes the identity, a child of another thread is inert.
Elect(c) ==
  /\ At(c, "born")
  /\ IF findMatching /\ (root = None \/ ~Alive(root)) THEN root' = c /\ Goto(c, "join")
     ELSE Goto(c, "inert") /\ UNCHANGED root
  /\ UNCHANGED <<registry, op, session, launch, registered, retired, faults>>

-----------------------------------------------------------------------------
(* Sessions *)

Persists(s) == s \in Launched \/ session[s].bind = "bound"

\* Registration with the broker, and again after an eviction.
Register(s) ==
  /\ pc[s] \in {"join", "idle"} /\ registered + 1 \in Peers /\ registered' = registered + 1
  /\ IF Persists(s) THEN /\ Begin(s, "upsert", registered + 1)
                         /\ session' = [session EXCEPT ![s].peer = registered + 1]
     ELSE /\ Goto(s, "idle") /\ UNCHANGED op
          /\ session' = [session EXCEPT ![s].peer = registered + 1, ![s].wakeable = FALSE]
  /\ UNCHANGED <<registry, launch, root, retired, faults>>

\* A call names the chat's thread: the first binds it, if discovery finds exactly one
\* app-server that has it loaded; a later one retries a failed write.
observe(d) ==
  /\ At(d, "idle")
  /\ \E bind \in IF session[d].bind = "new" THEN {"bound", "none"} ELSE {session[d].bind} :
       LET unsaved == bind = "bound" /\ session[d].reg # session[d].peer IN
       /\ IF unsaved THEN Begin(d, "upsert", session[d].peer) ELSE UNCHANGED <<pc, op>>
       /\ session' = [session EXCEPT ![d].bind = bind, ![d].wakeable = bind = "bound" /\ ~unsaved]
  /\ UNCHANGED <<registry, launch, root, registered, retired, faults>>

\* A call names another thread: the binding is given up for good.
ObserveOther(d) ==
  /\ At(d, "idle") /\ session[d].bind \in {"bound", "none"}
  /\ session' = [session EXCEPT ![d].bind = "invalid", ![d].wakeable = FALSE]
  /\ retired' = retired \cup ({session[d].reg} \ {0})
  /\ IF session[d].reg # 0 THEN Begin(d, "remove", session[d].reg) ELSE UNCHANGED <<pc, op>>
  /\ UNCHANGED <<registry, launch, root, registered, faults>>

\* The wake daemon prunes; the CLI retires a peer.
RunTool(w) ==
  /\ At(w, "none")
  /\ \/ Begin(w, "prune", 0) /\ UNCHANGED retired
     \/ \E peer \in 1 .. registered : Begin(w, "remove", peer) /\ retired' = retired \cup {peer}
  /\ UNCHANGED <<registry, session, launch, root, registered, faults>>

-----------------------------------------------------------------------------
(* An operation on the registry: lock, read, write, unlock *)

\* How a caller takes the end of its operation.
Returns(p) ==
  /\ op' = [op EXCEPT ![p] = NoOp]
  /\ Goto(p, IF p \in Sessions THEN "idle" ELSE IF QuickExits THEN "dead" ELSE "inert")
  /\ session' = IF p \notin Sessions THEN session
                ELSE [session EXCEPT ![p].reg = IF op[p].kind = "upsert" THEN op[p].peer ELSE 0,
                                     ![p].wakeable = op[p].kind = "upsert"]

\* A launched child exits when it starts, and registers anew when it rejoined.
Throws(p) ==
  /\ op' = [op EXCEPT ![p] = NoOp]
  /\ Goto(p, CASE p \in Tools -> "inert" [] p \in Desktop -> "idle"
               [] OTHER -> IF session[p].reg = 0 THEN "dead" ELSE "join")
  /\ session' = IF p \notin Desktop THEN session
                ELSE [session EXCEPT ![p].reg = IF op[p].kind = "remove" THEN 0 ELSE @, ![p].wakeable = FALSE]

Unheld == <<file, snapshot, launch, root, registered, retired, faults>>

\* The lock exists: reclaim it from a dead owner, or give up after two seconds.
acquireFileLock(p) ==
  /\ At(p, "create")
  /\ \/ CreateExclusive(p) /\ Goto(p, "write") /\ UNCHANGED <<op, session>>
     \/ Exists /\ Goto(p, "guard") /\ UNCHANGED <<lock, op, session>>
     \/ Exists /\ Throws(p) /\ UNCHANGED lock
  /\ UNCHANGED <<guard, seen, Unheld>>

WriteOwner(p) ==
  /\ At(p, "write") /\ WriteContent(p) /\ Goto(p, "read")
  /\ UNCHANGED <<guard, seen, op, session, Unheld>>

TakeGuard(p) ==
  /\ At(p, "guard")
  /\ IF guard = None THEN guard' = p /\ Goto(p, "owner") ELSE Goto(p, "create") /\ UNCHANGED guard
  /\ UNCHANGED <<lock, seen, op, session, Unheld>>

ReadOwner(p) ==
  /\ At(p, "owner")
  /\ IF Exists /\ lock.written THEN seen' = [seen EXCEPT ![p] = lock.by] /\ Goto(p, "probe")
     ELSE Goto(p, "drop") /\ UNCHANGED seen
  /\ UNCHANGED <<lock, guard, op, session, Unheld>>

\* Mutant of reclaimDeadLock: any lock that is found twice is stolen.
ReclaimAnyLock(p) ==
  /\ At(p, "probe") /\ seen' = [seen EXCEPT ![p] = None]
  /\ Exists /\ RemovePath /\ Goto(p, "drop") /\ UNCHANGED <<guard, op, session>>
  /\ UNCHANGED Unheld

\* Only a dead owner's lock is unlinked; unlinking no file throws.
reclaimDeadLock(p) ==
  /\ At(p, "probe") /\ seen' = [seen EXCEPT ![p] = None]
  /\ IF Alive(seen[p]) THEN Goto(p, "drop") /\ UNCHANGED <<lock, guard, op, session>>
     ELSE IF Exists THEN RemovePath /\ Goto(p, "drop") /\ UNCHANGED <<guard, op, session>>
     ELSE guard' = None /\ Throws(p) /\ UNCHANGED lock
  /\ UNCHANGED Unheld

DropGuard(p) ==
  /\ At(p, "drop") /\ guard' = None /\ Goto(p, "create")
  /\ UNCHANGED <<lock, seen, op, session, Unheld>>

readStateFromDisk(p) ==
  /\ At(p, "read") /\ snapshot' = [snapshot EXCEPT ![p] = file] /\ Goto(p, "commit")
  /\ UNCHANGED <<lock, guard, seen, op, session, file, launch, root, registered, retired, faults>>

isLive(r) == Alive(r.mcp) /\ (r.mcp \in Launched => launch = "open")

\* Mutant of Kept: the grace of a row is all that the daemon looks at.
KeptWithoutProbe(p) ==
  CASE op[p].kind = "upsert" -> {{r \in snapshot[p] : r.peer # op[p].peer /\ r.thread # Thread(p)}}
    [] op[p].kind = "remove" -> {{r \in snapshot[p] : r.peer # op[p].peer}}
    [] op[p].kind = "prune" -> SUBSET snapshot[p]

\* The rows an operation keeps; a dead row is kept for a grace period.
Kept(p) ==
  CASE op[p].kind = "upsert" -> {{r \in snapshot[p] : r.peer # op[p].peer /\ r.thread # Thread(p)}}
    [] op[p].kind = "remove" -> {{r \in snapshot[p] : r.peer # op[p].peer}}
    [] op[p].kind = "prune" -> {{r \in snapshot[p] : isLive(r)} \cup recent : recent \in SUBSET snapshot[p]}

persistState(p) ==
  /\ At(p, "commit") /\ Goto(p, "release") /\ snapshot' = [snapshot EXCEPT ![p] = {}]
  /\ \E kept \in Kept(p) :
       file' = IF op[p].kind = "upsert" THEN kept \cup {[peer |-> op[p].peer, thread |-> Thread(p), mcp |-> p]} ELSE kept
  /\ UNCHANGED <<lock, guard, seen, op, session, launch, root, registered, retired, faults>>

\* The path is unlinked, whatever lock it names; unlinking no file throws.
Release(p) ==
  /\ At(p, "release")
  /\ IF Exists THEN RemovePath /\ Returns(p) ELSE Throws(p) /\ UNCHANGED lock
  /\ UNCHANGED <<guard, seen, Unheld>>

\* A process is killed or ends; its files stay.
Kill(p) ==
  /\ Alive(p) /\ Fault /\ Goto(p, "dead") /\ op' = [op EXCEPT ![p] = NoOp]
  /\ QuickExits \/ pc[p] \in Holding \/ \A q \in Procs : At(q, "probe") => seen[q] # p
  /\ snapshot' = [snapshot EXCEPT ![p] = {}]
  /\ UNCHANGED <<lock, guard, file, seen, session, launch, root, registered, retired>>

Next ==
  \/ runWakeableLauncher
  \/ \E s \in Sessions : Spawn(s) \/ Register(s)
  \/ \E c \in Launched : Elect(c)
  \/ \E d \in Desktop : observe(d) \/ ObserveOther(d)
  \/ \E w \in Tools : RunTool(w)
  \/ \E p \in Procs :
       \/ acquireFileLock(p) \/ WriteOwner(p) \/ TakeGuard(p) \/ ReadOwner(p) \/ reclaimDeadLock(p) \/ DropGuard(p)
       \/ readStateFromDisk(p) \/ persistState(p) \/ Release(p) \/ Kill(p)

Spec == Init /\ [][Next]_vars

-----------------------------------------------------------------------------
(* Properties *)

Owed(p) == [peer |-> op[p].peer, thread |-> Thread(p), mcp |-> p]

\* No operation drops or brings back another's row: a row of a live session goes only
\* when its peer is removed or its thread or peer registered anew, and a row comes only
\* from the session that it names.
RowsSurvive ==
  [][/\ \A r \in file \ file' :
          \/ ~isLive(r)
          \/ \E p \in Procs : /\ At(p, "commit") /\ pc'[p] = "release"
                              /\ \/ op[p].kind \in {"remove", "upsert"} /\ op[p].peer = r.peer
                                 \/ op[p].kind = "upsert" /\ Thread(p) = r.thread
     /\ \A r \in file' \ file : \E p \in Sessions : At(p, "commit") /\ op[p].kind = "upsert" /\ r = Owed(p)]_vars

\* A session that tells its model not to wait for mail, because the daemon wakes it, has
\* its row in the registry with the peer that it is now, unless the row was retired, a
\* later child registered for the thread, or its launch is over.
WakeableIsListed ==
  \A s \in Sessions :
    At(s, "idle") /\ session[s].wakeable =>
      \/ \E r \in file : r.thread = Thread(s) /\ (r.mcp = s => r.peer = session[s].peer)
      \/ session[s].peer \in retired \/ (s \in Launched /\ launch # "open")
==============================================================================
