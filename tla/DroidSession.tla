----------------------------- MODULE DroidSession -----------------------------
(***************************************************************************)
(* Managed launchers of Droid sessions: the launch claim that a launcher   *)
(* and the MCP child of its engine both write, under a lock that is never  *)
(* stolen; the owner lock of a Factory session; and the saved session that *)
(* a later launcher resumes.                                               *)
(***************************************************************************)
EXTENDS Naturals

CONSTANTS
  Launchers,   \* bound: launchers, 1 .. n; launcher l gives a new session the id l
  Peers,       \* bound: peer ids the broker hands out, 1 .. n
  MaxFaults    \* bound: crashes, timeouts, replaced MCP children

VARIABLES
  launcher,    \* of each launcher: step, session, claim it read
  claim,       \* its claim file
  binding,     \* its binding file: pid of the MCP child that created it
  ulock,       \* its update lock: free, or who holds it or died holding it
  engine,      \* session that its engine has loaded
  mcp,         \* its MCP child: alive, pid, registered as, step, claim it read
  owner,       \* of each session: launcher in the owner lock
  record,      \* of each session: the saved peer; history: written by an orphan
  registered,  \* peer ids handed out
  faults

vars == <<launcher, claim, binding, ulock, engine, mcp, owner, record, registered, faults>>

NoClaim == [exists |-> FALSE, session |-> 0, peer |-> 0, mcp |-> 0]
DroidLaunchClaim == [exists : BOOLEAN, session : Launchers \cup {0}, peer : Peers \cup {0}, mcp : 0 .. 2]

TypeOK ==
  /\ launcher \in [Launchers -> [pc : {"none", "claimed", "scan", "engine", "acquire", "binding", "finalize", "write", "save",
                                      "ready", "ending", "release", "gone", "dead"},
                                session : Launchers \cup {0}, read : DroidLaunchClaim]]
  /\ claim \in [Launchers -> DroidLaunchClaim] /\ binding \in [Launchers -> 0 .. 2]
  /\ ulock \in [Launchers -> {"free", "launcher", "mcp"}] /\ engine \in [Launchers -> Launchers \cup {0}]
  /\ mcp \in [Launchers -> [up : BOOLEAN, pid : 0 .. 2, peer : Peers \cup {0}, pc : {"idle", "bind", "write", "save"},
                           read : DroidLaunchClaim]]
  /\ owner \in [Launchers -> Launchers \cup {0}]
  /\ record \in [Launchers -> [peer : Peers \cup {0}, orphan : BOOLEAN]]
  /\ registered \in Peers \cup {0} /\ faults \in 0 .. MaxFaults
  /\ \A l \in Launchers : launcher[l].pc \in {"write", "save"} => ulock[l] = "launcher"

Init ==
  /\ launcher = [l \in Launchers |-> [pc |-> "none", session |-> 0, read |-> NoClaim]]
  /\ claim = [l \in Launchers |-> NoClaim] /\ binding = [l \in Launchers |-> 0]
  /\ ulock = [l \in Launchers |-> "free"] /\ engine = [l \in Launchers |-> 0]
  /\ mcp = [l \in Launchers |-> [up |-> FALSE, pid |-> 0, peer |-> 0, pc |-> "idle", read |-> NoClaim]]
  /\ owner = [s \in Launchers |-> 0] /\ record = [s \in Launchers |-> [peer |-> 0, orphan |-> FALSE]]
  /\ registered = 0 /\ faults = 0

Fault == faults < MaxFaults /\ faults' = faults + 1
At(l, pc) == launcher[l].pc = pc
Goto(l, pc) == launcher' = [launcher EXCEPT ![l].pc = pc]
Up(l) == launcher[l].pc \notin {"none", "gone", "dead"}

-----------------------------------------------------------------------------
(* The launcher *)

createClaim(l, resume) ==
  /\ At(l, "none") /\ resume \in {0} \cup {s \in Launchers : record[s].peer # 0}
  /\ launcher' = [launcher EXCEPT ![l].pc = IF resume = 0 THEN "engine" ELSE "claimed", ![l].session = resume]
  /\ claim' = [claim EXCEPT ![l] = [NoClaim EXCEPT !.exists = TRUE]]
  /\ UNCHANGED <<binding, ulock, engine, mcp, owner, record, registered, faults>>

MayOwn(l, s) == owner[s] = 0 \/ ~Up(owner[s])

tryAcquire(l) ==
  /\ launcher[l].pc \in {"claimed", "acquire"}
  /\ LET s == launcher[l].session IN
       IF MayOwn(l, s) THEN owner' = [owner EXCEPT ![s] = l] /\ Goto(l, "scan")
       ELSE Goto(l, "ending") /\ UNCHANGED owner
  /\ UNCHANGED <<claim, binding, ulock, engine, mcp, record, registered, faults>>

\* Live claims of others count, too: those of this session, and those of a
\* launcher that does not know its session yet.
Contenders(l) == {k \in Launchers \ {l} : claim[k].exists /\ claim[k].session \in {0, launcher[l].session} /\ Up(k)}

ScanClaims(l) ==
  /\ At(l, "scan")
  /\ IF Contenders(l) # {} THEN owner' = [owner EXCEPT ![launcher[l].session] = 0] /\ Goto(l, "ending")
     ELSE Goto(l, IF engine[l] = 0 THEN "engine" ELSE "binding") /\ UNCHANGED owner
  /\ UNCHANGED <<claim, binding, ulock, engine, mcp, record, registered, faults>>

\* session/new or session/resume; Droid starts the MCP child while it answers.
LoadSession(l) ==
  /\ At(l, "engine")
  /\ LET new == launcher[l].session = 0
         s == IF new THEN l ELSE launcher[l].session IN
       /\ launcher' = [launcher EXCEPT ![l].pc = IF new THEN "acquire" ELSE "binding", ![l].session = s]
       /\ engine' = [engine EXCEPT ![l] = s] /\ mcp' = [mcp EXCEPT ![l].up = TRUE, ![l].pid = 1]
  /\ UNCHANGED <<claim, binding, ulock, owner, record, registered, faults>>

waitForBinding(l) ==
  /\ At(l, "binding")
  /\ \/ claim[l].mcp # 0 /\ Goto(l, "finalize") /\ UNCHANGED faults
     \/ claim[l].mcp = 0 /\ Fault /\ Goto(l, "ending")
  /\ UNCHANGED <<claim, binding, ulock, engine, mcp, owner, record, registered>>

LockIsDead(l) ==
  \/ ulock[l] = "launcher" /\ ~Up(l)
  \/ ulock[l] = "mcp" /\ ~(mcp[l].up /\ mcp[l].pc \in {"write", "save"})

\* Mutant of MayUpdate: the update lock does not exclude.
MayUpdateAlways(l) == TRUE
MayUpdate(l) == ulock[l] = "free"

\* withClaimUpdate: a lock whose holder died is not stolen, the waiter gives up.
setSessionId(l) ==
  /\ \/ /\ At(l, "finalize") /\ MayUpdate(l)
        /\ launcher' = [launcher EXCEPT ![l].pc = "write", ![l].read = claim[l]]
        /\ ulock' = [ulock EXCEPT ![l] = "launcher"] /\ UNCHANGED <<claim, record>>
     \/ At(l, "finalize") /\ LockIsDead(l) /\ Goto(l, "ending") /\ UNCHANGED <<claim, ulock, record>>
     \/ /\ At(l, "write") /\ Goto(l, "save")
        /\ claim' = [claim EXCEPT ![l] = [launcher[l].read EXCEPT !.session = launcher[l].session]]
        /\ UNCHANGED <<ulock, record>>
     \/ /\ At(l, "save") /\ ulock' = [ulock EXCEPT ![l] = "free"]
        /\ launcher' = [launcher EXCEPT ![l].pc = "ready", ![l].read = NoClaim]
        /\ record' = IF launcher[l].read.mcp = 0 THEN record
                     ELSE [record EXCEPT ![launcher[l].session] = [peer |-> launcher[l].read.peer, orphan |-> FALSE]]
        /\ UNCHANGED claim
  /\ UNCHANGED <<binding, engine, mcp, owner, registered, faults>>

\* Mutant of Stops: the claim and the owner lock are given up before the engine stops.
StopsReleasingFirst(l) ==
  \/ /\ launcher[l].pc \in {"engine", "binding", "ready"} /\ Goto(l, "ending") /\ UNCHANGED <<engine, claim, binding, owner>>
  \/ /\ At(l, "ending") /\ Goto(l, "release") /\ UNCHANGED engine
     /\ claim' = [claim EXCEPT ![l] = NoClaim] /\ binding' = [binding EXCEPT ![l] = 0]
     /\ owner' = [s \in Launchers |-> IF owner[s] = l THEN 0 ELSE owner[s]]
  \/ At(l, "release") /\ Goto(l, "gone") /\ engine' = [engine EXCEPT ![l] = 0] /\ UNCHANGED <<claim, binding, owner>>

\* A signal, an engine that exits, an error: the engine is stopped first.
Stops(l) ==
  \/ /\ launcher[l].pc \in {"engine", "binding", "ready"} /\ Goto(l, "ending") /\ UNCHANGED <<engine, claim, binding, owner>>
  \/ At(l, "ending") /\ engine[l] # 0 /\ engine' = [engine EXCEPT ![l] = 0] /\ UNCHANGED <<launcher, claim, binding, owner>>
  \/ /\ At(l, "ending") /\ engine[l] = 0 /\ Goto(l, "release")
     /\ claim' = [claim EXCEPT ![l] = NoClaim] /\ binding' = [binding EXCEPT ![l] = 0] /\ UNCHANGED <<engine, owner>>
  \/ /\ At(l, "release") /\ Goto(l, "gone") /\ UNCHANGED <<engine, claim, binding>>
     /\ owner' = [s \in Launchers |-> IF owner[s] = l THEN 0 ELSE owner[s]]

LauncherStops(l) == Stops(l) /\ UNCHANGED <<ulock, mcp, record, registered, faults>>

\* The engine ends with its pipe; the MCP child may outlive it for a while.
LauncherDies(l) ==
  /\ Up(l) /\ Fault /\ Goto(l, "dead") /\ engine' = [engine EXCEPT ![l] = 0]
  /\ UNCHANGED <<claim, binding, ulock, mcp, owner, record, registered>>

-----------------------------------------------------------------------------
(* The MCP child *)

\* Registration, and registration anew after the broker evicted the peer.
Register(l) ==
  /\ mcp[l].up /\ mcp[l].pc = "idle" /\ registered + 1 \in Peers /\ registered' = registered + 1
  /\ mcp' = [mcp EXCEPT ![l].peer = registered + 1, ![l].pc = "bind"]
  /\ UNCHANGED <<launcher, claim, binding, ulock, engine, owner, record, faults>>

\* A claim is bound to one process for good.
Bindable(l) == binding[l] \in {0, mcp[l].pid} /\ claim[l].mcp \in {0, mcp[l].pid}

bindClaim(l) ==
  /\ mcp[l].up
  /\ \/ /\ mcp[l].pc = "bind" /\ MayUpdate(l) /\ claim[l].exists /\ Bindable(l)
        /\ mcp' = [mcp EXCEPT ![l].pc = "write", ![l].read = claim[l]]
        /\ binding' = [binding EXCEPT ![l] = mcp[l].pid] /\ ulock' = [ulock EXCEPT ![l] = "mcp"]
        /\ UNCHANGED <<claim, record>>
     \/ /\ mcp[l].pc = "bind" /\ (LockIsDead(l) \/ (MayUpdate(l) /\ (~claim[l].exists \/ ~Bindable(l))))
        /\ mcp' = [mcp EXCEPT ![l].pc = "idle"] /\ UNCHANGED <<claim, binding, ulock, record>>
     \/ /\ mcp[l].pc = "write" /\ mcp' = [mcp EXCEPT ![l].pc = "save"]
        /\ claim' = [claim EXCEPT ![l] = [mcp[l].read EXCEPT !.peer = mcp[l].peer, !.mcp = mcp[l].pid]]
        /\ UNCHANGED <<binding, ulock, record>>
     \/ /\ mcp[l].pc = "save" /\ mcp' = [mcp EXCEPT ![l].pc = "idle", ![l].read = NoClaim]
        /\ ulock' = [ulock EXCEPT ![l] = "free"] /\ UNCHANGED <<claim, binding>>
        /\ record' = IF mcp[l].read.session = 0 THEN record
                     ELSE [record EXCEPT ![mcp[l].read.session] = [peer |-> mcp[l].peer, orphan |-> ~Up(l) \/ engine[l] = 0]]
  /\ UNCHANGED <<launcher, engine, owner, registered, faults>>

McpExits(l) ==
  /\ mcp[l].up /\ (IF engine[l] = 0 THEN UNCHANGED faults ELSE Fault)
  /\ mcp' = [mcp EXCEPT ![l].up = FALSE, ![l].pc = "idle", ![l].read = NoClaim]
  /\ UNCHANGED <<launcher, claim, binding, ulock, engine, owner, record, registered>>

\* Droid starts another child for the same session.
McpReplaced(l) ==
  /\ ~mcp[l].up /\ mcp[l].pid = 1 /\ engine[l] # 0
  /\ mcp' = [mcp EXCEPT ![l].up = TRUE, ![l].pid = 2, ![l].peer = 0]
  /\ UNCHANGED <<launcher, claim, binding, ulock, engine, owner, record, registered, faults>>

Next ==
  \E l \in Launchers :
    \/ \E resume \in Launchers \cup {0} : createClaim(l, resume)
    \/ tryAcquire(l) \/ ScanClaims(l) \/ LoadSession(l) \/ waitForBinding(l) \/ setSessionId(l)
    \/ LauncherStops(l) \/ LauncherDies(l)
    \/ Register(l) \/ bindClaim(l) \/ McpExits(l) \/ McpReplaced(l)

Spec == Init /\ [][Next]_vars

-----------------------------------------------------------------------------
(* Properties *)

\* No Factory session is loaded by the engines of two launchers, whichever of them
\* created, resumed or crashed when.
OneEngine == \A l, k \in Launchers : l # k /\ engine[l] # 0 => engine[l] # engine[k]

\* When a launcher is ready, and whenever its MCP child is done with registering
\* anew, the claim, whose peer's mail the launcher watches, and the saved session
\* name the peer that the child is registered as; the launcher and the child never
\* undo each other's writes. Only an orphaned child may take the saved session.
ClaimNamesPeer ==
  \A l \in Launchers :
    LET s == launcher[l].session IN
      At(l, "ready") /\ mcp[l].up /\ mcp[l].pc = "idle" /\ mcp[l].pid = claim[l].mcp =>
        claim[l].session = s /\ claim[l].peer = mcp[l].peer /\ (record[s].peer = mcp[l].peer \/ record[s].orphan)
=============================================================================
