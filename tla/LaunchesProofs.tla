---------------------------- MODULE LaunchesProofs ----------------------------
(***************************************************************************)
(* Proofs about the bookkeeping of managed sessions, for any number of     *)
(* processes, peer ids and faults: first the launchers of Droid sessions   *)
(* (DroidSession), then the registry of wakeable sessions (WakeRegistry),  *)
(* which MCLaunches puts side by side, on disjoint state.                  *)
(***************************************************************************)
EXTENDS MCLaunches, TLAPS

Pc(l) == launcher[l].pc
SessionOf(l) == launcher[l].session

\* No saved session, claim or other launcher knows of session s.
Unnamed(s) ==
  /\ record[s].peer = 0
  /\ \A k \in Launchers :
       /\ claim[k].session # s /\ launcher[k].read.session # s /\ mcp[k].read.session # s
       /\ SessionOf(k) = s => k = s

\* A launcher that has not acquired the session it creates.
IsNew(l) ==
  \/ Pc(l) \in {"none", "acquire"}
  \/ Pc(l) = "engine" /\ SessionOf(l) = 0
  \/ Pc(l) = "scan" /\ engine[l] # 0

NewIsUnnamed == \A l \in Launchers : IsNew(l) => Unnamed(l) /\ SessionOf(l) \in {0, l}

\* From the scan of the claims until it ends, a launcher has the owner lock.
MustOwn(l) ==
  \/ Pc(l) \in {"scan", "binding", "finalize", "write", "save", "ready"}
  \/ Pc(l) = "engine" /\ SessionOf(l) # 0
OwnsSession == \A l \in Launchers : MustOwn(l) => SessionOf(l) # 0 /\ owner[SessionOf(l)] = l

\* A loaded session belongs to whoever has the owner lock, or it was created by the
\* launcher of the engine and nobody else can know of it.
EngineIsOwned ==
  \A l \in Launchers : engine[l] # 0 => owner[engine[l]] = l \/ (engine[l] = l /\ Unnamed(l))

\* What a launcher's step says of its engine, and of the child of that engine.
BeforeEngine(l) == Pc(l) \in {"none", "claimed", "engine"} \/ (Pc(l) = "scan" /\ engine[l] = 0)
EngineFits(l) ==
  /\ Pc(l) \in {"acquire", "binding", "finalize", "write", "save", "ready"} => engine[l] # 0
  /\ Pc(l) \in {"none", "claimed", "engine", "release", "gone", "dead"} => engine[l] = 0
  /\ engine[l] # 0 => engine[l] = SessionOf(l)
  /\ Pc(l) = "none" => SessionOf(l) = 0
  /\ Pc(l) = "claimed" => SessionOf(l) # 0
  /\ BeforeEngine(l) => /\ mcp[l].pid = 0 /\ ~mcp[l].up /\ mcp[l].pc = "idle"
                        /\ binding[l] = 0 /\ claim[l].mcp = 0 /\ claim[l].session = 0
EngineByStep == \A l \in Launchers : EngineFits(l)

\* A claim, and a copy of it in memory, names the session of its launcher or none.
ClaimsOwn ==
  \A l \in Launchers :
    /\ claim[l].session \in {0, SessionOf(l)}
    /\ launcher[l].read.session \in {0, SessionOf(l)}
    /\ mcp[l].read.session \in {0, SessionOf(l)}

\* The child, too, rewrites the claim with the update lock in its hands.
ChildWritesLocked == \A l \in Launchers : mcp[l].pc \in {"write", "save"} => ulock[l] = "mcp"

DInv ==
  /\ Droid!TypeOK /\ ChildWritesLocked /\ NewIsUnnamed /\ OwnsSession /\ EngineIsOwned /\ EngineByStep /\ ClaimsOwn

-----------------------------------------------------------------------------

LEMMA DroidInit == Droid!Init => DInv
  <1> SUFFICES ASSUME Droid!Init PROVE DInv
    OBVIOUS
  <1> USE DEF Droid!Init
  <1>1. Droid!TypeOK
    BY DroidAssumption DEF Droid!TypeOK, Droid!NoClaim, Droid!DroidLaunchClaim
  <1>2. ChildWritesLocked /\ NewIsUnnamed /\ OwnsSession /\ EngineIsOwned /\ EngineByStep /\ ClaimsOwn
    BY DroidAssumption DEF ChildWritesLocked, NewIsUnnamed, OwnsSession, EngineIsOwned, EngineByStep, ClaimsOwn, IsNew, Unnamed, Pc, SessionOf,
       Droid!NoClaim, BeforeEngine, EngineFits, MustOwn
  <1>3. QED
    BY <1>1, <1>2 DEF DInv

DroidPcs == {"none", "claimed", "scan", "engine", "acquire", "binding", "finalize", "write", "save",
             "ready", "ending", "release", "gone", "dead"}
LauncherState == [pc : DroidPcs, session : Launchers \cup {0}, read : Droid!DroidLaunchClaim]
ChildState ==
  [up : BOOLEAN, pid : 0 .. 2, peer : DroidPeers \cup {0}, pc : {"idle", "bind", "write", "save"}, read : Droid!DroidLaunchClaim]

LEMMA LauncherMoves ==
  ASSUME launcher \in [Launchers -> LauncherState], NEW l \in Launchers, NEW x \in DroidPcs
  PROVE  /\ launcher' = [launcher EXCEPT ![l].pc = x] => launcher' \in [Launchers -> LauncherState]
         /\ \A s \in Launchers \cup {0} :
              launcher' = [launcher EXCEPT ![l].pc = x, ![l].session = s] => launcher' \in [Launchers -> LauncherState]
         /\ \A c \in Droid!DroidLaunchClaim :
              launcher' = [launcher EXCEPT ![l].pc = x, ![l].read = c] => launcher' \in [Launchers -> LauncherState]
  BY DEF LauncherState

LEMMA NoClaimTyped == Droid!NoClaim \in Droid!DroidLaunchClaim /\ 0 \in 0 .. 2 /\ 1 \in 0 .. 2 /\ 2 \in 0 .. 2
  BY DEF Droid!NoClaim, Droid!DroidLaunchClaim

LEMMA ClaimUpdates ==
  /\ Droid!NoClaim \in Droid!DroidLaunchClaim
  /\ [Droid!NoClaim EXCEPT !.exists = TRUE] \in Droid!DroidLaunchClaim
  /\ \A c \in Droid!DroidLaunchClaim :
       /\ c.session \in Launchers \cup {0} /\ c.peer \in DroidPeers \cup {0} /\ c.mcp \in 0 .. 2
       /\ \A s \in Launchers \cup {0} : [c EXCEPT !.session = s] \in Droid!DroidLaunchClaim
       /\ \A q \in DroidPeers \cup {0}, m \in 0 .. 2 : [c EXCEPT !.peer = q, !.mcp = m] \in Droid!DroidLaunchClaim
  <1> USE DEF Droid!DroidLaunchClaim
  <1>1. Droid!NoClaim \in Droid!DroidLaunchClaim
    BY DEF Droid!NoClaim
  <1>2. [Droid!NoClaim EXCEPT !.exists = TRUE] \in Droid!DroidLaunchClaim
    BY <1>1
  <1>3. ASSUME NEW c \in Droid!DroidLaunchClaim, NEW s \in Launchers \cup {0}
        PROVE  [c EXCEPT !.session = s] \in Droid!DroidLaunchClaim
    OBVIOUS
  <1>4. ASSUME NEW c \in Droid!DroidLaunchClaim, NEW q \in DroidPeers \cup {0}, NEW m \in 0 .. 2
        PROVE  [c EXCEPT !.peer = q, !.mcp = m] \in Droid!DroidLaunchClaim
    OBVIOUS
  <1>5. ASSUME NEW c \in Droid!DroidLaunchClaim
        PROVE  c.session \in Launchers \cup {0} /\ c.peer \in DroidPeers \cup {0} /\ c.mcp \in 0 .. 2
    OBVIOUS
  <1> HIDE DEF Droid!DroidLaunchClaim
  <1>6. QED
    BY <1>1, <1>2, <1>3, <1>4, <1>5

\* The updates of a child's record.
LEMMA ChildUpdates ==
  ASSUME NEW r \in ChildState, NEW x \in {"idle", "bind", "write", "save"},
         NEW q \in DroidPeers \cup {0}, NEW m \in 0 .. 2, NEW c \in Droid!DroidLaunchClaim
  PROVE  /\ [r EXCEPT !.pc = x] \in ChildState
         /\ [r EXCEPT !.pc = x, !.read = c] \in ChildState
         /\ [r EXCEPT !.peer = q, !.pc = x] \in ChildState
         /\ [r EXCEPT !.up = TRUE, !.pid = m] \in ChildState
         /\ [r EXCEPT !.up = TRUE, !.pid = m, !.peer = q] \in ChildState
         /\ [r EXCEPT !.up = FALSE, !.pc = x, !.read = c] \in ChildState
  <1> USE DEF ChildState
  <1>1. [r EXCEPT !.pc = x] \in ChildState /\ [r EXCEPT !.pc = x, !.read = c] \in ChildState
    OBVIOUS
  <1>2. [r EXCEPT !.peer = q, !.pc = x] \in ChildState
    OBVIOUS
  <1>3. [r EXCEPT !.up = TRUE] \in ChildState /\ [r EXCEPT !.up = FALSE] \in ChildState
    OBVIOUS
  <1>4. [r EXCEPT !.up = TRUE, !.pid = m] \in ChildState
    BY <1>3
  <1>5. [r EXCEPT !.up = TRUE, !.pid = m, !.peer = q] \in ChildState
    BY <1>3
  <1>6. [r EXCEPT !.up = FALSE, !.pc = x, !.read = c] \in ChildState
    BY <1>3
  <1>7. QED
    BY <1>1, <1>2, <1>3, <1>4, <1>5, <1>6

\* The types of everything but the launchers and the children.
OthersTyped ==
  /\ claim \in [Launchers -> Droid!DroidLaunchClaim] /\ binding \in [Launchers -> 0 .. 2]
  /\ ulock \in [Launchers -> {"free", "launcher", "mcp"}] /\ engine \in [Launchers -> Launchers \cup {0}]
  /\ owner \in [Launchers -> Launchers \cup {0}]
  /\ record \in [Launchers -> [peer : DroidPeers \cup {0}, orphan : BOOLEAN]]
  /\ issued \in DroidPeers \cup {0} /\ lapses \in 0 .. DroidFaults

WritesLocked == \A l \in Launchers : launcher[l].pc \in {"write", "save"} => ulock[l] = "launcher"

LEMMA TypeParts ==
  Droid!TypeOK <=> /\ launcher \in [Launchers -> LauncherState] /\ mcp \in [Launchers -> ChildState]
                   /\ OthersTyped /\ WritesLocked
  BY DEF Droid!TypeOK, LauncherState, ChildState, DroidPcs, OthersTyped, WritesLocked

LEMMA StepDroidTyped ==
  Droid!TypeOK /\ ChildWritesLocked /\ [Droid!Next]_droidVars => Droid!TypeOK' /\ ChildWritesLocked'
  <1> DEFINE LT == launcher \in [Launchers -> LauncherState]
             CT == mcp \in [Launchers -> ChildState]
             Typed == LT /\ CT /\ OthersTyped /\ WritesLocked /\ ChildWritesLocked
  <1> SUFFICES ASSUME Droid!TypeOK, ChildWritesLocked, [Droid!Next]_droidVars PROVE Typed'
    <2>1. Typed => Droid!TypeOK /\ ChildWritesLocked
      BY TypeParts
    <2>2. QED
      BY <2>1, PTL
  <1>0. LT /\ CT /\ OthersTyped /\ WritesLocked /\ ChildWritesLocked
    BY TypeParts
  <1> HIDE DEF LT, CT
  <1> USE DEF Droid!Goto, Droid!At
  <1>1. ASSUME NEW l \in Launchers, NEW r \in Launchers \cup {0}, Droid!createClaim(l, r) PROVE Typed'
    <2>1. PICK x \in {"engine", "claimed"} : launcher' = [launcher EXCEPT ![l].pc = x, ![l].session = r]
      BY <1>1 DEF Droid!createClaim
    <2>2. LT'
      BY <1>0, <2>1, LauncherMoves DEF LT, DroidPcs
    <2>3. OthersTyped'
      BY <1>0, <1>1, ClaimUpdates DEF Droid!createClaim, OthersTyped
    <2>4. CT' /\ WritesLocked' /\ ChildWritesLocked'
      BY <1>0, <1>1, <2>1 DEF Droid!createClaim, WritesLocked, ChildWritesLocked, CT, LT, LauncherState
    <2>5. QED
      BY <2>2, <2>3, <2>4
  <1>2. ASSUME NEW l \in Launchers, Droid!tryAcquire(l) \/ Droid!ScanClaims(l) PROVE Typed'
    <2>1. PICK x \in {"scan", "ending", "engine", "binding"} : launcher' = [launcher EXCEPT ![l].pc = x]
      BY <1>2 DEF Droid!tryAcquire, Droid!ScanClaims
    <2>2. LT'
      BY <1>0, <2>1, LauncherMoves DEF LT, DroidPcs
    <2>3. OthersTyped'
      BY <1>0, <1>2 DEF Droid!tryAcquire, Droid!ScanClaims, OthersTyped
    <2>4. CT' /\ WritesLocked' /\ ChildWritesLocked'
      BY <1>0, <1>2, <2>1 DEF Droid!tryAcquire, Droid!ScanClaims, WritesLocked, ChildWritesLocked, CT, LT, LauncherState
    <2>5. QED
      BY <2>2, <2>3, <2>4
  <1>3. ASSUME NEW l \in Launchers, Droid!LoadSession(l) PROVE Typed'
    <2>1. PICK x \in {"acquire", "binding"}, s \in Launchers \cup {0} :
            launcher' = [launcher EXCEPT ![l].pc = x, ![l].session = s] /\ engine' = [engine EXCEPT ![l] = s]
      BY <1>0, <1>3 DEF Droid!LoadSession, LT, LauncherState
    <2>2. LT'
      BY <1>0, <2>1, LauncherMoves DEF LT, DroidPcs
    <2>3. CT'
      <3>1. mcp' = [mcp EXCEPT ![l] = [mcp[l] EXCEPT !.up = TRUE, !.pid = 1]]
        BY <1>3 DEF Droid!LoadSession
      <3>2. [mcp[l] EXCEPT !.up = TRUE, !.pid = 1] \in ChildState
        BY <1>0, ChildUpdates, NoClaimTyped DEF CT
      <3>3. QED
        BY <1>0, <3>1, <3>2 DEF CT
    <2>4. OthersTyped'
      BY <1>0, <1>3, <2>1 DEF Droid!LoadSession, OthersTyped
    <2>5. WritesLocked' /\ ChildWritesLocked'
      BY <1>0, <1>3, <2>1 DEF Droid!LoadSession, WritesLocked, ChildWritesLocked, LT, LauncherState, CT, ChildState
    <2>6. QED
      BY <2>2, <2>3, <2>4, <2>5
  <1>4. ASSUME NEW l \in Launchers, Droid!waitForBinding(l) PROVE Typed'
    <2>1. PICK x \in {"finalize", "ending"} : launcher' = [launcher EXCEPT ![l].pc = x]
      BY <1>4 DEF Droid!waitForBinding
    <2>2. LT'
      BY <1>0, <2>1, LauncherMoves DEF LT, DroidPcs
    <2>3. OthersTyped'
      BY <1>0, <1>4, DroidAssumption DEF Droid!waitForBinding, Droid!Fault, OthersTyped
    <2>4. CT' /\ WritesLocked' /\ ChildWritesLocked'
      BY <1>0, <1>4, <2>1 DEF Droid!waitForBinding, WritesLocked, ChildWritesLocked, CT, LT, LauncherState
    <2>5. QED
      BY <2>2, <2>3, <2>4
  <1>5. ASSUME NEW l \in Launchers, Droid!setSessionId(l) PROVE Typed'
    <2>1. LT'
      <3>1. launcher[l].read \in Droid!DroidLaunchClaim /\ claim[l] \in Droid!DroidLaunchClaim
        BY <1>0 DEF LT, LauncherState, OthersTyped
      <3>2. \/ launcher' = [launcher EXCEPT ![l].pc = "write", ![l].read = claim[l]]
            \/ launcher' = [launcher EXCEPT ![l].pc = "ending"]
            \/ launcher' = [launcher EXCEPT ![l].pc = "save"]
            \/ launcher' = [launcher EXCEPT ![l].pc = "ready", ![l].read = Droid!NoClaim]
        BY <1>5 DEF Droid!setSessionId
      <3>3. CASE launcher' = [launcher EXCEPT ![l].pc = "write", ![l].read = claim[l]]
        BY <1>0, <3>1, <3>3, LauncherMoves DEF LT, DroidPcs
      <3>4. CASE launcher' = [launcher EXCEPT ![l].pc = "ending"] \/ launcher' = [launcher EXCEPT ![l].pc = "save"]
        BY <1>0, <3>1, <3>4, LauncherMoves DEF LT, DroidPcs
      <3>5. CASE launcher' = [launcher EXCEPT ![l].pc = "ready", ![l].read = Droid!NoClaim]
        BY <1>0, <3>5, LauncherMoves, ClaimUpdates DEF LT, DroidPcs
      <3>6. QED
        BY <3>2, <3>3, <3>4, <3>5
    <2>2. claim' \in [Launchers -> Droid!DroidLaunchClaim]
      <3>1. CASE UNCHANGED claim
        BY <1>0, <3>1 DEF OthersTyped
      <3>2. CASE claim' = [claim EXCEPT ![l] = [launcher[l].read EXCEPT !.session = launcher[l].session]]
        <4>1. [launcher[l].read EXCEPT !.session = launcher[l].session] \in Droid!DroidLaunchClaim
          BY <1>0, ClaimUpdates DEF LT, LauncherState
        <4>2. QED
          BY <1>0, <3>2, <4>1 DEF OthersTyped
      <3>3. QED
        BY <1>5, <3>1, <3>2 DEF Droid!setSessionId
    <2>3. record' \in [Launchers -> [peer : DroidPeers \cup {0}, orphan : BOOLEAN]]
      <3>1. CASE UNCHANGED record
        BY <1>0, <3>1 DEF OthersTyped
      <3>2. CASE record' = [record EXCEPT ![launcher[l].session] = [peer |-> launcher[l].read.peer, orphan |-> FALSE]]
        <4>1. launcher[l].read.peer \in DroidPeers \cup {0}
          BY <1>0, ClaimUpdates DEF LT, LauncherState
        <4>2. QED
          BY <1>0, <3>2, <4>1 DEF OthersTyped
      <3>3. QED
        BY <1>5, <3>1, <3>2 DEF Droid!setSessionId
    <2>4. OthersTyped'
      BY <1>0, <1>5, <2>2, <2>3 DEF Droid!setSessionId, OthersTyped
    <2>5. WritesLocked'
      BY <1>0, <1>5 DEF Droid!setSessionId, WritesLocked, LT, LauncherState, OthersTyped
    <2>6. CT' /\ ChildWritesLocked'
      <3>1. \/ UNCHANGED ulock
            \/ ulock' = [ulock EXCEPT ![l] = "launcher"] /\ ulock[l] = "free"
            \/ ulock' = [ulock EXCEPT ![l] = "free"] /\ ulock[l] = "launcher"
        BY <1>0, <1>5 DEF Droid!setSessionId, Droid!MayUpdate, WritesLocked
      <3>2. UNCHANGED mcp
        BY <1>5 DEF Droid!setSessionId
      <3>3. QED
        BY <1>0, <3>1, <3>2 DEF ChildWritesLocked, CT, OthersTyped
    <2>7. QED
      BY <2>1, <2>4, <2>5, <2>6
  <1>6. ASSUME NEW l \in Launchers, Droid!LauncherStops(l) PROVE Typed'
    <2>1. LT'
      <3>1. UNCHANGED launcher \/ \E x \in {"ending", "release", "gone"} : launcher' = [launcher EXCEPT ![l].pc = x]
        BY <1>6 DEF Droid!LauncherStops, Droid!Stops
      <3>2. QED
        BY <1>0, <3>1, LauncherMoves DEF LT, DroidPcs
    <2>2. OthersTyped'
      BY <1>0, <1>6, NoClaimTyped, SMTT(20) DEF Droid!LauncherStops, Droid!Stops, OthersTyped
    <2>3. CT' /\ WritesLocked' /\ ChildWritesLocked'
      BY <1>0, <1>6 DEF Droid!LauncherStops, Droid!Stops, WritesLocked, ChildWritesLocked, CT, LT, LauncherState
    <2>4. QED
      BY <2>1, <2>2, <2>3
  <1>7. ASSUME NEW l \in Launchers, Droid!LauncherDies(l) PROVE Typed'
    <2>1. LT'
      BY <1>0, <1>7, LauncherMoves DEF Droid!LauncherDies, LT, DroidPcs
    <2>2. OthersTyped'
      BY <1>0, <1>7, DroidAssumption DEF Droid!LauncherDies, Droid!Fault, OthersTyped
    <2>3. CT' /\ WritesLocked' /\ ChildWritesLocked'
      BY <1>0, <1>7 DEF Droid!LauncherDies, WritesLocked, ChildWritesLocked, CT, LT, LauncherState
    <2>4. QED
      BY <2>1, <2>2, <2>3
  <1>8. ASSUME NEW l \in Launchers, Droid!Register(l) PROVE Typed'
    <2>1. CT'
      <3>1. mcp' = [mcp EXCEPT ![l] = [mcp[l] EXCEPT !.peer = issued + 1, !.pc = "bind"]] /\ issued + 1 \in DroidPeers
        BY <1>8 DEF Droid!Register
      <3>2. [mcp[l] EXCEPT !.peer = issued + 1, !.pc = "bind"] \in ChildState
        BY <1>0, <3>1, ChildUpdates, ClaimUpdates DEF CT
      <3>3. QED
        BY <1>0, <3>1, <3>2 DEF CT
    <2>2. OthersTyped'
      BY <1>0, <1>8 DEF Droid!Register, OthersTyped
    <2>3. LT' /\ WritesLocked' /\ ChildWritesLocked'
      BY <1>0, <1>8 DEF Droid!Register, WritesLocked, ChildWritesLocked, LT, CT, ChildState
    <2>4. QED
      BY <2>1, <2>2, <2>3
  <1>9. ASSUME NEW l \in Launchers, Droid!bindClaim(l) PROVE Typed'
    <2>1. /\ mcp[l] \in ChildState /\ claim[l] \in Droid!DroidLaunchClaim /\ Droid!NoClaim \in Droid!DroidLaunchClaim
          /\ mcp[l].read \in Droid!DroidLaunchClaim /\ mcp[l].peer \in DroidPeers \cup {0} /\ mcp[l].pid \in 0 .. 2
      BY <1>0, ClaimUpdates DEF CT, ChildState, OthersTyped
    <2>2. CT'
      <3>1. \/ mcp' = [mcp EXCEPT ![l] = [mcp[l] EXCEPT !.pc = "write", !.read = claim[l]]]
            \/ mcp' = [mcp EXCEPT ![l] = [mcp[l] EXCEPT !.pc = "idle"]]
            \/ mcp' = [mcp EXCEPT ![l] = [mcp[l] EXCEPT !.pc = "save"]]
            \/ mcp' = [mcp EXCEPT ![l] = [mcp[l] EXCEPT !.pc = "idle", !.read = Droid!NoClaim]]
        BY <1>9 DEF Droid!bindClaim
      <3>2. /\ [mcp[l] EXCEPT !.pc = "write", !.read = claim[l]] \in ChildState
            /\ [mcp[l] EXCEPT !.pc = "idle"] \in ChildState
            /\ [mcp[l] EXCEPT !.pc = "save"] \in ChildState
            /\ [mcp[l] EXCEPT !.pc = "idle", !.read = Droid!NoClaim] \in ChildState
        BY <2>1, ChildUpdates
      <3>3. QED
        BY <1>0, <3>1, <3>2 DEF CT
    <2>3. claim' \in [Launchers -> Droid!DroidLaunchClaim]
      <3>1. CASE UNCHANGED claim
        BY <1>0, <3>1 DEF OthersTyped
      <3>2. CASE claim' = [claim EXCEPT ![l] = [mcp[l].read EXCEPT !.peer = mcp[l].peer, !.mcp = mcp[l].pid]]
        <4>1. [mcp[l].read EXCEPT !.peer = mcp[l].peer, !.mcp = mcp[l].pid] \in Droid!DroidLaunchClaim
          BY <2>1, ClaimUpdates
        <4>2. QED
          BY <1>0, <3>2, <4>1 DEF OthersTyped
      <3>3. QED
        BY <1>9, <3>1, <3>2 DEF Droid!bindClaim
    <2>4. record' \in [Launchers -> [peer : DroidPeers \cup {0}, orphan : BOOLEAN]]
      <3>1. CASE UNCHANGED record
        BY <1>0, <3>1 DEF OthersTyped
      <3>2. CASE record' = [record EXCEPT ![mcp[l].read.session] =
                              [peer |-> mcp[l].peer, orphan |-> ~Droid!Up(l) \/ engine[l] = 0]]
        <4>1. PICK b \in BOOLEAN : b = (~Droid!Up(l) \/ engine[l] = 0)
          OBVIOUS
        <4>2. record' = [record EXCEPT ![mcp[l].read.session] = [peer |-> mcp[l].peer, orphan |-> b]]
          BY <3>2, <4>1
        <4>3. QED
          BY <1>0, <2>1, <4>2 DEF OthersTyped
      <3>3. QED
        BY <1>9, <3>1, <3>2 DEF Droid!bindClaim
    <2>5. OthersTyped'
      BY <1>0, <1>9, <2>1, <2>3, <2>4 DEF Droid!bindClaim, OthersTyped
    <2>6. WritesLocked'
      <3>1. \/ UNCHANGED ulock
            \/ ulock' = [ulock EXCEPT ![l] = "mcp"] /\ ulock[l] = "free"
            \/ ulock' = [ulock EXCEPT ![l] = "free"] /\ mcp[l].pc = "save"
        BY <1>9 DEF Droid!bindClaim, Droid!MayUpdate
      <3>2. QED
        BY <1>0, <1>9, <3>1 DEF Droid!bindClaim, WritesLocked, ChildWritesLocked, OthersTyped
    <2>7. LT'
      BY <1>0, <1>9 DEF Droid!bindClaim, LT
    <2>8. ChildWritesLocked'
      BY <1>0, <1>9 DEF Droid!bindClaim, Droid!MayUpdate, ChildWritesLocked, CT, ChildState, OthersTyped
    <2>9. QED
      BY <2>2, <2>5, <2>6, <2>7, <2>8
  <1>10. ASSUME NEW l \in Launchers, Droid!McpExits(l) \/ Droid!McpReplaced(l) PROVE Typed'
    <2>1. CT'
      <3>1. \/ mcp' = [mcp EXCEPT ![l] = [mcp[l] EXCEPT !.up = FALSE, !.pc = "idle", !.read = Droid!NoClaim]]
            \/ mcp' = [mcp EXCEPT ![l] = [mcp[l] EXCEPT !.up = TRUE, !.pid = 2, !.peer = 0]]
        BY <1>10 DEF Droid!McpExits, Droid!McpReplaced
      <3>2. /\ [mcp[l] EXCEPT !.up = FALSE, !.pc = "idle", !.read = Droid!NoClaim] \in ChildState
            /\ [mcp[l] EXCEPT !.up = TRUE, !.pid = 2, !.peer = 0] \in ChildState
        BY <1>0, ChildUpdates, NoClaimTyped DEF CT
      <3>3. QED
        BY <1>0, <3>1, <3>2 DEF CT
    <2>2. OthersTyped'
      BY <1>0, <1>10, DroidAssumption DEF Droid!McpExits, Droid!McpReplaced, Droid!Fault, OthersTyped
    <2>3. LT' /\ WritesLocked' /\ ChildWritesLocked'
      BY <1>0, <1>10 DEF Droid!McpExits, Droid!McpReplaced, WritesLocked, ChildWritesLocked, LT, CT, ChildState
    <2>4. QED
      BY <2>1, <2>2, <2>3
  <1>11. ASSUME UNCHANGED droidVars PROVE Typed'
    BY <1>0, <1>11 DEF droidVars, OthersTyped, WritesLocked, ChildWritesLocked, LT, CT
  <1>12. QED
    BY <1>1, <1>2, <1>3, <1>4, <1>5, <1>6, <1>7, <1>8, <1>9, <1>10, <1>11 DEF Droid!Next

-----------------------------------------------------------------------------
(* What a step changes *)

DroidStep(k) ==
  \/ \E r \in Launchers \cup {0} : Droid!createClaim(k, r)
  \/ Droid!tryAcquire(k) \/ Droid!ScanClaims(k) \/ Droid!LoadSession(k) \/ Droid!waitForBinding(k) \/ Droid!setSessionId(k)
  \/ Droid!LauncherStops(k) \/ Droid!LauncherDies(k)
  \/ Droid!Register(k) \/ Droid!bindClaim(k) \/ Droid!McpExits(k) \/ Droid!McpReplaced(k)

\* A step of launcher k or of its child leaves the files and processes of others alone.
LEMMA OthersStay ==
  ASSUME Droid!TypeOK, NEW k \in Launchers, DroidStep(k), NEW j \in Launchers, j # k
  PROVE  /\ launcher'[j] = launcher[j] /\ claim'[j] = claim[j] /\ binding'[j] = binding[j]
         /\ ulock'[j] = ulock[j] /\ engine'[j] = engine[j] /\ mcp'[j] = mcp[j]
  <1> DEFINE Same == /\ launcher'[j] = launcher[j] /\ claim'[j] = claim[j] /\ binding'[j] = binding[j]
                     /\ ulock'[j] = ulock[j] /\ engine'[j] = engine[j] /\ mcp'[j] = mcp[j]
  <1>0. /\ DOMAIN launcher = Launchers /\ DOMAIN claim = Launchers /\ DOMAIN binding = Launchers
        /\ DOMAIN ulock = Launchers /\ DOMAIN engine = Launchers /\ DOMAIN mcp = Launchers
        /\ launcher \in [Launchers -> LauncherState] /\ mcp \in [Launchers -> ChildState]
    BY TypeParts DEF OthersTyped
  <1>1. ASSUME NEW r \in Launchers \cup {0}, Droid!createClaim(k, r) PROVE Same
    BY <1>0, <1>1 DEF Droid!createClaim, Droid!Goto
  <1>2. ASSUME Droid!tryAcquire(k) PROVE Same
    BY <1>0, <1>2 DEF Droid!tryAcquire, Droid!Goto
  <1>3. ASSUME Droid!ScanClaims(k) PROVE Same
    BY <1>0, <1>3 DEF Droid!ScanClaims, Droid!Goto
  <1>4. ASSUME Droid!LoadSession(k) PROVE Same
    BY <1>0, <1>4 DEF Droid!LoadSession, Droid!Goto
  <1>5. ASSUME Droid!waitForBinding(k) PROVE Same
    BY <1>0, <1>5 DEF Droid!waitForBinding, Droid!Goto
  <1>6. ASSUME Droid!setSessionId(k) PROVE Same
    BY <1>0, <1>6 DEF Droid!setSessionId, Droid!Goto
  <1>7. ASSUME Droid!LauncherStops(k) PROVE Same
    BY <1>0, <1>7 DEF Droid!LauncherStops, Droid!Stops, Droid!Goto
  <1>8. ASSUME Droid!LauncherDies(k) PROVE Same
    BY <1>0, <1>8 DEF Droid!LauncherDies, Droid!Goto
  <1>9. ASSUME Droid!Register(k) PROVE Same
    BY <1>0, <1>9 DEF Droid!Register, Droid!Goto
  <1>10. ASSUME Droid!bindClaim(k) PROVE Same
    BY <1>0, <1>10 DEF Droid!bindClaim, Droid!Goto
  <1>11. ASSUME Droid!McpExits(k) PROVE Same
    BY <1>0, <1>11 DEF Droid!McpExits, Droid!Goto
  <1>12. ASSUME Droid!McpReplaced(k) PROVE Same
    BY <1>0, <1>12 DEF Droid!McpReplaced, Droid!Goto
  <1>13. QED
    BY <1>0, <1>1, <1>2, <1>3, <1>4, <1>5, <1>6, <1>7, <1>8, <1>9, <1>10, <1>11, <1>12 DEF DroidStep

Copied(k) ==
  /\ \/ claim'[k].session \in {0, claim[k].session}
     \/ claim'[k].session = SessionOf(k) /\ Pc(k) = "write"
     \/ claim'[k].session = mcp[k].read.session /\ mcp[k].pc = "write"
  /\ launcher'[k].read.session \in {0, claim[k].session, launcher[k].read.session}
  /\ mcp'[k].read.session \in {0, claim[k].session, mcp[k].read.session}
  /\ \/ SessionOf(k)' = SessionOf(k)
     \/ Pc(k) = "none" /\ (SessionOf(k)' = 0 \/ record[SessionOf(k)'].peer # 0)
     \/ Pc(k) = "engine" /\ SessionOf(k) = 0 /\ SessionOf(k)' = k
  /\ \/ UNCHANGED record
     \/ \E r : record' = [record EXCEPT ![SessionOf(k)] = r] /\ Pc(k) = "save"
     \/ \E r : record' = [record EXCEPT ![mcp[k].read.session] = r] /\ mcp[k].pc = "save"

\* Where the session ids that a step of k writes come from.
LEMMA NamesCopied ==
  ASSUME Droid!TypeOK, NEW k \in Launchers, DroidStep(k)
  PROVE  Copied(k)
  <1>0. /\ launcher \in [Launchers -> LauncherState] /\ mcp \in [Launchers -> ChildState]
        /\ launcher[k] \in LauncherState /\ mcp[k] \in ChildState
        /\ claim \in [Launchers -> Droid!DroidLaunchClaim]
        /\ claim[k] \in Droid!DroidLaunchClaim /\ launcher[k].read \in Droid!DroidLaunchClaim /\ mcp[k].read \in Droid!DroidLaunchClaim
    BY TypeParts DEF OthersTyped, LauncherState, ChildState
  <1> USE DEF LauncherState, ChildState, Droid!DroidLaunchClaim
  <1>1. ASSUME NEW r \in Launchers \cup {0}, Droid!createClaim(k, r) PROVE Copied(k)
    BY <1>1, <1>0 DEF Droid!createClaim, Copied, Pc, SessionOf, Droid!NoClaim, Droid!Goto, Droid!At
  <1>2. ASSUME Droid!tryAcquire(k) PROVE Copied(k)
    BY <1>2, <1>0 DEF Droid!tryAcquire, Copied, Pc, SessionOf, Droid!NoClaim, Droid!Goto, Droid!At
  <1>3. ASSUME Droid!ScanClaims(k) PROVE Copied(k)
    BY <1>3, <1>0 DEF Droid!ScanClaims, Copied, Pc, SessionOf, Droid!NoClaim, Droid!Goto, Droid!At
  <1>4. ASSUME Droid!LoadSession(k) PROVE Copied(k)
    BY <1>4, <1>0 DEF Droid!LoadSession, Copied, Pc, SessionOf, Droid!NoClaim, Droid!Goto, Droid!At
  <1>5. ASSUME Droid!waitForBinding(k) PROVE Copied(k)
    BY <1>5, <1>0 DEF Droid!waitForBinding, Copied, Pc, SessionOf, Droid!NoClaim, Droid!Goto, Droid!At
  <1>6. ASSUME Droid!setSessionId(k) PROVE Copied(k)
    BY <1>6, <1>0 DEF Droid!setSessionId, Copied, Pc, SessionOf, Droid!NoClaim, Droid!Goto, Droid!At
  <1>7. ASSUME Droid!LauncherStops(k) PROVE Copied(k)
    BY <1>7, <1>0 DEF Droid!LauncherStops, Droid!Stops, Copied, Pc, SessionOf, Droid!NoClaim, Droid!Goto, Droid!At
  <1>8. ASSUME Droid!LauncherDies(k) PROVE Copied(k)
    BY <1>8, <1>0 DEF Droid!LauncherDies, Copied, Pc, SessionOf, Droid!NoClaim, Droid!Goto, Droid!At
  <1>9. ASSUME Droid!Register(k) PROVE Copied(k)
    BY <1>9, <1>0 DEF Droid!Register, Copied, Pc, SessionOf, Droid!NoClaim, Droid!Goto, Droid!At
  <1>10. ASSUME Droid!bindClaim(k) PROVE Copied(k)
    <2>1. record' # record => \E r : record' = [record EXCEPT ![mcp[k].read.session] = r] /\ mcp[k].pc = "save"
      BY <1>10, Zenon DEF Droid!bindClaim
    <2>2. \/ claim'[k].session \in {0, claim[k].session}
          \/ claim'[k].session = mcp[k].read.session /\ mcp[k].pc = "write"
      <3>1. \/ UNCHANGED claim
            \/ /\ claim' = [claim EXCEPT ![k] = [mcp[k].read EXCEPT !.peer = mcp[k].peer, !.mcp = mcp[k].pid]]
               /\ mcp[k].pc = "write"
        BY <1>10, Zenon DEF Droid!bindClaim
      <3>2. [mcp[k].read EXCEPT !.peer = mcp[k].peer, !.mcp = mcp[k].pid].session = mcp[k].read.session
        BY <1>0
      <3>3. QED
        BY <3>1, <3>2, <1>0
    <2>3. mcp'[k].read.session \in {0, claim[k].session, mcp[k].read.session}
      BY <1>10, <1>0 DEF Droid!bindClaim, Droid!NoClaim
    <2>4. UNCHANGED launcher
      BY <1>10 DEF Droid!bindClaim
    <2>5. QED
      BY <2>1, <2>2, <2>3, <2>4 DEF Copied, SessionOf
  <1>11. ASSUME Droid!McpExits(k) PROVE Copied(k)
    BY <1>11, <1>0 DEF Droid!McpExits, Copied, Pc, SessionOf, Droid!NoClaim, Droid!Goto, Droid!At
  <1>12. ASSUME Droid!McpReplaced(k) PROVE Copied(k)
    BY <1>12, <1>0 DEF Droid!McpReplaced, Copied, Pc, SessionOf, Droid!NoClaim, Droid!Goto, Droid!At
  <1>13. QED
    BY <1>1, <1>2, <1>3, <1>4, <1>5, <1>6, <1>7, <1>8, <1>9, <1>10, <1>11, <1>12 DEF DroidStep
-----------------------------------------------------------------------------
(* Who owns a session *)

LEMMA DroidSteps == [Droid!Next]_droidVars => UNCHANGED droidVars \/ \E k \in Launchers : DroidStep(k)
  BY DEF Droid!Next, DroidStep

\* A session that nothing names stays so until its launcher writes it to the claim.
LEMMA UnnamedStays ==
  ASSUME Droid!TypeOK, NEW k \in Launchers, DroidStep(k), Copied(k),
         NEW s \in Launchers, Unnamed(s), Pc(s) \notin {"write", "save"}
  PROVE  Unnamed(s)'
  <1>1. /\ claim[k].session # s /\ launcher[k].read.session # s /\ mcp[k].read.session # s /\ s # 0
        /\ SessionOf(k) = s => k = s
    BY DroidAssumption DEF Unnamed
  <1>2. record'[s].peer = 0
    <2>1. record[s].peer = 0 /\ (Pc(k) = "save" => SessionOf(k) # s)
      BY <1>1 DEF Unnamed
    <2>2. s \in DOMAIN record
      BY TypeParts DEF OthersTyped
    <2>3. QED
      BY <1>1, <2>1, <2>2 DEF Copied
  <1>3. claim'[k].session # s
    BY <1>1 DEF Copied
  <1>4. launcher'[k].read.session # s /\ mcp'[k].read.session # s
    BY <1>1 DEF Copied
  <1>5. SessionOf(k)' = s => k = s
    BY <1>1 DEF Copied, Unnamed
  <1>6. ASSUME NEW j \in Launchers
        PROVE  /\ claim'[j].session # s /\ launcher'[j].read.session # s /\ mcp'[j].read.session # s
               /\ launcher'[j].session = s => j = s
    BY <1>3, <1>4, <1>5, OthersStay DEF Unnamed, SessionOf
  <1>7. QED
    BY <1>2, <1>6 DEF Unnamed, SessionOf

LEMMA StepClaimsOwn ==
  ASSUME Droid!TypeOK, EngineByStep, ClaimsOwn, NEW k \in Launchers, DroidStep(k), Copied(k)
  PROVE  ClaimsOwn'
  <1>1. ASSUME NEW j \in Launchers
        PROVE  /\ claim'[j].session \in {0, launcher'[j].session}
               /\ launcher'[j].read.session \in {0, launcher'[j].session}
               /\ mcp'[j].read.session \in {0, launcher'[j].session}
    <2>1. CASE j = k
      <3>1. SessionOf(k)' = SessionOf(k) \/ SessionOf(k) = 0
        BY DEF Copied, EngineByStep, EngineFits
      <3>2. /\ claim'[k].session \in {0, SessionOf(k)} /\ launcher'[k].read.session \in {0, SessionOf(k)}
            /\ mcp'[k].read.session \in {0, SessionOf(k)}
        BY DEF Copied, ClaimsOwn
      <3>3. QED
        BY <2>1, <3>1, <3>2 DEF SessionOf
    <2>2. CASE j # k
      BY <2>2, OthersStay DEF ClaimsOwn, SessionOf
    <2>3. QED
      BY <2>1, <2>2
  <1>2. QED
    BY <1>1 DEF ClaimsOwn, SessionOf

LEMMA StepEngineFits ==
  ASSUME Droid!TypeOK, OwnsSession, NEW k \in Launchers, EngineFits(k), DroidStep(k)
  PROVE  EngineFits(k)'
  <1>0. /\ launcher \in [Launchers -> LauncherState] /\ mcp \in [Launchers -> ChildState]
        /\ launcher[k] \in LauncherState /\ mcp[k] \in ChildState
        /\ claim \in [Launchers -> Droid!DroidLaunchClaim] /\ binding \in [Launchers -> 0 .. 2]
        /\ engine \in [Launchers -> Launchers \cup {0}]
        /\ claim[k] \in Droid!DroidLaunchClaim
        /\ engine[k] \in Launchers \cup {0} /\ (MustOwn(k) => SessionOf(k) # 0)
    BY TypeParts DEF OthersTyped, OwnsSession
  <1> USE DEF LauncherState, ChildState, Droid!DroidLaunchClaim
  <1>1. ASSUME NEW r \in Launchers \cup {0}, Droid!createClaim(k, r) PROVE EngineFits(k)'
    BY <1>1, <1>0, DroidAssumption DEF Droid!createClaim, EngineFits, MustOwn, BeforeEngine, Pc, SessionOf, Droid!NoClaim, Droid!Goto, Droid!At
  <1>2. ASSUME Droid!tryAcquire(k) PROVE EngineFits(k)'
    BY <1>2, <1>0, DroidAssumption DEF Droid!tryAcquire, EngineFits, MustOwn, BeforeEngine, Pc, SessionOf, Droid!NoClaim, Droid!Goto, Droid!At
  <1>3. ASSUME Droid!ScanClaims(k) PROVE EngineFits(k)'
    BY <1>3, <1>0, DroidAssumption DEF Droid!ScanClaims, EngineFits, MustOwn, BeforeEngine, Pc, SessionOf, Droid!NoClaim, Droid!Goto, Droid!At
  <1>4. ASSUME Droid!LoadSession(k) PROVE EngineFits(k)'
    BY <1>4, <1>0, DroidAssumption DEF Droid!LoadSession, EngineFits, MustOwn, BeforeEngine, Pc, SessionOf, Droid!NoClaim, Droid!Goto, Droid!At
  <1>5. ASSUME Droid!waitForBinding(k) PROVE EngineFits(k)'
    BY <1>5, <1>0, DroidAssumption DEF Droid!waitForBinding, EngineFits, MustOwn, BeforeEngine, Pc, SessionOf, Droid!NoClaim, Droid!Goto, Droid!At
  <1>6. ASSUME Droid!setSessionId(k) PROVE EngineFits(k)'
    BY <1>6, <1>0, DroidAssumption DEF Droid!setSessionId, EngineFits, MustOwn, BeforeEngine, Pc, SessionOf, Droid!NoClaim, Droid!Goto, Droid!At
  <1>7. ASSUME Droid!LauncherStops(k) PROVE EngineFits(k)'
    BY <1>7, <1>0, DroidAssumption DEF Droid!LauncherStops, Droid!Stops, EngineFits, MustOwn, BeforeEngine, Pc, SessionOf, Droid!NoClaim, Droid!Goto, Droid!At
  <1>8. ASSUME Droid!LauncherDies(k) PROVE EngineFits(k)'
    BY <1>8, <1>0, DroidAssumption DEF Droid!LauncherDies, EngineFits, MustOwn, BeforeEngine, Pc, SessionOf, Droid!NoClaim, Droid!Goto, Droid!At
  <1>9. ASSUME Droid!Register(k) PROVE EngineFits(k)'
    BY <1>9, <1>0, DroidAssumption DEF Droid!Register, EngineFits, MustOwn, BeforeEngine, Pc, SessionOf, Droid!NoClaim, Droid!Goto, Droid!At
  <1>10. ASSUME Droid!bindClaim(k) PROVE EngineFits(k)'
    BY <1>10, <1>0, DroidAssumption DEF Droid!bindClaim, EngineFits, MustOwn, BeforeEngine, Pc, SessionOf, Droid!NoClaim, Droid!Goto, Droid!At
  <1>11. ASSUME Droid!McpExits(k) PROVE EngineFits(k)'
    BY <1>11, <1>0, DroidAssumption DEF Droid!McpExits, EngineFits, MustOwn, BeforeEngine, Pc, SessionOf, Droid!NoClaim, Droid!Goto, Droid!At
  <1>12. ASSUME Droid!McpReplaced(k) PROVE EngineFits(k)'
    BY <1>12, <1>0, DroidAssumption DEF Droid!McpReplaced, EngineFits, MustOwn, BeforeEngine, Pc, SessionOf, Droid!NoClaim, Droid!Goto, Droid!At
  <1>13. QED
    BY <1>1, <1>2, <1>3, <1>4, <1>5, <1>6, <1>7, <1>8, <1>9, <1>10, <1>11, <1>12 DEF DroidStep
\* Who takes the lock of an owner: nobody while it is up, except itself.
LEMMA OwnerChanges ==
  ASSUME Droid!TypeOK, OwnsSession, EngineByStep, NEW k \in Launchers, DroidStep(k), NEW s \in Launchers
  PROVE  owner'[s] = owner[s] \/ owner[s] = k \/ owner[s] = 0 \/ ~Droid!Up(owner[s])
  <1>0. /\ launcher \in [Launchers -> LauncherState] /\ launcher[k] \in LauncherState
        /\ engine \in [Launchers -> Launchers \cup {0}] /\ owner \in [Launchers -> Launchers \cup {0}]
        /\ (MustOwn(k) => SessionOf(k) # 0 /\ owner[SessionOf(k)] = k) /\ SessionOf(k) \in Launchers \cup {0}
        /\ EngineFits(k)
    BY TypeParts DEF OthersTyped, OwnsSession, LauncherState, SessionOf, EngineByStep
  <1> USE DEF LauncherState
  <1>1. ASSUME NEW r \in Launchers \cup {0}, Droid!createClaim(k, r) PROVE owner'[s] = owner[s] \/ owner[s] = k \/ owner[s] = 0 \/ ~Droid!Up(owner[s])
    BY <1>1, <1>0 DEF Droid!createClaim, Droid!MayOwn, MustOwn, Pc, SessionOf, Droid!At
  <1>2. ASSUME Droid!tryAcquire(k) PROVE owner'[s] = owner[s] \/ owner[s] = k \/ owner[s] = 0 \/ ~Droid!Up(owner[s])
    BY <1>2, <1>0 DEF Droid!tryAcquire, Droid!MayOwn, MustOwn, Pc, SessionOf, Droid!At
  <1>3. ASSUME Droid!ScanClaims(k) PROVE owner'[s] = owner[s] \/ owner[s] = k \/ owner[s] = 0 \/ ~Droid!Up(owner[s])
    BY <1>3, <1>0 DEF Droid!ScanClaims, Droid!MayOwn, MustOwn, Pc, SessionOf, Droid!At
  <1>4. ASSUME Droid!LoadSession(k) PROVE owner'[s] = owner[s] \/ owner[s] = k \/ owner[s] = 0 \/ ~Droid!Up(owner[s])
    BY <1>4, <1>0 DEF Droid!LoadSession, Droid!MayOwn, MustOwn, Pc, SessionOf, Droid!At
  <1>5. ASSUME Droid!waitForBinding(k) PROVE owner'[s] = owner[s] \/ owner[s] = k \/ owner[s] = 0 \/ ~Droid!Up(owner[s])
    BY <1>5, <1>0 DEF Droid!waitForBinding, Droid!MayOwn, MustOwn, Pc, SessionOf, Droid!At
  <1>6. ASSUME Droid!setSessionId(k) PROVE owner'[s] = owner[s] \/ owner[s] = k \/ owner[s] = 0 \/ ~Droid!Up(owner[s])
    BY <1>6, <1>0 DEF Droid!setSessionId, Droid!MayOwn, MustOwn, Pc, SessionOf, Droid!At
  <1>7. ASSUME Droid!LauncherStops(k) PROVE owner'[s] = owner[s] \/ owner[s] = k \/ owner[s] = 0 \/ ~Droid!Up(owner[s])
    BY <1>7, <1>0 DEF Droid!LauncherStops, Droid!Stops, Droid!MayOwn, MustOwn, Pc, SessionOf, Droid!At
  <1>8. ASSUME Droid!LauncherDies(k) PROVE owner'[s] = owner[s] \/ owner[s] = k \/ owner[s] = 0 \/ ~Droid!Up(owner[s])
    BY <1>8, <1>0 DEF Droid!LauncherDies, Droid!MayOwn, MustOwn, Pc, SessionOf, Droid!At
  <1>9. ASSUME Droid!Register(k) PROVE owner'[s] = owner[s] \/ owner[s] = k \/ owner[s] = 0 \/ ~Droid!Up(owner[s])
    BY <1>9, <1>0 DEF Droid!Register, Droid!MayOwn, MustOwn, Pc, SessionOf, Droid!At
  <1>10. ASSUME Droid!bindClaim(k) PROVE owner'[s] = owner[s] \/ owner[s] = k \/ owner[s] = 0 \/ ~Droid!Up(owner[s])
    BY <1>10, <1>0 DEF Droid!bindClaim, Droid!MayOwn, MustOwn, Pc, SessionOf, Droid!At
  <1>11. ASSUME Droid!McpExits(k) PROVE owner'[s] = owner[s] \/ owner[s] = k \/ owner[s] = 0 \/ ~Droid!Up(owner[s])
    BY <1>11, <1>0 DEF Droid!McpExits, Droid!MayOwn, MustOwn, Pc, SessionOf, Droid!At
  <1>12. ASSUME Droid!McpReplaced(k) PROVE owner'[s] = owner[s] \/ owner[s] = k \/ owner[s] = 0 \/ ~Droid!Up(owner[s])
    BY <1>12, <1>0 DEF Droid!McpReplaced, Droid!MayOwn, MustOwn, Pc, SessionOf, Droid!At
  <1>13. QED
    BY <1>1, <1>2, <1>3, <1>4, <1>5, <1>6, <1>7, <1>8, <1>9, <1>10, <1>11, <1>12 DEF DroidStep

LEMMA StepOwns ==
  ASSUME Droid!TypeOK, OwnsSession, EngineByStep, NEW k \in Launchers, DroidStep(k)
  PROVE  (MustOwn(k) => SessionOf(k) # 0 /\ owner[SessionOf(k)] = k)'
  <1>0. /\ launcher \in [Launchers -> LauncherState] /\ launcher[k] \in LauncherState
        /\ engine \in [Launchers -> Launchers \cup {0}] /\ owner \in [Launchers -> Launchers \cup {0}]
        /\ (MustOwn(k) => SessionOf(k) # 0 /\ owner[SessionOf(k)] = k) /\ SessionOf(k) \in Launchers \cup {0}
        /\ EngineFits(k)
    BY TypeParts DEF OthersTyped, OwnsSession, LauncherState, SessionOf, EngineByStep
  <1> USE DEF LauncherState
  <1>1. ASSUME NEW r \in Launchers \cup {0}, Droid!createClaim(k, r) PROVE (MustOwn(k) => SessionOf(k) # 0 /\ owner[SessionOf(k)] = k)'
    BY <1>1, <1>0 DEF Droid!createClaim, Droid!MayOwn, MustOwn, EngineFits, Pc, SessionOf, Droid!At, Droid!Goto
  <1>2. ASSUME Droid!tryAcquire(k) PROVE (MustOwn(k) => SessionOf(k) # 0 /\ owner[SessionOf(k)] = k)'
    BY <1>2, <1>0 DEF Droid!tryAcquire, Droid!MayOwn, MustOwn, EngineFits, Pc, SessionOf, Droid!At, Droid!Goto
  <1>3. ASSUME Droid!ScanClaims(k) PROVE (MustOwn(k) => SessionOf(k) # 0 /\ owner[SessionOf(k)] = k)'
    BY <1>3, <1>0 DEF Droid!ScanClaims, Droid!MayOwn, MustOwn, EngineFits, Pc, SessionOf, Droid!At, Droid!Goto
  <1>4. ASSUME Droid!LoadSession(k) PROVE (MustOwn(k) => SessionOf(k) # 0 /\ owner[SessionOf(k)] = k)'
    BY <1>4, <1>0 DEF Droid!LoadSession, Droid!MayOwn, MustOwn, EngineFits, Pc, SessionOf, Droid!At, Droid!Goto
  <1>5. ASSUME Droid!waitForBinding(k) PROVE (MustOwn(k) => SessionOf(k) # 0 /\ owner[SessionOf(k)] = k)'
    BY <1>5, <1>0 DEF Droid!waitForBinding, Droid!MayOwn, MustOwn, EngineFits, Pc, SessionOf, Droid!At, Droid!Goto
  <1>6. ASSUME Droid!setSessionId(k) PROVE (MustOwn(k) => SessionOf(k) # 0 /\ owner[SessionOf(k)] = k)'
    BY <1>6, <1>0 DEF Droid!setSessionId, Droid!MayOwn, MustOwn, EngineFits, Pc, SessionOf, Droid!At, Droid!Goto
  <1>7. ASSUME Droid!LauncherStops(k) PROVE (MustOwn(k) => SessionOf(k) # 0 /\ owner[SessionOf(k)] = k)'
    BY <1>7, <1>0 DEF Droid!LauncherStops, Droid!Stops, Droid!MayOwn, MustOwn, EngineFits, Pc, SessionOf, Droid!At, Droid!Goto
  <1>8. ASSUME Droid!LauncherDies(k) PROVE (MustOwn(k) => SessionOf(k) # 0 /\ owner[SessionOf(k)] = k)'
    BY <1>8, <1>0 DEF Droid!LauncherDies, Droid!MayOwn, MustOwn, EngineFits, Pc, SessionOf, Droid!At, Droid!Goto
  <1>9. ASSUME Droid!Register(k) PROVE (MustOwn(k) => SessionOf(k) # 0 /\ owner[SessionOf(k)] = k)'
    BY <1>9, <1>0 DEF Droid!Register, Droid!MayOwn, MustOwn, EngineFits, Pc, SessionOf, Droid!At, Droid!Goto
  <1>10. ASSUME Droid!bindClaim(k) PROVE (MustOwn(k) => SessionOf(k) # 0 /\ owner[SessionOf(k)] = k)'
    BY <1>10, <1>0 DEF Droid!bindClaim, Droid!MayOwn, MustOwn, EngineFits, Pc, SessionOf, Droid!At, Droid!Goto
  <1>11. ASSUME Droid!McpExits(k) PROVE (MustOwn(k) => SessionOf(k) # 0 /\ owner[SessionOf(k)] = k)'
    BY <1>11, <1>0 DEF Droid!McpExits, Droid!MayOwn, MustOwn, EngineFits, Pc, SessionOf, Droid!At, Droid!Goto
  <1>12. ASSUME Droid!McpReplaced(k) PROVE (MustOwn(k) => SessionOf(k) # 0 /\ owner[SessionOf(k)] = k)'
    BY <1>12, <1>0 DEF Droid!McpReplaced, Droid!MayOwn, MustOwn, EngineFits, Pc, SessionOf, Droid!At, Droid!Goto
  <1>13. QED
    BY <1>1, <1>2, <1>3, <1>4, <1>5, <1>6, <1>7, <1>8, <1>9, <1>10, <1>11, <1>12 DEF DroidStep

\* A launcher is new from the start, or never.
LEMMA StepIsNew ==
  ASSUME Droid!TypeOK, OwnsSession, EngineByStep, NewIsUnnamed, NEW k \in Launchers, DroidStep(k)
  PROVE  (IsNew(k) => SessionOf(k) \in {0, k})' /\ (IsNew(k)' => IsNew(k))
  <1>0. /\ launcher \in [Launchers -> LauncherState] /\ launcher[k] \in LauncherState
        /\ engine \in [Launchers -> Launchers \cup {0}] /\ owner \in [Launchers -> Launchers \cup {0}]
        /\ (MustOwn(k) => SessionOf(k) # 0 /\ owner[SessionOf(k)] = k) /\ SessionOf(k) \in Launchers \cup {0}
        /\ EngineFits(k) /\ (IsNew(k) => SessionOf(k) \in {0, k})
    BY TypeParts DEF NewIsUnnamed, OthersTyped, OwnsSession, LauncherState, SessionOf, EngineByStep
  <1> USE DEF LauncherState
  <1>1. ASSUME NEW r \in Launchers \cup {0}, Droid!createClaim(k, r) PROVE (IsNew(k) => SessionOf(k) \in {0, k})' /\ (IsNew(k)' => IsNew(k))
    BY <1>1, <1>0 DEF Droid!createClaim, IsNew, MustOwn, EngineFits, Pc, SessionOf, Droid!At, Droid!Goto
  <1>2. ASSUME Droid!tryAcquire(k) PROVE (IsNew(k) => SessionOf(k) \in {0, k})' /\ (IsNew(k)' => IsNew(k))
    BY <1>2, <1>0 DEF Droid!tryAcquire, IsNew, MustOwn, EngineFits, Pc, SessionOf, Droid!At, Droid!Goto
  <1>3. ASSUME Droid!ScanClaims(k) PROVE (IsNew(k) => SessionOf(k) \in {0, k})' /\ (IsNew(k)' => IsNew(k))
    BY <1>3, <1>0 DEF Droid!ScanClaims, IsNew, MustOwn, EngineFits, Pc, SessionOf, Droid!At, Droid!Goto
  <1>4. ASSUME Droid!LoadSession(k) PROVE (IsNew(k) => SessionOf(k) \in {0, k})' /\ (IsNew(k)' => IsNew(k))
    BY <1>4, <1>0 DEF Droid!LoadSession, IsNew, MustOwn, EngineFits, Pc, SessionOf, Droid!At, Droid!Goto
  <1>5. ASSUME Droid!waitForBinding(k) PROVE (IsNew(k) => SessionOf(k) \in {0, k})' /\ (IsNew(k)' => IsNew(k))
    BY <1>5, <1>0 DEF Droid!waitForBinding, IsNew, MustOwn, EngineFits, Pc, SessionOf, Droid!At, Droid!Goto
  <1>6. ASSUME Droid!setSessionId(k) PROVE (IsNew(k) => SessionOf(k) \in {0, k})' /\ (IsNew(k)' => IsNew(k))
    BY <1>6, <1>0 DEF Droid!setSessionId, IsNew, MustOwn, EngineFits, Pc, SessionOf, Droid!At, Droid!Goto
  <1>7. ASSUME Droid!LauncherStops(k) PROVE (IsNew(k) => SessionOf(k) \in {0, k})' /\ (IsNew(k)' => IsNew(k))
    BY <1>7, <1>0 DEF Droid!LauncherStops, Droid!Stops, IsNew, MustOwn, EngineFits, Pc, SessionOf, Droid!At, Droid!Goto
  <1>8. ASSUME Droid!LauncherDies(k) PROVE (IsNew(k) => SessionOf(k) \in {0, k})' /\ (IsNew(k)' => IsNew(k))
    BY <1>8, <1>0 DEF Droid!LauncherDies, IsNew, MustOwn, EngineFits, Pc, SessionOf, Droid!At, Droid!Goto
  <1>9. ASSUME Droid!Register(k) PROVE (IsNew(k) => SessionOf(k) \in {0, k})' /\ (IsNew(k)' => IsNew(k))
    BY <1>9, <1>0 DEF Droid!Register, IsNew, MustOwn, EngineFits, Pc, SessionOf, Droid!At, Droid!Goto
  <1>10. ASSUME Droid!bindClaim(k) PROVE (IsNew(k) => SessionOf(k) \in {0, k})' /\ (IsNew(k)' => IsNew(k))
    BY <1>10, <1>0 DEF Droid!bindClaim, IsNew, MustOwn, EngineFits, Pc, SessionOf, Droid!At, Droid!Goto
  <1>11. ASSUME Droid!McpExits(k) PROVE (IsNew(k) => SessionOf(k) \in {0, k})' /\ (IsNew(k)' => IsNew(k))
    BY <1>11, <1>0 DEF Droid!McpExits, IsNew, MustOwn, EngineFits, Pc, SessionOf, Droid!At, Droid!Goto
  <1>12. ASSUME Droid!McpReplaced(k) PROVE (IsNew(k) => SessionOf(k) \in {0, k})' /\ (IsNew(k)' => IsNew(k))
    BY <1>12, <1>0 DEF Droid!McpReplaced, IsNew, MustOwn, EngineFits, Pc, SessionOf, Droid!At, Droid!Goto
  <1>13. QED
    BY <1>1, <1>2, <1>3, <1>4, <1>5, <1>6, <1>7, <1>8, <1>9, <1>10, <1>11, <1>12 DEF DroidStep

LEMMA OwnSessionKept ==
  ASSUME Droid!TypeOK, EngineByStep, NEW k \in Launchers, DroidStep(k), engine[k] # 0
  PROVE  owner'[engine[k]] = k \/ owner'[engine[k]] = owner[engine[k]] \/ Pc(k) = "scan"
  <1>0. /\ launcher[k] \in LauncherState /\ engine[k] \in Launchers \cup {0} /\ owner \in [Launchers -> Launchers \cup {0}]
        /\ EngineFits(k)
    BY TypeParts DEF OthersTyped, EngineByStep
  <1> USE DEF LauncherState
  <1>1. ASSUME NEW r \in Launchers \cup {0}, Droid!createClaim(k, r) PROVE owner'[engine[k]] = k \/ owner'[engine[k]] = owner[engine[k]] \/ Pc(k) = "scan"
    BY <1>1, <1>0 DEF Droid!createClaim, EngineFits, Pc, SessionOf, Droid!At, Droid!Goto
  <1>2. ASSUME Droid!tryAcquire(k) PROVE owner'[engine[k]] = k \/ owner'[engine[k]] = owner[engine[k]] \/ Pc(k) = "scan"
    BY <1>2, <1>0 DEF Droid!tryAcquire, EngineFits, Pc, SessionOf, Droid!At, Droid!Goto
  <1>3. ASSUME Droid!ScanClaims(k) PROVE owner'[engine[k]] = k \/ owner'[engine[k]] = owner[engine[k]] \/ Pc(k) = "scan"
    BY <1>3, <1>0 DEF Droid!ScanClaims, EngineFits, Pc, SessionOf, Droid!At, Droid!Goto
  <1>4. ASSUME Droid!LoadSession(k) PROVE owner'[engine[k]] = k \/ owner'[engine[k]] = owner[engine[k]] \/ Pc(k) = "scan"
    BY <1>4, <1>0 DEF Droid!LoadSession, EngineFits, Pc, SessionOf, Droid!At, Droid!Goto
  <1>5. ASSUME Droid!waitForBinding(k) PROVE owner'[engine[k]] = k \/ owner'[engine[k]] = owner[engine[k]] \/ Pc(k) = "scan"
    BY <1>5, <1>0 DEF Droid!waitForBinding, EngineFits, Pc, SessionOf, Droid!At, Droid!Goto
  <1>6. ASSUME Droid!setSessionId(k) PROVE owner'[engine[k]] = k \/ owner'[engine[k]] = owner[engine[k]] \/ Pc(k) = "scan"
    BY <1>6, <1>0 DEF Droid!setSessionId, EngineFits, Pc, SessionOf, Droid!At, Droid!Goto
  <1>7. ASSUME Droid!LauncherStops(k) PROVE owner'[engine[k]] = k \/ owner'[engine[k]] = owner[engine[k]] \/ Pc(k) = "scan"
    BY <1>7, <1>0 DEF Droid!LauncherStops, Droid!Stops, EngineFits, Pc, SessionOf, Droid!At, Droid!Goto
  <1>8. ASSUME Droid!LauncherDies(k) PROVE owner'[engine[k]] = k \/ owner'[engine[k]] = owner[engine[k]] \/ Pc(k) = "scan"
    BY <1>8, <1>0 DEF Droid!LauncherDies, EngineFits, Pc, SessionOf, Droid!At, Droid!Goto
  <1>9. ASSUME Droid!Register(k) PROVE owner'[engine[k]] = k \/ owner'[engine[k]] = owner[engine[k]] \/ Pc(k) = "scan"
    BY <1>9, <1>0 DEF Droid!Register, EngineFits, Pc, SessionOf, Droid!At, Droid!Goto
  <1>10. ASSUME Droid!bindClaim(k) PROVE owner'[engine[k]] = k \/ owner'[engine[k]] = owner[engine[k]] \/ Pc(k) = "scan"
    BY <1>10, <1>0 DEF Droid!bindClaim, EngineFits, Pc, SessionOf, Droid!At, Droid!Goto
  <1>11. ASSUME Droid!McpExits(k) PROVE owner'[engine[k]] = k \/ owner'[engine[k]] = owner[engine[k]] \/ Pc(k) = "scan"
    BY <1>11, <1>0 DEF Droid!McpExits, EngineFits, Pc, SessionOf, Droid!At, Droid!Goto
  <1>12. ASSUME Droid!McpReplaced(k) PROVE owner'[engine[k]] = k \/ owner'[engine[k]] = owner[engine[k]] \/ Pc(k) = "scan"
    BY <1>12, <1>0 DEF Droid!McpReplaced, EngineFits, Pc, SessionOf, Droid!At, Droid!Goto
  <1>13. QED
    BY <1>1, <1>2, <1>3, <1>4, <1>5, <1>6, <1>7, <1>8, <1>9, <1>10, <1>11, <1>12 DEF DroidStep

LEMMA StepEngineOwned ==
  ASSUME Droid!TypeOK, OwnsSession, EngineByStep, NewIsUnnamed, EngineIsOwned, NEW k \in Launchers, DroidStep(k), Copied(k)
  PROVE  (engine[k] # 0 => owner[engine[k]] = k \/ (engine[k] = k /\ Unnamed(k)))'
  <1>1. Unnamed(k) /\ Pc(k) \notin {"write", "save"} => Unnamed(k)'
    BY UnnamedStays
  <1>a. engine \in [Launchers -> Launchers \cup {0}] /\ EngineFits(k)
    BY TypeParts DEF OthersTyped, EngineByStep
  <1>b. MustOwn(k) => SessionOf(k) # 0 /\ owner[SessionOf(k)] = k
    BY DEF OwnsSession
  <1>c. IsNew(k) => Unnamed(k) /\ SessionOf(k) \in {0, k}
    BY DEF NewIsUnnamed
  <1>d. engine[k] # 0 => owner[engine[k]] = k \/ (engine[k] = k /\ Unnamed(k))
    BY DEF EngineIsOwned
  <1>2. /\ engine \in [Launchers -> Launchers \cup {0}] /\ EngineFits(k)
        /\ (MustOwn(k) => SessionOf(k) # 0 /\ owner[SessionOf(k)] = k)
        /\ (IsNew(k) => Unnamed(k) /\ SessionOf(k) \in {0, k})
        /\ (engine[k] # 0 => owner[engine[k]] = k \/ (engine[k] = k /\ Unnamed(k)))
    BY <1>a, <1>b, <1>c, <1>d
  <1>3. CASE Droid!LoadSession(k)
    <2>1. Pc(k) = "engine" /\ owner' = owner
      BY <1>3 DEF Droid!LoadSession, Droid!At, Pc
    <2>2. engine'[k] = IF SessionOf(k) = 0 THEN k ELSE SessionOf(k)
      BY <1>2, <1>3 DEF Droid!LoadSession, SessionOf
    <2>3. CASE SessionOf(k) = 0
      BY <1>1, <1>2, <2>1, <2>2, <2>3 DEF IsNew
    <2>4. CASE SessionOf(k) # 0
      <3>1. MustOwn(k)
        BY <2>1, <2>4 DEF MustOwn
      <3>2. engine'[k] = SessionOf(k) /\ owner'[SessionOf(k)] = k
        BY <1>b, <2>1, <2>2, <2>4, <3>1
      <3>3. QED
        BY <3>2
    <2>5. QED
      BY <2>3, <2>4
  <1>4. ASSUME engine'[k] = engine[k], engine[k] # 0
        PROVE  owner'[engine[k]] = k \/ (engine[k] = k /\ Unnamed(k)')
    <2>1. engine[k] = SessionOf(k)
      BY <1>2, <1>4 DEF EngineFits
    <2>2. CASE Pc(k) = "scan"
      \* Only a session just created is loaded while its claims are scanned.
      <3>1. Unnamed(k)' /\ engine[k] = k
        BY <1>1, <1>2, <1>4, <2>1, <2>2 DEF IsNew
      <3>2. QED
        BY <3>1
    <2>3. CASE Pc(k) \in {"write", "save"}
      <3>1. MustOwn(k)
        BY <2>3 DEF MustOwn
      <3>2. owner[engine[k]] = k /\ Pc(k) # "scan"
        BY <1>b, <2>1, <2>3, <3>1
      <3>3. QED
        BY <1>4, <3>2, OwnSessionKept
    <2>4. CASE Pc(k) \notin {"scan", "write", "save"}
      BY <1>1, <1>2, <1>4, <2>4, OwnSessionKept
    <2>5. QED
      BY <2>2, <2>3, <2>4
  <1>5. Droid!LoadSession(k) \/ engine'[k] \in {0, engine[k]}
    BY <1>2 DEF DroidStep, Droid!createClaim, Droid!tryAcquire, Droid!ScanClaims, Droid!waitForBinding, Droid!setSessionId,
       Droid!LauncherStops, Droid!Stops, Droid!LauncherDies, Droid!Register, Droid!bindClaim, Droid!McpExits, Droid!McpReplaced
  <1>6. QED
    BY <1>3, <1>4, <1>5

LEMMA StepDInv == DInv /\ [Droid!Next]_droidVars => DInv'
  <1> SUFFICES ASSUME DInv, [Droid!Next]_droidVars PROVE DInv'
    OBVIOUS
  <1>0. Droid!TypeOK /\ ChildWritesLocked /\ NewIsUnnamed /\ OwnsSession /\ EngineIsOwned /\ EngineByStep /\ ClaimsOwn
    BY DEF DInv
  <1>1. Droid!TypeOK' /\ ChildWritesLocked'
    BY <1>0, StepDroidTyped
  <1>2. ASSUME UNCHANGED droidVars PROVE (NewIsUnnamed /\ OwnsSession /\ EngineIsOwned /\ EngineByStep /\ ClaimsOwn)'
    BY <1>0, <1>2 DEF droidVars, NewIsUnnamed, IsNew, Unnamed, OwnsSession, MustOwn, EngineIsOwned, EngineByStep,
       EngineFits, BeforeEngine, ClaimsOwn, Pc, SessionOf
  <1>3. ASSUME NEW k \in Launchers, DroidStep(k) PROVE (NewIsUnnamed /\ OwnsSession /\ EngineIsOwned /\ EngineByStep /\ ClaimsOwn)'
    <2>1. Copied(k)
      BY <1>0, <1>3, NamesCopied
    <2>2. ClaimsOwn'
      BY <1>0, <1>3, <2>1, StepClaimsOwn
    <2>3. ASSUME NEW j \in Launchers, j # k
          PROVE  /\ launcher'[j] = launcher[j] /\ claim'[j] = claim[j] /\ binding'[j] = binding[j]
                 /\ engine'[j] = engine[j] /\ mcp'[j] = mcp[j]
      BY <1>0, <1>3, <2>3, OthersStay
    <2>4. ASSUME NEW j \in Launchers, Unnamed(j), Pc(j) \notin {"write", "save"} PROVE Unnamed(j)'
      BY <1>0, <1>3, <2>1, <2>4, UnnamedStays
    <2>5. EngineByStep'
      <3>1. EngineFits(k)'
        BY <1>0, <1>3, StepEngineFits DEF EngineByStep
      <3>2. ASSUME NEW j \in Launchers, j # k PROVE EngineFits(j)'
        BY <1>0, <2>3, <3>2 DEF EngineByStep, EngineFits, BeforeEngine, Pc, SessionOf
      <3>3. QED
        BY <3>1, <3>2 DEF EngineByStep
    <2>6. ASSUME NEW j \in Launchers, j # k, NEW s \in Launchers, owner[s] = j, Droid!Up(j) PROVE owner'[s] = j
      BY <1>0, <1>3, <2>6, OwnerChanges, DroidAssumption
    <2>7. OwnsSession'
      <3>1. (MustOwn(k) => SessionOf(k) # 0 /\ owner[SessionOf(k)] = k)'
        BY <1>0, <1>3, StepOwns
      <3>2. ASSUME NEW j \in Launchers, j # k PROVE (MustOwn(j) => SessionOf(j) # 0 /\ owner[SessionOf(j)] = j)'
        <4>1. SUFFICES ASSUME MustOwn(j) PROVE SessionOf(j) # 0 /\ owner'[SessionOf(j)] = j
          BY <2>3, <3>2 DEF MustOwn, Pc, SessionOf
        <4>2. SessionOf(j) \in Launchers /\ owner[SessionOf(j)] = j
          BY <1>0, <4>1, TypeParts DEF OwnsSession, LauncherState, SessionOf
        <4>3. Droid!Up(j)
          BY <4>1 DEF MustOwn, Droid!Up, Pc
        <4>4. QED
          BY <2>6, <3>2, <4>2, <4>3, DroidAssumption
      <3>3. QED
        BY <3>1, <3>2 DEF OwnsSession
    <2>8. NewIsUnnamed'
      <3>1. ASSUME NEW j \in Launchers, IsNew(j)' PROVE Unnamed(j)' /\ SessionOf(j)' \in {0, j}
        <4>1. IsNew(j) /\ SessionOf(j)' \in {0, j}
          <5>1. CASE j = k
            BY <1>0, <1>3, <3>1, <5>1, StepIsNew
          <5>2. CASE j # k
            BY <1>0, <2>3, <3>1, <5>2 DEF NewIsUnnamed, IsNew, Pc, SessionOf
          <5>3. QED
            BY <5>1, <5>2
        <4>2. Pc(j) \notin {"write", "save"}
          BY <4>1 DEF IsNew
        <4>3. QED
          BY <1>0, <2>4, <4>1, <4>2 DEF NewIsUnnamed
      <3>2. QED
        BY <3>1 DEF NewIsUnnamed
    <2>9. EngineIsOwned'
      <3>1. (engine[k] # 0 => owner[engine[k]] = k \/ (engine[k] = k /\ Unnamed(k)))'
        BY <1>0, <1>3, <2>1, StepEngineOwned
      <3>2. ASSUME NEW j \in Launchers, j # k, engine[j] # 0
            PROVE  owner'[engine[j]] = j \/ (engine[j] = j /\ Unnamed(j)')
        <4>1. engine[j] \in Launchers /\ engine[j] = SessionOf(j) /\ Droid!Up(j)
          BY <1>0, <3>2, TypeParts DEF EngineByStep, EngineFits, OthersTyped, Droid!Up, Pc
        <4>2. CASE owner[engine[j]] = j
          <5>1. owner'[engine[j]] = j
            BY <2>6, <3>2, <4>1, <4>2
          <5>2. QED
            BY <5>1
        <4>3. CASE engine[j] = j /\ Unnamed(j) /\ owner[engine[j]] # j
          <5>1. Pc(j) \notin {"write", "save"}
            BY <1>0, <4>1, <4>3 DEF OwnsSession, MustOwn
          <5>2. QED
            BY <2>4, <4>3, <5>1
        <4>4. QED
          BY <1>0, <3>2, <4>2, <4>3 DEF EngineIsOwned
      <3>3. QED
        BY <2>3, <3>1, <3>2 DEF EngineIsOwned
    <2>10. QED
      BY <2>2, <2>5, <2>7, <2>8, <2>9
  <1>4. QED
    BY <1>1, <1>2, <1>3, DroidSteps DEF DInv

LEMMA DroidRuns == BothSpec => Droid!Init /\ [][Droid!Next]_droidVars
  <1>1. BothInit => Droid!Init
    BY DEF BothInit
  <1>2. [BothNext]_<<vars, droidVars, books>> => [Droid!Next]_droidVars
    BY DEF BothNext
  <1>3. QED
    BY <1>1, <1>2, PTL DEF BothSpec

LEMMA DroidSafety == BothSpec => []DInv
  BY DroidInit, StepDInv, DroidRuns, PTL

\* No Factory session is loaded by the engines of two launchers, whoever created,
\* resumed, stopped or crashed in between.
THEOREM OneEnginePerSession == BothSpec => []OneEngine
  <1>1. DInv => OneEngine
    <2> SUFFICES ASSUME DInv, NEW l \in Launchers, NEW k \in Launchers, l # k, engine[l] # 0, engine[l] = engine[k]
                 PROVE  FALSE
      BY DEF OneEngine, Droid!OneEngine
    <2>1. engine[l] = SessionOf(l) /\ engine[k] = SessionOf(k)
      BY DEF DInv, EngineByStep, EngineFits
    <2>2. \/ owner[engine[l]] = l \/ (engine[l] = l /\ Unnamed(l))
      BY DEF DInv, EngineIsOwned
    <2>3. \/ owner[engine[k]] = k \/ (engine[k] = k /\ Unnamed(k))
      BY DEF DInv, EngineIsOwned
    <2>4. QED
      BY <2>1, <2>2, <2>3 DEF Unnamed
  <1>2. QED
    BY <1>1, DroidSafety, PTL

-----------------------------------------------------------------------------
(* What the claim and the saved session say of the child *)

\* The engine is loaded, and nobody has begun to stop it.
Live(l) == engine[l] # 0 /\ Pc(l) # "ending"

\* The child has a pid, and the first to bind the claim has it for good.
BoundOnce(l) ==
  /\ mcp[l].up => mcp[l].pid # 0
  /\ mcp[l].pc # "idle" => mcp[l].up
  /\ binding[l] <= mcp[l].pid
  /\ Live(l) => claim[l].mcp \in {0, binding[l]}

\* Who rewrites the claim has read what is there, and has changed his own part only.
NoLostUpdate(l) ==
  Live(l) =>
    /\ claim[l].exists
    /\ Pc(l) = "write" => launcher[l].read = claim[l]
    /\ Pc(l) = "save" => claim[l].peer = launcher[l].read.peer /\ claim[l].mcp = launcher[l].read.mcp
    /\ Pc(l) \in {"finalize", "write", "save", "ready"} => claim[l].mcp # 0
    /\ Pc(l) \in {"save", "ready"} => claim[l].session = SessionOf(l)
    /\ mcp[l].pc = "write" => mcp[l].read = claim[l] /\ binding[l] = mcp[l].pid
    /\ mcp[l].pc = "save" => /\ claim[l].session = mcp[l].read.session
                             /\ claim[l].peer = mcp[l].peer /\ claim[l].mcp = mcp[l].pid

\* The child that the claim names is the one registered, or about to write that it is;
\* and it does not wait for an update lock that its predecessor died with.
ClaimKeepsUp(l) ==
  Live(l) /\ mcp[l].up /\ mcp[l].pid = claim[l].mcp =>
    /\ mcp[l].pc \in {"bind", "write"} \/ claim[l].peer = mcp[l].peer
    /\ mcp[l].pc \in {"idle", "bind"} => ulock[l] # "mcp"

Quiet(l) == Pc(l) = "ready" /\ mcp[l].up /\ mcp[l].pc = "idle" /\ mcp[l].pid = claim[l].mcp
RecordKeepsUp(l) ==
  Quiet(l) => record[SessionOf(l)].peer = claim[l].peer \/ record[SessionOf(l)].orphan

ClaimInv == \A l \in Launchers : BoundOnce(l) /\ NoLostUpdate(l) /\ ClaimKeepsUp(l) /\ RecordKeepsUp(l)

\* The four cases of setSessionId and of bindClaim, field by field.
LEMMA SetSessionIdSteps ==
  ASSUME Droid!TypeOK, NEW k \in Launchers, Droid!setSessionId(k)
  PROVE  /\ mcp'[k] = mcp[k] /\ engine'[k] = engine[k] /\ binding'[k] = binding[k] /\ SessionOf(k)' = SessionOf(k)
         /\ \/ /\ Pc(k) = "finalize" /\ Pc(k)' = "write" /\ launcher'[k].read = claim[k] /\ claim'[k] = claim[k]
               /\ ulock[k] = "free" /\ ulock'[k] = "launcher" /\ UNCHANGED record
            \/ Pc(k) = "finalize" /\ Pc(k)' = "ending" /\ UNCHANGED <<claim, ulock, record>>
            \/ /\ Pc(k) = "write" /\ Pc(k)' = "save" /\ launcher'[k].read = launcher[k].read /\ claim'[k].session = SessionOf(k)
               /\ claim'[k].exists = launcher[k].read.exists /\ claim'[k].peer = launcher[k].read.peer
               /\ claim'[k].mcp = launcher[k].read.mcp /\ UNCHANGED <<ulock, record>>
            \/ /\ Pc(k) = "save" /\ Pc(k)' = "ready" /\ UNCHANGED claim /\ ulock'[k] = "free"
               /\ record' = IF launcher[k].read.mcp = 0 THEN record
                            ELSE [record EXCEPT ![SessionOf(k)] = [peer |-> launcher[k].read.peer, orphan |-> FALSE]]
  <1>0. /\ launcher \in [Launchers -> LauncherState] /\ launcher[k] \in LauncherState /\ claim \in [Launchers -> Droid!DroidLaunchClaim]
        /\ ulock \in [Launchers -> {"free", "launcher", "mcp"}] /\ launcher[k].read \in Droid!DroidLaunchClaim
    BY TypeParts DEF OthersTyped, LauncherState
  <1> USE DEF LauncherState, Pc, SessionOf
  <1>1. mcp'[k] = mcp[k] /\ engine'[k] = engine[k] /\ binding'[k] = binding[k] /\ SessionOf(k)' = SessionOf(k)
    BY <1>0 DEF Droid!setSessionId, Droid!Goto
  <1>2. CASE Pc(k) = "finalize"
    BY <1>0, <1>1, <1>2 DEF Droid!setSessionId, Droid!Goto, Droid!At, Droid!MayUpdate
  <1>3. CASE Pc(k) = "write"
    <2>1. claim' = [claim EXCEPT ![k] = [launcher[k].read EXCEPT !.session = launcher[k].session]]
      BY <1>3 DEF Droid!setSessionId, Droid!At
    <2>2. claim'[k] = [launcher[k].read EXCEPT !.session = launcher[k].session]
      BY <1>0, <2>1
    <2>3. /\ claim'[k].session = launcher[k].session /\ claim'[k].exists = launcher[k].read.exists
          /\ claim'[k].peer = launcher[k].read.peer /\ claim'[k].mcp = launcher[k].read.mcp
      BY <1>0, <2>2 DEF Droid!DroidLaunchClaim
    <2>4. Pc(k)' = "save" /\ launcher'[k].read = launcher[k].read /\ UNCHANGED <<ulock, record>>
      BY <1>0, <1>3 DEF Droid!setSessionId, Droid!Goto, Droid!At
    <2>5. QED
      BY <1>1, <1>3, <2>3, <2>4
  <1>4. CASE Pc(k) = "save"
    BY <1>0, <1>1, <1>4 DEF Droid!setSessionId, Droid!At
  <1>5. QED
    BY <1>2, <1>3, <1>4 DEF Droid!setSessionId, Droid!At

LEMMA BindClaimSteps ==
  ASSUME Droid!TypeOK, NEW k \in Launchers, Droid!bindClaim(k)
  PROVE  /\ launcher'[k] = launcher[k] /\ engine'[k] = engine[k] /\ mcp[k].up /\ mcp'[k].up
         /\ mcp'[k].pid = mcp[k].pid /\ mcp'[k].peer = mcp[k].peer
         /\ \/ /\ mcp[k].pc = "bind" /\ mcp'[k].pc = "write" /\ mcp'[k].read = claim[k] /\ claim[k].exists /\ claim'[k] = claim[k]
               /\ claim[k].mcp \in {0, mcp[k].pid} /\ binding'[k] = mcp[k].pid
               /\ ulock[k] = "free" /\ ulock'[k] = "mcp" /\ UNCHANGED record
            \/ /\ mcp[k].pc = "bind" /\ mcp'[k].pc = "idle" /\ claim'[k] = claim[k] /\ UNCHANGED <<binding, ulock, record>>
               /\ Droid!LockIsDead(k) \/ ~claim[k].exists \/ ~Droid!Bindable(k)
            \/ /\ mcp[k].pc = "write" /\ mcp'[k].pc = "save" /\ mcp'[k].read = mcp[k].read /\ UNCHANGED <<binding, ulock, record>>
               /\ claim'[k].exists = mcp[k].read.exists /\ claim'[k].session = mcp[k].read.session
               /\ claim'[k].peer = mcp[k].peer /\ claim'[k].mcp = mcp[k].pid
            \/ /\ mcp[k].pc = "save" /\ mcp'[k].pc = "idle" /\ claim'[k] = claim[k] /\ UNCHANGED binding /\ ulock'[k] = "free"
               /\ record' = IF mcp[k].read.session = 0 THEN record
                            ELSE [record EXCEPT ![mcp[k].read.session] =
                                    [peer |-> mcp[k].peer, orphan |-> ~Droid!Up(k) \/ engine[k] = 0]]
  <1>0. /\ mcp \in [Launchers -> ChildState] /\ mcp[k] \in ChildState /\ claim \in [Launchers -> Droid!DroidLaunchClaim]
        /\ ulock \in [Launchers -> {"free", "launcher", "mcp"}] /\ binding \in [Launchers -> 0 .. 2]
        /\ mcp[k].read \in Droid!DroidLaunchClaim
    BY TypeParts DEF OthersTyped, ChildState
  <1> USE DEF ChildState
  <1>1. launcher'[k] = launcher[k] /\ engine'[k] = engine[k]
    BY <1>0 DEF Droid!bindClaim
  <1>2. mcp[k].up
    BY Zenon DEF Droid!bindClaim
  <1>3. mcp'[k].up /\ mcp'[k].pid = mcp[k].pid /\ mcp'[k].peer = mcp[k].peer
    <2>1. \/ mcp' = [mcp EXCEPT ![k].pc = "write", ![k].read = claim[k]]
          \/ mcp' = [mcp EXCEPT ![k].pc = "idle"] \/ mcp' = [mcp EXCEPT ![k].pc = "save"]
          \/ mcp' = [mcp EXCEPT ![k].pc = "idle", ![k].read = Droid!NoClaim]
      BY Zenon DEF Droid!bindClaim
    <2>2. QED
      BY <1>0, <1>2, <2>1
  <1>4. CASE mcp[k].pc = "bind"
    <2>1. CASE Droid!MayUpdate(k) /\ claim[k].exists /\ Droid!Bindable(k) /\ mcp' = [mcp EXCEPT ![k].pc = "write", ![k].read = claim[k]]
      BY <1>0, <1>1, <1>2, <1>3, <1>4, <2>1 DEF Droid!bindClaim, Droid!MayUpdate, Droid!Bindable
    <2>2. CASE mcp' = [mcp EXCEPT ![k].pc = "idle"] /\ (Droid!LockIsDead(k) \/ ~claim[k].exists \/ ~Droid!Bindable(k))
      BY <1>0, <1>1, <1>2, <1>3, <1>4, <2>2 DEF Droid!bindClaim
    <2>3. QED
      BY <1>4, <2>1, <2>2, Zenon DEF Droid!bindClaim
  <1>5. CASE mcp[k].pc = "write"
    <2>1. /\ claim' = [claim EXCEPT ![k] = [mcp[k].read EXCEPT !.peer = mcp[k].peer, !.mcp = mcp[k].pid]]
          /\ mcp' = [mcp EXCEPT ![k].pc = "save"] /\ UNCHANGED <<binding, ulock, record>>
      BY <1>5 DEF Droid!bindClaim
    <2>2. claim'[k] = [mcp[k].read EXCEPT !.peer = mcp[k].peer, !.mcp = mcp[k].pid]
      BY <1>0, <2>1
    <2>3. /\ claim'[k].exists = mcp[k].read.exists /\ claim'[k].session = mcp[k].read.session
          /\ claim'[k].peer = mcp[k].peer /\ claim'[k].mcp = mcp[k].pid
      BY <1>0, <2>2 DEF Droid!DroidLaunchClaim
    <2>4. mcp'[k].pc = "save" /\ mcp'[k].read = mcp[k].read
      BY <1>0, <2>1
    <2>5. QED
      BY <1>1, <1>2, <1>3, <1>5, <2>1, <2>3, <2>4
  <1>6. CASE mcp[k].pc = "save"
    <2>1. /\ mcp' = [mcp EXCEPT ![k].pc = "idle", ![k].read = Droid!NoClaim] /\ ulock' = [ulock EXCEPT ![k] = "free"]
          /\ UNCHANGED <<claim, binding>>
          /\ record' = IF mcp[k].read.session = 0 THEN record
                       ELSE [record EXCEPT ![mcp[k].read.session] =
                               [peer |-> mcp[k].peer, orphan |-> ~Droid!Up(k) \/ engine[k] = 0]]
      BY <1>6 DEF Droid!bindClaim
    <2>2. mcp'[k].pc = "idle" /\ ulock'[k] = "free"
      BY <1>0, <2>1
    <2>3. QED
      BY <1>1, <1>2, <1>3, <1>6, <2>1, <2>2
  <1>7. QED
    BY <1>4, <1>5, <1>6 DEF Droid!bindClaim

LEMMA StepBoundOnce ==
  ASSUME Droid!TypeOK, NEW k \in Launchers, EngineFits(k), BoundOnce(k), NoLostUpdate(k), DroidStep(k)
  PROVE  BoundOnce(k)'
  <1>0. /\ launcher \in [Launchers -> LauncherState] /\ mcp \in [Launchers -> ChildState]
        /\ launcher[k] \in LauncherState /\ mcp[k] \in ChildState
        /\ claim \in [Launchers -> Droid!DroidLaunchClaim] /\ binding \in [Launchers -> 0 .. 2]
        /\ engine \in [Launchers -> Launchers \cup {0}] /\ ulock \in [Launchers -> {"free", "launcher", "mcp"}]
        /\ claim[k] \in Droid!DroidLaunchClaim /\ engine[k] \in Launchers \cup {0} /\ binding[k] \in 0 .. 2
    BY TypeParts DEF OthersTyped
  <1> USE DEF LauncherState, ChildState, Droid!DroidLaunchClaim
  <1>1. ASSUME NEW r \in Launchers \cup {0}, Droid!createClaim(k, r) PROVE BoundOnce(k)'
    BY <1>1, <1>0, DroidAssumption DEF Droid!createClaim, Droid!Bindable, BoundOnce, EngineFits, BeforeEngine, Live, Pc, SessionOf, Droid!NoClaim, Droid!Goto, Droid!At
  <1>2. ASSUME Droid!tryAcquire(k) PROVE BoundOnce(k)'
    BY <1>2, <1>0, DroidAssumption DEF Droid!tryAcquire, Droid!Bindable, BoundOnce, EngineFits, BeforeEngine, Live, Pc, SessionOf, Droid!NoClaim, Droid!Goto, Droid!At
  <1>3. ASSUME Droid!ScanClaims(k) PROVE BoundOnce(k)'
    BY <1>3, <1>0, DroidAssumption DEF Droid!ScanClaims, Droid!Bindable, BoundOnce, EngineFits, BeforeEngine, Live, Pc, SessionOf, Droid!NoClaim, Droid!Goto, Droid!At
  <1>4. ASSUME Droid!LoadSession(k) PROVE BoundOnce(k)'
    BY <1>4, <1>0, DroidAssumption DEF Droid!LoadSession, Droid!Bindable, BoundOnce, EngineFits, BeforeEngine, Live, Pc, SessionOf, Droid!NoClaim, Droid!Goto, Droid!At
  <1>5. ASSUME Droid!waitForBinding(k) PROVE BoundOnce(k)'
    BY <1>5, <1>0, DroidAssumption DEF Droid!waitForBinding, Droid!Bindable, BoundOnce, EngineFits, BeforeEngine, Live, Pc, SessionOf, Droid!NoClaim, Droid!Goto, Droid!At
  <1>6. ASSUME Droid!setSessionId(k) PROVE BoundOnce(k)'
    <2> HIDE DEF LauncherState, ChildState, Droid!DroidLaunchClaim
    <2>1. /\ mcp'[k] = mcp[k] /\ engine'[k] = engine[k] /\ binding'[k] = binding[k]
          /\ claim'[k].mcp = claim[k].mcp \/ (Pc(k) = "write" /\ claim'[k].mcp = launcher[k].read.mcp)
      BY <1>6, SetSessionIdSteps
    <2>2. Pc(k) \in {"finalize", "write", "save"}
      BY <1>6 DEF Droid!setSessionId, Droid!At, Pc
    <2>3. Live(k)' => Live(k)
      BY <2>1, <2>2 DEF Live
    <2>4. Live(k) /\ Pc(k) = "write" => launcher[k].read = claim[k]
      BY DEF NoLostUpdate
    <2>5. QED
      BY <2>1, <2>3, <2>4 DEF BoundOnce
  <1>7. ASSUME Droid!LauncherStops(k) PROVE BoundOnce(k)'
    BY <1>7, <1>0, DroidAssumption DEF Droid!LauncherStops, Droid!Stops, Droid!Bindable, BoundOnce, EngineFits, BeforeEngine, Live, Pc, SessionOf, Droid!NoClaim, Droid!Goto, Droid!At
  <1>8. ASSUME Droid!LauncherDies(k) PROVE BoundOnce(k)'
    BY <1>8, <1>0, DroidAssumption DEF Droid!LauncherDies, Droid!Bindable, BoundOnce, EngineFits, BeforeEngine, Live, Pc, SessionOf, Droid!NoClaim, Droid!Goto, Droid!At
  <1>9. ASSUME Droid!Register(k) PROVE BoundOnce(k)'
    BY <1>9, <1>0, DroidAssumption DEF Droid!Register, Droid!Bindable, BoundOnce, EngineFits, BeforeEngine, Live, Pc, SessionOf, Droid!NoClaim, Droid!Goto, Droid!At
  <1>10. ASSUME Droid!bindClaim(k) PROVE BoundOnce(k)'
    <2>1. mcp[k].pid \in 0 .. 2 /\ mcp[k].pid # 0
      BY <1>0, <1>10, BindClaimSteps DEF BoundOnce
    <2> HIDE DEF LauncherState, ChildState, Droid!DroidLaunchClaim
    <2>2. Live(k)' <=> Live(k)
      BY <1>10, BindClaimSteps DEF Live, Pc
    <2>3. mcp'[k].up /\ mcp'[k].pid = mcp[k].pid
      BY <1>10, BindClaimSteps
    <2>4. binding'[k] \in {binding[k], mcp[k].pid}
      BY <1>10, BindClaimSteps
    <2>5. Live(k) => claim'[k].mcp \in {0, binding'[k]}
      BY <1>10, BindClaimSteps DEF BoundOnce, NoLostUpdate
    <2>6. QED
      BY <1>0, <2>1, <2>2, <2>3, <2>4, <2>5 DEF BoundOnce
  <1>11. ASSUME Droid!McpExits(k) PROVE BoundOnce(k)'
    BY <1>11, <1>0, DroidAssumption DEF Droid!McpExits, Droid!Bindable, BoundOnce, EngineFits, BeforeEngine, Live, Pc, SessionOf, Droid!NoClaim, Droid!Goto, Droid!At
  <1>12. ASSUME Droid!McpReplaced(k) PROVE BoundOnce(k)'
    BY <1>12, <1>0, DroidAssumption DEF Droid!McpReplaced, Droid!Bindable, BoundOnce, EngineFits, BeforeEngine, Live, Pc, SessionOf, Droid!NoClaim, Droid!Goto, Droid!At
  <1>13. QED
    BY <1>1, <1>2, <1>3, <1>4, <1>5, <1>6, <1>7, <1>8, <1>9, <1>10, <1>11, <1>12 DEF DroidStep

LEMMA StepNoLostUpdate ==
  ASSUME Droid!TypeOK, NEW k \in Launchers, EngineFits(k), BoundOnce(k), NoLostUpdate(k), DroidStep(k),
         WritesLocked, ChildWritesLocked
  PROVE  NoLostUpdate(k)'
  <1>0. /\ launcher \in [Launchers -> LauncherState] /\ mcp \in [Launchers -> ChildState]
        /\ launcher[k] \in LauncherState /\ mcp[k] \in ChildState
        /\ claim \in [Launchers -> Droid!DroidLaunchClaim] /\ binding \in [Launchers -> 0 .. 2]
        /\ engine \in [Launchers -> Launchers \cup {0}] /\ ulock \in [Launchers -> {"free", "launcher", "mcp"}]
        /\ claim[k] \in Droid!DroidLaunchClaim /\ engine[k] \in Launchers \cup {0} /\ binding[k] \in 0 .. 2
        /\ (Pc(k) \in {"write", "save"} => ulock[k] = "launcher") /\ (mcp[k].pc \in {"write", "save"} => ulock[k] = "mcp")
        /\ (mcp[k].up => mcp[k].pid # 0) /\ (mcp[k].pc # "idle" => mcp[k].up)
    BY TypeParts DEF OthersTyped, WritesLocked, ChildWritesLocked, Pc, BoundOnce
  <1> USE DEF LauncherState, ChildState, Droid!DroidLaunchClaim
  <1>1. ASSUME NEW r \in Launchers \cup {0}, Droid!createClaim(k, r) PROVE NoLostUpdate(k)'
    BY <1>1, <1>0, DroidAssumption DEF Droid!createClaim, Droid!MayUpdate, NoLostUpdate, EngineFits, BeforeEngine, Live, Pc, SessionOf, Droid!NoClaim, Droid!Goto, Droid!At
  <1>2. ASSUME Droid!tryAcquire(k) PROVE NoLostUpdate(k)'
    BY <1>2, <1>0, DroidAssumption DEF Droid!tryAcquire, Droid!MayUpdate, NoLostUpdate, EngineFits, BeforeEngine, Live, Pc, SessionOf, Droid!NoClaim, Droid!Goto, Droid!At
  <1>3. ASSUME Droid!ScanClaims(k) PROVE NoLostUpdate(k)'
    BY <1>3, <1>0, DroidAssumption DEF Droid!ScanClaims, Droid!MayUpdate, NoLostUpdate, EngineFits, BeforeEngine, Live, Pc, SessionOf, Droid!NoClaim, Droid!Goto, Droid!At
  <1>4. ASSUME Droid!LoadSession(k) PROVE NoLostUpdate(k)'
    BY <1>4, <1>0, DroidAssumption DEF Droid!LoadSession, Droid!MayUpdate, NoLostUpdate, EngineFits, BeforeEngine, Live, Pc, SessionOf, Droid!NoClaim, Droid!Goto, Droid!At
  <1>5. ASSUME Droid!waitForBinding(k) PROVE NoLostUpdate(k)'
    BY <1>5, <1>0, DroidAssumption DEF Droid!waitForBinding, Droid!MayUpdate, NoLostUpdate, EngineFits, BeforeEngine, Live, Pc, SessionOf, Droid!NoClaim, Droid!Goto, Droid!At
  <1>6. ASSUME Droid!setSessionId(k) PROVE NoLostUpdate(k)'
    <2> HIDE DEF LauncherState, ChildState, Droid!DroidLaunchClaim
    <2>1. /\ mcp'[k] = mcp[k] /\ engine'[k] = engine[k] /\ binding'[k] = binding[k] /\ SessionOf(k)' = SessionOf(k)
      BY <1>6, SetSessionIdSteps
    <2>2. Pc(k) \in {"finalize", "write", "save"} /\ (Live(k)' => Live(k))
      <3>1. Pc(k) \in {"finalize", "write", "save"}
        BY <1>6 DEF Droid!setSessionId, Droid!At, Pc
      <3>2. QED
        BY <2>1, <3>1 DEF Live
    <2>3. CASE Pc(k) = "finalize"
      BY <1>0, <1>6, <2>1, <2>2, <2>3, SetSessionIdSteps DEF NoLostUpdate, Live
    <2>4. CASE Pc(k) = "write"
      BY <1>0, <1>6, <2>1, <2>2, <2>4, SetSessionIdSteps DEF NoLostUpdate
    <2>5. CASE Pc(k) = "save"
      BY <1>0, <1>6, <2>1, <2>2, <2>5, SetSessionIdSteps DEF NoLostUpdate
    <2>6. QED
      BY <2>2, <2>3, <2>4, <2>5
  <1>7. ASSUME Droid!LauncherStops(k) PROVE NoLostUpdate(k)'
    BY <1>7, <1>0, DroidAssumption DEF Droid!LauncherStops, Droid!Stops, Droid!MayUpdate, NoLostUpdate, EngineFits, BeforeEngine, Live, Pc, SessionOf, Droid!NoClaim, Droid!Goto, Droid!At
  <1>8. ASSUME Droid!LauncherDies(k) PROVE NoLostUpdate(k)'
    BY <1>8, <1>0, DroidAssumption DEF Droid!LauncherDies, Droid!MayUpdate, NoLostUpdate, EngineFits, BeforeEngine, Live, Pc, SessionOf, Droid!NoClaim, Droid!Goto, Droid!At
  <1>9. ASSUME Droid!Register(k) PROVE NoLostUpdate(k)'
    BY <1>9, <1>0, DroidAssumption DEF Droid!Register, Droid!MayUpdate, NoLostUpdate, EngineFits, BeforeEngine, Live, Pc, SessionOf, Droid!NoClaim, Droid!Goto, Droid!At
  <1>10. ASSUME Droid!bindClaim(k) PROVE NoLostUpdate(k)'
    <2> HIDE DEF LauncherState, ChildState, Droid!DroidLaunchClaim
    <2>1. Live(k)' <=> Live(k)
      BY <1>10, BindClaimSteps DEF Live, Pc
    <2>2. Pc(k)' = Pc(k) /\ SessionOf(k)' = SessionOf(k) /\ launcher'[k].read = launcher[k].read
      BY <1>10, BindClaimSteps DEF Pc, SessionOf
    <2>3. CASE mcp[k].pc = "bind"
      <3>1. claim'[k] = claim[k] /\ mcp'[k].pc # "save" /\ (mcp'[k].pc = "write" => mcp'[k].read = claim[k] /\ binding'[k] = mcp'[k].pid)
        BY <1>10, <2>3, BindClaimSteps
      <3>2. QED
        BY <2>1, <2>2, <3>1 DEF NoLostUpdate
    <2>4. CASE mcp[k].pc = "write"
      <3>1. /\ mcp'[k].pc = "save" /\ claim'[k].exists = mcp[k].read.exists /\ claim'[k].session = mcp[k].read.session
            /\ claim'[k].peer = mcp'[k].peer /\ claim'[k].mcp = mcp'[k].pid /\ mcp'[k].read = mcp[k].read
        BY <1>10, <2>4, BindClaimSteps
      <3>2. claim'[k].mcp # 0 /\ Pc(k) \notin {"write", "save"}
        BY <1>0, <1>10, <2>4, <3>1, BindClaimSteps
      <3>3. QED
        BY <2>1, <2>2, <2>4, <3>1, <3>2 DEF NoLostUpdate
    <2>5. CASE mcp[k].pc = "save"
      BY <1>0, <1>10, <2>1, <2>2, <2>5, BindClaimSteps DEF NoLostUpdate
    <2>6. QED
      BY <1>10, <2>3, <2>4, <2>5, BindClaimSteps
  <1>11. ASSUME Droid!McpExits(k) PROVE NoLostUpdate(k)'
    BY <1>11, <1>0, DroidAssumption DEF Droid!McpExits, Droid!MayUpdate, NoLostUpdate, EngineFits, BeforeEngine, Live, Pc, SessionOf, Droid!NoClaim, Droid!Goto, Droid!At
  <1>12. ASSUME Droid!McpReplaced(k) PROVE NoLostUpdate(k)'
    BY <1>12, <1>0, DroidAssumption DEF Droid!McpReplaced, Droid!MayUpdate, NoLostUpdate, EngineFits, BeforeEngine, Live, Pc, SessionOf, Droid!NoClaim, Droid!Goto, Droid!At
  <1>13. QED
    BY <1>1, <1>2, <1>3, <1>4, <1>5, <1>6, <1>7, <1>8, <1>9, <1>10, <1>11, <1>12 DEF DroidStep

LEMMA StepClaimKeepsUp ==
  ASSUME Droid!TypeOK, NEW k \in Launchers, EngineFits(k), BoundOnce(k), NoLostUpdate(k), ClaimKeepsUp(k), DroidStep(k),
         WritesLocked, ChildWritesLocked
  PROVE  ClaimKeepsUp(k)'
  <1>0. /\ launcher \in [Launchers -> LauncherState] /\ mcp \in [Launchers -> ChildState]
        /\ launcher[k] \in LauncherState /\ mcp[k] \in ChildState
        /\ claim \in [Launchers -> Droid!DroidLaunchClaim] /\ binding \in [Launchers -> 0 .. 2]
        /\ engine \in [Launchers -> Launchers \cup {0}] /\ ulock \in [Launchers -> {"free", "launcher", "mcp"}]
        /\ claim[k] \in Droid!DroidLaunchClaim /\ engine[k] \in Launchers \cup {0} /\ binding[k] \in 0 .. 2
        /\ (mcp[k].pc \in {"write", "save"} => ulock[k] = "mcp")
        /\ (mcp[k].up => mcp[k].pid # 0) /\ (mcp[k].pc # "idle" => mcp[k].up)
    BY TypeParts DEF OthersTyped, ChildWritesLocked, BoundOnce
  <1> USE DEF LauncherState, ChildState, Droid!DroidLaunchClaim
  <1>1. ASSUME NEW r \in Launchers \cup {0}, Droid!createClaim(k, r) PROVE ClaimKeepsUp(k)'
    BY <1>1, <1>0, DroidAssumption DEF Droid!createClaim, Droid!MayUpdate, ClaimKeepsUp, EngineFits, BeforeEngine, Live, Pc, SessionOf, Droid!NoClaim, Droid!Goto, Droid!At
  <1>2. ASSUME Droid!tryAcquire(k) PROVE ClaimKeepsUp(k)'
    BY <1>2, <1>0, DroidAssumption DEF Droid!tryAcquire, Droid!MayUpdate, ClaimKeepsUp, EngineFits, BeforeEngine, Live, Pc, SessionOf, Droid!NoClaim, Droid!Goto, Droid!At
  <1>3. ASSUME Droid!ScanClaims(k) PROVE ClaimKeepsUp(k)'
    BY <1>3, <1>0, DroidAssumption DEF Droid!ScanClaims, Droid!MayUpdate, ClaimKeepsUp, EngineFits, BeforeEngine, Live, Pc, SessionOf, Droid!NoClaim, Droid!Goto, Droid!At
  <1>4. ASSUME Droid!LoadSession(k) PROVE ClaimKeepsUp(k)'
    BY <1>4, <1>0, DroidAssumption DEF Droid!LoadSession, Droid!MayUpdate, ClaimKeepsUp, EngineFits, BeforeEngine, Live, Pc, SessionOf, Droid!NoClaim, Droid!Goto, Droid!At
  <1>5. ASSUME Droid!waitForBinding(k) PROVE ClaimKeepsUp(k)'
    BY <1>5, <1>0, DroidAssumption DEF Droid!waitForBinding, Droid!MayUpdate, ClaimKeepsUp, EngineFits, BeforeEngine, Live, Pc, SessionOf, Droid!NoClaim, Droid!Goto, Droid!At
  <1>6. ASSUME Droid!setSessionId(k) PROVE ClaimKeepsUp(k)'
    <2> HIDE DEF LauncherState, ChildState, Droid!DroidLaunchClaim
    <2>1. /\ mcp'[k] = mcp[k] /\ engine'[k] = engine[k]
          /\ claim'[k] = claim[k] \/ (Pc(k) = "write" /\ claim'[k].mcp = launcher[k].read.mcp /\ claim'[k].peer = launcher[k].read.peer)
          /\ ulock'[k] # "mcp" \/ ulock'[k] = ulock[k]
      BY <1>6, SetSessionIdSteps
    <2>2. Pc(k) \in {"finalize", "write", "save"}
      BY <1>6 DEF Droid!setSessionId, Droid!At, Pc
    <2>3. Live(k)' => Live(k)
      BY <2>1, <2>2 DEF Live
    <2>4. Live(k) /\ Pc(k) = "write" => launcher[k].read = claim[k]
      BY DEF NoLostUpdate
    <2>5. QED
      BY <2>1, <2>3, <2>4 DEF ClaimKeepsUp
  <1>7. ASSUME Droid!LauncherStops(k) PROVE ClaimKeepsUp(k)'
    BY <1>7, <1>0, DroidAssumption DEF Droid!LauncherStops, Droid!Stops, Droid!MayUpdate, ClaimKeepsUp, EngineFits, BeforeEngine, Live, Pc, SessionOf, Droid!NoClaim, Droid!Goto, Droid!At
  <1>8. ASSUME Droid!LauncherDies(k) PROVE ClaimKeepsUp(k)'
    BY <1>8, <1>0, DroidAssumption DEF Droid!LauncherDies, Droid!MayUpdate, ClaimKeepsUp, EngineFits, BeforeEngine, Live, Pc, SessionOf, Droid!NoClaim, Droid!Goto, Droid!At
  <1>9. ASSUME Droid!Register(k) PROVE ClaimKeepsUp(k)'
    BY <1>9, <1>0, DroidAssumption DEF Droid!Register, Droid!MayUpdate, ClaimKeepsUp, EngineFits, BeforeEngine, Live, Pc, SessionOf, Droid!NoClaim, Droid!Goto, Droid!At
  <1>10. ASSUME Droid!bindClaim(k) PROVE ClaimKeepsUp(k)'
    <2>1. Live(k)' <=> Live(k)
      BY <1>10, BindClaimSteps DEF Live, Pc
    <2>2. mcp[k].up /\ mcp'[k].up /\ mcp'[k].pid = mcp[k].pid /\ mcp'[k].peer = mcp[k].peer /\ mcp[k].pid # 0
      BY <1>0, <1>10, BindClaimSteps
    <2>3. CASE mcp[k].pc = "bind" /\ mcp'[k].pc = "write"
      BY <1>10, <2>2, <2>3, BindClaimSteps DEF ClaimKeepsUp
    <2>4. CASE mcp[k].pc = "bind" /\ mcp'[k].pc = "idle"
      \* The child that the claim names is refused by nobody.
      <3>1. /\ claim'[k] = claim[k] /\ UNCHANGED ulock
            /\ Droid!LockIsDead(k) \/ ~claim[k].exists \/ ~Droid!Bindable(k)
        BY <1>10, <2>4, BindClaimSteps
      <3>2. SUFFICES ASSUME Live(k), mcp[k].pid = claim[k].mcp PROVE FALSE
        BY <2>1, <2>2, <3>1 DEF ClaimKeepsUp
      <3>3. claim[k].exists /\ binding[k] = mcp[k].pid /\ ulock[k] # "mcp"
        BY <2>2, <2>4, <3>2 DEF NoLostUpdate, BoundOnce, ClaimKeepsUp
      <3>4. Droid!Bindable(k)
        BY <3>2, <3>3 DEF Droid!Bindable
      <3>5. Droid!Up(k)
        BY <3>2 DEF Live, EngineFits, Droid!Up, Pc
      <3>6. ~Droid!LockIsDead(k)
        BY <3>3, <3>5 DEF Droid!LockIsDead
      <3>7. QED
        BY <3>1, <3>3, <3>4, <3>6
    <2>5. CASE mcp[k].pc = "write"
      <3>1. mcp'[k].pc = "save" /\ claim'[k].peer = mcp'[k].peer
        BY <1>10, <2>5, BindClaimSteps
      <3>2. QED
        BY <3>1 DEF ClaimKeepsUp
    <2>6. CASE mcp[k].pc = "save"
      <3>1. claim'[k] = claim[k] /\ ulock'[k] = "free"
        BY <1>10, <2>6, BindClaimSteps
      <3>2. QED
        BY <2>1, <2>2, <2>6, <3>1 DEF ClaimKeepsUp
    <2>7. QED
      BY <1>10, <2>3, <2>4, <2>5, <2>6, BindClaimSteps
  <1>11. ASSUME Droid!McpExits(k) PROVE ClaimKeepsUp(k)'
    BY <1>11, <1>0, DroidAssumption DEF Droid!McpExits, Droid!MayUpdate, ClaimKeepsUp, EngineFits, BeforeEngine, Live, Pc, SessionOf, Droid!NoClaim, Droid!Goto, Droid!At
  <1>12. ASSUME Droid!McpReplaced(k) PROVE ClaimKeepsUp(k)'
    <2>1. Live(k) => claim[k].mcp \in {0, binding[k]} /\ binding[k] <= 1
      BY <1>0, <1>12 DEF Droid!McpReplaced, BoundOnce
    <2>2. mcp'[k].pid = 2 /\ claim' = claim /\ (Live(k)' <=> Live(k))
      BY <1>0, <1>12 DEF Droid!McpReplaced, Live, Pc
    <2>3. Live(k) => claim[k].mcp # 2
      BY <1>0, <2>1
    <2>4. QED
      BY <2>2, <2>3 DEF ClaimKeepsUp
  <1>13. QED
    BY <1>1, <1>2, <1>3, <1>4, <1>5, <1>6, <1>7, <1>8, <1>9, <1>10, <1>11, <1>12 DEF DroidStep

\* The saved session, when launcher k or its child moves.
LEMMA StepRecordKeepsUp ==
  ASSUME DInv, NEW k \in Launchers, BoundOnce(k), NoLostUpdate(k), ClaimKeepsUp(k), RecordKeepsUp(k), DroidStep(k)
  PROVE  RecordKeepsUp(k)'
  <1>0. /\ Droid!TypeOK /\ EngineFits(k) /\ (MustOwn(k) => SessionOf(k) # 0)
        /\ launcher \in [Launchers -> LauncherState] /\ mcp \in [Launchers -> ChildState]
        /\ launcher[k] \in LauncherState /\ mcp[k] \in ChildState /\ binding[k] \in 0 .. 2
        /\ record \in [Launchers -> [peer : DroidPeers \cup {0}, orphan : BOOLEAN]]
        /\ SessionOf(k) \in Launchers \cup {0}
    BY TypeParts DEF DInv, EngineByStep, OwnsSession, OthersTyped, LauncherState, SessionOf
  <1>1. CASE Droid!setSessionId(k)
    <2>1. SUFFICES ASSUME Pc(k) = "save", Pc(k)' = "ready"
                   PROVE  record'[SessionOf(k)].peer = claim[k].peer
      <3>1. Pc(k)' = "ready" => Pc(k) = "save" /\ UNCHANGED claim
        BY <1>0, <1>1, SetSessionIdSteps
      <3>2. QED
        BY <1>0, <1>1, <3>1, SetSessionIdSteps DEF RecordKeepsUp, Quiet
    <2>2. Live(k) /\ MustOwn(k)
      BY <1>0, <2>1 DEF Live, EngineFits, MustOwn
    <2>3. claim[k].mcp # 0 /\ claim[k].mcp = launcher[k].read.mcp /\ claim[k].peer = launcher[k].read.peer
      BY <2>1, <2>2 DEF NoLostUpdate
    <2>4. record' = [record EXCEPT ![SessionOf(k)] = [peer |-> launcher[k].read.peer, orphan |-> FALSE]]
      BY <1>0, <1>1, <2>1, <2>3, SetSessionIdSteps
    <2>5. QED
      BY <1>0, <2>2, <2>3, <2>4
  <1>2. CASE Droid!bindClaim(k)
    <2>1. launcher'[k] = launcher[k]
      BY <1>0, <1>2, BindClaimSteps
    <2>2. CASE mcp[k].pc = "bind"
      \* A child that the claim names does not give up on binding it.
      <3>1. SUFFICES ASSUME Quiet(k)' PROVE FALSE
        BY DEF RecordKeepsUp
      <3>2. /\ Droid!LockIsDead(k) \/ ~claim[k].exists \/ ~Droid!Bindable(k)
            /\ claim'[k] = claim[k] /\ mcp'[k].pid = mcp[k].pid /\ mcp[k].up
        BY <1>0, <1>2, <2>2, <3>1, BindClaimSteps DEF Quiet
      <3>3. Pc(k) = "ready" /\ mcp[k].pid = claim[k].mcp /\ mcp[k].pid # 0
        BY <2>1, <3>1, <3>2 DEF Quiet, Pc, BoundOnce
      <3>4. Live(k) /\ Droid!Up(k)
        BY <1>0, <3>3 DEF Live, EngineFits, Droid!Up, Pc
      <3>5. claim[k].exists /\ binding[k] = mcp[k].pid /\ ulock[k] # "mcp"
        BY <2>2, <3>2, <3>3, <3>4 DEF NoLostUpdate, BoundOnce, ClaimKeepsUp
      <3>6. Droid!Bindable(k) /\ ~Droid!LockIsDead(k)
        BY <3>3, <3>4, <3>5 DEF Droid!Bindable, Droid!LockIsDead
      <3>7. QED
        BY <3>2, <3>5, <3>6
    <2>3. CASE mcp[k].pc = "write"
      BY <1>0, <1>2, <2>3, BindClaimSteps DEF RecordKeepsUp, Quiet
    <2>4. CASE mcp[k].pc = "save"
      <3>1. SUFFICES ASSUME Pc(k) = "ready" PROVE record'[SessionOf(k)].peer = claim'[k].peer
        BY <2>1 DEF RecordKeepsUp, Quiet, Pc, SessionOf
      <3>2. Live(k) /\ MustOwn(k)
        BY <1>0, <3>1 DEF Live, EngineFits, MustOwn
      <3>3. mcp[k].read.session = SessionOf(k) /\ SessionOf(k) \in Launchers /\ claim[k].peer = mcp[k].peer
        BY <1>0, <2>4, <3>1, <3>2 DEF NoLostUpdate
      <3>4. PICK b : record' = [record EXCEPT ![SessionOf(k)] = [peer |-> mcp[k].peer, orphan |-> b]]
        <4>1. record' = IF mcp[k].read.session = 0 THEN record
                        ELSE [record EXCEPT ![mcp[k].read.session] =
                                [peer |-> mcp[k].peer, orphan |-> ~Droid!Up(k) \/ engine[k] = 0]]
          BY <1>2, <2>4, Zenon DEF Droid!bindClaim
        <4>2. SessionOf(k) # 0
          BY <3>3, DroidAssumption
        <4>3. QED
          BY <3>3, <4>1, <4>2, Zenon
      <3>5. claim'[k] = claim[k]
        BY <1>0, <1>2, <2>4, BindClaimSteps
      <3>6. QED
        BY <1>0, <3>3, <3>4, <3>5
    <2>5. QED
      BY <1>0, <1>2, <2>2, <2>3, <2>4, BindClaimSteps
  <1>3. CASE Droid!McpReplaced(k)
    <2>1. mcp[k].pid = 1 /\ mcp'[k].pid = 2 /\ UNCHANGED <<launcher, claim, binding, record, engine>>
      BY <1>0, <1>3 DEF Droid!McpReplaced, ChildState
    <2>2. Pc(k) = "ready" => claim[k].mcp # 2
      BY <1>0, <2>1 DEF BoundOnce, Live, EngineFits
    <2>3. QED
      BY <2>1, <2>2 DEF RecordKeepsUp, Quiet, Pc
  <1>4. CASE Droid!McpExits(k) \/ Droid!Register(k)
    <2>1. ~mcp'[k].up \/ mcp'[k].pc # "idle"
      BY <1>0, <1>4 DEF Droid!McpExits, Droid!Register, ChildState
    <2>2. QED
      BY <2>1 DEF RecordKeepsUp, Quiet
  <1>5. ASSUME NEW r \in Launchers \cup {0},
               \/ Droid!createClaim(k, r) \/ Droid!tryAcquire(k) \/ Droid!ScanClaims(k) \/ Droid!LoadSession(k)
               \/ Droid!waitForBinding(k) \/ Droid!LauncherDies(k)
        PROVE  RecordKeepsUp(k)'
    <2>1. Pc(k)' # "ready"
      BY <1>0, <1>5 DEF Droid!createClaim, Droid!tryAcquire, Droid!ScanClaims, Droid!LoadSession, Droid!waitForBinding,
         Droid!LauncherDies, Droid!Goto, LauncherState, Pc
    <2>2. QED
      BY <2>1 DEF RecordKeepsUp, Quiet
  <1>6. CASE Droid!LauncherStops(k)
    <2>1. Pc(k)' # "ready" \/ UNCHANGED <<launcher, claim, mcp, record>>
      BY <1>0, <1>6 DEF Droid!LauncherStops, Droid!Stops, Droid!Goto, LauncherState, Pc
    <2>2. Pc(k) # "ready" \/ Pc(k)' # "ready"
      BY <1>0, <1>6 DEF Droid!LauncherStops, Droid!Stops, Droid!Goto, Droid!At, LauncherState, Pc
    <2>3. QED
      BY <2>1, <2>2 DEF RecordKeepsUp, Quiet, Pc
  <1>7. QED
    BY <1>1, <1>2, <1>3, <1>4, <1>5, <1>6 DEF DroidStep

\* The saved session of launcher j, when another launcher or its child moves: it does
\* not own that session, so only its orphan may write it.
LEMMA RecordOfOthers ==
  ASSUME DInv, NEW k \in Launchers, NEW j \in Launchers, j # k, Pc(j) = "ready", DroidStep(k)
  PROVE  record'[SessionOf(j)] = record[SessionOf(j)] \/ record'[SessionOf(j)].orphan
  <1>0. Droid!TypeOK /\ MustOwn(j)
    BY DEF DInv, MustOwn
  <1>1. /\ SessionOf(j) \in Launchers /\ SessionOf(j) # 0 /\ owner[SessionOf(j)] = j
        /\ record \in [Launchers -> [peer : DroidPeers \cup {0}, orphan : BOOLEAN]]
    BY <1>0, TypeParts DEF DInv, OwnsSession, OthersTyped, LauncherState, SessionOf
  <1>2. CASE Droid!setSessionId(k)
    <2>1. SUFFICES ASSUME Pc(k) = "save" PROVE SessionOf(k) # SessionOf(j)
      BY <1>0, <1>1, <1>2, SetSessionIdSteps
    <2>2. QED
      BY <1>1, <2>1 DEF DInv, OwnsSession, MustOwn
  <1>3. CASE Droid!bindClaim(k)
    <2>1. SUFFICES ASSUME mcp[k].pc = "save", mcp[k].read.session = SessionOf(j)
                   PROVE  record'[SessionOf(j)].orphan
      BY <1>0, <1>1, <1>3, BindClaimSteps
    <2>2. record' = [record EXCEPT ![SessionOf(j)] = [peer |-> mcp[k].peer, orphan |-> ~Droid!Up(k) \/ engine[k] = 0]]
      BY <1>1, <1>3, <2>1, Zenon DEF Droid!bindClaim
    <2>3. SessionOf(k) = SessionOf(j)
      BY <1>1, <2>1 DEF DInv, ClaimsOwn
    <2>4. engine[k] = 0
      <3>1. engine[k] # 0 => engine[k] = SessionOf(k)
        BY DEF DInv, EngineByStep, EngineFits
      <3>2. engine[k] # 0 => owner[engine[k]] = k \/ (engine[k] = k /\ Unnamed(k))
        BY DEF DInv, EngineIsOwned
      <3>3. QED
        BY <1>1, <2>3, <3>1, <3>2 DEF Unnamed
    <2>5. record'[SessionOf(j)].orphan = (~Droid!Up(k) \/ engine[k] = 0)
      BY <1>1, <2>2
    <2>6. QED
      BY <2>4, <2>5
  <1>4. CASE ~Droid!setSessionId(k) /\ ~Droid!bindClaim(k)
    <2>1. UNCHANGED record
      BY <1>4 DEF DroidStep, Droid!createClaim, Droid!tryAcquire, Droid!ScanClaims, Droid!LoadSession, Droid!waitForBinding,
         Droid!LauncherStops, Droid!LauncherDies, Droid!Register, Droid!McpExits, Droid!McpReplaced
    <2>2. QED
      BY <2>1
  <1>5. QED
    BY <1>2, <1>3, <1>4

LEMMA StepClaimInv == DInv /\ ClaimInv /\ [Droid!Next]_droidVars => ClaimInv'
  <1> SUFFICES ASSUME DInv, ClaimInv, [Droid!Next]_droidVars PROVE ClaimInv'
    OBVIOUS
  <1>0. Droid!TypeOK /\ ChildWritesLocked /\ WritesLocked /\ \A j \in Launchers : EngineFits(j)
    BY TypeParts DEF DInv, EngineByStep
  <1>1. ASSUME UNCHANGED droidVars PROVE ClaimInv'
    BY <1>1 DEF droidVars, ClaimInv, BoundOnce, NoLostUpdate, ClaimKeepsUp, RecordKeepsUp, Quiet, Live, Pc, SessionOf
  <1>2. ASSUME NEW k \in Launchers, DroidStep(k) PROVE ClaimInv'
    <2>1. BoundOnce(k) /\ NoLostUpdate(k) /\ ClaimKeepsUp(k) /\ RecordKeepsUp(k)
      BY DEF ClaimInv
    <2>2. BoundOnce(k)' /\ NoLostUpdate(k)' /\ ClaimKeepsUp(k)' /\ RecordKeepsUp(k)'
      BY <1>0, <1>2, <2>1, StepBoundOnce, StepNoLostUpdate, StepClaimKeepsUp, StepRecordKeepsUp
    <2>3. ASSUME NEW j \in Launchers, j # k PROVE (BoundOnce(j) /\ NoLostUpdate(j) /\ ClaimKeepsUp(j) /\ RecordKeepsUp(j))'
      <3>1. /\ launcher'[j] = launcher[j] /\ claim'[j] = claim[j] /\ binding'[j] = binding[j]
            /\ ulock'[j] = ulock[j] /\ engine'[j] = engine[j] /\ mcp'[j] = mcp[j]
        BY <1>0, <1>2, <2>3, OthersStay
      <3>2. BoundOnce(j) /\ NoLostUpdate(j) /\ ClaimKeepsUp(j) /\ RecordKeepsUp(j)
        BY DEF ClaimInv
      <3>3. (BoundOnce(j) /\ NoLostUpdate(j) /\ ClaimKeepsUp(j))'
        BY <3>1, <3>2 DEF BoundOnce, NoLostUpdate, ClaimKeepsUp, Live, Pc, SessionOf
      <3>4. Pc(j) = "ready" => record'[SessionOf(j)] = record[SessionOf(j)] \/ record'[SessionOf(j)].orphan
        BY <1>2, <2>3, RecordOfOthers
      <3>5. RecordKeepsUp(j)'
        BY <3>1, <3>2, <3>4 DEF RecordKeepsUp, Quiet, Pc, SessionOf
      <3>6. QED
        BY <3>3, <3>5
    <2>4. QED
      BY <2>2, <2>3 DEF ClaimInv
  <1>3. QED
    BY <1>1, <1>2, DroidSteps

\* The claim and the saved session of a launcher that is ready name the peer that its
\* child is registered as, once the child is done with it; only an orphan of another
\* launcher may have taken the saved session.
THEOREM ClaimNamesItsPeer == BothSpec => []ClaimNamesPeer
  <1>1. Droid!Init => ClaimInv
    BY DroidAssumption DEF Droid!Init, ClaimInv, BoundOnce, NoLostUpdate, ClaimKeepsUp, RecordKeepsUp, Quiet, Live, Pc, Droid!NoClaim
  <1>2. DInv /\ ClaimInv => ClaimNamesPeer
    <2> SUFFICES ASSUME DInv, ClaimInv, NEW l \in Launchers,
                        Pc(l) = "ready", mcp[l].up, mcp[l].pc = "idle", mcp[l].pid = claim[l].mcp
                 PROVE  /\ claim[l].session = SessionOf(l) /\ claim[l].peer = mcp[l].peer
                        /\ record[SessionOf(l)].peer = mcp[l].peer \/ record[SessionOf(l)].orphan
      BY DEF ClaimNamesPeer, Droid!ClaimNamesPeer, Droid!At, Pc, SessionOf
    <2>1. Live(l)
      BY DEF DInv, EngineByStep, EngineFits, Live
    <2>2. claim[l].session = SessionOf(l) /\ claim[l].peer = mcp[l].peer
      BY <2>1 DEF ClaimInv, NoLostUpdate, ClaimKeepsUp
    <2>3. record[SessionOf(l)].peer = claim[l].peer \/ record[SessionOf(l)].orphan
      BY DEF ClaimInv, RecordKeepsUp, Quiet
    <2>4. QED
      BY <2>2, <2>3
  <1>3. QED
    BY <1>1, <1>2, StepClaimInv, DroidSafety, DroidRuns, PTL

-----------------------------------------------------------------------------
(***************************************************************************)
(* The registry of wakeable sessions                                       *)
(***************************************************************************)

Busy == Waiting \cup Holding

\* Who is between the creation and the removal of the lock file finds it his own.
HoldersOwnLock == \A p \in Procs : pc[p] \in Holding => Exists /\ lock.by = p
OwnerHolds == Exists => pc[lock.by] \in Holding \cup {"dead"}
GuardedByOne == \A p \in Procs : pc[p] \in {"owner", "probe", "drop"} => guard = p

\* A reclaimer that finds the owner dead finds his lock, too.
SeenIsOwner ==
  \A q \in Procs : At(q, "probe") =>
    /\ seen[q] \in Procs /\ pc[seen[q]] # "none"
    /\ pc[seen[q]] = "dead" => Exists /\ lock.by = seen[q]
    /\ seen[q] \in Launched /\ pc[seen[q]] \notin Holding \cup {"dead"} => session[seen[q]].reg # 0

\* What an operation under way is about.
OpFits ==
  \A p \in Procs : pc[p] \in Busy =>
    /\ op[p].kind # "none"
    /\ op[p].kind = "upsert" => /\ p \in Sessions /\ op[p].peer = session[p].peer /\ op[p].peer # 0
                                /\ session[p].reg # session[p].peer
    /\ op[p].kind = "remove" => p \notin Launched /\ op[p].peer \in retired
    /\ op[p].kind = "prune" => p \in Tools

\* What was read under the lock is what is there when it is written.
SnapshotFresh == \A p \in Procs : At(p, "commit") => snapshot[p] = file
Committed == \A p \in Procs : At(p, "release") /\ op[p].kind = "upsert" => Owed(p) \in file

RegistrySafe ==
  HoldersOwnLock /\ OwnerHolds /\ GuardedByOne /\ SeenIsOwner /\ OpFits /\ SnapshotFresh /\ Committed

PeersIssued ==
  /\ registered \in Nat /\ 1 .. registered \subseteq Peers
  /\ \A s \in Sessions :
       /\ session[s].peer \in 0 .. registered /\ session[s].reg \in 0 .. session[s].peer
       /\ pc[s] \in Busy \cup {"idle"} => session[s].peer # 0
       /\ pc[s] \in {"none", "born", "inert"} => session[s].peer = 0
  /\ \A s, t \in Sessions : s # t /\ session[s].peer # 0 => session[s].peer # session[t].peer

\* One child of the launch is live and past the election.
RootOnly == \A c \in Launched : pc[c] \notin {"none", "born", "inert", "dead"} => root = c

\* The children of the launch came with its TUI.
SpawnedOpen == \A c \in Launched : pc[c] # "none" => launch \in {"open", "over"}

\* A session whose peer is registered is listed, until the row is retired.
Row(s) == [peer |-> session[s].peer, thread |-> Thread(s), mcp |-> s]
SavedIsListed ==
  \A s \in Sessions :
    Alive(s) /\ session[s].reg # 0 /\ session[s].reg = session[s].peer =>
      Row(s) \in file \/ session[s].peer \in retired \/ (s \in Launched /\ launch # "open")
WakeableIsSaved == \A s \in Sessions : At(s, "idle") /\ session[s].wakeable => session[s].reg = session[s].peer

-----------------------------------------------------------------------------
(* What a step changes *)

SessionState == [peer : Peers \cup {0}, bind : {"new", "none", "bound", "invalid"}, reg : Peers \cup {0}, wakeable : BOOLEAN]
Steps == {"none", "born", "inert", "join", "idle", "dead"} \cup Waiting \cup Holding

ProcStep(p) ==
  \/ p \in Sessions /\ (Spawn(p) \/ Register(p))
  \/ p \in Launched /\ Elect(p)
  \/ p \in Desktop /\ (observe(p) \/ ObserveOther(p))
  \/ p \in Tools /\ RunTool(p)
  \/ acquireFileLock(p) \/ WriteOwner(p) \/ TakeGuard(p) \/ ReadOwner(p) \/ reclaimDeadLock(p) \/ DropGuard(p)
  \/ readStateFromDisk(p) \/ persistState(p) \/ Release(p) \/ Kill(p)

LEMMA ProcSteps == [Next]_vars => UNCHANGED vars \/ runWakeableLauncher \/ \E p \in Procs : ProcStep(p)
  BY RegistryAssumption DEF Next, ProcStep, Sessions

LEMMA Kinds ==
  /\ Launched \subseteq Sessions /\ Desktop \subseteq Sessions /\ Sessions \subseteq Procs /\ Tools \subseteq Procs
  /\ \A p \in Procs : p \in Sessions \/ p \in Tools
  /\ \A p \in Sessions : p \notin Tools /\ (p \in Launched <=> p \notin Desktop)
  BY RegistryAssumption DEF Sessions

\* The types of the per-process and per-session state.
ProcsTyped ==
  /\ LockTypeOK /\ guard \in Procs \cup {None}
  /\ pc \in [Procs -> Steps] /\ op \in [Procs -> Operation] /\ seen \in [Procs -> Procs \cup {None}]
  /\ snapshot \in [Procs -> SUBSET WakeRegistryEntry]
  /\ session \in [Sessions -> SessionState]

LEMMA Files ==
  ASSUME NEW q \in Procs
  PROVE  /\ File(q, FALSE) # Absent /\ File(q, TRUE) # Absent /\ File(q, FALSE).by = q /\ File(q, TRUE).by = q
         /\ File(q, FALSE) \in [by : Procs, written : BOOLEAN] /\ File(q, TRUE) \in [by : Procs, written : BOOLEAN]
  <1>1. File(q, FALSE) \in [by : Procs, written : BOOLEAN] /\ File(q, TRUE) \in [by : Procs, written : BOOLEAN]
    BY DEF File
  <1>2. File(q, FALSE).by = q /\ File(q, TRUE).by = q
    BY DEF File
  <1>3. QED
    BY <1>1, <1>2, LockFileAssumption

LEMMA Typed == TypeOK => ProcsTyped
  BY DEF TypeOK, ProcsTyped, Steps, SessionState

\* A step of one process leaves the state of the others alone.
LEMMA OthersKeep ==
  ASSUME ProcsTyped, NEW p \in Procs, ProcStep(p)
  PROVE  /\ \A q \in Procs : q # p => pc'[q] = pc[q] /\ op'[q] = op[q] /\ seen'[q] = seen[q] /\ snapshot'[q] = snapshot[q]
         /\ \A s \in Sessions : s # p => session'[s] = session[s]
  <1> DEFINE Same ==
        /\ \A q \in Procs : q # p => pc'[q] = pc[q] /\ op'[q] = op[q] /\ seen'[q] = seen[q] /\ snapshot'[q] = snapshot[q]
        /\ \A s \in Sessions : s # p => session'[s] = session[s]
  <1>0. /\ DOMAIN pc = Procs /\ DOMAIN op = Procs /\ DOMAIN seen = Procs /\ DOMAIN snapshot = Procs
        /\ DOMAIN session = Sessions
        /\ pc \in [Procs -> Steps] /\ op \in [Procs -> Operation] /\ seen \in [Procs -> Procs \cup {None}]
        /\ snapshot \in [Procs -> SUBSET WakeRegistryEntry] /\ session \in [Sessions -> SessionState]
    BY DEF ProcsTyped
  <1>1. ASSUME p \in Sessions, Spawn(p) PROVE Same
    BY <1>1, <1>0 DEF Spawn, registry, Goto, At
  <1>2. ASSUME p \in Sessions, Register(p) PROVE Same
    BY <1>2, <1>0 DEF Register, Begin, registry, Goto, At
  <1>3. ASSUME p \in Launched, Elect(p) PROVE Same
    BY <1>3, <1>0 DEF Elect, registry, Goto, At
  <1>4. ASSUME p \in Desktop, observe(p) PROVE Same
    BY <1>4, <1>0 DEF observe, Begin, registry, Goto, At
  <1>5. ASSUME p \in Desktop, ObserveOther(p) PROVE Same
    BY <1>5, <1>0 DEF ObserveOther, Begin, registry, Goto, At
  <1>6. ASSUME p \in Tools, RunTool(p) PROVE Same
    BY <1>6, <1>0 DEF RunTool, Begin, registry, Goto, At
  <1>7. ASSUME acquireFileLock(p) PROVE Same
    BY <1>7, <1>0 DEF acquireFileLock, CreateExclusive, Exists, Throws, Unheld, registry, Goto, At
  <1>8. ASSUME WriteOwner(p) PROVE Same
    BY <1>8, <1>0 DEF WriteOwner, WriteContent, Unheld, registry, Goto, At
  <1>9. ASSUME TakeGuard(p) PROVE Same
    BY <1>9, <1>0 DEF TakeGuard, Unheld, registry, Goto, At
  <1>10. ASSUME ReadOwner(p) PROVE Same
    BY <1>10, <1>0 DEF ReadOwner, Exists, Unheld, registry, Goto, At
  <1>11. ASSUME reclaimDeadLock(p) PROVE Same
    BY <1>11, <1>0 DEF reclaimDeadLock, RemovePath, Exists, Throws, Unheld, registry, Goto, At
  <1>12. ASSUME DropGuard(p) PROVE Same
    BY <1>12, <1>0 DEF DropGuard, Unheld, registry, Goto, At
  <1>13. ASSUME readStateFromDisk(p) PROVE Same
    BY <1>13, <1>0 DEF readStateFromDisk, registry, Goto, At
  <1>14. ASSUME persistState(p) PROVE Same
    BY <1>14, <1>0 DEF persistState, registry, Goto, At
  <1>15. ASSUME Release(p) PROVE Same
    BY <1>15, <1>0 DEF Release, Exists, RemovePath, Returns, Throws, Unheld, registry, Goto, At
  <1>16. ASSUME Kill(p) PROVE Same
    BY <1>16, <1>0 DEF Kill, Fault, registry, Goto, At
  <1>20. QED
    BY <1>1, <1>2, <1>3, <1>4, <1>5, <1>6, <1>7, <1>8, <1>9, <1>10, <1>11, <1>12, <1>13, <1>14, <1>15, <1>16 DEF ProcStep

\* What a call of a chat says of its own thread.
LEMMA Observes ==
  ASSUME ProcsTyped, NEW p \in Desktop, observe(p)
  PROVE  /\ session'[p].peer = session[p].peer /\ session'[p].reg = session[p].reg
         /\ session'[p].wakeable => session[p].reg = session[p].peer
         /\ UNCHANGED <<pc, op>> \/ (session[p].reg # session[p].peer /\ Begin(p, "upsert", session[p].peer))
  <1>1. p \in Sessions /\ session \in [Sessions -> SessionState] /\ session[p] \in SessionState
    BY Kinds DEF ProcsTyped
  <1>2. PICK b \in IF session[p].bind = "new" THEN {"bound", "none"} ELSE {session[p].bind} :
            LET unsaved == b = "bound" /\ session[p].reg # session[p].peer IN
            /\ IF unsaved THEN Begin(p, "upsert", session[p].peer) ELSE UNCHANGED <<pc, op>>
            /\ session' = [session EXCEPT ![p].bind = b, ![p].wakeable = b = "bound" /\ ~unsaved]
    BY DEF observe
  <1>3. PICK w \in BOOLEAN : w = (b = "bound" /\ ~(b = "bound" /\ session[p].reg # session[p].peer))
    OBVIOUS
  <1>4. session' = [session EXCEPT ![p] = [session[p] EXCEPT !.bind = b, !.wakeable = w]]
    BY <1>1, <1>2, <1>3
  <1>5. session'[p] = [session[p] EXCEPT !.bind = b, !.wakeable = w]
    BY <1>1, <1>4
  <1>6. session'[p].peer = session[p].peer /\ session'[p].reg = session[p].reg /\ session'[p].wakeable = w
    BY <1>1, <1>5 DEF SessionState
  <1>7. w => session[p].reg = session[p].peer
    BY <1>3
  <1>8. UNCHANGED <<pc, op>> \/ (session[p].reg # session[p].peer /\ Begin(p, "upsert", session[p].peer))
    BY <1>2
  <1>9. QED
    BY <1>6, <1>7, <1>8

LEMMA StepHolders ==
  ASSUME ProcsTyped, RegistrySafe, NEW p \in Procs, ProcStep(p)
  PROVE  HoldersOwnLock' /\ OwnerHolds' /\ GuardedByOne'
  <1>0. /\ LockTypeOK /\ pc \in [Procs -> Steps] /\ HoldersOwnLock /\ OwnerHolds /\ GuardedByOne /\ SeenIsOwner
        /\ p \in Procs /\ p # None /\ None \notin Procs
    BY RegistryAssumption DEF ProcsTyped, RegistrySafe
  <1> USE DEF LockTypeOK, HoldersOwnLock, OwnerHolds, GuardedByOne, Holding, Waiting, Steps, Exists
  <1>1. ASSUME p \in Sessions, Spawn(p) PROVE HoldersOwnLock' /\ OwnerHolds' /\ GuardedByOne'
    BY <1>1, <1>0, Kinds DEF Spawn, registry, Goto, At
  <1>2. ASSUME p \in Sessions, Register(p) PROVE HoldersOwnLock' /\ OwnerHolds' /\ GuardedByOne'
    BY <1>2, <1>0, Kinds DEF Register, Begin, registry, Goto, At
  <1>3. ASSUME p \in Launched, Elect(p) PROVE HoldersOwnLock' /\ OwnerHolds' /\ GuardedByOne'
    BY <1>3, <1>0, Kinds DEF Elect, registry, Goto, At
  <1>4. ASSUME p \in Desktop, observe(p) PROVE HoldersOwnLock' /\ OwnerHolds' /\ GuardedByOne'
    BY <1>4, <1>0, Kinds DEF observe, Begin, registry, Goto, At
  <1>5. ASSUME p \in Desktop, ObserveOther(p) PROVE HoldersOwnLock' /\ OwnerHolds' /\ GuardedByOne'
    BY <1>5, <1>0, Kinds DEF ObserveOther, Begin, registry, Goto, At
  <1>6. ASSUME p \in Tools, RunTool(p) PROVE HoldersOwnLock' /\ OwnerHolds' /\ GuardedByOne'
    BY <1>6, <1>0, Kinds DEF RunTool, Begin, registry, Goto, At
  <1>7. ASSUME acquireFileLock(p) PROVE HoldersOwnLock' /\ OwnerHolds' /\ GuardedByOne'
    <2>1. CASE CreateExclusive(p) /\ Goto(p, "write") /\ UNCHANGED guard
      <3>1. lock' = File(p, FALSE) /\ File(p, FALSE) # Absent /\ File(p, FALSE).by = p
        BY <1>0, <2>1, Files DEF CreateExclusive
      <3>2. \A q \in Procs : pc[q] \notin Holding
        BY <1>0, <2>1 DEF CreateExclusive
      <3>3. QED
        BY <1>0, <2>1, <3>1, <3>2 DEF Goto
    <2>2. CASE UNCHANGED <<lock, guard>> /\ \E l \in {"guard", "inert", "idle", "dead", "join"} : Goto(p, l) /\ At(p, "create")
      BY <1>0, <2>2 DEF Goto, At
    <2>3. QED
      BY <1>7, <2>1, <2>2 DEF acquireFileLock, Throws
  <1>8. ASSUME WriteOwner(p) PROVE HoldersOwnLock' /\ OwnerHolds' /\ GuardedByOne'
    <2>1. lock.by = p /\ lock # Absent /\ pc' = [pc EXCEPT ![p] = "read"] /\ guard' = guard
      BY <1>0, <1>8 DEF WriteOwner, Goto, At, Unheld
    <2>2. lock' # Absent /\ lock'.by = p
      BY <1>0, <1>8, <2>1, Files DEF WriteOwner, WriteContent
    <2>3. QED
      BY <1>0, <2>1, <2>2
  <1>9. ASSUME TakeGuard(p) PROVE HoldersOwnLock' /\ OwnerHolds' /\ GuardedByOne'
    <2>1. UNCHANGED lock /\ At(p, "guard")
      BY <1>9 DEF TakeGuard
    <2>2. CASE guard = None /\ guard' = p /\ Goto(p, "owner")
      BY <1>0, <2>1, <2>2 DEF Goto, At
    <2>3. CASE guard' = guard /\ Goto(p, "create")
      BY <1>0, <2>1, <2>3 DEF Goto, At
    <2>4. QED
      BY <1>9, <2>2, <2>3 DEF TakeGuard
  <1>10. ASSUME ReadOwner(p) PROVE HoldersOwnLock' /\ OwnerHolds' /\ GuardedByOne'
    BY <1>10, <1>0, Kinds DEF ReadOwner, Exists, Unheld, registry, Goto, At
  <1>11. ASSUME reclaimDeadLock(p) PROVE HoldersOwnLock' /\ OwnerHolds' /\ GuardedByOne'
    <2>1. At(p, "probe") /\ guard = p
      BY <1>0, <1>11 DEF reclaimDeadLock, At
    <2>2. CASE UNCHANGED <<lock, guard>> /\ Goto(p, "drop")
      BY <1>0, <2>1, <2>2 DEF Goto, At
    <2>3. CASE ~Alive(seen[p]) /\ lock' = Absent /\ Goto(p, "drop") /\ guard' = guard
      \* The owner that was seen is dead, and its lock is the one at the path.
      <3>1. pc[seen[p]] = "dead" /\ lock.by = seen[p]
        BY <2>1, <2>3 DEF RegistrySafe, SeenIsOwner, Alive
      <3>2. \A q \in Procs : pc[q] \notin Holding
        BY <1>0, <3>1
      <3>3. QED
        BY <1>0, <2>1, <2>3, <3>2 DEF Goto, At
    <2>4. CASE UNCHANGED lock /\ guard' = None /\ \E l \in {"inert", "idle", "dead", "join"} : Goto(p, l)
      <3>1. PICK l \in {"inert", "idle", "dead", "join"} : pc' = [pc EXCEPT ![p] = l]
        BY <2>4 DEF Goto
      <3>2. \A q \in Procs : q # p => pc[q] \notin {"owner", "probe", "drop"}
        BY <1>0, <2>1
      <3>3. QED
        BY <1>0, <2>1, <2>4, <3>1, <3>2 DEF At
    <2>5. QED
      BY <1>11, <2>2, <2>3, <2>4 DEF reclaimDeadLock, Throws, RemovePath
  <1>12. ASSUME DropGuard(p) PROVE HoldersOwnLock' /\ OwnerHolds' /\ GuardedByOne'
    BY <1>12, <1>0, Kinds DEF DropGuard, Unheld, registry, Goto, At
  <1>13. ASSUME readStateFromDisk(p) PROVE HoldersOwnLock' /\ OwnerHolds' /\ GuardedByOne'
    BY <1>13, <1>0, Kinds DEF readStateFromDisk, registry, Goto, At
  <1>14. ASSUME persistState(p) PROVE HoldersOwnLock' /\ OwnerHolds' /\ GuardedByOne'
    BY <1>14, <1>0, Kinds DEF persistState, registry, Goto, At
  <1>15. ASSUME Release(p) PROVE HoldersOwnLock' /\ OwnerHolds' /\ GuardedByOne'
    BY <1>15, <1>0, Kinds DEF Release, Exists, RemovePath, Returns, Throws, Unheld, registry, Goto, At
  <1>16. ASSUME Kill(p) PROVE HoldersOwnLock' /\ OwnerHolds' /\ GuardedByOne'
    BY <1>16, <1>0, Kinds DEF Kill, Fault, registry, Goto, At
  <1>20. QED
    BY <1>1, <1>2, <1>3, <1>4, <1>5, <1>6, <1>7, <1>8, <1>9, <1>10, <1>11, <1>12, <1>13, <1>14, <1>15, <1>16 DEF ProcStep

\* What a step of p does to the lock, the file and p itself, as far as others rely on it.
Effect(p) ==
  /\ pc[p] # "dead" /\ pc'[p] # "none"
  /\ lock' # lock => ~Exists \/ lock.by = p \/ pc[p] = "probe"
  /\ file' # file => pc[p] = "commit"
  /\ retired \subseteq retired'
  /\ pc'[p] = "probe" => pc[p] = "owner" /\ Exists /\ lock' = lock /\ seen'[p] = lock.by
  /\ pc'[p] = "dead" =>
       \/ pc[p] \in Holding /\ lock' = lock
       \/ p \in Launched /\ pc[p] \notin Holding /\ session[p].reg = 0
       \/ \A q \in Procs : pc[q] = "probe" => seen[q] # p
  /\ p \in Launched /\ pc'[p] \notin Holding \cup {"dead"} /\ (pc[p] \in Holding \/ session[p].reg # 0) => session'[p].reg # 0

LEMMA OpTyped == ASSUME ProcsTyped, NEW p \in Procs PROVE op[p].kind \in {"none", "upsert", "remove", "prune"}
  BY DEF ProcsTyped, Operation

LEMMA Effects ==
  ASSUME ProcsTyped, RegistrySafe, ~QuickExits, NEW p \in Procs, ProcStep(p)
  PROVE  Effect(p)
  <1>0. /\ LockTypeOK /\ pc \in [Procs -> Steps] /\ op \in [Procs -> Operation] /\ seen \in [Procs -> Procs \cup {None}]
        /\ snapshot \in [Procs -> SUBSET WakeRegistryEntry] /\ session \in [Sessions -> SessionState] /\ p \in Procs
        /\ HoldersOwnLock /\ OwnerHolds /\ GuardedByOne /\ SeenIsOwner /\ OpFits
    BY DEF ProcsTyped, RegistrySafe
  <1> USE DEF Effect, Holding, Waiting, Steps, Exists
  <1>1. ASSUME p \in Sessions, Spawn(p) PROVE Effect(p)
    BY <1>1, <1>0, Kinds DEF Spawn, registry, Goto, At, SessionState
  <1>2. ASSUME p \in Sessions, Register(p) PROVE Effect(p)
    BY <1>2, <1>0, Kinds DEF Register, Begin, registry, Goto, At, SessionState
  <1>3. ASSUME p \in Launched, Elect(p) PROVE Effect(p)
    BY <1>3, <1>0, Kinds DEF Elect, registry, Goto, At, SessionState
  <1>4. ASSUME p \in Desktop, observe(p) PROVE Effect(p)
    BY <1>4, <1>0, Kinds DEF observe, Begin, registry, Goto, At, SessionState
  <1>5. ASSUME p \in Desktop, ObserveOther(p) PROVE Effect(p)
    BY <1>5, <1>0, Kinds DEF ObserveOther, Begin, registry, Goto, At, SessionState
  <1>6. ASSUME p \in Tools, RunTool(p) PROVE Effect(p)
    BY <1>6, <1>0, Kinds DEF RunTool, Begin, registry, Goto, At, SessionState
  <1>7. ASSUME acquireFileLock(p) PROVE Effect(p)
    <2>1. At(p, "create") /\ file' = file /\ pc[p] = "create" /\ retired' = retired /\ (lock' = lock \/ ~Exists)
      BY <1>7 DEF acquireFileLock, At, CreateExclusive, Unheld
    <2>2. CASE CreateExclusive(p) /\ Goto(p, "write") /\ UNCHANGED <<op, session>>
      BY <1>0, <2>1, <2>2 DEF Goto
    <2>3. CASE Exists /\ Goto(p, "guard") /\ UNCHANGED <<lock, op, session>>
      BY <1>0, <2>1, <2>3 DEF Goto
    <2>4. CASE Throws(p) /\ UNCHANGED lock
      <3>1. /\ p \in Tools => pc'[p] = "inert"
            /\ p \in Desktop => pc'[p] = "idle"
            /\ p \in Launched => session' = session /\ pc'[p] = IF session[p].reg = 0 THEN "dead" ELSE "join"
        BY <1>0, <2>4, Kinds DEF Throws, Goto
      <3>2. QED
        BY <1>0, <2>1, <3>1, <2>4, Kinds
    <2>5. QED
      BY <1>7, <2>2, <2>3, <2>4 DEF acquireFileLock
  <1>8. ASSUME WriteOwner(p) PROVE Effect(p)
    <2>1. pc[p] = "write" /\ lock.by = p
      BY <1>0, <1>8 DEF WriteOwner, At, HoldersOwnLock
    <2>2. pc' = [pc EXCEPT ![p] = "read"] /\ UNCHANGED <<op, session, file, retired>>
      BY <1>8 DEF WriteOwner, Goto, Unheld
    <2>3. QED
      BY <1>0, <2>1, <2>2
  <1>9. ASSUME TakeGuard(p) PROVE Effect(p)
    BY <1>9, <1>0, Kinds DEF TakeGuard, Unheld, registry, Goto, At, SessionState
  <1>10. ASSUME ReadOwner(p) PROVE Effect(p)
    <2>1. /\ pc[p] = "owner" /\ UNCHANGED <<lock, op, session, file, retired>>
      BY <1>10 DEF ReadOwner, At, Unheld
    <2>2. CASE Exists /\ seen' = [seen EXCEPT ![p] = lock.by] /\ Goto(p, "probe")
      BY <1>0, <2>1, <2>2 DEF Goto
    <2>3. CASE Goto(p, "drop")
      BY <1>0, <2>1, <2>3 DEF Goto
    <2>4. QED
      BY <1>10, <2>2, <2>3 DEF ReadOwner
  <1>11. ASSUME reclaimDeadLock(p) PROVE Effect(p)
    <2>1. At(p, "probe") /\ file' = file /\ pc[p] = "probe" /\ retired' = retired
      BY <1>11 DEF reclaimDeadLock, At, Unheld
    <2>2. CASE Goto(p, "drop") /\ UNCHANGED <<op, session>>
      BY <1>0, <2>1, <2>2 DEF Goto
    <2>3. CASE Throws(p) /\ UNCHANGED lock
      <3>1. /\ p \in Tools => pc'[p] = "inert"
            /\ p \in Desktop => pc'[p] = "idle"
            /\ p \in Launched => session' = session /\ pc'[p] = IF session[p].reg = 0 THEN "dead" ELSE "join"
        BY <1>0, <2>3, Kinds DEF Throws, Goto
      <3>2. QED
        BY <1>0, <2>1, <3>1, <2>3, Kinds
    <2>4. QED
      BY <1>11, <2>2, <2>3 DEF reclaimDeadLock
  <1>12. ASSUME DropGuard(p) PROVE Effect(p)
    BY <1>12, <1>0, Kinds DEF DropGuard, Unheld, registry, Goto, At, SessionState
  <1>13. ASSUME readStateFromDisk(p) PROVE Effect(p)
    BY <1>13, <1>0, Kinds DEF readStateFromDisk, registry, Goto, At, SessionState
  <1>14. ASSUME persistState(p) PROVE Effect(p)
    BY <1>14, <1>0, Kinds DEF persistState, registry, Goto, At, SessionState
  <1>15. ASSUME Release(p) PROVE Effect(p)
    <2>0. pc[p] = "release" /\ Exists /\ lock.by = p
      BY <1>0, <1>15 DEF Release, At, HoldersOwnLock
    <2>1. /\ pc[p] = "release" /\ file' = file /\ retired' = retired /\ lock.by = p
          /\ Returns(p)
      BY <2>0, <1>15 DEF Release, Unheld
    <2>2. p \in Launched => op[p].kind = "upsert" /\ op[p].peer # 0
      BY <1>0, <2>1, Kinds, OpTyped DEF OpFits, Busy
    <2>3. p \in Sessions => session'[p].reg = IF op[p].kind = "upsert" THEN op[p].peer ELSE 0
      BY <1>0, <2>1 DEF Returns, SessionState
    <2>4. pc'[p] \in {"idle", "inert"}
      BY <1>0, <2>1 DEF Returns, Goto
    <2>5. QED
      BY <1>0, <2>1, <2>2, <2>3, <2>4, Kinds
  <1>16. ASSUME Kill(p) PROVE Effect(p)
    <2>1. /\ pc[p] \notin {"none", "dead"} /\ pc' = [pc EXCEPT ![p] = "dead"]
          /\ UNCHANGED <<lock, file, session, retired>>
      BY <1>16 DEF Kill, Alive, Goto
    <2>2. pc[p] \in Holding \/ \A q \in Procs : pc[q] = "probe" => seen[q] # p
      BY <1>16 DEF Kill, At
    <2>3. QED
      BY <1>0, <2>1, <2>2
  <1>20. QED
    BY <1>1, <1>2, <1>3, <1>4, <1>5, <1>6, <1>7, <1>8, <1>9, <1>10, <1>11, <1>12, <1>13, <1>14, <1>15, <1>16 DEF ProcStep

\* Two processes in the critical section are one.
LEMMA OneHolder == ASSUME HoldersOwnLock, NEW p \in Procs, NEW q \in Procs, pc[p] \in Holding, pc[q] \in Holding PROVE p = q
  BY DEF HoldersOwnLock

LEMMA StepSeen ==
  ASSUME ProcsTyped, RegistrySafe, ~QuickExits, NEW p \in Procs, ProcStep(p)
  PROVE  SeenIsOwner'
  <1>0. /\ HoldersOwnLock /\ OwnerHolds /\ GuardedByOne /\ SeenIsOwner /\ Effect(p)
        /\ \A q \in Procs : q # p => pc'[q] = pc[q] /\ seen'[q] = seen[q]
        /\ \A s \in Sessions : s # p => session'[s] = session[s]
    BY Effects, OthersKeep DEF RegistrySafe
  <1> SUFFICES ASSUME NEW q \in Procs, pc'[q] = "probe"
               PROVE  /\ seen'[q] \in Procs /\ pc'[seen'[q]] # "none"
                      /\ pc'[seen'[q]] = "dead" => Exists' /\ lock'.by = seen'[q]
                      /\ seen'[q] \in Launched /\ pc'[seen'[q]] \notin Holding \cup {"dead"} => session'[seen'[q]].reg # 0
    BY DEF SeenIsOwner, At
  <1>1. CASE q = p
    \* p has just read the owner, who had the lock or had died with it.
    <2>1. pc[p] = "owner" /\ Exists /\ lock' = lock /\ seen'[p] = lock.by
      BY <1>0, <1>1 DEF Effect
    <2>2. lock.by \in Procs /\ pc[lock.by] \in Holding \cup {"dead"} /\ lock.by # p
      BY <1>0, <2>1 DEF OwnerHolds, ProcsTyped, LockTypeOK, Exists, Holding
    <2>3. pc'[lock.by] = pc[lock.by]
      BY <1>0, <2>2
    <2>4. QED
      BY <1>1, <2>1, <2>2, <2>3 DEF Exists, Holding
  <1>2. CASE q # p
    <2>0. /\ pc[q] = "probe" /\ seen'[q] = seen[q] /\ seen[q] \in Procs /\ pc[seen[q]] # "none"
          /\ pc[seen[q]] = "dead" => Exists /\ lock.by = seen[q]
          /\ seen[q] \in Launched /\ pc[seen[q]] \notin Holding \cup {"dead"} => session[seen[q]].reg # 0
      BY <1>0, <1>2 DEF SeenIsOwner, At
    <2>1. pc[p] # "probe"
      BY <1>0, <1>2, <2>0 DEF GuardedByOne
    <2>2. CASE seen[q] = p
      <3>1. pc'[p] = "dead" => pc[p] \in Holding /\ lock' = lock /\ Exists /\ lock.by = p
        BY <1>0, <2>0, <2>2 DEF Effect, HoldersOwnLock
      <3>2. p \in Launched /\ pc'[p] \notin Holding \cup {"dead"} => session'[p].reg # 0
        BY <1>0, <2>0, <2>2 DEF Effect
      <3>3. pc'[p] # "none"
        BY <1>0 DEF Effect
      <3>4. QED
        BY <2>0, <2>2, <3>1, <3>2, <3>3 DEF Exists
    <2>3. CASE seen[q] # p
      <3>1. pc'[seen[q]] = pc[seen[q]]
        BY <1>0, <2>0, <2>3
      <3>2. seen[q] \in Launched => session'[seen[q]] = session[seen[q]]
        BY <1>0, <2>3, Kinds
      <3>3. pc[seen[q]] = "dead" => lock' = lock
        BY <1>0, <2>0, <2>1, <2>3 DEF Effect
      <3>4. QED
        BY <2>0, <3>1, <3>2, <3>3 DEF Exists
    <2>4. QED
      BY <2>2, <2>3
  <1>3. QED
    BY <1>1, <1>2

\* The operation of a session that is under way, and what its holder has read and written.
OpOK(p) ==
  pc[p] \in Busy =>
    /\ op[p].kind # "none"
    /\ op[p].kind = "upsert" => /\ p \in Sessions /\ op[p].peer = session[p].peer /\ op[p].peer # 0
                                /\ session[p].reg # session[p].peer
    /\ op[p].kind = "remove" => p \notin Launched /\ op[p].peer \in retired
    /\ op[p].kind = "prune" => p \in Tools

LEMMA StepOp ==
  ASSUME ProcsTyped, OpFits, PeersIssued, NEW p \in Procs, ProcStep(p)
  PROVE  OpOK(p)'
  <1>0. /\ pc \in [Procs -> Steps] /\ op \in [Procs -> Operation] /\ session \in [Sessions -> SessionState]
        /\ p \in Procs /\ OpOK(p) /\ registered \in Nat
        /\ p \in Sessions => session[p].peer \in 0 .. registered /\ session[p].reg \in 0 .. session[p].peer
        /\ p \in Sessions /\ pc[p] = "idle" => session[p].peer # 0
    BY DEF ProcsTyped, OpFits, OpOK, PeersIssued, Busy
  <1> USE DEF OpOK, Busy, Holding, Waiting, Steps
  <1>1. ASSUME p \in Sessions, Spawn(p) PROVE OpOK(p)'
    BY <1>1, <1>0, Kinds DEF Spawn, registry, Goto, At
  <1>2. ASSUME p \in Sessions, Register(p) PROVE OpOK(p)'
    <2>1. CASE Begin(p, "upsert", registered + 1) /\ session' = [session EXCEPT ![p].peer = registered + 1]
      <3>1. session'[p].peer = registered + 1 /\ session'[p].reg = session[p].reg
        BY <1>0, <2>1, <1>2 DEF SessionState
      <3>2. op'[p].kind = "upsert" /\ op'[p].peer = registered + 1
        BY <1>0, <2>1 DEF Begin
      <3>3. session[p].reg # registered + 1 /\ registered + 1 # 0
        BY <1>0, <1>2
      <3>4. QED
        BY <1>2, <3>1, <3>2, <3>3
    <2>2. CASE Goto(p, "idle")
      BY <1>0, <2>2 DEF Goto
    <2>3. QED
      BY <1>2, <2>1, <2>2 DEF Register
  <1>3. ASSUME p \in Launched, Elect(p) PROVE OpOK(p)'
    BY <1>3, <1>0, Kinds DEF Elect, registry, Goto, At
  <1>4. ASSUME p \in Desktop, observe(p) PROVE OpOK(p)'
    <2>1. pc[p] = "idle" /\ retired' = retired
      BY <1>4 DEF observe, At
    <2>3. /\ session'[p].peer = session[p].peer /\ session'[p].reg = session[p].reg
          /\ UNCHANGED <<pc, op>> \/ (session[p].reg # session[p].peer /\ Begin(p, "upsert", session[p].peer))
      BY <1>4, Observes
    <2>4. CASE UNCHANGED <<pc, op>>
      BY <1>0, <2>1, <2>3, <2>4
    <2>5. CASE session[p].reg # session[p].peer /\ Begin(p, "upsert", session[p].peer)
      BY <1>0, <2>3, <2>5, <1>4, Kinds DEF Begin, Goto
    <2>6. QED
      BY <2>3, <2>4, <2>5
  <1>5. ASSUME p \in Desktop, ObserveOther(p) PROVE OpOK(p)'
    <2>1. pc[p] = "idle" /\ retired' = retired \cup ({session[p].reg} \ {0})
      BY <1>5 DEF ObserveOther, At
    <2>2. CASE pc' = pc
      BY <1>0, <2>1, <2>2
    <2>3. CASE session[p].reg # 0 /\ Begin(p, "remove", session[p].reg)
      BY <1>0, <2>1, <2>3, <1>5, Kinds DEF Begin, Goto
    <2>4. QED
      BY <1>5, <2>2, <2>3 DEF ObserveOther
  <1>6. ASSUME p \in Tools, RunTool(p) PROVE OpOK(p)'
    BY <1>6, <1>0, Kinds DEF RunTool, Begin, registry, Goto, At
  <1>7. ASSUME acquireFileLock(p) PROVE OpOK(p)'
    <2>1. pc[p] = "create" /\ retired' = retired
      BY <1>7 DEF acquireFileLock, At, Unheld
    <2>2. CASE UNCHANGED <<op, session>>
      BY <1>0, <2>1, <2>2
    <2>3. CASE Throws(p)
      <3>1. pc'[p] \in {"inert", "idle", "dead", "join"}
        BY <1>0, <2>3 DEF Throws, Goto
      <3>2. QED
        BY <3>1
    <2>4. QED
      BY <1>7, <2>2, <2>3 DEF acquireFileLock
  <1>8. ASSUME WriteOwner(p) PROVE OpOK(p)'
    <2>1. pc[p] = "write" /\ UNCHANGED <<op, session, retired>>
      BY <1>8 DEF WriteOwner, At, Unheld, registry
    <2>2. QED
      BY <1>0, <2>1
  <1>9. ASSUME TakeGuard(p) PROVE OpOK(p)'
    <2>1. pc[p] = "guard" /\ UNCHANGED <<op, session, retired>>
      BY <1>9 DEF TakeGuard, At, Unheld, registry
    <2>2. QED
      BY <1>0, <2>1
  <1>10. ASSUME ReadOwner(p) PROVE OpOK(p)'
    <2>1. pc[p] = "owner" /\ UNCHANGED <<op, session, retired>>
      BY <1>10 DEF ReadOwner, At, Unheld, registry
    <2>2. QED
      BY <1>0, <2>1
  <1>11. ASSUME reclaimDeadLock(p) PROVE OpOK(p)'
    <2>1. pc[p] = "probe" /\ retired' = retired
      BY <1>11 DEF reclaimDeadLock, At, Unheld
    <2>2. CASE UNCHANGED <<op, session>>
      BY <1>0, <2>1, <2>2
    <2>3. CASE Throws(p)
      <3>1. pc'[p] \in {"inert", "idle", "dead", "join"}
        BY <1>0, <2>3 DEF Throws, Goto
      <3>2. QED
        BY <3>1
    <2>4. QED
      BY <1>11, <2>2, <2>3 DEF reclaimDeadLock
  <1>12. ASSUME DropGuard(p) PROVE OpOK(p)'
    <2>1. pc[p] = "drop" /\ UNCHANGED <<op, session, retired>>
      BY <1>12 DEF DropGuard, At, Unheld, registry
    <2>2. QED
      BY <1>0, <2>1
  <1>13. ASSUME readStateFromDisk(p) PROVE OpOK(p)'
    <2>1. pc[p] = "read" /\ UNCHANGED <<op, session, retired>>
      BY <1>13 DEF readStateFromDisk, At, Unheld, registry
    <2>2. QED
      BY <1>0, <2>1
  <1>14. ASSUME persistState(p) PROVE OpOK(p)'
    <2>1. pc[p] = "commit" /\ UNCHANGED <<op, session, retired>>
      BY <1>14 DEF persistState, At, Unheld, registry
    <2>2. QED
      BY <1>0, <2>1
  <1>15. ASSUME Release(p) PROVE OpOK(p)'
    <2>1. pc'[p] \in {"inert", "idle", "dead", "join"}
      BY <1>0, <1>15 DEF Release, Throws, Returns, Goto
    <2>2. QED
      BY <2>1
  <1>16. ASSUME Kill(p) PROVE OpOK(p)'
    <2>1. pc'[p] = "dead"
      BY <1>0, <1>16 DEF Kill, Goto
    <2>2. QED
      BY <2>1
  <1>20. QED
    BY <1>1, <1>2, <1>3, <1>4, <1>5, <1>6, <1>7, <1>8, <1>9, <1>10, <1>11, <1>12, <1>13, <1>14, <1>15, <1>16 DEF ProcStep

\* What the holder of the lock has read and written.
Reads(p) ==
  /\ pc'[p] = "commit" => snapshot'[p] = file /\ file' = file
  /\ pc'[p] = "release" /\ op'[p].kind = "upsert" => [peer |-> op'[p].peer, thread |-> Thread(p), mcp |-> p] \in file'

LEMMA ReadsFresh ==
  ASSUME ProcsTyped, NEW p \in Procs, ProcStep(p)
  PROVE  Reads(p)
  <1>0. /\ pc \in [Procs -> Steps] /\ op \in [Procs -> Operation] /\ snapshot \in [Procs -> SUBSET WakeRegistryEntry] /\ p \in Procs
    BY DEF ProcsTyped
  <1> USE DEF Reads
  <1>1. ASSUME p \in Sessions, Spawn(p) PROVE Reads(p)
    BY <1>1, <1>0, Kinds DEF Spawn, registry, Goto, At
  <1>2. ASSUME p \in Sessions, Register(p) PROVE Reads(p)
    BY <1>2, <1>0, Kinds DEF Register, Begin, registry, Goto, At
  <1>3. ASSUME p \in Launched, Elect(p) PROVE Reads(p)
    BY <1>3, <1>0, Kinds DEF Elect, registry, Goto, At
  <1>4. ASSUME p \in Desktop, observe(p) PROVE Reads(p)
    <2>1. (pc' = pc /\ At(p, "idle")) \/ pc'[p] = "create"
      BY <1>0, <1>4, Observes DEF Begin, Goto, observe
    <2>2. QED
      BY <2>1 DEF At
  <1>5. ASSUME p \in Desktop, ObserveOther(p) PROVE Reads(p)
    BY <1>5, <1>0, Kinds DEF ObserveOther, Begin, registry, Goto, At
  <1>6. ASSUME p \in Tools, RunTool(p) PROVE Reads(p)
    BY <1>6, <1>0, Kinds DEF RunTool, Begin, registry, Goto, At
  <1>7. ASSUME acquireFileLock(p) PROVE Reads(p)
    <2>1. pc[p] = "create"
      BY <1>7 DEF acquireFileLock, At
    <2>2. pc'[p] \in {"write", "guard", "drop", "inert", "idle", "dead", "join"}
      BY <1>0, <1>7 DEF acquireFileLock, Throws, Returns, Goto
    <2>3. QED
      BY <1>0, <2>1, <2>2
  <1>8. ASSUME WriteOwner(p) PROVE Reads(p)
    BY <1>8, <1>0, Kinds DEF WriteOwner, WriteContent, Unheld, registry, Goto, At
  <1>9. ASSUME TakeGuard(p) PROVE Reads(p)
    BY <1>9, <1>0, Kinds DEF TakeGuard, Unheld, registry, Goto, At
  <1>10. ASSUME ReadOwner(p) PROVE Reads(p)
    BY <1>10, <1>0, Kinds DEF ReadOwner, Exists, Unheld, registry, Goto, At
  <1>11. ASSUME reclaimDeadLock(p) PROVE Reads(p)
    <2>1. pc[p] = "probe"
      BY <1>11 DEF reclaimDeadLock, At
    <2>2. pc'[p] \in {"write", "guard", "drop", "inert", "idle", "dead", "join"}
      BY <1>0, <1>11 DEF reclaimDeadLock, Throws, Returns, Goto
    <2>3. QED
      BY <1>0, <2>1, <2>2
  <1>12. ASSUME DropGuard(p) PROVE Reads(p)
    BY <1>12, <1>0, Kinds DEF DropGuard, Unheld, registry, Goto, At
  <1>13. ASSUME readStateFromDisk(p) PROVE Reads(p)
    BY <1>13, <1>0, Kinds DEF readStateFromDisk, registry, Goto, At
  <1>14. ASSUME persistState(p) PROVE Reads(p)
    <2>1. PICK kept \in Kept(p) :
            file' = IF op[p].kind = "upsert" THEN kept \cup {[peer |-> op[p].peer, thread |-> Thread(p), mcp |-> p]} ELSE kept
      BY <1>14 DEF persistState
    <2>2. op' = op /\ pc'[p] = "release"
      BY <1>0, <1>14 DEF persistState, Goto
    <2>3. QED
      BY <2>1, <2>2
  <1>15. ASSUME Release(p) PROVE Reads(p)
    <2>1. pc[p] = "release"
      BY <1>15 DEF Release, At
    <2>2. pc'[p] \in {"write", "guard", "drop", "inert", "idle", "dead", "join"}
      BY <1>0, <1>15 DEF Release, Throws, Returns, Goto
    <2>3. QED
      BY <1>0, <2>1, <2>2
  <1>16. ASSUME Kill(p) PROVE Reads(p)
    BY <1>16, <1>0, Kinds DEF Kill, Fault, registry, Goto, At
  <1>20. QED
    BY <1>1, <1>2, <1>3, <1>4, <1>5, <1>6, <1>7, <1>8, <1>9, <1>10, <1>11, <1>12, <1>13, <1>14, <1>15, <1>16 DEF ProcStep

LEMMA StepRegistrySafe ==
  ASSUME ProcsTyped, RegistrySafe, PeersIssued, ~QuickExits, NEW p \in Procs, ProcStep(p)
  PROVE  RegistrySafe'
  <1>0. /\ HoldersOwnLock /\ OpFits /\ SnapshotFresh /\ Committed /\ Effect(p) /\ Reads(p) /\ OpOK(p)'
        /\ \A q \in Procs : q # p => pc'[q] = pc[q] /\ op'[q] = op[q] /\ snapshot'[q] = snapshot[q]
        /\ \A s \in Sessions : s # p => session'[s] = session[s]
    BY Effects, ReadsFresh, StepOp, OthersKeep DEF RegistrySafe
  <1>1. HoldersOwnLock' /\ OwnerHolds' /\ GuardedByOne' /\ SeenIsOwner'
    BY StepHolders, StepSeen
  <1>2. OpFits'
    <2> SUFFICES ASSUME NEW q \in Procs PROVE OpOK(q)'
      BY DEF OpFits, OpOK
    <2>1. CASE q # p
      <3>1. OpOK(q)
        BY <1>0 DEF OpFits, OpOK
      <3>2. pc'[q] = pc[q] /\ op'[q] = op[q] /\ (q \in Sessions => session'[q] = session[q])
        BY <1>0, <2>1
      <3>3. retired \subseteq retired'
        BY <1>0 DEF Effect
      <3>4. QED
        BY <3>1, <3>2, <3>3 DEF OpOK
    <2>2. QED
      BY <1>0, <2>1
  <1>3. ASSUME NEW q \in Procs, q # p, pc[q] \in Holding
        PROVE  file' = file
    BY <1>0, <1>3, OneHolder DEF Effect, Holding
  <1>4. SnapshotFresh'
    <2> SUFFICES ASSUME NEW q \in Procs, pc'[q] = "commit" PROVE snapshot'[q] = file'
      BY DEF SnapshotFresh, At
    <2>1. CASE q # p
      BY <1>0, <1>3, <2>1 DEF SnapshotFresh, At, Holding
    <2>2. QED
      BY <1>0, <2>1 DEF Reads
  <1>5. Committed'
    <2> SUFFICES ASSUME NEW q \in Procs, pc'[q] = "release", op'[q].kind = "upsert"
                 PROVE  [peer |-> op'[q].peer, thread |-> Thread(q), mcp |-> q] \in file'
      BY DEF Committed, At, Owed
    <2>1. CASE q # p
      BY <1>0, <1>3, <2>1 DEF Committed, At, Holding, Owed
    <2>2. QED
      BY <1>0, <2>1 DEF Reads
  <1>6. QED
    BY <1>1, <1>2, <1>4, <1>5 DEF RegistrySafe

\* How a step of p changes its own entry in the books of the sessions, and the root.
Inactive == {"none", "born", "inert", "dead"}
Ledger(p) ==
  /\ launch' = launch
  /\ p \in Launched /\ pc[p] = "none" => launch = "open"
  /\ registered' = registered \/ (registered + 1 \in Peers /\ registered' = registered + 1 /\ p \in Sessions)
  /\ root' = root \/ ((root = None \/ ~Alive(root)) /\ root' = p /\ p \in Launched)
  /\ p \in Launched /\ pc'[p] \notin Inactive => root' = p \/ (pc[p] \notin Inactive /\ root' = root)
  /\ p \in Sessions =>
       /\ \/ registered' = registered /\ session'[p].peer = session[p].peer
          \/ /\ registered' = registered + 1 /\ session'[p].peer = registered + 1 /\ session'[p].reg = session[p].reg
             /\ pc[p] \in {"join", "idle"} /\ pc'[p] \in {"idle", "create"}
       /\ \/ session'[p].reg \in {session[p].reg, 0}
          \/ pc[p] = "release" /\ op[p].kind = "upsert" /\ session'[p].reg = op[p].peer
       /\ pc'[p] \in Busy \cup {"idle"} => pc[p] \in Busy \cup {"idle"} \/ registered' = registered + 1
       /\ pc'[p] \in {"none", "born", "inert"} => pc[p] \in {"none", "born", "inert"}
       /\ pc'[p] = "join" => pc[p] \in {"none", "born"} \cup Busy
       /\ pc'[p] = "idle" /\ session'[p].wakeable => session'[p].reg = session'[p].peer

\* How a caller's entry changes when its operation throws.
LEMMA Failure ==
  ASSUME ProcsTyped, NEW p \in Procs, Throws(p)
  PROVE  /\ pc'[p] \in {"inert", "idle", "dead", "join"} /\ (p \in Sessions => pc'[p] # "inert")
         /\ p \in Launched => pc'[p] \in {"dead", "join"} /\ session' = session
         /\ p \in Sessions => session'[p].peer = session[p].peer /\ session'[p].reg \in {session[p].reg, 0}
         /\ p \in Desktop => ~session'[p].wakeable
  <1>1. /\ pc \in [Procs -> Steps] /\ session \in [Sessions -> SessionState]
        /\ (p \in Tools /\ p \notin Sessions) \/ (p \in Launched /\ p \notin Desktop /\ p \notin Tools) \/ (p \in Desktop /\ p \notin Tools)
    BY Kinds DEF ProcsTyped
  <1>2. /\ p \in Tools => pc'[p] = "inert"
        /\ p \in Desktop => pc'[p] = "idle"
        /\ p \in Launched => pc'[p] \in {"dead", "join"} /\ session' = session
    BY <1>1, Kinds DEF Throws, Goto
  <1>3. ASSUME p \in Desktop
        PROVE  session'[p].peer = session[p].peer /\ session'[p].reg \in {session[p].reg, 0} /\ session'[p].wakeable = FALSE
    BY <1>1, <1>3, Kinds DEF Throws, SessionState
  <1>4. QED
    BY <1>1, <1>2, <1>3, Kinds

LEMMA Ledgers ==
  ASSUME ProcsTyped, RegistrySafe, NEW p \in Procs, ProcStep(p)
  PROVE  Ledger(p)
  <1>0. /\ pc \in [Procs -> Steps] /\ op \in [Procs -> Operation] /\ session \in [Sessions -> SessionState]
        /\ p \in Procs /\ OpOK(p) /\ HoldersOwnLock
    BY DEF ProcsTyped, OpFits, OpOK, RegistrySafe, Busy
  <1> USE DEF Ledger, OpOK, Busy, Holding, Waiting, Steps, Inactive
  <1>1. ASSUME p \in Sessions, Spawn(p) PROVE Ledger(p)
    <2>1. /\ pc[p] = "none" /\ UNCHANGED <<session, registered, root, launch>>
          /\ pc' = [pc EXCEPT ![p] = IF p \in Launched THEN "born" ELSE "join"]
          /\ p \in Launched => launch = "open"
      BY <1>1 DEF Spawn, At, Goto
    <2>2. pc'[p] \in {"born", "join"} /\ (p \in Launched => pc'[p] = "born")
      BY <1>0, <2>1
    <2>3. QED
      BY <1>0, <2>1, <2>2, Kinds
  <1>2. ASSUME p \in Sessions, Register(p) PROVE Ledger(p)
    <2>1. /\ pc[p] \in {"join", "idle"} /\ UNCHANGED <<root, launch>>
          /\ registered + 1 \in Peers /\ registered' = registered + 1
      BY <1>2 DEF Register
    <2>2. CASE pc'[p] = "create" /\ session' = [session EXCEPT ![p].peer = registered + 1]
      <3>1. session'[p].peer = registered + 1 /\ session'[p].reg = session[p].reg
        BY <1>0, <1>2, <2>2 DEF SessionState
      <3>2. QED
        BY <1>0, <1>2, <2>1, <2>2, <3>1
    <2>3. CASE pc'[p] = "idle" /\ session' = [session EXCEPT ![p].peer = registered + 1, ![p].wakeable = FALSE]
      <3>1. session'[p].peer = registered + 1 /\ session'[p].reg = session[p].reg /\ session'[p].wakeable = FALSE
        BY <1>0, <1>2, <2>3 DEF SessionState
      <3>2. QED
        BY <1>0, <1>2, <2>1, <2>3, <3>1
    <2>4. QED
      BY <1>0, <1>2, <2>2, <2>3 DEF Register, Begin, Goto
  <1>3. ASSUME p \in Launched, Elect(p) PROVE Ledger(p)
    <2>1. pc[p] = "born" /\ UNCHANGED <<session, registered, launch>>
      BY <1>3 DEF Elect, At
    <2>2. CASE (root = None \/ ~Alive(root)) /\ root' = p /\ Goto(p, "join")
      BY <1>0, <1>3, <2>1, <2>2, Kinds DEF Goto
    <2>3. CASE Goto(p, "inert") /\ root' = root
      BY <1>0, <1>3, <2>1, <2>3, Kinds DEF Goto
    <2>4. QED
      BY <1>3, <2>2, <2>3 DEF Elect
  <1>4. ASSUME p \in Desktop, observe(p) PROVE Ledger(p)
    <2>1. pc[p] = "idle" /\ UNCHANGED <<registered, root, launch>>
      BY <1>4 DEF observe, At
    <2>2. pc'[p] \in {"idle", "create"}
      BY <1>0, <2>1, <1>4, Observes DEF Begin, Goto
    <2>3. session'[p].peer = session[p].peer /\ session'[p].reg = session[p].reg
      BY <1>4, Observes
    <2>4. session'[p].wakeable => session'[p].reg = session'[p].peer
      BY <1>4, <2>3, Observes
    <2>5. QED
      BY <1>0, <2>1, <2>2, <2>3, <2>4, Kinds
  <1>5. ASSUME p \in Desktop, ObserveOther(p) PROVE Ledger(p)
    <2>1. pc[p] = "idle" /\ UNCHANGED <<registered, root, launch>>
      BY <1>5 DEF ObserveOther, At
    <2>2. pc'[p] \in {"idle", "create"}
      BY <1>0, <2>1, <1>5 DEF ObserveOther, Begin, Goto
    <2>3. session'[p].peer = session[p].peer /\ session'[p].reg = session[p].reg /\ session'[p].wakeable = FALSE
      BY <1>0, <1>5, Kinds DEF ObserveOther, SessionState
    <2>5. QED
      BY <1>0, <2>1, <2>2, <2>3, Kinds
  <1>6. ASSUME p \in Tools, RunTool(p) PROVE Ledger(p)
    <2>1. UNCHANGED <<session, registered, root, launch>> /\ p \notin Sessions /\ p \notin Launched
      BY <1>6, Kinds DEF RunTool
    <2>2. QED
      BY <2>1
  <1>7. ASSUME acquireFileLock(p) PROVE Ledger(p)
    <2>1. pc[p] = "create" /\ UNCHANGED <<registered, root, launch>>
      BY <1>7 DEF acquireFileLock, At, Unheld
    <2>2. CASE session' = session /\ pc'[p] \in {"write", "guard"}
      BY <1>0, <2>1, <2>2
    <2>3. CASE Throws(p)
      BY <1>0, <2>1, <2>3, Failure, Kinds
    <2>4. QED
      BY <1>0, <1>7, <2>2, <2>3 DEF acquireFileLock, Goto
  <1>8. ASSUME WriteOwner(p) PROVE Ledger(p)
    <2>1. pc[p] = "write" /\ pc'[p] \in {"read"} /\ UNCHANGED <<session, registered, root, launch>>
      BY <1>0, <1>8 DEF WriteOwner, Goto, At, Unheld, registry
    <2>2. QED
      BY <1>0, <2>1
  <1>9. ASSUME TakeGuard(p) PROVE Ledger(p)
    <2>1. pc[p] = "guard" /\ pc'[p] \in {"owner", "create"} /\ UNCHANGED <<session, registered, root, launch>>
      BY <1>0, <1>9 DEF TakeGuard, Goto, At, Unheld, registry
    <2>2. QED
      BY <1>0, <2>1
  <1>10. ASSUME ReadOwner(p) PROVE Ledger(p)
    <2>1. pc[p] = "owner" /\ pc'[p] \in {"probe", "drop"} /\ UNCHANGED <<session, registered, root, launch>>
      BY <1>0, <1>10 DEF ReadOwner, Goto, At, Unheld, registry
    <2>2. QED
      BY <1>0, <2>1
  <1>11. ASSUME reclaimDeadLock(p) PROVE Ledger(p)
    <2>1. pc[p] = "probe" /\ UNCHANGED <<registered, root, launch>>
      BY <1>11 DEF reclaimDeadLock, At, Unheld
    <2>2. CASE session' = session /\ pc'[p] \in {"drop"}
      BY <1>0, <2>1, <2>2
    <2>3. CASE Throws(p)
      BY <1>0, <2>1, <2>3, Failure, Kinds
    <2>4. QED
      BY <1>0, <1>11, <2>2, <2>3 DEF reclaimDeadLock, Goto
  <1>12. ASSUME DropGuard(p) PROVE Ledger(p)
    <2>1. pc[p] = "drop" /\ pc'[p] \in {"create"} /\ UNCHANGED <<session, registered, root, launch>>
      BY <1>0, <1>12 DEF DropGuard, Goto, At, Unheld, registry
    <2>2. QED
      BY <1>0, <2>1
  <1>13. ASSUME readStateFromDisk(p) PROVE Ledger(p)
    <2>1. pc[p] = "read" /\ pc'[p] \in {"commit"} /\ UNCHANGED <<session, registered, root, launch>>
      BY <1>0, <1>13 DEF readStateFromDisk, Goto, At, Unheld, registry
    <2>2. QED
      BY <1>0, <2>1
  <1>14. ASSUME persistState(p) PROVE Ledger(p)
    <2>1. pc[p] = "commit" /\ pc'[p] \in {"release"} /\ UNCHANGED <<session, registered, root, launch>>
      BY <1>0, <1>14 DEF persistState, Goto, At, Unheld, registry
    <2>2. QED
      BY <1>0, <2>1
  <1>15. ASSUME Release(p) PROVE Ledger(p)
    <2>1. pc[p] = "release" /\ UNCHANGED <<registered, root, launch>> /\ Returns(p)
      BY <1>0, <1>15 DEF Release, At, Unheld, HoldersOwnLock
    <2>2. pc'[p] \in {"idle", "inert", "dead"} /\ (p \in Sessions => pc'[p] = "idle")
      BY <1>0, <2>1 DEF Returns, Goto
    <2>3. CASE p \in Sessions /\ op[p].kind = "upsert"
      <3>1. session'[p].peer = session[p].peer /\ session'[p].reg = op[p].peer
        BY <1>0, <2>1, <2>3 DEF Returns, SessionState
      <3>2. QED
        BY <1>0, <2>1, <2>2, <2>3, <3>1, Kinds
    <2>4. CASE p \in Sessions /\ op[p].kind # "upsert"
      <3>1. PICK w \in BOOLEAN : w = (op[p].kind = "upsert")
        OBVIOUS
      <3>2. session' = [session EXCEPT ![p] = [session[p] EXCEPT !.reg = 0, !.wakeable = w]]
        BY <1>0, <2>1, <2>4, <3>1 DEF Returns
      <3>3. session'[p] = [session[p] EXCEPT !.reg = 0, !.wakeable = w]
        BY <1>0, <2>4, <3>2
      <3>4. session'[p].peer = session[p].peer /\ session'[p].reg = 0 /\ session'[p].wakeable = w
        BY <1>0, <2>4, <3>3 DEF SessionState
      <3>5. ~w
        BY <2>4, <3>1
      <3>6. p \in Launched => FALSE
        BY <1>0, <2>1, <2>4, OpTyped, Kinds
      <3>7. QED
        BY <1>0, <2>1, <2>2, <2>4, <3>4, <3>5, <3>6, Kinds
    <2>5. QED
      BY <2>1, <2>2, <2>3, <2>4, Kinds
  <1>16. ASSUME Kill(p) PROVE Ledger(p)
    <2>1. pc[p] \notin {"none", "dead"} /\ pc'[p] = "dead" /\ UNCHANGED <<session, registered, root, launch>>
      BY <1>0, <1>16 DEF Kill, Alive, Goto
    <2>2. QED
      BY <1>0, <2>1
  <1>20. QED
    BY <1>1, <1>2, <1>3, <1>4, <1>5, <1>6, <1>7, <1>8, <1>9, <1>10, <1>11, <1>12, <1>13, <1>14, <1>15, <1>16 DEF ProcStep

LEMMA StepPeers ==
  ASSUME ProcsTyped, RegistrySafe, PeersIssued, NEW p \in Procs, ProcStep(p)
  PROVE  PeersIssued'
  <1>0. /\ Ledger(p) /\ PeersIssued /\ OpFits
        /\ \A q \in Procs : q # p => pc'[q] = pc[q]
        /\ \A s \in Sessions : s # p => session'[s] = session[s]
    BY Ledgers, OthersKeep DEF RegistrySafe
  <1>1. registered' \in Nat /\ 1 .. registered' \subseteq Peers /\ 0 .. registered \subseteq 0 .. registered'
    BY <1>0 DEF Ledger, PeersIssued
  <1>2. ASSUME NEW s \in Sessions
        PROVE  /\ session'[s].peer \in 0 .. registered' /\ session'[s].reg \in 0 .. session'[s].peer
               /\ pc'[s] \in Busy \cup {"idle"} => session'[s].peer # 0
               /\ pc'[s] \in {"none", "born", "inert"} => session'[s].peer = 0
    <2>0. /\ session[s].peer \in 0 .. registered /\ session[s].reg \in 0 .. session[s].peer
          /\ pc[s] \in Busy \cup {"idle"} => session[s].peer # 0
          /\ pc[s] \in {"none", "born", "inert"} => session[s].peer = 0
      BY <1>0 DEF PeersIssued
    <2>1. CASE s # p
      BY <1>0, <1>1, <2>0, <2>1, Kinds
    <2>2. CASE s = p
      <3>1. CASE registered' = registered /\ session'[p].peer = session[p].peer
        <4>1. session'[p].reg \in {session[p].reg, 0, session[p].peer}
          BY <1>0, <2>2 DEF Ledger, OpFits, Busy, Holding
        <4>2. /\ pc'[p] \in Busy \cup {"idle"} => pc[p] \in Busy \cup {"idle"}
              /\ pc'[p] \in {"none", "born", "inert"} => pc[p] \in {"none", "born", "inert"}
          BY <1>0, <2>2, <3>1, <1>1 DEF Ledger, PeersIssued
        <4>3. QED
          BY <2>0, <2>2, <3>1, <4>1, <4>2
      <3>2. CASE registered' = registered + 1 /\ session'[p].peer = registered + 1 /\ session'[p].reg = session[p].reg
                 /\ pc'[p] \in {"idle", "create"}
        BY <1>1, <2>0, <2>2, <3>2, <1>0 DEF PeersIssued
      <3>3. QED
        BY <1>0, <2>2, <3>1, <3>2 DEF Ledger
    <2>3. QED
      BY <2>1, <2>2
  <1>3. ASSUME NEW s \in Sessions, NEW t \in Sessions, s # t, session'[s].peer # 0
        PROVE  session'[s].peer # session'[t].peer
    \* Only p's id can have changed, and then it is larger than every other.
    <2>1. /\ session[s].peer \in 0 .. registered /\ session[t].peer \in 0 .. registered /\ registered \in Nat
          /\ session[s].peer # 0 => session[s].peer # session[t].peer
          /\ session[t].peer # 0 => session[s].peer # session[t].peer
      BY <1>0, <1>3 DEF PeersIssued
    <2>2. s # p => session'[s].peer = session[s].peer
      BY <1>0
    <2>3. t # p => session'[t].peer = session[t].peer
      BY <1>0
    <2>4. p \in Sessions => session'[p].peer = session[p].peer \/ session'[p].peer = registered + 1
      BY <1>0 DEF Ledger
    <2>5. QED
      BY <1>3, <2>1, <2>2, <2>3, <2>4
  <1>4. QED
    BY <1>1, <1>2, <1>3 DEF PeersIssued

LEMMA StepRoot ==
  ASSUME ProcsTyped, RegistrySafe, RootOnly, NEW p \in Procs, ProcStep(p)
  PROVE  RootOnly'
  <1>0. Ledger(p) /\ RootOnly /\ None \notin Procs /\ \A q \in Procs : q # p => pc'[q] = pc[q]
    BY Ledgers, OthersKeep, RegistryAssumption
  <1> SUFFICES ASSUME NEW c \in Launched, pc'[c] \notin Inactive PROVE root' = c
    BY DEF RootOnly, Inactive
  <1>1. CASE c = p
    BY <1>0, <1>1 DEF Ledger, RootOnly, Inactive
  <1>2. CASE c # p
    <2>1. pc[c] \notin Inactive /\ root = c /\ Alive(c) /\ root # None
      BY <1>0, <1>2, Kinds DEF RootOnly, Inactive, Alive
    <2>2. QED
      BY <1>0, <2>1 DEF Ledger
  <1>3. QED
    BY <1>1, <1>2

LEMMA StepSpawned ==
  ASSUME ProcsTyped, RegistrySafe, SpawnedOpen, NEW p \in Procs, ProcStep(p)
  PROVE  SpawnedOpen'
  <1>0. Ledger(p) /\ SpawnedOpen /\ \A q \in Procs : q # p => pc'[q] = pc[q]
    BY Ledgers, OthersKeep
  <1>1. launch' = launch /\ (p \in Launched /\ pc[p] = "none" => launch = "open")
    BY <1>0 DEF Ledger
  <1>2. QED
    BY <1>0, <1>1, Kinds DEF SpawnedOpen

LEMMA StepWakeable ==
  ASSUME ProcsTyped, RegistrySafe, WakeableIsSaved, NEW p \in Procs, ProcStep(p)
  PROVE  WakeableIsSaved'
  <1>0. /\ Ledger(p) /\ WakeableIsSaved
        /\ \A q \in Procs : q # p => pc'[q] = pc[q]
        /\ \A s \in Sessions : s # p => session'[s] = session[s]
    BY Ledgers, OthersKeep
  <1> SUFFICES ASSUME NEW s \in Sessions, pc'[s] = "idle", session'[s].wakeable PROVE session'[s].reg = session'[s].peer
    BY DEF WakeableIsSaved, At
  <1>1. CASE s = p
    BY <1>0, <1>1 DEF Ledger
  <1>2. CASE s # p
    <2>1. pc[s] = "idle" /\ session'[s] = session[s]
      BY <1>0, <1>2, Kinds
    <2>2. QED
      BY <1>0, <2>1 DEF WakeableIsSaved, At
  <1>3. QED
    BY <1>1, <1>2

\* What the holder of the lock does to the rows of the registry.
RowsKept(p) ==
  /\ \A r \in file \ file' :
       \/ ~isLive(r)
       \/ /\ At(p, "commit") /\ pc'[p] = "release"
          /\ \/ op[p].kind \in {"remove", "upsert"} /\ op[p].peer = r.peer
             \/ op[p].kind = "upsert" /\ Thread(p) = r.thread
  /\ \A r \in file' \ file : p \in Sessions /\ At(p, "commit") /\ op[p].kind = "upsert" /\ r = Owed(p)

\* The rows that are left are those of one thread and one peer each.
LEMMA Writes ==
  ASSUME ProcsTyped, RegistrySafe, NEW p \in Procs, persistState(p)
  PROVE  /\ RowsKept(p)
         /\ op[p].kind = "upsert" => /\ p \in Sessions /\ Owed(p) \in file' /\ file' \subseteq file \cup {Owed(p)}
                                     /\ \A r \in file' : r = Owed(p) \/ (r.peer # op[p].peer /\ r.thread # Thread(p))
         /\ op[p].kind # "upsert" => file' \subseteq file
  <1>1. /\ pc[p] = "commit" /\ pc'[p] = "release" /\ snapshot[p] = file /\ At(p, "commit")
        /\ op[p].kind \in {"upsert", "remove", "prune"} /\ (op[p].kind = "upsert" => p \in Sessions)
    <2>1. pc[p] = "commit" /\ pc'[p] = "release"
      BY DEF persistState, At, Goto, ProcsTyped
    <2>2. snapshot[p] = file
      BY <2>1 DEF RegistrySafe, SnapshotFresh, At
    <2>3. op[p].kind \in {"upsert", "remove", "prune"} /\ (op[p].kind = "upsert" => p \in Sessions)
      BY <2>1, OpTyped DEF RegistrySafe, OpFits, Busy, Holding
    <2>4. QED
      BY <2>1, <2>2, <2>3 DEF At
  <1>2. PICK kept \in Kept(p) : file' = IF op[p].kind = "upsert" THEN kept \cup {Owed(p)} ELSE kept
    BY DEF persistState, Owed
  <1>3. CASE op[p].kind = "upsert"
    <2>1. kept = {r \in file : r.peer # op[p].peer /\ r.thread # Thread(p)} /\ file' = kept \cup {Owed(p)}
      BY <1>1, <1>2, <1>3 DEF Kept
    <2>2. \A r \in file \ file' : op[p].peer = r.peer \/ Thread(p) = r.thread
      BY <2>1
    <2>3. QED
      BY <1>1, <1>3, <2>1, <2>2 DEF RowsKept
  <1>4. CASE op[p].kind = "remove"
    <2>1. kept = {r \in file : r.peer # op[p].peer} /\ file' = kept
      BY <1>1, <1>2, <1>4 DEF Kept
    <2>2. QED
      BY <1>1, <1>4, <2>1 DEF RowsKept
  <1>5. CASE op[p].kind = "prune"
    <2>1. PICK recent \in SUBSET file : kept = {r \in file : isLive(r)} \cup recent
      BY <1>1, <1>2, <1>5 DEF Kept
    <2>2. file' = {r \in file : isLive(r)} \cup recent
      BY <1>2, <1>5, <2>1
    <2>3. QED
      BY <1>5, <2>1, <2>2 DEF RowsKept
  <1>6. QED
    BY <1>1, <1>3, <1>4, <1>5

LEMMA StepRows ==
  ASSUME ProcsTyped, RegistrySafe, NEW p \in Procs, ProcStep(p)
  PROVE  RowsKept(p) /\ (file' = file \/ persistState(p))
  <1>1. file' = file \/ persistState(p)
    BY DEF ProcStep, Spawn, Register, Elect, observe, ObserveOther, RunTool, acquireFileLock, WriteOwner, TakeGuard,
           ReadOwner, reclaimDeadLock, DropGuard, readStateFromDisk, Release, Kill, Unheld, registry
  <1>2. file' = file => RowsKept(p)
    BY DEF RowsKept
  <1>3. QED
    BY <1>1, <1>2, Writes

\* The row of a session that is live and saved outlives the operations of everybody.
LEMMA RowStays ==
  ASSUME ProcsTyped, RegistrySafe, PeersIssued, RootOnly, NEW p \in Procs, ProcStep(p),
         NEW s \in Sessions, Alive(s), session[s].reg # 0, session[s].reg = session[s].peer,
         Row(s) \in file, s \in Launched => launch = "open"
  PROVE  Row(s) \in file' \/ session[s].peer \in retired
  <1> SUFFICES ASSUME Row(s) \notin file' PROVE session[s].peer \in retired
    OBVIOUS
  <1>0. Row(s).peer = session[s].peer /\ Row(s).thread = Thread(s) /\ Row(s).mcp = s /\ isLive(Row(s))
    BY DEF Row, isLive
  <1>1. /\ pc[p] = "commit"
        /\ \/ op[p].kind \in {"remove", "upsert"} /\ op[p].peer = session[s].peer
           \/ op[p].kind = "upsert" /\ Thread(p) = Thread(s)
    BY <1>0, StepRows DEF RowsKept, At
  <1>2. /\ op[p].kind = "upsert" => p \in Sessions /\ op[p].peer = session[p].peer /\ session[p].reg # session[p].peer
        /\ op[p].kind = "remove" => op[p].peer \in retired
    BY <1>1 DEF RegistrySafe, OpFits, Busy, Holding
  <1>3. op[p].kind = "upsert" => FALSE
    <2> SUFFICES ASSUME op[p].kind = "upsert" PROVE FALSE
      OBVIOUS
    <2>1. p # s /\ p \in Sessions
      BY <1>2
    <2>2. session[p].peer # session[s].peer
      BY <2>1 DEF PeersIssued
    <2>3. Thread(p) = Thread(s)
      BY <1>1, <1>2, <2>2
    <2>4. p \in Launched /\ s \in Launched
      BY <2>1, <2>3, Kinds, RegistryAssumption DEF Thread
    \* Two children of the launch past the election.
    <2>5. pc[s] \notin {"none", "born", "inert", "dead"}
      BY DEF PeersIssued, Alive
    <2>6. root = s /\ root = p
      BY <1>1, <2>4, <2>5 DEF RootOnly
    <2>7. QED
      BY <2>1, <2>6
  <1>4. QED
    BY <1>1, <1>2, <1>3

LEMMA StepListed ==
  ASSUME ProcsTyped, RegistrySafe, PeersIssued, RootOnly, SavedIsListed, ~QuickExits, NEW p \in Procs, ProcStep(p)
  PROVE  SavedIsListed'
  <1>0. /\ Ledger(p) /\ Effect(p) /\ SavedIsListed /\ PeersIssued
        /\ \A q \in Procs : q # p => pc'[q] = pc[q]
        /\ \A s \in Sessions : s # p => session'[s] = session[s]
        /\ launch' = launch /\ retired \subseteq retired'
    BY Ledgers, Effects, OthersKeep DEF Ledger, Effect
  <1> SUFFICES ASSUME NEW s \in Sessions, pc'[s] \notin {"none", "dead"}, session'[s].reg # 0, session'[s].reg = session'[s].peer,
                      s \in Launched => launch = "open", session'[s].peer \notin retired'
               PROVE  [peer |-> session'[s].peer, thread |-> Thread(s), mcp |-> s] \in file'
    BY <1>0 DEF SavedIsListed, Row, Alive
  <1>1. ASSUME session'[s].peer = session[s].peer, session'[s].reg = session[s].reg, Alive(s)
        PROVE  [peer |-> session'[s].peer, thread |-> Thread(s), mcp |-> s] \in file'
    <2>1. session[s].reg # 0 /\ session[s].reg = session[s].peer /\ session[s].peer \notin retired
      BY <1>0, <1>1
    <2>2. Row(s) \in file
      BY <1>0, <1>1, <2>1 DEF SavedIsListed
    <2>3. Row(s) \in file'
      BY <1>1, <2>1, <2>2, RowStays
    <2>4. QED
      BY <1>1, <2>3 DEF Row
  <1>2. CASE s # p
    <2>1. pc'[s] = pc[s] /\ session'[s] = session[s]
      BY <1>0, <1>2, Kinds
    <2>2. QED
      BY <1>1, <2>1 DEF Alive
  <1>3. CASE s = p
    <2>0. session[p].peer \in 0 .. registered /\ session[p].reg \in 0 .. session[p].peer /\ registered \in Nat
      BY <1>0, <1>3 DEF PeersIssued
    <2>1. registered' = registered /\ session'[p].peer = session[p].peer
      \* A new peer id is larger than the registered one.
      BY <1>0, <1>3, <2>0 DEF Ledger
    <2>2. CASE session'[p].reg = session[p].reg
      <3>1. session[p].peer # 0
        BY <1>3, <2>1, <2>2
      <3>2. Alive(p)
        BY <1>0, <1>3, <3>1 DEF Alive, PeersIssued, Effect
      <3>3. QED
        BY <1>1, <1>3, <2>1, <2>2, <3>2
    <2>3. CASE pc[p] = "release" /\ op[p].kind = "upsert" /\ session'[p].reg = op[p].peer
      <3>1. Owed(p) \in file
        BY <2>3 DEF RegistrySafe, Committed, At
      <3>2. file' = file
        BY <1>0, <2>3 DEF Effect
      <3>3. QED
        BY <1>3, <2>3, <3>1, <3>2 DEF Owed
    <2>4. QED
      BY <1>0, <1>3, <2>2, <2>3 DEF Ledger
  <1>4. QED
    BY <1>2, <1>3

-----------------------------------------------------------------------------
(* The registry of a behaviour *)

BookInv == PeersIssued /\ RootOnly /\ SpawnedOpen /\ SavedIsListed /\ WakeableIsSaved
RInv == TypeOK /\ RegistrySafe /\ BookInv

\* The launcher's own steps.
LEMMA LauncherStep == ASSUME RInv, runWakeableLauncher PROVE RInv' /\ file' = file
  <1>1. /\ UNCHANGED <<registry, pc, op, session, root, registered, retired>>
        /\ launch' \in {"starting", "ready", "failed", "open", "over"}
        /\ launch \in {"open", "over"} => launch = "open" /\ launch' = "over"
        /\ faults' = faults \/ (faults < MaxFaults /\ faults' = faults + 1)
    BY DEF runWakeableLauncher, createClaim, ServerIsReady, TuiOpens, TuiExits, Fault
  <1>2. UNCHANGED <<lock, guard, file, seen, snapshot, pc, op, session, root, registered, retired>>
    BY <1>1 DEF registry
  <1>3. faults' \in 0 .. MaxFaults
    BY <1>1, RegistryAssumption DEF RInv, TypeOK
  <1>4. TypeOK'
    BY <1>1, <1>2, <1>3 DEF RInv, TypeOK, LockTypeOK
  <1>5. RegistrySafe'
    BY <1>2 DEF RInv, RegistrySafe, HoldersOwnLock, OwnerHolds, GuardedByOne, SeenIsOwner, OpFits, SnapshotFresh, Committed, Exists, At, Owed
  <1>6. PeersIssued' /\ RootOnly' /\ SpawnedOpen' /\ WakeableIsSaved'
    BY <1>1, <1>2 DEF RInv, BookInv, PeersIssued, RootOnly, SpawnedOpen, WakeableIsSaved, At
  <1>7. SavedIsListed'
    <2> SUFFICES ASSUME NEW s \in Sessions, Alive(s), session[s].reg # 0, session[s].reg = session[s].peer
                 PROVE  Row(s) \in file \/ session[s].peer \in retired \/ (s \in Launched /\ launch' # "open")
      BY <1>2 DEF SavedIsListed, Row, Alive
    <2>1. Row(s) \in file \/ session[s].peer \in retired \/ (s \in Launched /\ launch # "open")
      BY DEF RInv, BookInv, SavedIsListed
    <2>2. s \in Launched => launch \in {"open", "over"}
      BY DEF Alive, RInv, BookInv, SpawnedOpen
    <2>3. QED
      BY <1>1, <2>1, <2>2
  <1>8. QED
    BY <1>2, <1>4, <1>5, <1>6, <1>7 DEF RInv, BookInv

LEMMA SessionUpdates ==
  ASSUME session \in [Sessions -> SessionState], NEW s \in Sessions
  PROVE  /\ \A n \in Peers \cup {0} :
              /\ [session EXCEPT ![s].peer = n] \in [Sessions -> SessionState]
              /\ [session EXCEPT ![s].peer = n, ![s].wakeable = FALSE] \in [Sessions -> SessionState]
         /\ \A b \in {"new", "none", "bound", "invalid"}, w \in BOOLEAN :
              [session EXCEPT ![s].bind = b, ![s].wakeable = w] \in [Sessions -> SessionState]
         /\ \A n \in Peers \cup {0}, w \in BOOLEAN :
              [session EXCEPT ![s].reg = n, ![s].wakeable = w] \in [Sessions -> SessionState]
  BY DEF SessionState

LEMMA ThrowTyped ==
  ASSUME ProcsTyped, NEW p \in Procs, Throws(p)
  PROVE  pc' \in [Procs -> Steps] /\ op' \in [Procs -> Operation] /\ session' \in [Sessions -> SessionState]
  <1>0. /\ pc \in [Procs -> Steps] /\ op \in [Procs -> Operation] /\ session \in [Sessions -> SessionState] /\ NoOp \in Operation
    BY DEF ProcsTyped, NoOp, Operation
  <1>1. PICK x \in {"inert", "idle", "dead", "join"} : pc' = [pc EXCEPT ![p] = x]
    <2>1. CASE p \in Tools
      BY <2>1, Kinds DEF Throws, Goto
    <2>2. CASE p \in Desktop
      BY <2>2, Kinds DEF Throws, Goto
    <2>3. CASE p \notin Tools /\ p \notin Desktop
      <3>1. pc' = [pc EXCEPT ![p] = IF session[p].reg = 0 THEN "dead" ELSE "join"]
        BY <2>3 DEF Throws, Goto
      <3>2. QED
        BY <3>1
    <2>4. QED
      BY <2>1, <2>2, <2>3
  <1>2. pc' \in [Procs -> Steps]
    BY <1>0, <1>1 DEF Steps
  <1>3. op' \in [Procs -> Operation]
    BY <1>0 DEF Throws
  <1>4. CASE p \in Desktop
    <2>1. PICK n \in Peers \cup {0} : n = IF op[p].kind = "remove" THEN 0 ELSE session[p].reg
      BY <1>0, <1>4, Kinds DEF SessionState
    <2>2. session' = [session EXCEPT ![p].reg = n, ![p].wakeable = FALSE]
      BY <1>0, <1>4, <2>1 DEF Throws
    <2>3. QED
      BY <1>0, <1>2, <1>3, <1>4, <2>2, SessionUpdates, Kinds
  <1>5. QED
    BY <1>0, <1>2, <1>3, <1>4 DEF Throws

Parts ==
  /\ LockTypeOK /\ guard \in Procs \cup {None} /\ file \subseteq WakeRegistryEntry
  /\ pc \in [Procs -> Steps] /\ op \in [Procs -> Operation] /\ seen \in [Procs -> Procs \cup {None}]
  /\ snapshot \in [Procs -> SUBSET WakeRegistryEntry] /\ session \in [Sessions -> SessionState]
  /\ root \in Launched \cup {None} /\ registered \in Peers \cup {0} /\ retired \subseteq Peers
  /\ faults \in 0 .. MaxFaults

LEMMA StepParts ==
  ASSUME RInv, ProcsTyped, NEW p \in Procs, ProcStep(p)
  PROVE  Parts'
  <1>0. /\ LockTypeOK /\ guard \in Procs \cup {None} /\ file \subseteq WakeRegistryEntry
        /\ pc \in [Procs -> Steps] /\ op \in [Procs -> Operation] /\ seen \in [Procs -> Procs \cup {None}]
        /\ snapshot \in [Procs -> SUBSET WakeRegistryEntry] /\ session \in [Sessions -> SessionState]
        /\ root \in Launched \cup {None} /\ registered \in Peers \cup {0} /\ retired \subseteq Peers
        /\ faults \in 0 .. MaxFaults /\ p \in Procs /\ registered \in Nat /\ 1 .. registered \subseteq Peers
        /\ launch' = launch /\ MaxFaults \in Nat
    BY Ledgers, RegistryAssumption DEF TypeOK, Steps, SessionState, RInv, BookInv, PeersIssued, Ledger
  <1>01. \A x \in Steps : [pc EXCEPT ![p] = x] \in [Procs -> Steps]
    BY <1>0
  <1>02. Waiting \subseteq Steps /\ Holding \subseteq Steps /\ {"none", "born", "inert", "join", "idle", "dead"} \subseteq Steps
    BY DEF Steps
  <1>03. NoOp \in Operation /\ \A k \in {"upsert", "remove", "prune"}, n \in Peers \cup {0} : [kind |-> k, peer |-> n] \in Operation
    BY DEF NoOp, Operation
  <1> USE DEF Parts, Waiting, Holding
  <1> HIDE DEF Steps, Operation
  <1>1. ASSUME p \in Sessions, Spawn(p) PROVE Parts'
    BY <1>1, <1>0, <1>01, <1>02 DEF Spawn, Goto, registry, LockTypeOK
  <1>2. ASSUME p \in Sessions, Register(p) PROVE Parts'
    <2>1. pc' \in [Procs -> Steps]
      BY <1>2, <1>01, <1>02 DEF Register, Begin, Goto
    <2>2. op' \in [Procs -> Operation] /\ registered' \in Peers
      BY <1>2, <1>0, <1>03 DEF Register, Begin
    <2>3. session' \in [Sessions -> SessionState]
      <3>1. CASE session' = [session EXCEPT ![p].peer = registered + 1]
        BY <1>2, <1>0, <3>1, SessionUpdates DEF Register
      <3>2. CASE session' = [session EXCEPT ![p].peer = registered + 1, ![p].wakeable = FALSE]
        BY <1>2, <1>0, <3>2, SessionUpdates DEF Register
      <3>3. QED
        BY <1>2, <3>1, <3>2 DEF Register
    <2>4. QED
      BY <1>2, <1>0, <2>1, <2>2, <2>3 DEF Register, registry, LockTypeOK
  <1>3. ASSUME p \in Launched, Elect(p) PROVE Parts'
    BY <1>3, <1>0, <1>01, <1>02 DEF Elect, Goto, registry, LockTypeOK
  <1>4. ASSUME p \in Desktop, observe(p) PROVE Parts'
    <2>0. p \in Sessions /\ session[p].peer \in Peers \cup {0} /\ session[p].bind \in {"new", "none", "bound", "invalid"}
      BY <1>4, <1>0, Kinds DEF SessionState
    <2>1. PICK b \in IF session[p].bind = "new" THEN {"bound", "none"} ELSE {session[p].bind} :
            LET unsaved == b = "bound" /\ session[p].reg # session[p].peer IN
            /\ IF unsaved THEN Begin(p, "upsert", session[p].peer) ELSE UNCHANGED <<pc, op>>
            /\ session' = [session EXCEPT ![p].bind = b, ![p].wakeable = b = "bound" /\ ~unsaved]
      BY <1>4 DEF observe
    <2>2. PICK w \in BOOLEAN : w = (b = "bound" /\ ~(b = "bound" /\ session[p].reg # session[p].peer))
      OBVIOUS
    <2>3. session' = [session EXCEPT ![p].bind = b, ![p].wakeable = w]
      BY <2>1, <2>2
    <2>4. b \in {"new", "none", "bound", "invalid"}
      BY <2>0
    <2>5. session' \in [Sessions -> SessionState]
      BY <1>0, <2>0, <2>3, <2>4, SessionUpdates
    <2>6. pc' \in [Procs -> Steps]
      BY <1>0, <1>01, <1>02, <2>1 DEF Begin, Goto
    <2>7. op' \in [Procs -> Operation]
      BY <1>0, <1>03, <2>0, <2>1 DEF Begin
    <2>8. QED
      BY <1>4, <1>0, <2>5, <2>6, <2>7 DEF observe, registry, LockTypeOK
  <1>5. ASSUME p \in Desktop, ObserveOther(p) PROVE Parts'
    <2>0. p \in Sessions /\ session[p].reg \in Peers \cup {0}
      BY <1>5, <1>0, Kinds DEF SessionState
    <2>1. session' \in [Sessions -> SessionState]
      BY <1>5, <1>0, <2>0, SessionUpdates DEF ObserveOther
    <2>2. pc' \in [Procs -> Steps]
      BY <1>5, <1>0, <1>01, <1>02 DEF ObserveOther, Begin, Goto
    <2>3. op' \in [Procs -> Operation] /\ retired' \subseteq Peers
      BY <1>5, <1>0, <1>03, <2>0 DEF ObserveOther, Begin
    <2>4. QED
      BY <1>5, <1>0, <2>1, <2>2, <2>3 DEF ObserveOther, registry, LockTypeOK
  <1>6. ASSUME p \in Tools, RunTool(p) PROVE Parts'
    <2>1. pc' \in [Procs -> Steps]
      BY <1>6, <1>01, <1>02 DEF RunTool, Begin, Goto
    <2>2. op' \in [Procs -> Operation] /\ retired' \subseteq Peers
      <3>1. CASE Begin(p, "prune", 0) /\ UNCHANGED retired
        BY <1>0, <1>03, <3>1 DEF Begin
      <3>2. ASSUME NEW n \in 1 .. registered, Begin(p, "remove", n), retired' = retired \cup {n}
            PROVE  op' \in [Procs -> Operation] /\ retired' \subseteq Peers
        BY <1>0, <1>03, <3>2 DEF Begin
      <3>3. QED
        BY <1>6, <3>1, <3>2 DEF RunTool
    <2>3. QED
      BY <1>6, <1>0, <2>1, <2>2 DEF RunTool, registry, LockTypeOK
  <1>7. ASSUME acquireFileLock(p) PROVE Parts'
    <2>1. CASE CreateExclusive(p) /\ Goto(p, "write") /\ UNCHANGED <<op, session>>
      <3>1. lock' \in [by : Procs, written : BOOLEAN]
        BY <1>0, <2>1, Files DEF CreateExclusive
      <3>2. QED
        BY <1>7, <1>0, <1>01, <1>02, <2>1, <3>1 DEF acquireFileLock, Goto, Unheld, LockTypeOK
    <2>2. CASE Goto(p, "guard") /\ UNCHANGED <<lock, op, session>>
      BY <1>7, <1>0, <1>01, <1>02, <2>2 DEF acquireFileLock, Goto, Unheld, LockTypeOK
    <2>3. CASE Throws(p) /\ UNCHANGED lock
      BY <1>7, <1>0, <1>01, <1>02, <1>03, <2>3, ThrowTyped DEF acquireFileLock, Unheld, LockTypeOK
    <2>4. QED
      BY <1>7, <2>1, <2>2, <2>3 DEF acquireFileLock
  <1>8. ASSUME WriteOwner(p) PROVE Parts'
    <2>1. lock' \in [by : Procs, written : BOOLEAN] \cup {Absent}
      BY <1>8, <1>0, Files DEF WriteOwner, WriteContent, LockTypeOK
    <2>2. UNCHANGED <<guard, seen, op, session, Unheld>> /\ Goto(p, "read")
      BY <1>8 DEF WriteOwner
    <2>3. QED
      BY <1>0, <1>01, <1>02, <2>1, <2>2 DEF Goto, Unheld, LockTypeOK
  <1>9. ASSUME TakeGuard(p) PROVE Parts'
    <2>1. UNCHANGED <<lock, seen, op, session, Unheld>> /\ guard' \in Procs \cup {None}
      BY <1>9, <1>0 DEF TakeGuard
    <2>2. pc' \in [Procs -> Steps]
      BY <1>9, <1>01, <1>02 DEF TakeGuard, Goto
    <2>3. QED
      BY <1>0, <2>1, <2>2 DEF Unheld, LockTypeOK
  <1>10. ASSUME ReadOwner(p) PROVE Parts'
    <2>1. UNCHANGED <<lock, guard, op, session, Unheld>>
      BY <1>10 DEF ReadOwner
    <2>2. pc' \in [Procs -> Steps]
      BY <1>10, <1>01, <1>02 DEF ReadOwner, Goto
    <2>3. Exists => lock.by \in Procs
      BY <1>0 DEF LockTypeOK, Exists
    <2>4. seen' \in [Procs -> Procs \cup {None}]
      BY <1>10, <1>0, <2>3 DEF ReadOwner
    <2>5. QED
      BY <1>0, <2>1, <2>2, <2>4 DEF Unheld, LockTypeOK
  <1>11. ASSUME reclaimDeadLock(p) PROVE Parts'
    <2>1. seen' = [seen EXCEPT ![p] = None] /\ UNCHANGED Unheld
      BY <1>11 DEF reclaimDeadLock
    <2>2. lock' \in [by : Procs, written : BOOLEAN] \cup {Absent} /\ guard' \in Procs \cup {None}
      BY <1>11, <1>0 DEF reclaimDeadLock, RemovePath, LockTypeOK
    <2>3. CASE Goto(p, "drop") /\ UNCHANGED <<op, session>>
      BY <1>0, <1>01, <1>02, <2>1, <2>2, <2>3 DEF Goto, Unheld, LockTypeOK
    <2>4. CASE Throws(p)
      BY <1>0, <2>1, <2>2, <2>4, ThrowTyped DEF Unheld, LockTypeOK
    <2>5. QED
      BY <1>11, <2>3, <2>4 DEF reclaimDeadLock
  <1>12. ASSUME DropGuard(p) PROVE Parts'
    BY <1>12, <1>0, <1>01, <1>02 DEF DropGuard, Goto, Unheld, LockTypeOK
  <1>13. ASSUME readStateFromDisk(p) PROVE Parts'
    BY <1>13, <1>0, <1>01, <1>02 DEF readStateFromDisk, Goto, LockTypeOK
  <1>14. ASSUME persistState(p) PROVE Parts'
    <2>1. Owed(p) \in WakeRegistryEntry \/ ~(op[p].kind = "upsert")
      <3> SUFFICES ASSUME op[p].kind = "upsert" PROVE Owed(p) \in WakeRegistryEntry
        OBVIOUS
      <3>1. p \in Sessions /\ op[p].peer # 0
        BY <1>14 DEF RInv, RegistrySafe, OpFits, Busy, Holding, persistState, At
      <3>2. op[p].peer \in Peers
        BY <1>0, <3>1 DEF Operation
      <3>3. QED
        BY <3>1, <3>2, Kinds DEF Owed, WakeRegistryEntry, Thread
    <2>2. file' \subseteq WakeRegistryEntry
      BY <1>14, <1>0, <2>1, Writes, Typed DEF RInv
    <2>3. snapshot' \in [Procs -> SUBSET WakeRegistryEntry]
      BY <1>14, <1>0 DEF persistState
    <2>4. QED
      BY <1>14, <1>0, <1>01, <1>02, <2>2, <2>3 DEF persistState, Goto, LockTypeOK
  <1>15. ASSUME Release(p) PROVE Parts'
    <2>1. lock' \in [by : Procs, written : BOOLEAN] \cup {Absent} /\ UNCHANGED <<guard, seen, Unheld>>
      BY <1>15, <1>0 DEF Release, RemovePath, LockTypeOK
    <2>2. CASE Throws(p)
      BY <1>0, <2>1, <2>2, ThrowTyped DEF Unheld, LockTypeOK
    <2>3. CASE Returns(p)
      <3>1. pc' \in [Procs -> Steps]
        BY <1>01, <1>02, <2>3 DEF Returns, Goto
      <3>2. op' \in [Procs -> Operation]
        BY <1>0, <1>03, <2>3 DEF Returns
      <3>3. session' \in [Sessions -> SessionState]
        <4>1. CASE p \in Sessions
          <5>1. PICK n \in Peers \cup {0} : n = IF op[p].kind = "upsert" THEN op[p].peer ELSE 0
            BY <1>0 DEF Operation
          <5>2. PICK w \in BOOLEAN : w = (op[p].kind = "upsert")
            OBVIOUS
          <5>3. session' = [session EXCEPT ![p].reg = n, ![p].wakeable = w]
            BY <2>3, <4>1, <5>1, <5>2 DEF Returns
          <5>4. QED
            BY <1>0, <4>1, <5>3, SessionUpdates
        <4>2. QED
          BY <1>0, <2>3, <4>1 DEF Returns
      <3>4. QED
        BY <1>0, <2>1, <3>1, <3>2, <3>3 DEF Unheld, LockTypeOK
    <2>4. QED
      BY <1>15, <2>2, <2>3 DEF Release
  <1>16. ASSUME Kill(p) PROVE Parts'
    BY <1>16, <1>0, <1>01, <1>02, <1>03 DEF Kill, Fault, Goto, LockTypeOK
  <1>20. QED
    BY <1>1, <1>2, <1>3, <1>4, <1>5, <1>6, <1>7, <1>8, <1>9, <1>10, <1>11, <1>12, <1>13, <1>14, <1>15, <1>16 DEF ProcStep

\* The rows of the file differ in their peers and in their threads.
OneRowEach == \A r, q \in file : r # q => r.peer # q.peer /\ r.thread # q.thread

LEMMA StepOneRowEach ==
  ASSUME ProcsTyped, RegistrySafe, OneRowEach, NEW p \in Procs, ProcStep(p)
  PROVE  OneRowEach'
  <1>1. CASE file' = file
    BY <1>1 DEF OneRowEach
  <1>2. CASE persistState(p)
    <2>1. CASE op[p].kind = "upsert"
      <3>1. file' \subseteq file \cup {Owed(p)} /\ \A r \in file' : r = Owed(p) \/ (r.peer # op[p].peer /\ r.thread # Thread(p))
        BY <1>2, <2>1, Writes
      <3>2. Owed(p).peer = op[p].peer /\ Owed(p).thread = Thread(p)
        BY DEF Owed
      <3>3. QED
        BY <3>1, <3>2 DEF OneRowEach
    <2>2. CASE op[p].kind # "upsert"
      <3>1. file' \subseteq file
        BY <1>2, <2>2, Writes
      <3>2. QED
        BY <3>1 DEF OneRowEach
    <2>3. QED
      BY <2>1, <2>2
  <1>3. QED
    BY <1>1, <1>2, StepRows

LEMMA RegistryInit == Init => RInv
  <1> SUFFICES ASSUME Init PROVE RInv
    OBVIOUS
  <1> USE DEF Init
  <1>1. TypeOK
    BY RegistryAssumption DEF TypeOK, LockTypeOK, NoOp, Operation
  <1>2. RegistrySafe
    BY DEF RegistrySafe, HoldersOwnLock, OwnerHolds, GuardedByOne, SeenIsOwner, OpFits, SnapshotFresh, Committed,
           Exists, At, Busy, Waiting, Holding
  <1>3. BookInv
    BY Kinds DEF BookInv, PeersIssued, RootOnly, SpawnedOpen, SavedIsListed, WakeableIsSaved, At, Alive, Busy, Waiting, Holding
  <1>4. QED
    BY <1>1, <1>2, <1>3 DEF RInv

LEMMA StepRInv ==
  ASSUME ~QuickExits
  PROVE  RInv /\ [Next]_vars => RInv'
  <1> SUFFICES ASSUME RInv, [Next]_vars PROVE RInv'
    OBVIOUS
  <1>1. CASE UNCHANGED vars
    BY <1>1 DEF vars, RInv, TypeOK, LockTypeOK, RegistrySafe, HoldersOwnLock, OwnerHolds, GuardedByOne, SeenIsOwner, OpFits, SnapshotFresh,
                Committed, BookInv, PeersIssued, RootOnly, SpawnedOpen, SavedIsListed, WakeableIsSaved, Exists, At, Owed, Alive, Row
  <1>2. CASE runWakeableLauncher
    BY <1>2, LauncherStep
  <1>3. ASSUME NEW p \in Procs, ProcStep(p) PROVE RInv'
    <2>1. ProcsTyped /\ RegistrySafe /\ PeersIssued /\ RootOnly /\ SpawnedOpen /\ SavedIsListed /\ WakeableIsSaved /\ OneRowEach
      BY Typed DEF RInv, BookInv, OneRowEach, TypeOK
    <2>2. RegistrySafe'
      BY <1>3, <2>1, StepRegistrySafe
    <2>3. BookInv'
      BY <1>3, <2>1, StepPeers, StepRoot, StepSpawned, StepListed, StepWakeable DEF BookInv
    <2>4. Parts' /\ OneRowEach'
      BY <1>3, <2>1, StepParts, StepOneRowEach
    <2>5. launch' = launch
      BY <1>3, <2>1, Ledgers DEF Ledger
    <2>6. TypeOK'
      BY <2>4, <2>5 DEF TypeOK, Parts, OneRowEach, Steps, SessionState, RInv
    <2>7. QED
      BY <2>2, <2>3, <2>6 DEF RInv
  <1>4. QED
    BY <1>1, <1>2, <1>3, ProcSteps

LEMMA RegistryRuns == BothSpec => Init /\ [][Next]_vars
  <1>1. BothInit => Init
    BY DEF BothInit
  <1>2. [BothNext]_<<vars, droidVars, books>> => [Next]_vars
    BY DEF BothNext
  <1>3. QED
    BY <1>1, <1>2, PTL DEF BothSpec

LEMMA RegistrySafety == ASSUME ~QuickExits PROVE BothSpec => []RInv
  BY RegistryInit, StepRInv, RegistryRuns, PTL

\* The registry, and what its users keep in memory, is well formed: in particular no two
\* rows have the same thread or the same peer.
THEOREM RegistryTypes == ASSUME ~QuickExits PROVE BothSpec => []TypeOK
  <1>1. RInv => TypeOK
    BY DEF RInv
  <1>2. QED
    BY <1>1, RegistrySafety, PTL

\* No operation on the registry drops or brings back the row of another session, whoever
\* reclaims the lock of whom, if no process ends while its lock record is being probed.
THEOREM RowsOfOthersSurvive == ASSUME ~QuickExits PROVE BothSpec => RowsSurvive
  <1> DEFINE Survive ==
        /\ \A r \in file \ file' :
             \/ ~isLive(r)
             \/ \E p \in Procs : /\ At(p, "commit") /\ pc'[p] = "release"
                                 /\ \/ op[p].kind \in {"remove", "upsert"} /\ op[p].peer = r.peer
                                    \/ op[p].kind = "upsert" /\ Thread(p) = r.thread
        /\ \A r \in file' \ file : \E p \in Sessions : At(p, "commit") /\ op[p].kind = "upsert" /\ r = Owed(p)
  <1>1. RInv /\ [Next]_vars => [Survive]_vars
    <2> SUFFICES ASSUME RInv, [Next]_vars PROVE [Survive]_vars
      OBVIOUS
    <2>1. ASSUME NEW p \in Procs, ProcStep(p) PROVE Survive
      <3>1. RowsKept(p)
        BY <2>1, StepRows, Typed DEF RInv
      <3>2. QED
        BY <3>1 DEF RowsKept
    <2>2. CASE runWakeableLauncher
      BY <2>2, LauncherStep
    <2>3. QED
      BY <2>1, <2>2, ProcSteps
  <1>2. QED
    BY <1>1, RegistrySafety, RegistryRuns, PTL DEF RowsSurvive

\* A session that tells its model not to wait for mail is in the registry with the peer
\* that it is now, so the daemon wakes it, unless somebody retired the row or its launch
\* is over.
THEOREM WakeableSessionsListed == ASSUME ~QuickExits PROVE BothSpec => []WakeableIsListed
  <1>1. RInv => WakeableIsListed
    <2> SUFFICES ASSUME RInv, NEW s \in Sessions, At(s, "idle"), session[s].wakeable
                 PROVE  \/ \E r \in file : r.thread = Thread(s) /\ (r.mcp = s => r.peer = session[s].peer)
                        \/ session[s].peer \in retired \/ (s \in Launched /\ launch # "open")
      BY DEF WakeableIsListed
    <2>1. session[s].reg = session[s].peer /\ session[s].peer # 0 /\ Alive(s)
      BY DEF RInv, BookInv, WakeableIsSaved, PeersIssued, At, Alive
    <2>2. Row(s) \in file \/ session[s].peer \in retired \/ (s \in Launched /\ launch # "open")
      BY <2>1 DEF RInv, BookInv, SavedIsListed
    <2>3. Row(s).thread = Thread(s) /\ Row(s).peer = session[s].peer
      BY DEF Row
    <2>4. QED
      BY <2>2, <2>3
  <1>2. QED
    BY <1>1, RegistrySafety, PTL
=============================================================================
