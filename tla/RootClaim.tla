------------------------------ MODULE RootClaim ------------------------------
(***************************************************************************)
(* WakeLaunchClaimStore.tryAcquireRoot (shared/wake-launch-claims.ts): the *)
(* MCP children that codex app-server starts for one launch elect the one  *)
(* that takes the peer identity.  A child creates the lock file of the     *)
(* launch claim exclusively; a child that finds the file reads its owner   *)
(* under a second file, the reclaim guard, and removes the lock of a dead  *)
(* owner before it tries again.  Each system call is one step; a child may *)
(* be killed between any two of them, and its pid may be given to a later  *)
(* child.  The model covers the life of one claim, before prune() removes  *)
(* claim and lock together.                                                *)
(***************************************************************************)
EXTENDS Naturals, LockFile

CONSTANTS
  NoGuard,       \* no guard file
  MaxAttempts,   \* the bound of the recovery loop, 3 in the code
  PidReuse,      \* bound: may the pid of a dead child be given to a new one
  CrashPoints    \* bound: where a child can be killed

ASSUME RootAssumption ==
  /\ NoGuard \notin Procs
  /\ MaxAttempts \in Nat \ {0}
  /\ PidReuse \in BOOLEAN

VARIABLES
  guard,     \* the child that created the .reclaim file
  pc,        \* what a child is doing
  verdict,   \* what it does once it has removed the guard
  attempt,   \* its iteration of the recovery loop
  midway     \* history: a child was killed inside its call

vars == <<lock, guard, pc, verdict, attempt, midway>>

Calling == {"create", "write", "guard", "read", "unlink", "drop"}
Settled == {"idle", "root", "inert", "dead"}
Verdicts == {"retry", "root", "inert"}

TypeOK ==
  /\ LockTypeOK
  /\ guard \in Procs \cup {NoGuard}
  /\ pc \in [Procs -> Calling \cup Settled]
  /\ verdict \in [Procs -> Verdicts]
  /\ attempt \in [Procs -> 1 .. MaxAttempts]
  /\ midway \in BOOLEAN

Init ==
  /\ lock = Absent
  /\ guard = NoGuard
  /\ pc = [p \in Procs |-> "idle"]
  /\ verdict = [p \in Procs |-> "retry"]
  /\ attempt = [p \in Procs |-> 1]
  /\ midway = FALSE

Alive(p) == pc[p] # "dead"
Goto(p, l) == pc' = [pc EXCEPT ![p] = l]

-----------------------------------------------------------------------------

\* A child that found the claim calls tryAcquireRoot.
Start(p) ==
  /\ pc[p] = "idle"
  /\ Goto(p, "create")
  /\ attempt' = [attempt EXCEPT ![p] = 1]
  /\ UNCHANGED <<lock, guard, verdict, midway>>

Create(p) ==
  /\ pc[p] = "create"
  /\ \/ CreateExclusive(p) /\ Goto(p, "write")
     \/ Exists /\ Goto(p, "guard") /\ UNCHANGED lock
  /\ UNCHANGED <<guard, verdict, attempt, midway>>

Write(p) ==
  /\ pc[p] = "write"
  /\ WriteContent(p)
  /\ Goto(p, "root")
  /\ UNCHANGED <<guard, verdict, attempt, midway>>

Guard(p) ==
  /\ pc[p] = "guard"
  /\ \/ guard = NoGuard /\ guard' = p /\ Goto(p, "read")
     \/ guard # NoGuard /\ Goto(p, "inert") /\ UNCHANGED guard
  /\ UNCHANGED <<lock, verdict, attempt, midway>>

Decide(p, v) ==
  /\ Goto(p, "drop")
  /\ verdict' = [verdict EXCEPT ![p] = v]

\* Mutant of Read: a file without a recorded owner counts as abandoned.
ReadEmptyAsDead(p) ==
  /\ pc[p] = "read"
  /\ \/ ~Exists /\ Decide(p, "retry")
     \/ Names(p) /\ Decide(p, "root")
     \/ \E q \in Procs \ {p} : Names(q) /\ Alive(q) /\ Decide(p, "inert")
     \/ Exists /\ ~(lock.written /\ Alive(lock.by)) /\ Goto(p, "unlink") /\ UNCHANGED verdict
  /\ UNCHANGED <<lock, guard, attempt, midway>>

\* ENOENT: retry; no JSON yet: give up; own pid: root; another pid: probe it.
Read(p) ==
  /\ pc[p] = "read"
  /\ \/ ~Exists /\ Decide(p, "retry")
     \/ Exists /\ ~lock.written /\ Decide(p, "inert")
     \/ Names(p) /\ Decide(p, "root")
     \/ \E q \in Procs \ {p} : Names(q) /\ Alive(q) /\ Decide(p, "inert")
     \/ \E q \in Procs \ {p} : Names(q) /\ ~Alive(q) /\ Goto(p, "unlink") /\ UNCHANGED verdict
  /\ UNCHANGED <<lock, guard, attempt, midway>>

Unlink(p) ==
  /\ pc[p] = "unlink"
  /\ RemovePath
  /\ Decide(p, "retry")
  /\ UNCHANGED <<guard, attempt, midway>>

\* Mutant of Drop: no bound on the attempts.
DropUnbounded(p) ==
  /\ pc[p] = "drop"
  /\ guard' = NoGuard
  /\ Goto(p, IF verdict[p] = "retry" THEN "create" ELSE verdict[p])
  /\ UNCHANGED <<lock, verdict, attempt, midway>>

\* Mutant of Drop: a return from the guarded section leaves the guard behind.
DropLeaksGuard(p) ==
  /\ pc[p] = "drop"
  /\ guard' = IF verdict[p] = "inert" THEN guard ELSE NoGuard
  /\ Goto(p, IF verdict[p] = "retry" THEN "create" ELSE verdict[p])
  /\ UNCHANGED <<lock, verdict, attempt, midway>>

\* finally: the guard is removed, then the next attempt starts or the call returns.
Drop(p) ==
  /\ pc[p] = "drop"
  /\ guard' = NoGuard
  /\ \/ /\ verdict[p] # "retry"
        /\ Goto(p, verdict[p])
        /\ UNCHANGED attempt
     \/ /\ verdict[p] = "retry" /\ attempt[p] < MaxAttempts
        /\ Goto(p, "create")
        /\ attempt' = [attempt EXCEPT ![p] = @ + 1]
     \/ /\ verdict[p] = "retry" /\ attempt[p] = MaxAttempts
        /\ Goto(p, "inert")
        /\ UNCHANGED attempt
  /\ UNCHANGED <<lock, verdict, midway>>

\* The child is killed or exits; its files stay.
Crash(p) ==
  /\ pc[p] \in CrashPoints
  /\ Goto(p, "dead")
  /\ midway' = (midway \/ pc[p] \in Calling)
  /\ UNCHANGED <<lock, guard, verdict, attempt>>

\* A new child with the pid of a dead one.
Respawn(p) ==
  /\ PidReuse
  /\ pc[p] = "dead"
  /\ Goto(p, "idle")
  /\ UNCHANGED <<lock, guard, verdict, attempt, midway>>

Step(p) == Create(p) \/ Write(p) \/ Guard(p) \/ Read(p) \/ Unlink(p) \/ Drop(p)

Next == \E p \in Procs : Start(p) \/ Step(p) \/ Crash(p) \/ Respawn(p)

Spec == Init /\ [][Next]_vars

FairSpec == Spec /\ \A p \in Procs : WF_vars(Step(p))

-----------------------------------------------------------------------------

\* The file of a live root names it: no reclaimer removes the lock of a child
\* that won while the reclaimer was between reading a dead owner and unlinking.
RootOwnsLock == \A p \in Procs : pc[p] = "root" => Names(p)

\* At most one live child of a launch takes the peer identity.
AtMostOneRoot == \A p, q \in Procs : pc[p] = "root" /\ pc[q] = "root" => p = q

GivesUp(p) ==
  \/ pc[p] = "guard" /\ pc'[p] = "inert"
  \/ pc[p] = "read" /\ verdict'[p] = "inert" /\ pc'[p] = "drop"

\* A child goes inert only while another live child is root or still trying, or
\* while the pid of the lock's dead owner belongs to another process: a root that
\* crashed is replaced by the next child that asks.  A child that was killed inside
\* its call, with the guard in place or an empty lock, is excepted, and so is one
\* that met dead owners at every attempt.
LosesOnlyToLive ==
  [][~midway =>
       \A p \in Procs : GivesUp(p) =>
         \E q \in Procs \ {p} : pc[q] \in Calling \cup {"root"} \/ (Alive(q) /\ Names(q))]_vars

\* Every call of tryAcquireRoot returns although roots keep dying and the lock
\* is contended forever.
ElectionEnds == \A p \in Procs : (pc[p] \in Calling) ~> (pc[p] \in Settled)

E == INSTANCE Election WITH holders <- {p \in Procs : pc[p] = "root"}

\* The lock implements the abstract election: a child is elected only when no
\* live child is root.
ElectsOneRoot == E!Spec
==============================================================================
