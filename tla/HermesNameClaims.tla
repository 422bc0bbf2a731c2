--------------------------- MODULE HermesNameClaims ---------------------------
(***************************************************************************)
(* shared/hermes-claims.ts: the surfaces of one agent (Hermes gateway and  *)
(* serve, OpenClaw admissions, droidpeer launchers of one session) compete *)
(* for its name with a lock file.  Unlike RootClaim there is no reclaim    *)
(* guard: a process that read a dead owner renames the lock away and tries *)
(* again.  The lock records when it was acquired, so that a process which  *)
(* started later and got the pid of the dead owner does not vouch for it.  *)
(***************************************************************************)
EXTENDS Naturals, LockFile

CONSTANTS
  MaxAttempts,   \* the bound of the loop, 3 in the code
  CrashPoints,   \* bound: where a process can die
  PidReuse       \* bound: may the pid of a dead process be given to a new one

VARIABLES
  predates,   \* the lock's acquired_at lies before the start of the process that has its owner's pid
  pc,         \* what a process is doing
  attempt,    \* its iteration of the loop
  died        \* history: a process died

vars == <<lock, predates, pc, attempt, died>>

Calling == {"create", "write", "read", "rename"}
Releasing == {"check", "unlink"}
Settled == {"idle", "held", "ephemeral", "dead"}

TypeOK ==
  /\ LockTypeOK
  /\ predates \in BOOLEAN
  /\ pc \in [Procs -> Calling \cup Releasing \cup Settled]
  /\ attempt \in [Procs -> 1 .. MaxAttempts]
  /\ died \in BOOLEAN

Init ==
  /\ lock = Absent
  /\ predates = FALSE
  /\ pc = [p \in Procs |-> "idle"]
  /\ attempt = [p \in Procs |-> 1]
  /\ died = FALSE

Alive(p) == pc[p] # "dead"

\* Mutant of OwnerStillHoldsClaim: the pid alone vouches for the lock.
OwnerPidRuns == Alive(lock.by)

\* ownerStillHoldsClaim: the pid runs and its process is older than the lock.
OwnerStillHoldsClaim == Alive(lock.by) /\ ~predates

Owning == {"held"} \cup Releasing   \* told TRUE, and not released yet

Goto(p, l) == pc' = [pc EXCEPT ![p] = l]

Retry(p) ==
  \/ attempt[p] < MaxAttempts /\ Goto(p, "create") /\ attempt' = [attempt EXCEPT ![p] = @ + 1]
  \/ attempt[p] = MaxAttempts /\ Goto(p, "ephemeral") /\ UNCHANGED attempt

-----------------------------------------------------------------------------

\* tryAcquire is called at startup, and by the OpenClaw gate again every 2 s.
TryAcquire(p) ==
  /\ pc[p] \in {"idle", "ephemeral"}
  /\ Goto(p, "create")
  /\ attempt' = [attempt EXCEPT ![p] = 1]
  /\ UNCHANGED <<lock, predates, died>>

Create(p) ==
  /\ pc[p] = "create"
  /\ \/ CreateExclusive(p) /\ predates' = FALSE /\ Goto(p, "write")
     \/ Exists /\ Goto(p, "read") /\ UNCHANGED <<lock, predates>>
  /\ UNCHANGED <<attempt, died>>

Write(p) ==
  /\ pc[p] = "write"
  /\ WriteContent(p)
  /\ Goto(p, "held")
  /\ UNCHANGED <<predates, attempt, died>>

\* Mutant of Read: an unreadable lock counts as a dead owner's.
ReadCorruptAsDead(p) ==
  /\ pc[p] = "read"
  /\ \/ ~Exists /\ Retry(p)
     \/ Names(p) /\ Goto(p, "held") /\ UNCHANGED attempt
     \/ Exists /\ lock.written /\ lock.by # p /\ OwnerStillHoldsClaim
        /\ Goto(p, "ephemeral") /\ UNCHANGED attempt
     \/ Exists /\ ~Names(p) /\ ~(lock.written /\ OwnerStillHoldsClaim)
        /\ Goto(p, "rename") /\ UNCHANGED attempt
  /\ UNCHANGED <<lock, predates, died>>

\* ENOENT: retry; corrupt: fail closed; own pid: held; otherwise ask for the owner.
Read(p) ==
  /\ pc[p] = "read"
  /\ \/ ~Exists /\ Retry(p)
     \/ Exists /\ ~lock.written /\ Goto(p, "ephemeral") /\ UNCHANGED attempt
     \/ Names(p) /\ Goto(p, "held") /\ UNCHANGED attempt
     \/ Exists /\ lock.written /\ lock.by # p /\ OwnerStillHoldsClaim
        /\ Goto(p, "ephemeral") /\ UNCHANGED attempt
     \/ Exists /\ lock.written /\ lock.by # p /\ ~OwnerStillHoldsClaim
        /\ Goto(p, "rename") /\ UNCHANGED attempt
  /\ UNCHANGED <<lock, predates, died>>

\* The path is renamed to a tombstone, whatever file it names; ENOENT is ignored.
Rename(p) ==
  /\ pc[p] = "rename"
  /\ RemovePath
  /\ Retry(p)
  /\ UNCHANGED <<predates, died>>

Release(p) ==
  /\ pc[p] = "held"
  /\ Goto(p, "check")
  /\ UNCHANGED <<lock, predates, attempt, died>>

\* release(): the lock is read, and unlinked in a later step if it names the caller.
ReleaseCheck(p) ==
  /\ pc[p] = "check"
  /\ Goto(p, IF Names(p) THEN "unlink" ELSE "idle")
  /\ UNCHANGED <<lock, predates, attempt, died>>

ReleaseUnlink(p) ==
  /\ pc[p] = "unlink"
  /\ RemovePath
  /\ Goto(p, "idle")
  /\ UNCHANGED <<predates, attempt, died>>

Crash(p) ==
  /\ pc[p] \in CrashPoints
  /\ Goto(p, "dead")
  /\ predates' = (predates \/ (Exists /\ lock.by = p))
  /\ died' = TRUE
  /\ UNCHANGED <<lock, attempt>>

\* The operating system gives the pid to a later process of the same agent.
Respawn(p) ==
  /\ PidReuse
  /\ pc[p] = "dead"
  /\ Goto(p, "idle")
  /\ UNCHANGED <<lock, predates, attempt, died>>

Next ==
  \E p \in Procs :
    \/ TryAcquire(p) \/ Create(p) \/ Write(p) \/ Read(p) \/ Rename(p)
    \/ Release(p) \/ ReleaseCheck(p) \/ ReleaseUnlink(p)
    \/ Crash(p) \/ Respawn(p)

Spec == Init /\ [][Next]_vars

-----------------------------------------------------------------------------

\* At most one live process owns the name, however the surfaces interleave.
AtMostOneHolder ==
  \A p, q \in Procs : pc[p] \in Owning /\ pc[q] \in Owning => p = q

\* While no process has died, the name has at most one owner, and nobody removes
\* or replaces the owner's lock before the owner releases it: a process that reads
\* an empty lock does not take it for an abandoned one.
SoleHolder ==
  ~died => AtMostOneHolder /\ \A p \in Procs : pc[p] \in Owning => Names(p)

\* A process gives the name up only while another live one owns it or is still
\* trying, so the name of a dead owner is free again, also when its pid was given
\* to a new process.  One that met changing owners at every attempt is excepted.
LosesOnlyToLive ==
  [][\A p \in Procs : pc[p] = "read" /\ pc'[p] = "ephemeral" /\ Exists
       => \E q \in Procs \ {p} : pc[q] \in Calling \cup Owning]_vars
===============================================================================
