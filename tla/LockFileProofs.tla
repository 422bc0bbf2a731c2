---------------------------- MODULE LockFileProofs ----------------------------
(***************************************************************************)
(* Proofs about the two elections by lock file, RootClaim and              *)
(* HermesNameClaims, for any number of processes, attempts, deaths and     *)
(* reused pids.  MCLockFiles puts them side by side on disjoint state.     *)
(***************************************************************************)
EXTENDS MCLockFiles, TLAPS

-----------------------------------------------------------------------------
(* The launch claims *)


\* A child that is inside the guarded section made the guard file.
GuardedByOne ==
  \A p \in Procs : pc[p] \in {"read", "unlink", "drop"} => guard = p

\* The file of a child that has not written its content yet is still at the path.
WriterOwnsLock == \A p \in Procs : pc[p] = "write" => lock = File(p, FALSE)

\* A child that read its own pid still finds it in the file when it returns.
OwnVerdictHolds == \A p \in Procs : pc[p] = "drop" /\ verdict[p] = "root" => Names(p)

\* The file that a reclaimer is about to unlink names nobody who won.
ReclaimsLoser ==
  \A p \in Procs : pc[p] = "unlink" => \E q \in Procs : Names(q) /\ pc[q] # "root"

IInv ==
  /\ TypeOK
  /\ GuardedByOne
  /\ WriterOwnsLock
  /\ RootOwnsLock
  /\ OwnVerdictHolds
  /\ ReclaimsLoser

-----------------------------------------------------------------------------

\* What the three kinds of lock file are: absent, empty, or naming one process.
LEMMA FileFacts ==
  ASSUME NEW p \in Procs, NEW q \in Procs
  PROVE  /\ File(p, TRUE) # Absent /\ File(p, FALSE) # Absent
         /\ File(p, FALSE) # File(q, TRUE)
         /\ File(p, TRUE) = File(q, TRUE) => p = q
         /\ File(p, FALSE) = File(q, FALSE) => p = q
         /\ File(p, TRUE) \in [by : Procs, written : BOOLEAN]
         /\ File(p, FALSE) \in [by : Procs, written : BOOLEAN]
  <1>1. /\ File(p, TRUE) \in [by : Procs, written : BOOLEAN]
        /\ File(p, FALSE) \in [by : Procs, written : BOOLEAN]
    BY DEF File
  <1>2. /\ File(p, TRUE).by = p /\ File(q, TRUE).by = q
        /\ File(p, FALSE).by = p /\ File(q, FALSE).by = q
        /\ File(p, FALSE).written = FALSE /\ File(q, TRUE).written = TRUE
    BY DEF File
  <1>3. File(p, FALSE) # File(q, TRUE)
    BY <1>2
  <1>4. QED
    BY <1>1, <1>2, <1>3, LockFileAssumption

LEMMA InitTypeOK == Init => TypeOK
  <1> SUFFICES ASSUME Init PROVE TypeOK
    OBVIOUS
  <1>1. midway \in BOOLEAN
    BY Zenon DEF Init
  <1>2. QED
    BY <1>1, RootAssumption DEF Init, TypeOK, LockTypeOK, Calling, Settled, Verdicts

LEMMA StepTypeOK == TypeOK /\ [Next]_vars => TypeOK'
  <1> SUFFICES ASSUME TypeOK, [Next]_vars PROVE TypeOK'
    OBVIOUS
  <1> USE DEF TypeOK, LockTypeOK, Calling, Settled, Verdicts, Goto
  <1>1. ASSUME NEW p \in Procs, Start(p) PROVE TypeOK'
    BY <1>1, RootAssumption DEF Start
  <1>2. ASSUME NEW p \in Procs, Create(p) PROVE TypeOK'
    BY <1>2, FileFacts DEF Create, CreateExclusive
  <1>3. ASSUME NEW p \in Procs, Write(p) PROVE TypeOK'
    BY <1>3, FileFacts DEF Write, WriteContent
  <1>4. ASSUME NEW p \in Procs, Guard(p) PROVE TypeOK'
    BY <1>4 DEF Guard
  <1>5. ASSUME NEW p \in Procs, Read(p) PROVE TypeOK'
    BY <1>5 DEF Read, Decide
  <1>6. ASSUME NEW p \in Procs, Unlink(p) PROVE TypeOK'
    BY <1>6 DEF Unlink, RemovePath, Decide
  <1>7. ASSUME NEW p \in Procs, Drop(p) PROVE TypeOK'
    BY <1>7, RootAssumption DEF Drop
  <1>8. ASSUME NEW p \in Procs, Crash(p) PROVE TypeOK'
    BY <1>8 DEF Crash
  <1>9. ASSUME NEW p \in Procs, Respawn(p) PROVE TypeOK'
    BY <1>9 DEF Respawn
  <1>10. CASE UNCHANGED vars
    BY <1>10 DEF vars
  <1>11. QED
    BY <1>1, <1>2, <1>3, <1>4, <1>5, <1>6, <1>7, <1>8, <1>9, <1>10 DEF Next, Step

\* Every reachable state is well typed.
THEOREM TypeCorrect == Spec => []TypeOK
  BY InitTypeOK, StepTypeOK, PTL DEF Spec

-----------------------------------------------------------------------------

LEMMA InitIInv == Init => IInv
  BY InitTypeOK
  DEF Init, IInv, GuardedByOne, WriterOwnsLock, RootOwnsLock, OwnVerdictHolds, ReclaimsLoser

\* The parts of the invariant that speak of the processes only through pc,
\* verdict and the two files.
Owned == GuardedByOne /\ WriterOwnsLock /\ RootOwnsLock /\ OwnVerdictHolds /\ ReclaimsLoser

LEMMA StepIInv == IInv /\ [Next]_vars => IInv'
  <1> SUFFICES ASSUME IInv, [Next]_vars PROVE Owned'
    BY StepTypeOK DEF IInv, Owned
  <1> USE DEF IInv, TypeOK, LockTypeOK, Owned, Goto, Exists, Names,
              GuardedByOne, WriterOwnsLock, RootOwnsLock, OwnVerdictHolds, ReclaimsLoser
  <1>1. ASSUME NEW p \in Procs, Start(p) PROVE Owned'
    BY <1>1 DEF Start
  <1>2. ASSUME NEW p \in Procs, Create(p) PROVE Owned'
    <2>1. CASE CreateExclusive(p) /\ Goto(p, "write")
      \* No file was there, so nobody owned one.
      <3>1. \A q \in Procs : pc[q] \notin {"write", "root", "unlink"}
                               /\ ~(pc[q] = "drop" /\ verdict[q] = "root")
        BY <2>1, FileFacts DEF CreateExclusive
      <3>2. QED
        BY <1>2, <2>1, <3>1, FileFacts DEF Create, CreateExclusive
    <2>2. CASE Exists /\ Goto(p, "guard") /\ UNCHANGED lock
      BY <1>2, <2>2 DEF Create
    <2>3. QED
      BY <1>2, <2>1, <2>2 DEF Create
  <1>3. ASSUME NEW p \in Procs, Write(p) PROVE Owned'
    \* The path holds the caller's empty file, which becomes its full one.
    <2>1. lock = File(p, FALSE) /\ lock' = File(p, TRUE)
      BY <1>3 DEF Write, WriteContent
    <2>2. \A q \in Procs : q # p => pc[q] \notin {"write", "root"}
      BY <2>1, FileFacts
    <2>3. \A q \in Procs : pc[q] # "unlink" /\ ~(pc[q] = "drop" /\ verdict[q] = "root")
      BY <2>1, FileFacts
    <2>4. QED
      BY <1>3, <2>1, <2>2, <2>3 DEF Write
  <1>4. ASSUME NEW p \in Procs, Guard(p) PROVE Owned'
    BY <1>4, RootAssumption DEF Guard
  <1>5. ASSUME NEW p \in Procs, Read(p) PROVE Owned'
    BY <1>5 DEF Read, Decide, Alive
  <1>6. ASSUME NEW p \in Procs, Unlink(p) PROVE Owned'
    <2>1. PICK r \in Procs : Names(r) /\ pc[r] # "root"
      BY <1>6 DEF Unlink
    <2>2. \A q \in Procs : pc[q] \notin {"write", "root"}
      <3>1. lock = File(r, TRUE)
        BY <2>1 DEF Names
      <3>2. \A q \in Procs : lock # File(q, FALSE) /\ (lock = File(q, TRUE) => q = r)
        BY <3>1, FileFacts
      <3>3. \A q \in Procs : pc[q] # "write"
        BY <3>2 DEF WriterOwnsLock
      <3>4. \A q \in Procs : pc[q] # "root"
        BY <2>1, <3>2 DEF RootOwnsLock
      <3>5. QED
        BY <3>3, <3>4
    <2>3. \A q \in Procs : q # p => pc[q] \notin {"read", "unlink", "drop"}
      BY <1>6 DEF Unlink
    <2>4. QED
      BY <1>6, <2>2, <2>3 DEF Unlink, RemovePath, Decide
  <1>7. ASSUME NEW p \in Procs, Drop(p) PROVE Owned'
    <2>1. \A q \in Procs : q # p => pc[q] \notin {"read", "unlink", "drop"}
      BY <1>7 DEF Drop
    <2>2. QED
      BY <1>7, <2>1 DEF Drop, Verdicts
  <1>8. ASSUME NEW p \in Procs, Crash(p) PROVE Owned'
    BY <1>8 DEF Crash
  <1>9. ASSUME NEW p \in Procs, Respawn(p) PROVE Owned'
    BY <1>9 DEF Respawn
  <1>10. CASE UNCHANGED vars
    BY <1>10 DEF vars
  <1>11. QED
    BY <1>1, <1>2, <1>3, <1>4, <1>5, <1>6, <1>7, <1>8, <1>9, <1>10 DEF Next, Step

LEMMA Safety == Spec => []IInv
  BY InitIInv, StepIInv, PTL DEF Spec

\* Nobody removes or replaces the lock file of a live root.
THEOREM RootIsSafe == Spec => []RootOwnsLock
  <1>1. IInv => RootOwnsLock
    BY DEF IInv
  <1>2. QED
    BY <1>1, Safety, PTL

LEMMA RootsAgree == IInv => AtMostOneRoot
  BY FileFacts DEF IInv, RootOwnsLock, AtMostOneRoot, Names

\* Two children of one launch are never both root.
THEOREM OneRoot == Spec => []AtMostOneRoot
  BY Safety, RootsAgree, PTL

-----------------------------------------------------------------------------

\* While no child was killed inside its call, the guard and an empty lock file
\* belong to a child that is still at work on them.
Attended ==
  midway = FALSE =>
    /\ guard # NoGuard => pc[guard] \in {"read", "unlink", "drop"}
    /\ \A q \in Procs : lock = File(q, FALSE) => pc[q] = "write"

LEMMA StepAttended == IInv /\ Attended /\ [Next]_vars => Attended'
  <1> SUFFICES ASSUME IInv, Attended, [Next]_vars PROVE Attended'
    OBVIOUS
  <1> USE DEF IInv, TypeOK, LockTypeOK, Goto, Exists, Attended, GuardedByOne, WriterOwnsLock
  <1>1. ASSUME NEW p \in Procs, Start(p) PROVE Attended'
    BY <1>1 DEF Start
  <1>2. ASSUME NEW p \in Procs, Create(p) PROVE Attended'
    BY <1>2, FileFacts DEF Create, CreateExclusive
  <1>3. ASSUME NEW p \in Procs, Write(p) PROVE Attended'
    <2>1. lock' = File(p, TRUE)
      BY <1>3 DEF Write, WriteContent
    <2>2. QED
      BY <1>3, <2>1, FileFacts DEF Write
  <1>4. ASSUME NEW p \in Procs, Guard(p) PROVE Attended'
    BY <1>4 DEF Guard
  <1>5. ASSUME NEW p \in Procs, Read(p) PROVE Attended'
    BY <1>5 DEF Read, Decide
  <1>6. ASSUME NEW p \in Procs, Unlink(p) PROVE Attended'
    BY <1>6, FileFacts DEF Unlink, RemovePath, Decide
  <1>7. ASSUME NEW p \in Procs, Drop(p) PROVE Attended'
    BY <1>7 DEF Drop
  <1>8. ASSUME NEW p \in Procs, Crash(p) PROVE Attended'
    <2>1. midway' = FALSE => midway = FALSE /\ pc[p] \notin Calling
      BY <1>8, Zenon DEF Crash
    <2>2. QED
      BY <1>8, <2>1, RootAssumption DEF Crash, Calling
  <1>9. ASSUME NEW p \in Procs, Respawn(p) PROVE Attended'
    BY <1>9, RootAssumption DEF Respawn
  <1>10. CASE UNCHANGED vars
    BY <1>10 DEF vars
  <1>11. QED
    BY <1>1, <1>2, <1>3, <1>4, <1>5, <1>6, <1>7, <1>8, <1>9, <1>10 DEF Next, Step

LEMMA StepLoses ==
  ASSUME IInv, Attended, [Next]_vars, ~midway, NEW p \in Procs, GivesUp(p)
  PROVE  \E q \in Procs \ {p} : pc[q] \in Calling \cup {"root"} \/ (Alive(q) /\ Names(q))
  <1> USE DEF IInv, TypeOK, LockTypeOK
  <1>0. midway = FALSE
    BY Zenon
  <1>1. \/ Guard(p) /\ guard # NoGuard
        \/ Read(p) /\ verdict'[p] = "inert" /\ pc'[p] = "drop"
    <2>1. ASSUME NEW r \in Procs, Start(r) \/ Create(r) \/ Write(r) \/ Unlink(r) \/ Drop(r) \/ Crash(r) \/ Respawn(r)
          PROVE  FALSE
      BY <2>1 DEF GivesUp, Start, Create, Write, Unlink, Decide, Drop, Crash, Respawn, Goto
    <2>2. ASSUME NEW r \in Procs, Guard(r) PROVE Guard(p) /\ guard # NoGuard
      BY <2>2 DEF GivesUp, Guard, Goto
    <2>3. ASSUME NEW r \in Procs, Read(r) PROVE Read(p) /\ verdict'[p] = "inert" /\ pc'[p] = "drop"
      BY <2>3 DEF GivesUp, Read, Decide, Goto
    <2>4. ~UNCHANGED vars
      BY DEF GivesUp, vars
    <2>5. QED
      BY <2>1, <2>2, <2>3, <2>4 DEF Next, Step
  <1>2. CASE Guard(p) /\ guard # NoGuard
    \* The child in the guarded section is at work.
    BY <1>0, <1>2 DEF Guard, Attended, Calling
  <1>3. CASE Read(p) /\ verdict'[p] = "inert" /\ pc'[p] = "drop"
    <2>1. pc[p] = "read" /\ ((Exists /\ ~lock.written) \/ \E q \in Procs \ {p} : Names(q) /\ Alive(q))
      BY <1>3, Zenon DEF Read, Decide, Goto
    <2>2. CASE Exists /\ ~lock.written
      \* The empty lock is that of a child that is writing it.
      <3>1. lock.by \in Procs /\ lock = File(lock.by, FALSE)
        BY <2>2 DEF Exists, File
      <3>2. QED
        BY <1>0, <2>1, <3>1 DEF Attended, Calling
    <2>3. QED
      BY <2>1, <2>2
  <1>4. QED
    BY <1>1, <1>2, <1>3

\* A child goes inert only for a live one that is root or still at work, as long
\* as none was killed inside its call.
THEOREM LossIsJustified == Spec => LosesOnlyToLive
  <1> DEFINE Justified ==
        ~midway =>
          \A p \in Procs : GivesUp(p) =>
            \E q \in Procs \ {p} : pc[q] \in Calling \cup {"root"} \/ (Alive(q) /\ Names(q))
  <1>1. Init => Attended
    BY FileFacts DEF Init, Attended
  <1>2. IInv /\ Attended /\ [Next]_vars => Attended'
    BY StepAttended
  <1>3. IInv /\ Attended /\ [Next]_vars => Justified
    BY StepLoses
  <1>4. QED
    BY <1>1, <1>2, <1>3, Safety, PTL DEF Spec, LosesOnlyToLive

-----------------------------------------------------------------------------

Roots == {p \in Procs : pc[p] = "root"}

LEMMA StepElects == IInv /\ IInv' /\ [Next]_vars => [E!Next]_Roots
  <1> SUFFICES ASSUME IInv, IInv', [Next]_vars PROVE E!Next \/ Roots' = Roots
    OBVIOUS
  <1> USE DEF TypeOK, Roots, Goto
  <1>1. ASSUME NEW p \in Procs, pc' = [pc EXCEPT ![p] = "root"], pc[p] # "root",
               \A q \in Procs : pc[q] # "root"
        PROVE  E!Next
    <2>1. Roots = {} /\ Roots' = {p}
      BY <1>1 DEF IInv
    <2>2. QED
      BY <2>1 DEF E!Next, E!Win
  <1>2. ASSUME NEW p \in Procs, NEW l, pc' = [pc EXCEPT ![p] = l], pc[p] # "root", l # "root"
        PROVE  Roots' = Roots
    BY <1>2 DEF IInv
  <1>3. ASSUME NEW p \in Procs, Step(p) PROVE E!Next \/ Roots' = Roots
    <2>1. CASE pc'[p] = "root"
      <3>1. \A q \in Procs : q # p => pc'[q] # "root"
        <4>1. \A q \in Procs : pc'[q] = "root" => lock' = File(q, TRUE)
          BY DEF IInv, RootOwnsLock, Names
        <4>2. QED
          BY <2>1, <4>1, FileFacts
      <3>2. pc[p] # "root" /\ pc' = [pc EXCEPT ![p] = "root"]
        BY <1>3, <2>1
        DEF IInv, Step, Create, Write, Guard, Read, Unlink, Drop, Decide
      <3>3. \A q \in Procs : pc[q] # "root"
        BY <3>1, <3>2 DEF IInv
      <3>4. QED
        BY <1>1, <3>2, <3>3
    <2>2. CASE pc'[p] # "root"
      <3>1. PICK l : pc' = [pc EXCEPT ![p] = l] /\ pc[p] # "root"
        BY <1>3 DEF Step, Create, Write, Guard, Read, Unlink, Drop, Decide
      <3>2. QED
        BY <1>2, <2>2, <3>1 DEF IInv
    <2>3. QED
      BY <2>1, <2>2
  <1>4. ASSUME NEW p \in Procs, Start(p) \/ Respawn(p) PROVE Roots' = Roots
    BY <1>2, <1>4 DEF Start, Respawn
  <1>5. ASSUME NEW p \in Procs, Crash(p) PROVE E!Next \/ Roots' = Roots
    <2>1. CASE pc[p] = "root"
      <3>1. p \in Roots /\ Roots' = Roots \ {p}
        BY <1>5, <2>1 DEF Crash, IInv
      <3>2. QED
        BY <3>1 DEF E!Next, E!Leave
    <2>2. CASE pc[p] # "root"
      BY <1>2, <1>5, <2>2 DEF Crash
    <2>3. QED
      BY <2>1, <2>2
  <1>6. CASE UNCHANGED vars
    BY <1>6 DEF vars
  <1>7. QED
    BY <1>3, <1>4, <1>5, <1>6 DEF Next

\* The lock file implements the abstract election.
THEOREM Refinement == Spec => ElectsOneRoot
  <1>1. Init => E!Init
    BY DEF Init, E!Init
  <1>2. IInv /\ IInv' /\ [Next]_vars => [E!Next]_Roots
    BY StepElects
  <1>3. QED
    BY <1>1, <1>2, Safety, PTL DEF Spec, ElectsOneRoot, E!Spec, Roots

-----------------------------------------------------------------------------
(* The name claims *)

NamePhases == NameClaims!Calling \cup NameClaims!Releasing \cup NameClaims!Settled

NameTyped ==
  /\ nameLock \in [by : Procs, written : BOOLEAN] \cup {Absent}
  /\ namePc \in [Procs -> NamePhases]

\* While nobody has died, the lock is that of the process that is writing or owns
\* it, and no process has found a lock to rename away.
NamesOwner ==
  ~died =>
    /\ predates = FALSE
    /\ \A p \in Procs : namePc[p] \notin {"dead", "rename"}
    /\ \A p \in Procs : namePc[p] = "write" => nameLock = File(p, FALSE)
    /\ \A p \in Procs : namePc[p] \in NameClaims!Owning => nameLock = File(p, TRUE)

\* A lock is younger than the process with its owner's pid only if that process
\* owns the name, or is still writing the lock; the lock of a dead owner is complete.
VouchedFor ==
  nameLock # Absent =>
    /\ ~predates => namePc[nameLock.by] \in IF nameLock.written THEN NameClaims!Owning ELSE {"write"}
    /\ nameLock.written = FALSE => ~predates

LEMMA SameFile ==
  ASSUME NEW p \in Procs
  PROVE  /\ NameClaims!File(p, TRUE) = File(p, TRUE)
         /\ NameClaims!File(p, FALSE) = File(p, FALSE)
         /\ NameClaims!Names(p) <=> nameLock = File(p, TRUE)
  BY DEF NameClaims!File, File, NameClaims!Names

LEMMA FileParts ==
  ASSUME NEW p \in Procs, NEW w \in BOOLEAN
  PROVE  File(p, w).by = p /\ File(p, w).written = w
  BY DEF File

\* What creating and writing the lock do.
LEMMA NameCreated ==
  ASSUME NEW p \in Procs, NameClaims!Create(p)
  PROVE  /\ namePc[p] = "create" /\ died' = died
         /\ \/ /\ nameLock = Absent /\ nameLock' = File(p, FALSE) /\ predates' = FALSE
               /\ namePc' = [namePc EXCEPT ![p] = "write"]
            \/ /\ nameLock # Absent /\ UNCHANGED <<nameLock, predates>>
               /\ namePc' = [namePc EXCEPT ![p] = "read"]
  BY SameFile DEF NameClaims!Create, NameClaims!CreateExclusive, NameClaims!Exists, NameClaims!Goto

LEMMA NameWritten ==
  ASSUME NEW p \in Procs, NameClaims!Write(p)
  PROVE  /\ namePc[p] = "write" /\ UNCHANGED <<predates, died>>
         /\ namePc' = [namePc EXCEPT ![p] = "held"]
         /\ nameLock' = IF nameLock = File(p, FALSE) THEN File(p, TRUE) ELSE nameLock
  BY SameFile DEF NameClaims!Write, NameClaims!WriteContent, NameClaims!Goto

LEMMA StepNameTyped == NameTyped /\ [NameClaims!Next]_nameVars => NameTyped'
  <1> SUFFICES ASSUME NameTyped, [NameClaims!Next]_nameVars PROVE NameTyped'
    OBVIOUS
  <1> USE DEF NameTyped, NamePhases, NameClaims!Calling, NameClaims!Releasing, NameClaims!Settled, NameClaims!Goto
  <1>1. ASSUME NEW p \in Procs, NameClaims!TryAcquire(p) PROVE NameTyped'
    BY <1>1 DEF NameClaims!TryAcquire
  <1>2. ASSUME NEW p \in Procs, NameClaims!Create(p) PROVE NameTyped'
    <2>1. CASE /\ nameLock = Absent /\ nameLock' = File(p, FALSE) /\ predates' = FALSE /\ died' = died
               /\ namePc' = [namePc EXCEPT ![p] = "write"]
      BY <2>1, FileFacts
    <2>2. CASE UNCHANGED <<nameLock, predates, died>> /\ namePc' = [namePc EXCEPT ![p] = "read"]
      BY <1>2, <2>2
    <2>3. QED
      BY <1>2, <2>1, <2>2, NameCreated
  <1>3. ASSUME NEW p \in Procs, NameClaims!Write(p) PROVE NameTyped'
    <2>1. /\ namePc[p] = "write" /\ UNCHANGED <<predates, died>>
          /\ namePc' = [namePc EXCEPT ![p] = "held"]
          /\ nameLock' = IF nameLock = File(p, FALSE) THEN File(p, TRUE) ELSE nameLock
      BY <1>3, NameWritten
    <2>2. QED
      BY <2>1, FileFacts
  <1>4. ASSUME NEW p \in Procs, NameClaims!Read(p) PROVE NameTyped'
    BY <1>4 DEF NameClaims!Read, NameClaims!Retry
  <1>5. ASSUME NEW p \in Procs, NameClaims!Rename(p) PROVE NameTyped'
    BY <1>5 DEF NameClaims!Rename, NameClaims!Retry, NameClaims!RemovePath
  <1>6. ASSUME NEW p \in Procs, NameClaims!Release(p) PROVE NameTyped'
    BY <1>6 DEF NameClaims!Release
  <1>7. ASSUME NEW p \in Procs, NameClaims!ReleaseCheck(p) PROVE NameTyped'
    BY <1>7 DEF NameClaims!ReleaseCheck
  <1>8. ASSUME NEW p \in Procs, NameClaims!ReleaseUnlink(p) PROVE NameTyped'
    BY <1>8 DEF NameClaims!ReleaseUnlink, NameClaims!RemovePath
  <1>9. ASSUME NEW p \in Procs, NameClaims!Crash(p) PROVE NameTyped'
    BY <1>9 DEF NameClaims!Crash
  <1>10. ASSUME NEW p \in Procs, NameClaims!Respawn(p) PROVE NameTyped'
    BY <1>10 DEF NameClaims!Respawn
  <1>11. CASE UNCHANGED nameVars
    BY <1>11 DEF nameVars
  <1>12. QED
    BY <1>1, <1>2, <1>3, <1>4, <1>5, <1>6, <1>7, <1>8, <1>9, <1>10, <1>11
    DEF NameClaims!Next

LEMMA StepNamesOwner == NameTyped /\ NamesOwner /\ [NameClaims!Next]_nameVars => NamesOwner'
  <1> SUFFICES ASSUME NameTyped, NamesOwner, [NameClaims!Next]_nameVars PROVE NamesOwner'
    OBVIOUS
  <1> USE DEF NameTyped, NamePhases, NameClaims!Calling, NameClaims!Releasing, NameClaims!Settled, NameClaims!Goto,
              NamesOwner, NameClaims!Owning, NameClaims!Exists
  <1>1. ASSUME NEW p \in Procs, NameClaims!TryAcquire(p) PROVE NamesOwner'
    BY <1>1 DEF NameClaims!TryAcquire
  <1>2. ASSUME NEW p \in Procs, NameClaims!Create(p) PROVE NamesOwner'
    <2>1. CASE /\ nameLock = Absent /\ nameLock' = File(p, FALSE) /\ predates' = FALSE /\ died' = died
               /\ namePc' = [namePc EXCEPT ![p] = "write"]
      <3>1. File(p, FALSE) # File(p, TRUE) /\ \A q \in Procs : File(q, TRUE) # Absent /\ File(q, FALSE) # Absent
        BY FileFacts
      <3>2. QED
        BY <2>1, <3>1
    <2>2. CASE UNCHANGED <<nameLock, predates, died>> /\ namePc' = [namePc EXCEPT ![p] = "read"]
      BY <1>2, <2>2, NameCreated
    <2>3. QED
      BY <1>2, <2>1, <2>2, NameCreated
  <1>3. ASSUME NEW p \in Procs, NameClaims!Write(p) PROVE NamesOwner'
    <2>1. /\ namePc[p] = "write" /\ UNCHANGED <<predates, died>>
          /\ namePc' = [namePc EXCEPT ![p] = "held"]
          /\ nameLock' = IF nameLock = File(p, FALSE) THEN File(p, TRUE) ELSE nameLock
      BY <1>3, NameWritten
    <2>2. \A q \in Procs : File(q, TRUE) # File(p, FALSE) /\ (File(q, FALSE) = File(p, FALSE) => q = p)
      BY FileFacts
    <2>3. QED
      BY <2>1, <2>2
  <1>4. ASSUME NEW p \in Procs, NameClaims!Read(p) PROVE NamesOwner'
    \* Nobody is dead, so a complete lock of another process is honoured.
    <2>1. ~died => namePc'[p] # "rename"
      <3> SUFFICES ASSUME ~died, namePc'[p] = "rename" PROVE FALSE
        OBVIOUS
      <3>1. nameLock # Absent /\ ~NameClaims!OwnerStillHoldsClaim
        BY <1>4 DEF NameClaims!Read, NameClaims!Retry
      <3>2. nameLock.by \in Procs /\ namePc[nameLock.by] # "dead"
        BY <3>1
      <3>3. predates = FALSE
        OBVIOUS
      <3>4. NameClaims!Alive(nameLock.by)
        BY <3>2 DEF NameClaims!Alive
      <3>5. QED
        BY <3>1, <3>3, <3>4, Zenon DEF NameClaims!OwnerStillHoldsClaim
    <2>2. UNCHANGED <<nameLock, predates, died>> /\ \A q \in Procs \ {p} : namePc'[q] = namePc[q]
      BY <1>4 DEF NameClaims!Read, NameClaims!Retry
    <2>3. namePc'[p] \in {"create", "ephemeral", "rename"} \/ (namePc'[p] = "held" /\ nameLock = File(p, TRUE))
      BY <1>4, SameFile DEF NameClaims!Read, NameClaims!Retry
    <2>4. QED
      BY <1>4, <2>1, <2>2, <2>3
  <1>5. ASSUME NEW p \in Procs, NameClaims!Rename(p) PROVE NamesOwner'
    BY <1>5 DEF NameClaims!Rename, NameClaims!Retry, NameClaims!RemovePath
  <1>6. ASSUME NEW p \in Procs, NameClaims!Release(p) PROVE NamesOwner'
    BY <1>6 DEF NameClaims!Release
  <1>7. ASSUME NEW p \in Procs, NameClaims!ReleaseCheck(p) PROVE NamesOwner'
    <2>1. UNCHANGED <<nameLock, predates, died>> /\ namePc[p] = "check"
      BY <1>7 DEF NameClaims!ReleaseCheck
    <2>2. PICK l \in {"unlink", "idle"} : namePc' = [namePc EXCEPT ![p] = l]
      BY <1>7 DEF NameClaims!ReleaseCheck
    <2>3. ~died => nameLock = File(p, TRUE)
      BY <2>1
    <2>4. QED
      BY <2>1, <2>2, <2>3
  <1>8. ASSUME NEW p \in Procs, NameClaims!ReleaseUnlink(p) PROVE NamesOwner'
    <2>1. nameLock' = Absent /\ namePc' = [namePc EXCEPT ![p] = "idle"] /\ UNCHANGED <<predates, died>>
      BY <1>8 DEF NameClaims!ReleaseUnlink, NameClaims!RemovePath
    <2>2. ~died => \A q \in Procs \ {p} : namePc[q] \notin {"write"} \cup NameClaims!Owning
      <3>1. \A q \in Procs : File(q, FALSE) # File(p, TRUE) /\ (File(q, TRUE) = File(p, TRUE) => q = p)
        BY FileFacts
      <3>2. namePc[p] = "unlink"
        BY <1>8 DEF NameClaims!ReleaseUnlink
      <3>3. QED
        BY <3>1, <3>2
    <2>3. QED
      BY <2>1, <2>2
  <1>9. ASSUME NEW p \in Procs, NameClaims!Crash(p) PROVE NamesOwner'
    <2>1. died' = TRUE
      BY <1>9, Zenon DEF NameClaims!Crash
    <2>2. QED
      BY <2>1
  <1>10. ASSUME NEW p \in Procs, NameClaims!Respawn(p) PROVE NamesOwner'
    BY <1>10 DEF NameClaims!Respawn
  <1>11. CASE UNCHANGED nameVars
    BY <1>11 DEF nameVars
  <1>12. QED
    BY <1>1, <1>2, <1>3, <1>4, <1>5, <1>6, <1>7, <1>8, <1>9, <1>10, <1>11
    DEF NameClaims!Next

LEMMA StepVouchedFor ==
  "write" \notin NameCrashPoints /\ NameTyped /\ VouchedFor /\ [NameClaims!Next]_nameVars => VouchedFor'
  <1> SUFFICES ASSUME "write" \notin NameCrashPoints, NameTyped, VouchedFor, [NameClaims!Next]_nameVars
               PROVE  VouchedFor'
    OBVIOUS
  <1> USE DEF NameTyped, NamePhases, NameClaims!Calling, NameClaims!Releasing, NameClaims!Settled, NameClaims!Goto,
              VouchedFor, NameClaims!Owning, NameClaims!Exists
  <1>1. ASSUME NEW p \in Procs, NameClaims!TryAcquire(p) PROVE VouchedFor'
    BY <1>1 DEF NameClaims!TryAcquire
  <1>2. ASSUME NEW p \in Procs, NameClaims!Create(p) PROVE VouchedFor'
    <2>1. CASE /\ nameLock = Absent /\ nameLock' = File(p, FALSE) /\ predates' = FALSE /\ died' = died
               /\ namePc' = [namePc EXCEPT ![p] = "write"]
      <3>1. File(p, FALSE).by = p /\ File(p, FALSE).written = FALSE
        BY FileParts
      <3>2. QED
        BY <2>1, <3>1
    <2>2. CASE UNCHANGED <<nameLock, predates, died>> /\ namePc' = [namePc EXCEPT ![p] = "read"]
      BY <1>2, <2>2, NameCreated
    <2>3. QED
      BY <1>2, <2>1, <2>2, NameCreated
  <1>3. ASSUME NEW p \in Procs, NameClaims!Write(p) PROVE VouchedFor'
    <2>1. /\ namePc[p] = "write" /\ UNCHANGED <<predates, died>>
          /\ namePc' = [namePc EXCEPT ![p] = "held"]
          /\ nameLock' = IF nameLock = File(p, FALSE) THEN File(p, TRUE) ELSE nameLock
      BY <1>3, NameWritten
    <2>2. File(p, TRUE) # Absent /\ File(p, TRUE).by = p /\ File(p, TRUE).written = TRUE
      BY FileParts, FileFacts
    <2>3. CASE nameLock = File(p, FALSE)
      <3>1. nameLock # Absent /\ nameLock.by = p /\ nameLock.written = FALSE
        BY <2>3, FileParts, FileFacts
      <3>2. nameLock' = File(p, TRUE) /\ namePc'[p] = "held"
        BY <2>1, <2>3
      <3>3. QED
        BY <2>2, <3>2
    <2>4. CASE nameLock # File(p, FALSE)
      <3>1. nameLock # Absent /\ nameLock.by = p => nameLock.written = TRUE
        BY <2>4 DEF File
      <3>2. QED
        BY <2>1, <2>4, <3>1
    <2>5. QED
      BY <2>3, <2>4
  <1>4. ASSUME NEW p \in Procs, NameClaims!Read(p) PROVE VouchedFor'
    BY <1>4 DEF NameClaims!Read, NameClaims!Retry
  <1>5. ASSUME NEW p \in Procs, NameClaims!Rename(p) PROVE VouchedFor'
    BY <1>5 DEF NameClaims!Rename, NameClaims!Retry, NameClaims!RemovePath
  <1>6. ASSUME NEW p \in Procs, NameClaims!Release(p) PROVE VouchedFor'
    BY <1>6 DEF NameClaims!Release
  <1>7. ASSUME NEW p \in Procs, NameClaims!ReleaseCheck(p) PROVE VouchedFor'
    <2>1. nameLock # Absent /\ nameLock.by = p /\ nameLock.written => nameLock = File(p, TRUE)
      BY DEF File
    <2>2. QED
      BY <1>7, <2>1, SameFile DEF NameClaims!ReleaseCheck
  <1>8. ASSUME NEW p \in Procs, NameClaims!ReleaseUnlink(p) PROVE VouchedFor'
    BY <1>8 DEF NameClaims!ReleaseUnlink, NameClaims!RemovePath
  <1>9. ASSUME NEW p \in Procs, NameClaims!Crash(p) PROVE VouchedFor'
    <2>1. namePc[p] # "write" /\ namePc' = [namePc EXCEPT ![p] = "dead"] /\ nameLock' = nameLock
      BY <1>9 DEF NameClaims!Crash
    <2>2. CASE nameLock # Absent /\ nameLock.by = p
      \* Its lock, if it was young, is complete, and from now on older.
      <3>1. predates'
        BY <1>9, <2>2, Zenon DEF NameClaims!Crash, NameClaims!Exists
      <3>2. nameLock.written # FALSE
        BY <2>1, <2>2
      <3>3. QED
        BY <2>1, <3>1, <3>2
    <2>3. CASE ~(nameLock # Absent /\ nameLock.by = p)
      <3>1. predates' <=> predates
        BY <1>9, <2>3, Zenon DEF NameClaims!Crash, NameClaims!Exists
      <3>2. QED
        BY <2>1, <2>3, <3>1
    <2>4. QED
      BY <2>2, <2>3
  <1>10. ASSUME NEW p \in Procs, NameClaims!Respawn(p) PROVE VouchedFor'
    BY <1>10 DEF NameClaims!Respawn
  <1>11. CASE UNCHANGED nameVars
    BY <1>11 DEF nameVars
  <1>12. QED
    BY <1>1, <1>2, <1>3, <1>4, <1>5, <1>6, <1>7, <1>8, <1>9, <1>10, <1>11
    DEF NameClaims!Next

LEMMA NameInit == NameClaims!Init => NameTyped /\ NamesOwner /\ VouchedFor
  <1> SUFFICES ASSUME NameClaims!Init PROVE NameTyped /\ NamesOwner /\ VouchedFor
    OBVIOUS
  <1>1. nameLock = Absent /\ namePc = [p \in Procs |-> "idle"]
    BY DEF NameClaims!Init
  <1>2. predates = FALSE
    BY DEF NameClaims!Init
  <1>3. NameTyped
    BY <1>1 DEF NameTyped, NamePhases, NameClaims!Settled
  <1>4. QED
    BY <1>1, <1>2, <1>3 DEF NamesOwner, VouchedFor, NameClaims!Owning, NameClaims!Releasing

\* A step of MCLockFiles is one of HermesNameClaims or leaves its state alone.
LEMMA NameSteps == BothSpec => NameClaims!Init /\ [][NameClaims!Next]_nameVars
  <1>1. BothInit => NameClaims!Init
    BY DEF BothInit
  <1>2. [BothNext]_<<vars, nameVars, protocol>> => [NameClaims!Next]_nameVars
    BY DEF BothNext
  <1>3. QED
    BY <1>1, <1>2, PTL DEF BothSpec

LEMMA NamesSafe == BothSpec => [](NameTyped /\ NamesOwner)
  <1>1. NameClaims!Init => NameTyped /\ NamesOwner
    BY NameInit
  <1>2. NameTyped /\ NamesOwner /\ [NameClaims!Next]_nameVars => (NameTyped /\ NamesOwner)'
    BY StepNameTyped, StepNamesOwner
  <1>3. QED
    BY <1>1, <1>2, NameSteps, PTL

\* While no process has died, a name has one owner at most, and nobody removes or
\* replaces the lock file of that owner.
THEOREM NameHasOneOwner == BothSpec => []SoleHolder
  <1>1. NamesOwner => SoleHolder
    <2> SUFFICES ASSUME NamesOwner, ~died
                 PROVE  NameClaims!AtMostOneHolder /\ \A p \in Procs : namePc[p] \in NameClaims!Owning => NameClaims!Names(p)
      BY DEF SoleHolder, NameClaims!SoleHolder
    <2>1. \A p \in Procs : namePc[p] \in NameClaims!Owning => nameLock = File(p, TRUE)
      BY DEF NamesOwner
    <2>2. \A p, q \in Procs : File(p, TRUE) = File(q, TRUE) => p = q
      BY FileFacts
    <2>3. QED
      BY <2>1, <2>2, SameFile DEF NameClaims!AtMostOneHolder
  <1>2. QED
    BY <1>1, NamesSafe, PTL

\* What a process that gives up found in the lock file.
LEMMA NameLost ==
  ASSUME NameTyped, VouchedFor, [NameClaims!Next]_nameVars,
         NEW p \in Procs, namePc[p] = "read", namePc'[p] = "ephemeral", NameClaims!Exists
  PROVE  \E q \in Procs \ {p} : namePc[q] \in NameClaims!Calling \cup NameClaims!Owning
  <1>1. NameClaims!Read(p)
    <2> USE DEF NameTyped
    <2>1. ASSUME NEW r \in Procs,
                 \/ NameClaims!TryAcquire(r) \/ NameClaims!Create(r) \/ NameClaims!Write(r) \/ NameClaims!Rename(r)
                 \/ NameClaims!Release(r) \/ NameClaims!ReleaseCheck(r) \/ NameClaims!ReleaseUnlink(r)
                 \/ NameClaims!Crash(r) \/ NameClaims!Respawn(r)
          PROVE  FALSE
      BY <2>1 DEF NameClaims!TryAcquire, NameClaims!Create, NameClaims!Write, NameClaims!Rename, NameClaims!Retry,
         NameClaims!Release, NameClaims!ReleaseCheck, NameClaims!ReleaseUnlink, NameClaims!Crash,
         NameClaims!Respawn, NameClaims!Goto
    <2>2. ASSUME NEW r \in Procs, NameClaims!Read(r) PROVE NameClaims!Read(p)
      BY <2>2 DEF NameClaims!Read, NameClaims!Retry, NameClaims!Goto
    <2>3. ~UNCHANGED nameVars
      BY DEF nameVars
    <2>4. QED
      BY <2>1, <2>2, <2>3 DEF NameClaims!Next
  <1>2. nameLock # Absent /\ nameLock.by \in Procs
    BY DEF NameClaims!Exists, NameTyped
  <1>3. \/ ~nameLock.written
        \/ nameLock.written /\ nameLock.by # p /\ ~predates
    <2>1. namePc' = [namePc EXCEPT ![p] = "ephemeral"]
      BY <1>1 DEF NameClaims!Read, NameClaims!Retry, NameClaims!Goto, NameTyped
    <2>2. \/ ~nameLock.written
          \/ nameLock.written /\ nameLock.by # p /\ NameClaims!OwnerStillHoldsClaim
      BY <1>1, <1>2, <2>1 DEF NameClaims!Read, NameClaims!Goto, NameClaims!Exists, NameTyped
    <2>3. QED
      BY <2>2, Zenon DEF NameClaims!OwnerStillHoldsClaim
  <1>4. CASE ~nameLock.written
    \* The lock is still being written.
    <2>1. nameLock.written = FALSE
      BY <1>2, <1>4 DEF NameTyped
    <2>2. namePc[nameLock.by] = "write"
      BY <1>2, <2>1 DEF VouchedFor
    <2>3. QED
      BY <1>2, <2>2 DEF NameClaims!Calling
  <1>5. CASE nameLock.written /\ nameLock.by # p /\ ~predates
    \* The owner is alive and older than the lock.
    BY <1>2, <1>5 DEF VouchedFor
  <1>6. QED
    BY <1>3, <1>4, <1>5

\* A process gives the name up only to a live one that owns it or is still trying.
\* A process that dies between creating the lock file and writing it is excepted:
\* the code takes an empty file for a live owner's.
THEOREM NameLossIsJustified ==
  ASSUME "write" \notin NameCrashPoints
  PROVE  BothSpec => NameLosesOnlyToLive
  <1> DEFINE Justified ==
        \A p \in Procs : namePc[p] = "read" /\ namePc'[p] = "ephemeral" /\ NameClaims!Exists
          => \E q \in Procs \ {p} : namePc[q] \in NameClaims!Calling \cup NameClaims!Owning
  <1>1. NameClaims!Init => NameTyped /\ VouchedFor
    BY NameInit
  <1>2. NameTyped /\ VouchedFor /\ [NameClaims!Next]_nameVars => (NameTyped /\ VouchedFor)'
    BY StepNameTyped, StepVouchedFor
  <1>3. NameTyped /\ VouchedFor /\ [NameClaims!Next]_nameVars => Justified
    BY NameLost
  <1>4. QED
    BY <1>1, <1>2, <1>3, NameSteps, PTL DEF NameLosesOnlyToLive, NameClaims!LosesOnlyToLive, NameClaims!vars, nameVars
==============================================================================
