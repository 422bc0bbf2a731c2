--------------------------- MODULE WakeDaemonProofs ---------------------------
(***************************************************************************)
(* Proofs about the ledger of the wake pass, for any number of operators,  *)
(* messages, attempts, changes and faults.  Nothing is assumed of the two  *)
(* steps of a claim: any other pass may come between them.                 *)
(***************************************************************************)
EXTENDS WakeDaemon, FiniteSetTheorems, TLAPS

\* Passes between their claim and its result; those whose answer is not on record.
Engaging == Sending \cup {"succeeded", "failed"}
Owing == Sending \cup {"failed"}
Passing(s, steps) == {p \in Passes : sig[p] = s /\ pc[p] \in steps}
Count(s, steps) == Cardinality(Passing(s, steps))

\* A record that says that a pass is at work, or was within the delay.
Fresh(r) == r.status # "none" /\ r.age = "new"
One(b) == IF b THEN 1 ELSE 0

\* A set without a status has no record at all, and any record has an attempt.
Sound(r) == IF r.status = "none" THEN r = NoRecord ELSE r.attempts > 0
RecordsSound ==
  (\A s \in Sets : Sound(ledger[s])) /\ (\A p \in Passes : Sound(prev[p]))

\* A fresh record stands for one pass at work; only a claim that overran another
\* adds a second.
Exclusive(s) == Count(s, Engaging) <= overtaken[s] + One(Fresh(ledger[s]))

\* What was tried, and what a pass is about to try, is paid for: in the record, and in
\* the record that a claim may write back or build on.
PaidFor(s) == tried[s] + Count(s, Sending) <= ledger[s].attempts + overtaken[s]
Builds(p) == pc[p] \in Sending \/ (pc[p] = "write" /\ Claimable(prev[p]))
PaidBefore(s) ==
  \A p \in Passes : sig[p] = s /\ Builds(p) =>
    tried[s] + Count(s, Sending) <= prev[p].attempts + One(Fresh(ledger[s])) + overtaken[s]

\* A set has one answer, or one pass that may still get one, and no other claim of it is
\* possible until that pass fails.
Answers(s) == answered[s] + Count(s, Owing)
OneAnswer(s) ==
  /\ Answers(s) <= 1 + overtaken[s] + unnoted[s]
  /\ Claimable(ledger[s]) => Answers(s) <= overtaken[s] + unnoted[s]
  /\ Count(s, Engaging) = 0 => \/ Answers(s) <= overtaken[s] + unnoted[s]
                               \/ ledger[s].status = "nudged" \/ ledger[s].attempts >= MaxAttempts

\* Only a dead pass pays for nothing, and a claim can be undone.
Frugal(s) ==
  overtaken[s] = 0 =>
    /\ ledger[s].attempts <= tried[s] + cut[s] + Count(s, Sending)
    /\ \A p \in Passes : sig[p] = s /\ pc[p] \in Sending => ledger[s].attempts = prev[p].attempts + 1

Books(s) == Exclusive(s) /\ PaidFor(s) /\ PaidBefore(s) /\ OneAnswer(s) /\ Frugal(s)

IInv == TypeOK /\ RecordsSound /\ \A s \in Sets : Books(s)

-----------------------------------------------------------------------------
(* Types *)

LEMMA Bounds ==
  MaxAttempts \in Nat /\ MaxAttempts > 0 /\ MaxMail \in Nat /\ MaxChanges \in Nat /\ MaxFaults \in Nat
  BY WakeDaemonAssumption

LEMMA Limits ==
  ASSUME changes \in 0 .. MaxChanges, faults \in 0 .. MaxFaults
  PROVE  (Change => changes' \in 0 .. MaxChanges) /\ (Fault => faults' \in 0 .. MaxFaults)
  BY Bounds DEF Change, Fault

LEMMA AnnotateType == ASSUME NEW r, Annotate(r) PROVE held' \in BOOLEAN
  BY Zenon DEF Annotate

LEMMA Records ==
  /\ NoRecord \in WakeLedgerRecord
  /\ \A r \in WakeLedgerRecord :
       /\ r.status \in Status /\ r.attempts \in 0 .. MaxAttempts /\ r.attempts \in Nat
       /\ r.age \in {"new", "due", "day"}
       /\ [r EXCEPT !.status = "abandoned", !.age = "new"] \in WakeLedgerRecord
       /\ \A age \in {"new", "due", "day"} : [r EXCEPT !.age = age] \in WakeLedgerRecord
  <1>1. NoRecord \in WakeLedgerRecord
    BY Bounds DEF WakeLedgerRecord, NoRecord, Status
  <1>2. ASSUME NEW r \in WakeLedgerRecord
        PROVE  /\ r.status \in Status /\ r.attempts \in 0 .. MaxAttempts /\ r.attempts \in Nat
               /\ r.age \in {"new", "due", "day"}
    <2>1. r.status \in Status /\ r.attempts \in 0 .. MaxAttempts /\ r.age \in {"new", "due", "day"}
      BY DEF WakeLedgerRecord
    <2>2. QED
      BY <2>1, Bounds
  <1>3. ASSUME NEW r \in WakeLedgerRecord
        PROVE  /\ [r EXCEPT !.status = "abandoned", !.age = "new"] \in WakeLedgerRecord
               /\ \A age \in {"new", "due", "day"} : [r EXCEPT !.age = age] \in WakeLedgerRecord
    BY DEF WakeLedgerRecord, Status
  <1>4. QED
    BY <1>1, <1>2, <1>3, Zenon

LEMMA InitTypeOK == Init => TypeOK
  <1> SUFFICES ASSUME Init PROVE TypeOK
    OBVIOUS
  <1>1. held \in BOOLEAN
    BY Zenon DEF Init
  <1>2. QED
    <2>1. {} \in Sets /\ 0 \in 0 .. MaxMail /\ 0 \in 0 .. MaxChanges /\ 0 \in 0 .. MaxFaults
      BY Bounds DEF Sets
    <2>2. QED
      BY <1>1, <2>1, Records DEF Init, TypeOK

Steps == {"idle", "look", "claim", "write", "recheck", "steer", "again",
          "start", "succeeded", "failed", "prune", "done"}
LocalsTyped ==
  pc \in [Passes -> Steps] /\ sig \in [Passes -> Sets] /\ prev \in [Passes -> WakeLedgerRecord]

LEMMA LocalsOfType == TypeOK => LocalsTyped
  BY DEF TypeOK, LocalsTyped, Steps

\* A pass goes on, leaves the peer, or ends.
LEMMA MoveType ==
  ASSUME TypeOK, NEW p \in Passes, NEW step \in Steps,
         GoOn(p, step) \/ Leave(p) \/ Ends(p)
  PROVE  LocalsTyped'
  <1>1. {} \in Sets /\ NoRecord \in WakeLedgerRecord
    BY Records DEF Sets
  <1>2. QED
    BY <1>1, LocalsOfType DEF GoOn, Leave, Ends, Forget, Go, LocalsTyped, Steps

\* The other passes keep their place.
Frame(p) == \A q \in Passes \ {p} : pc'[q] = pc[q] /\ sig'[q] = sig[q] /\ prev'[q] = prev[q]

LEMMA MoveFrame ==
  ASSUME TypeOK, NEW p \in Passes
  PROVE  /\ \A step : GoOn(p, step) => Frame(p) /\ pc'[p] = step /\ sig'[p] = sig[p] /\ prev'[p] = prev[p]
         /\ Leave(p) => Frame(p) /\ pc'[p] = "prune" /\ prev'[p] = NoRecord
         /\ Ends(p) => Frame(p) /\ pc'[p] \in {"idle", "done"} /\ prev'[p] = NoRecord
  BY LocalsOfType DEF GoOn, Leave, Ends, Forget, Go, LocalsTyped, Frame

\* The result of a wake and a claim are records.
LEMMA MarkType ==
  ASSUME ledger \in [Sets -> WakeLedgerRecord], NEW s \in Sets, NEW st \in {"nudged", "failed"}, Mark(s, st)
  PROVE  ledger' \in [Sets -> WakeLedgerRecord]
  <1>1. [status |-> st, age |-> "new",
         attempts |-> IF ledger[s].attempts = 0 THEN 1 ELSE ledger[s].attempts] \in WakeLedgerRecord
    <2>0. ledger[s] \in WakeLedgerRecord /\ 1 \in 0 .. MaxAttempts
      BY Bounds
    <2>1. ledger[s].attempts \in 0 .. MaxAttempts /\ 1 \in 0 .. MaxAttempts
      BY <2>0, Records
    <2>2. QED
      BY <2>1 DEF WakeLedgerRecord, Status
  <1>2. QED
    BY <1>1 DEF Mark

LEMMA ReleaseType ==
  ASSUME ledger \in [Sets -> WakeLedgerRecord], prev \in [Passes -> WakeLedgerRecord], NEW p \in Passes,
         Release(p)
  PROVE  ledger' \in [Sets -> WakeLedgerRecord]
  BY DEF Release

LEMMA TakenType ==
  ASSUME TypeOK, NEW p \in Passes, Taken(p) \/ Refused(p)
  PROVE  /\ tried' \in [Sets -> Nat] /\ answered' \in [Sets -> Nat] /\ woken' \in Sets
         /\ faults' \in 0 .. MaxFaults /\ LocalsTyped'
  <1>1. sig[p] \in Sets /\ sig[p] \subseteq Mails
    BY DEF TypeOK, Sets
  <1>2. GoOn(p, "succeeded") \/ GoOn(p, "failed")
    BY DEF Taken, Refused
  <1>3. LocalsTyped'
    BY <1>2, MoveType DEF Steps
  <1>4. CASE Refused(p)
    BY <1>1, <1>3, <1>4 DEF Refused, TypeOK
  <1>5. CASE Taken(p)
    <2>1. tried' \in [Sets -> Nat] /\ woken' \in Sets
      BY <1>1, <1>5 DEF Taken, TypeOK, Sets
    <2>2. \/ answered' = [answered EXCEPT ![sig[p]] = @ + 1] /\ UNCHANGED faults
          \/ Fault /\ UNCHANGED answered
      BY <1>5, Zenon DEF Taken
    <2>3. QED
      BY <1>1, <1>3, <2>1, <2>2, Limits DEF TypeOK
  <1>6. QED
    BY <1>4, <1>5

LEMMA StepTypeOK == ASSUME TypeOK, RecordsSound, [Next]_vars PROVE TypeOK'
  <1> USE DEF passVars, histVars, boundVars
  <1>0. ledger \in [Sets -> WakeLedgerRecord] /\ prev \in [Passes -> WakeLedgerRecord] /\ unread \in Sets
        /\ changes \in 0 .. MaxChanges /\ faults \in 0 .. MaxFaults /\ {} \in Sets /\ NoRecord \in WakeLedgerRecord
    BY Records DEF TypeOK, Sets
  <1>1. ASSUME NEW p \in Passes, Begin(p) PROVE TypeOK'
    BY <1>0, <1>1 DEF Begin, Go, TypeOK
  <1>2. ASSUME NEW p \in Passes, Look(p) PROVE TypeOK'
    <2>1. held' \in BOOLEAN
      <3>1. Annotate(thread) \/ UNCHANGED held
        BY <1>2, Zenon DEF Look, SkipThread
      <3>2. QED
        BY <3>1, AnnotateType, Zenon DEF TypeOK
    <2>2. Leave(p) \/ GoOn(p, "claim")
      BY <1>2, Zenon DEF Look, SkipThread
    <2>3. LocalsTyped'
      BY <2>2, MoveType DEF Steps
    <2>4. QED
      BY <1>0, <1>2, <2>1, <2>3 DEF Look, TypeOK, LocalsTyped, Steps
  <1>3. ASSUME NEW p \in Passes, ReadRecord(p) PROVE TypeOK'
    BY <1>0, <1>3 DEF ReadRecord, Go, TypeOK
  <1>4. ASSUME NEW p \in Passes, WriteClaim(p) PROVE TypeOK'
    <2> DEFINE r == prev[p]
    <2>1. r \in WakeLedgerRecord /\ sig[p] \in Sets
      BY <1>0 DEF TypeOK
    <2>2. overtaken' \in [Sets -> Nat]
      <3>1. overtaken' = [overtaken EXCEPT ![sig[p]] = @ + 1] \/ overtaken' = overtaken
        BY <1>4 DEF WriteClaim
      <3>2. QED
        BY <2>1, <3>1 DEF TypeOK
    <2>3. CASE Claimable(r)
      <3>1. r.attempts + 1 \in 0 .. MaxAttempts
        <4>1. r.status = "none" => r.attempts = 0
          BY DEF RecordsSound, Sound, NoRecord
        <4>2. r.attempts \in 0 .. MaxAttempts /\ r.attempts < MaxAttempts
          BY <2>1, <2>3, <4>1, Records, Bounds DEF Claimable
        <4>3. QED
          BY <4>2, Bounds
      <3>2. [status |-> "claimed", attempts |-> r.attempts + 1, age |-> "new"] \in WakeLedgerRecord
        BY <3>1 DEF WakeLedgerRecord, Status
      <3>3. /\ ledger' = [ledger EXCEPT ![sig[p]] =
                           [status |-> "claimed", attempts |-> r.attempts + 1, age |-> "new"]]
            /\ GoOn(p, "recheck") /\ UNCHANGED held
        BY <1>4, <2>3 DEF WriteClaim
      <3>4. LocalsTyped'
        BY <3>3, MoveType DEF Steps
      <3>5. QED
        BY <1>0, <1>4, <2>1, <2>2, <3>2, <3>3, <3>4 DEF WriteClaim, TypeOK, LocalsTyped, Steps
    <2>4. CASE ~Claimable(r)
      <3>1. held' \in BOOLEAN
        BY <1>4, <2>4, AnnotateType DEF WriteClaim
      <3>2. ledger' \in {ledger, [ledger EXCEPT ![sig[p]] = [r EXCEPT !.status = "abandoned", !.age = "new"]]}
            /\ Leave(p)
        BY <1>4, <2>4 DEF WriteClaim
      <3>3. ledger' \in [Sets -> WakeLedgerRecord]
        BY <1>0, <2>1, <3>2, Records
      <3>4. LocalsTyped'
        BY <3>2, MoveType DEF Steps
      <3>5. QED
        BY <1>0, <1>4, <2>1, <2>2, <3>1, <3>3, <3>4 DEF WriteClaim, TypeOK, LocalsTyped, Steps
    <2>5. QED
      BY <2>3, <2>4
  <1>5. ASSUME NEW p \in Passes, Recheck(p) PROVE TypeOK'
    <2>1. held' \in BOOLEAN
      <3>1. Annotate(thread) \/ UNCHANGED held
        BY <1>5, Zenon DEF Recheck, SkipThread
      <3>2. QED
        BY <3>1, AnnotateType, Zenon DEF TypeOK
    <2>2. ledger' \in [Sets -> WakeLedgerRecord]
      BY <1>0, <1>5, ReleaseType DEF Recheck
    <2>3. GoOn(p, "steer") \/ GoOn(p, "start") \/ Leave(p)
      BY <1>5 DEF Recheck, SkipThread
    <2>4. LocalsTyped'
      BY <2>3, MoveType DEF Steps
    <2>5. QED
      BY <1>0, <1>5, <2>1, <2>2, <2>4 DEF Recheck, TypeOK, LocalsTyped, Steps
  <1>6. ASSUME NEW p \in Passes, Steer(p) PROVE TypeOK'
    <2>1. CASE Taken(p) \/ Refused(p)
      BY <1>0, <1>6, <2>1, TakenType DEF Steer, TypeOK, LocalsTyped, Steps
    <2>2. CASE ~(Taken(p) \/ Refused(p))
      <3>1. GoOn(p, "again") /\ UNCHANGED <<tried, answered, woken, faults>>
        BY <1>6, <2>2 DEF Steer
      <3>2. LocalsTyped'
        BY <3>1, MoveType DEF Steps
      <3>3. QED
        BY <1>0, <1>6, <3>1, <3>2 DEF Steer, TypeOK, LocalsTyped, Steps
    <2>3. QED
      BY <2>1, <2>2
  <1>7. ASSUME NEW p \in Passes, ReadAgain(p) PROVE TypeOK'
    <2>1. CASE thread = "down"
      <3>1. Refused(p) /\ UNCHANGED <<ledger, held>>
        BY <1>7, <2>1 DEF ReadAgain
      <3>2. QED
        BY <1>0, <1>7, <3>1, TakenType DEF ReadAgain, TypeOK, LocalsTyped, Steps, Refused
    <2>2. CASE thread # "down"
      <3>1. held' \in BOOLEAN
        <4>1. Annotate(thread) \/ UNCHANGED held
          BY <1>7, <2>2, Zenon DEF ReadAgain, SkipThread
        <4>2. QED
          BY <4>1, AnnotateType, Zenon DEF TypeOK
      <3>2. ledger' \in [Sets -> WakeLedgerRecord]
        BY <1>0, <1>7, <2>2, ReleaseType DEF ReadAgain
      <3>3. GoOn(p, "start") \/ Leave(p)
        BY <1>7, <2>2 DEF ReadAgain, SkipThread
      <3>4. LocalsTyped'
        BY <3>3, MoveType DEF Steps
      <3>5. QED
        BY <1>0, <1>7, <2>2, <3>1, <3>2, <3>4 DEF ReadAgain, TypeOK, LocalsTyped, Steps
    <2>3. QED
      BY <2>1, <2>2
  <1>8. ASSUME NEW p \in Passes, StartTurn(p) PROVE TypeOK'
    BY <1>0, <1>8, TakenType DEF StartTurn, TypeOK, LocalsTyped, Steps
  <1>9. ASSUME NEW p \in Passes, MarkNudged(p) \/ MarkFailed(p) PROVE TypeOK'
    <2>1. held' \in BOOLEAN
      <3>1. held' = FALSE \/ Annotate("wake_failed")
        BY <1>9, Zenon DEF MarkNudged, MarkFailed
      <3>2. QED
        BY <3>1, AnnotateType, Zenon
    <2>2. ledger' \in [Sets -> WakeLedgerRecord]
      BY <1>0, <1>9, MarkType DEF MarkNudged, MarkFailed, TypeOK
    <2>3. LocalsTyped'
      BY <1>9, MoveType DEF MarkNudged, MarkFailed, Steps
    <2>4. QED
      BY <1>0, <1>9, <2>1, <2>2, <2>3 DEF MarkNudged, MarkFailed, TypeOK, LocalsTyped, Steps
  <1>10. ASSUME NEW p \in Passes, Prune(p) PROVE TypeOK'
    <2>1. LocalsTyped'
      BY <1>10, MoveType DEF Prune, Steps
    <2>2. QED
      BY <1>0, <1>10, <2>1 DEF Prune, TypeOK, LocalsTyped, Steps
  <1>11. ASSUME NEW p \in Passes, Dies(p) PROVE TypeOK'
    <2>1. faults' \in 0 .. MaxFaults
      BY <1>0, <1>11, Limits DEF Dies
    <2>2. LocalsTyped'
      BY <1>11, MoveType DEF Dies, Steps
    <2>3. cut' \in [Sets -> Nat] /\ unnoted' \in [Sets -> Nat]
      <3>1. sig[p] \in Sets
        BY DEF TypeOK
      <3>2. /\ cut' = [cut EXCEPT ![sig[p]] = @ + 1] \/ cut' = cut
            /\ unnoted' = [unnoted EXCEPT ![sig[p]] = @ + 1] \/ unnoted' = unnoted
        BY <1>11 DEF Dies
      <3>3. QED
        BY <3>1, <3>2 DEF TypeOK
    <2>4. QED
      BY <1>0, <1>11, <2>1, <2>2, <2>3 DEF Dies, TypeOK, LocalsTyped, Steps
  <1>12. CASE MailArrives \/ AgentReads \/ TurnEnds
    <2>1. unread' \in Sets /\ arrived' \in 0 .. MaxMail
      <3>1. CASE MailArrives
        <4>1. arrived + 1 \in Mails /\ arrived' = arrived + 1 /\ arrived + 1 \in 0 .. MaxMail
          BY <3>1, Bounds DEF MailArrives, TypeOK, Mails
        <4>2. unread \subseteq Mails /\ unread' = unread \cup {arrived'}
          BY <3>1 DEF MailArrives, TypeOK, Sets
        <4>3. QED
          BY <4>1, <4>2 DEF Sets
      <3>2. CASE AgentReads \/ TurnEnds
        BY <1>0, <3>2 DEF AgentReads, TurnEnds, TypeOK
      <3>3. QED
        BY <1>12, <3>1, <3>2
    <2>2. QED
      BY <1>12, <2>1 DEF MailArrives, AgentReads, TurnEnds, TypeOK
  <1>13. CASE ThreadChanges \/ Recovers
    <2>1. changes' \in 0 .. MaxChanges
      BY <1>0, <1>13, Limits DEF ThreadChanges, Recovers
    <2>2. QED
      BY <1>13, <2>1 DEF ThreadChanges, Recovers, TypeOK
  <1>14. CASE DelayPasses \/ DayPasses
    <2>1. \A s \in Sets : ledger'[s] = ledger[s] \/ \E age \in {"due", "day"} : ledger'[s] = [ledger[s] EXCEPT !.age = age]
      BY <1>14 DEF DelayPasses, DayPasses
    <2>2. ledger' \in [Sets -> WakeLedgerRecord]
      <3>1. \A s \in Sets : ledger'[s] \in WakeLedgerRecord
        <4>1. ASSUME NEW s \in Sets PROVE ledger'[s] \in WakeLedgerRecord
          <5>1. ledger[s] \in WakeLedgerRecord
            BY <1>0
          <5>2. ledger'[s] = ledger[s] \/ \E age \in {"due", "day"} : ledger'[s] = [ledger[s] EXCEPT !.age = age]
            BY <2>1
          <5>3. QED
            BY <5>1, <5>2, Records
        <4>2. QED
          BY <4>1
      <3>2. \E f : ledger' = [s \in Sets |-> f[s]]
        BY <1>14 DEF DelayPasses, DayPasses
      <3>3. QED
        BY <3>1, <3>2
    <2>3. held' \in BOOLEAN
      BY <1>14, Zenon DEF DelayPasses, DayPasses
    <2>4. faults' \in 0 .. MaxFaults
      BY <1>0, <1>14, Limits DEF DelayPasses, DayPasses
    <2>5. QED
      BY <1>14, <2>2, <2>3, <2>4 DEF DelayPasses, DayPasses, TypeOK
  <1>15. CASE UNCHANGED vars
    BY <1>15 DEF vars, TypeOK
  <1>16. QED
    BY <1>1, <1>2, <1>3, <1>4, <1>5, <1>6, <1>7, <1>8, <1>9, <1>10, <1>11, <1>12, <1>13, <1>14, <1>15
       DEF Next, Pass

-----------------------------------------------------------------------------
(* The records *)

LEMMA SoundRecords ==
  /\ Sound(NoRecord)
  /\ \A r \in WakeLedgerRecord :
       /\ Sound(r) => r.attempts = 0 \/ r.status # "none"
       /\ Sound(r) /\ r.status # "none" =>
            /\ Sound([r EXCEPT !.status = "abandoned", !.age = "new"])
            /\ \A age \in {"new", "due", "day"} : Sound([r EXCEPT !.age = age])
  BY DEF Sound, NoRecord, WakeLedgerRecord

LEMMA RecordsStep ==
  ASSUME TypeOK, RecordsSound, [Next]_vars PROVE RecordsSound'
  <1> USE DEF passVars, histVars, boundVars
  <1>0. /\ \A s \in Sets : ledger[s] \in WakeLedgerRecord /\ Sound(ledger[s])
        /\ \A p \in Passes : prev[p] \in WakeLedgerRecord /\ Sound(prev[p]) /\ sig[p] \in Sets
    BY DEF TypeOK, RecordsSound
  <1>1. ASSUME NEW p \in Passes, GoOn(p, "claim") \/ GoOn(p, "recheck") \/ GoOn(p, "steer") \/ GoOn(p, "again")
                 \/ GoOn(p, "start") \/ GoOn(p, "succeeded") \/ GoOn(p, "failed") \/ Leave(p) \/ Ends(p)
        PROVE  \A q \in Passes : Sound(prev'[q])
    <2>1. prev' = prev \/ prev' = [prev EXCEPT ![p] = NoRecord]
      BY <1>1 DEF GoOn, Leave, Ends, Forget
    <2>2. QED
      BY <1>0, <2>1, SoundRecords DEF TypeOK
  <1>2. ASSUME NEW p \in Passes, NEW r, ledger' = [ledger EXCEPT ![sig[p]] = r], Sound(r)
        PROVE  \A s \in Sets : Sound(ledger'[s])
    BY <1>0, <1>2 DEF TypeOK
  <1>3. ASSUME UNCHANGED ledger PROVE \A s \in Sets : Sound(ledger'[s])
    BY <1>0, <1>3
  <1>4. ASSUME NEW p \in Passes, Begin(p) PROVE RecordsSound'
    BY <1>0, <1>4 DEF Begin, RecordsSound
  <1>5. ASSUME NEW p \in Passes, Look(p) PROVE RecordsSound'
    <2>1. UNCHANGED ledger /\ (Leave(p) \/ GoOn(p, "claim"))
      BY <1>5, Zenon DEF Look, SkipThread
    <2>2. QED
      BY <1>1, <1>3, <2>1, Zenon DEF RecordsSound
  <1>6. ASSUME NEW p \in Passes, ReadRecord(p) PROVE RecordsSound'
    BY <1>0, <1>6 DEF ReadRecord, RecordsSound, TypeOK
  <1>7. ASSUME NEW p \in Passes, WriteClaim(p) PROVE RecordsSound'
    <2>1. GoOn(p, "recheck") \/ Leave(p)
      BY <1>7 DEF WriteClaim
    <2>2. \A s \in Sets : Sound(ledger'[s])
      <3>1. CASE ledger' = ledger
        BY <1>3, <3>1
      <3>2. CASE ledger' = [ledger EXCEPT ![sig[p]] = [status |-> "claimed", attempts |-> prev[p].attempts + 1, age |-> "new"]]
        <4>1. Sound([status |-> "claimed", attempts |-> prev[p].attempts + 1, age |-> "new"])
          <5>1. prev[p].attempts \in Nat
            BY <1>0, Records
          <5>2. QED
            BY <5>1 DEF Sound
        <4>2. QED
          BY <1>2, <3>2, <4>1
      <3>3. CASE /\ Exhausted(prev[p])
                 /\ ledger' = [ledger EXCEPT ![sig[p]] = [prev[p] EXCEPT !.status = "abandoned", !.age = "new"]]
        <4>1. Sound([prev[p] EXCEPT !.status = "abandoned", !.age = "new"])
          BY <1>0, <3>3, SoundRecords DEF Exhausted
        <4>2. QED
          BY <1>2, <3>3, <4>1
      <3>4. QED
        BY <1>7, <3>1, <3>2, <3>3 DEF WriteClaim
    <2>3. QED
      BY <1>1, <2>1, <2>2 DEF RecordsSound
  <1>8. ASSUME NEW p \in Passes, Recheck(p) \/ ReadAgain(p) PROVE RecordsSound'
    <2>1. ledger' = ledger \/ ledger' = [ledger EXCEPT ![sig[p]] = prev[p]]
      BY <1>8 DEF Recheck, ReadAgain, Release
    <2>2. GoOn(p, "steer") \/ GoOn(p, "start") \/ GoOn(p, "failed") \/ Leave(p)
      BY <1>8 DEF Recheck, ReadAgain, SkipThread, Refused
    <2>3. QED
      BY <1>0, <1>1, <1>2, <1>3, <2>1, <2>2 DEF RecordsSound
  <1>9. ASSUME NEW p \in Passes, Steer(p) \/ StartTurn(p) PROVE RecordsSound'
    <2>1. UNCHANGED ledger /\ (GoOn(p, "again") \/ GoOn(p, "succeeded") \/ GoOn(p, "failed"))
      BY <1>9 DEF Steer, StartTurn, Taken, Refused
    <2>2. QED
      BY <1>1, <1>3, <2>1 DEF RecordsSound
  <1>10. ASSUME NEW p \in Passes, MarkNudged(p) \/ MarkFailed(p) PROVE RecordsSound'
    <2>1. Leave(p) /\ \E st \in {"nudged", "failed"} : Mark(sig[p], st)
      BY <1>10 DEF MarkNudged, MarkFailed
    <2>2. ledger[sig[p]].attempts \in Nat
      BY <1>0, Records
    <2>3. \A st \in {"nudged", "failed"} :
            Sound([status |-> st, age |-> "new",
                   attempts |-> IF ledger[sig[p]].attempts = 0 THEN 1 ELSE ledger[sig[p]].attempts])
      BY <2>2 DEF Sound
    <2>4. QED
      BY <1>1, <1>2, <2>1, <2>3 DEF RecordsSound, Mark
  <1>11. ASSUME NEW p \in Passes, Prune(p) PROVE RecordsSound'
    <2>1. \A s \in Sets : ledger'[s] = ledger[s] \/ ledger'[s] = NoRecord
      BY <1>11 DEF Prune
    <2>2. QED
      BY <1>0, <1>1, <1>11, <2>1, SoundRecords DEF Prune, RecordsSound
  <1>12. ASSUME NEW p \in Passes, Dies(p) PROVE RecordsSound'
    BY <1>1, <1>3, <1>12 DEF Dies, RecordsSound
  <1>13. CASE MailArrives \/ AgentReads \/ TurnEnds \/ ThreadChanges \/ Recovers \/ UNCHANGED vars
    BY <1>0, <1>13 DEF MailArrives, AgentReads, TurnEnds, ThreadChanges, Recovers, vars, RecordsSound
  <1>14. CASE DelayPasses \/ DayPasses
    <2>1. ASSUME NEW s \in Sets PROVE Sound(ledger'[s])
      <3>1. \/ ledger'[s] = ledger[s]
            \/ ledger[s].status # "none" /\ \E age \in {"new", "due", "day"} : ledger'[s] = [ledger[s] EXCEPT !.age = age]
        BY <1>14 DEF DelayPasses, DayPasses
      <3>2. CASE ledger'[s] = ledger[s]
        BY <1>0, <3>2
      <3>3. CASE ledger[s].status # "none" /\ \E age \in {"new", "due", "day"} : ledger'[s] = [ledger[s] EXCEPT !.age = age]
        <4>1. ledger[s] \in WakeLedgerRecord /\ Sound(ledger[s])
          BY <1>0
        <4>2. \A age \in {"new", "due", "day"} : Sound([ledger[s] EXCEPT !.age = age])
          BY <3>3, <4>1, SoundRecords
        <4>3. QED
          BY <3>3, <4>2
      <3>4. QED
        BY <3>1, <3>2, <3>3
    <2>2. QED
      BY <1>0, <1>14, <2>1 DEF DelayPasses, DayPasses, RecordsSound
  <1>15. QED
    BY <1>4, <1>5, <1>6, <1>7, <1>8, <1>9, <1>10, <1>11, <1>12, <1>13, <1>14 DEF Next, Pass

-----------------------------------------------------------------------------
(* Counting passes *)

LEMMA SetCount ==
  ASSUME NEW A \in SUBSET Passes
  PROVE  /\ IsFiniteSet(A) /\ Cardinality(A) \in Nat
         /\ Cardinality(A) = 0 <=> A = {}
         /\ Cardinality(A) <= 1 => \A p, q \in A : p = q
         /\ \A p \in A : Cardinality(A) = Cardinality(A \ {p}) + 1
         /\ \A B \in SUBSET A : Cardinality(B) <= Cardinality(A)
  <1>1. IsFiniteSet(Passes)
    <2>1. IsFiniteSet(Operators) /\ IsFiniteSet({Loop})
      BY FS_Singleton, WakeDaemonAssumption
    <2>2. QED
      BY <2>1, FS_Union DEF Passes
  <1>2. IsFiniteSet(A) /\ Cardinality(A) \in Nat
    BY <1>1, FS_Subset, FS_CardinalityType
  <1>3. Cardinality(A) = 0 <=> A = {}
    BY <1>2, FS_EmptySet
  <1>4. ASSUME NEW p \in A
        PROVE  IsFiniteSet(A \ {p}) /\ Cardinality(A \ {p}) \in Nat /\ Cardinality(A) = Cardinality(A \ {p}) + 1
    <2>1. IsFiniteSet(A \ {p}) /\ Cardinality(A \ {p}) = Cardinality(A) - 1
      BY <1>2, FS_RemoveElement
    <2>2. QED
      BY <1>2, <2>1, FS_CardinalityType
  <1>5. ASSUME Cardinality(A) <= 1, NEW p \in A, NEW q \in A PROVE p = q
    <2>1. Cardinality(A \ {p}) = 0
      BY <1>2, <1>4, <1>5
    <2>2. A \ {p} = {}
      BY <1>4, <2>1, FS_EmptySet
    <2>3. QED
      BY <2>2
  <1>6. \A B \in SUBSET A : Cardinality(B) <= Cardinality(A)
    BY <1>2, FS_Subset
  <1>7. QED
    BY <1>2, <1>3, <1>4, <1>5, <1>6

\* What the counts of a state say.
LEMMA Counts ==
  ASSUME NEW s, NEW steps
  PROVE  /\ Count(s, steps) \in Nat
         /\ Count(s, steps) = 0 => \A p \in Passes : sig[p] = s => pc[p] \notin steps
         /\ (\A p \in Passes : sig[p] = s => pc[p] \notin steps) => Count(s, steps) = 0
         /\ Count(s, steps) <= 1 =>
              \A p, q \in Passes : sig[p] = s /\ sig[q] = s /\ pc[p] \in steps /\ pc[q] \in steps => p = q
  <1>1. Passing(s, steps) \in SUBSET Passes
    BY DEF Passing
  <1>2. Passing(s, steps) = {} <=> \A p \in Passes : sig[p] = s => pc[p] \notin steps
    BY DEF Passing
  <1>3. QED
    BY <1>1, <1>2, SetCount DEF Count, Passing

LEMMA SomeCount ==
  ASSUME NEW s
  PROVE  /\ Count(s, Sending) <= Count(s, Owing) /\ Count(s, Owing) <= Count(s, Engaging)
         /\ Count(s, Sending) \in Nat /\ Count(s, Owing) \in Nat /\ Count(s, Engaging) \in Nat
  <1>1. /\ Passing(s, Sending) \in SUBSET Passing(s, Owing)
        /\ Passing(s, Owing) \in SUBSET Passing(s, Engaging)
        /\ Passing(s, Engaging) \in SUBSET Passes /\ Passing(s, Owing) \in SUBSET Passes
    BY DEF Passing, Owing, Engaging
  <1>2. QED
    BY <1>1, SetCount, Counts DEF Count

\* A step of one pass changes a count by what that pass is and becomes.
At(p, s, steps) == sig[p] = s /\ pc[p] \in steps
LEMMA CountMoves ==
  ASSUME NEW p \in Passes, Frame(p), NEW s, NEW steps
  PROVE  /\ Count(s, steps)' \in Nat
         /\ Count(s, steps)' + One(At(p, s, steps)) = Count(s, steps) + One(sig'[p] = s /\ pc'[p] \in steps)
  <1> DEFINE A == {q \in Passes : sig[q] = s /\ pc[q] \in steps}
             B == {q \in Passes : sig'[q] = s /\ pc'[q] \in steps}
  <1>1. A \ {p} = B \ {p}
    BY DEF Frame
  <1>2. Cardinality(A) = Cardinality(A \ {p}) + One(At(p, s, steps))
    <2>1. CASE p \in A
      BY <2>1, SetCount DEF One, At
    <2>2. CASE p \notin A
      <3>1. A \ {p} = A
        BY <2>2
      <3>2. Cardinality(A) \in Nat
        BY SetCount
      <3>3. QED
        BY <2>2, <3>1, <3>2 DEF One, At
    <2>3. QED
      BY <2>1, <2>2
  <1>3. Cardinality(B) = Cardinality(B \ {p}) + One(sig'[p] = s /\ pc'[p] \in steps)
    <2>1. CASE p \in B
      BY <2>1, SetCount DEF One
    <2>2. CASE p \notin B
      <3>1. B \ {p} = B
        BY <2>2
      <3>2. Cardinality(B) \in Nat
        BY SetCount
      <3>3. QED
        BY <2>2, <3>1, <3>2 DEF One
    <2>3. QED
      BY <2>1, <2>2
  <1>4. Count(s, steps) = Cardinality(A) /\ Count(s, steps)' = Cardinality(B)
    BY DEF Count, Passing
  <1>5. Cardinality(A) \in Nat /\ Cardinality(B) \in Nat /\ Cardinality(A \ {p}) \in Nat
    BY SetCount
  <1>6. QED
    BY <1>1, <1>2, <1>3, <1>4, <1>5 DEF One

-----------------------------------------------------------------------------
(* The books of a set *)

Numbers(s) ==
  /\ ledger[s].attempts \in Nat /\ tried[s] \in Nat /\ answered[s] \in Nat
  /\ cut[s] \in Nat /\ unnoted[s] \in Nat /\ overtaken[s] \in Nat

LEMMA AreNumbers ==
  ASSUME TypeOK, RecordsSound
  PROVE  /\ \A s \in Sets : Numbers(s) /\ ledger[s] \in WakeLedgerRecord /\ Sound(ledger[s])
         /\ \A p \in Passes : /\ sig[p] \in Sets /\ prev[p] \in WakeLedgerRecord /\ Sound(prev[p])
                              /\ prev[p].attempts \in Nat
  <1>1. ASSUME NEW s \in Sets PROVE ledger[s] \in WakeLedgerRecord /\ ledger[s].attempts \in Nat
    <2>1. ledger[s] \in WakeLedgerRecord
      BY DEF TypeOK
    <2>2. QED
      BY <2>1, Records
  <1>2. ASSUME NEW p \in Passes PROVE prev[p] \in WakeLedgerRecord /\ prev[p].attempts \in Nat
    <2>1. prev[p] \in WakeLedgerRecord
      BY DEF TypeOK
    <2>2. QED
      BY <2>1, Records
  <1>3. QED
    BY <1>1, <1>2 DEF TypeOK, Numbers, RecordsSound

Same(s) == /\ ledger'[s] = ledger[s] /\ tried'[s] = tried[s] /\ answered'[s] = answered[s]
           /\ cut'[s] = cut[s] /\ unnoted'[s] = unnoted[s] /\ overtaken'[s] = overtaken[s]

\* A step of a pass that has no claim on a set, before or after, and leaves the set alone.
LEMMA Elsewhere ==
  ASSUME NEW p \in Passes, Frame(p), NEW s, Same(s), Books(s),
         ~At(p, s, Engaging), ~(sig'[p] = s /\ pc'[p] \in Engaging \cup {"write"})
  PROVE  Books(s)'
  <1>1. /\ Count(s, Sending)' = Count(s, Sending) /\ Count(s, Owing)' = Count(s, Owing)
        /\ Count(s, Engaging)' = Count(s, Engaging)
    <2>1. \A steps : Count(s, steps) \in Nat
      BY Counts
    <2>2. ~At(p, s, Sending) /\ ~At(p, s, Owing)
          /\ ~(sig'[p] = s /\ pc'[p] \in Sending) /\ ~(sig'[p] = s /\ pc'[p] \in Owing)
          /\ ~(sig'[p] = s /\ pc'[p] \in Engaging)
      BY DEF At, Owing, Engaging
    <2>3. Count(s, Sending)' = Count(s, Sending)
      BY <2>1, <2>2, CountMoves DEF One
    <2>4. Count(s, Owing)' = Count(s, Owing)
      BY <2>1, <2>2, CountMoves DEF One
    <2>5. Count(s, Engaging)' = Count(s, Engaging)
      BY <2>1, <2>2, CountMoves DEF One
    <2>6. QED
      BY <2>3, <2>4, <2>5
  <1>2. Exclusive(s)' /\ PaidFor(s)'
    BY <1>1 DEF Books, Exclusive, PaidFor, Same
  <1>3. PaidBefore(s)'
    BY <1>1 DEF Books, PaidBefore, Builds, Same, Frame, Engaging
  <1>4. OneAnswer(s)'
    BY <1>1 DEF Books, OneAnswer, Answers, Same
  <1>5. Frugal(s)'
    BY <1>1 DEF Books, Frugal, Same, Frame, Engaging
  <1>6. QED
    BY <1>2, <1>3, <1>4, <1>5 DEF Books

\* Nothing that the books are about changes.
LEMMA Untouched ==
  ASSUME UNCHANGED <<pc, sig, prev, ledger, tried, answered, cut, unnoted, overtaken>>, NEW s, Books(s)
  PROVE  Books(s)'
  BY DEF Books, Exclusive, PaidFor, PaidBefore, Builds, OneAnswer, Answers, Frugal, Count, Passing

\* A claim reads the record.
LEMMA ReadStep ==
  ASSUME TypeOK, RecordsSound, NEW p \in Passes, ReadRecord(p), NEW s \in Sets, Books(s)
  PROVE  Books(s)'
  <1> USE DEF boundVars, histVars
  <1>0. Numbers(s)
    BY AreNumbers
  <1>1. /\ Frame(p) /\ pc[p] = "claim" /\ pc'[p] = "write" /\ sig'[p] = sig[p] /\ prev'[p] = ledger[sig[p]]
        /\ UNCHANGED <<sig, ledger, tried, answered, cut, unnoted, overtaken>>
    BY DEF ReadRecord, Go, Frame, TypeOK
  <1>2. \A steps : "claim" \notin steps /\ "write" \notin steps => Count(s, steps)' = Count(s, steps)
    <2>1. ASSUME NEW steps, "claim" \notin steps, "write" \notin steps
          PROVE  Count(s, steps)' = Count(s, steps)
      BY <1>1, <2>1, CountMoves, Counts DEF One, At
    <2>2. QED
      BY <2>1
  <1>3. /\ Count(s, Sending)' = Count(s, Sending) /\ Count(s, Owing)' = Count(s, Owing)
        /\ Count(s, Engaging)' = Count(s, Engaging)
    BY <1>2 DEF Sending, Owing, Engaging
  <1>4. Exclusive(s)' /\ PaidFor(s)' /\ OneAnswer(s)'
    BY <1>1, <1>3 DEF Books, Exclusive, PaidFor, OneAnswer, Answers
  <1>5. Frugal(s)'
    BY <1>1, <1>3 DEF Books, Frugal, Frame, Sending
  <1>6. PaidBefore(s)'
    <2>1. ASSUME NEW q \in Passes, sig'[q] = s, Builds(q)'
          PROVE  tried'[s] + Count(s, Sending)' <= prev'[q].attempts + One(Fresh(ledger[s]))' + overtaken'[s]
      <3>1. CASE q # p
        <4>1. Builds(q) /\ sig[q] = s /\ prev'[q] = prev[q]
          BY <1>1, <2>1, <3>1 DEF Frame, Builds
        <4>2. QED
          BY <1>1, <1>3, <4>1 DEF Books, PaidBefore
      <3>2. CASE q = p
        <4>1. prev'[q] = ledger[s]
          BY <1>1, <2>1, <3>2
        <4>2. tried[s] + Count(s, Sending) <= ledger[s].attempts + overtaken[s]
          BY DEF Books, PaidFor
        <4>3. Count(s, Sending) \in Nat
          BY Counts
        <4>4. QED
          BY <1>0, <1>1, <1>3, <4>1, <4>2, <4>3 DEF Numbers, One
      <3>3. QED
        BY <3>1, <3>2
    <2>2. QED
      BY <2>1 DEF PaidBefore
  <1>7. QED
    BY <1>4, <1>5, <1>6 DEF Books

\* What a pass that engages in a set changes in the counts of that set.
Becomes(p, t, from, to) ==
  /\ Count(t, Sending)' = Count(t, Sending) - One(from \in Sending) + One(to \in Sending)
  /\ Count(t, Owing)' = Count(t, Owing) - One(from \in Owing) + One(to \in Owing)
  /\ Count(t, Engaging)' = Count(t, Engaging) - One(from \in Engaging) + One(to \in Engaging)

LEMMA Becoming ==
  ASSUME NEW p \in Passes, Frame(p), NEW t, sig[p] = t, sig'[p] = t \/ pc'[p] \notin Engaging
  PROVE  Becomes(p, t, pc[p], pc'[p])
  <1>1. ASSUME NEW steps, steps \subseteq Engaging
        PROVE  Count(t, steps)' = Count(t, steps) - One(pc[p] \in steps) + One(pc'[p] \in steps)
    <2>1. At(p, t, steps) <=> pc[p] \in steps
      BY DEF At
    <2>2. (sig'[p] = t /\ pc'[p] \in steps) <=> pc'[p] \in steps
      BY <1>1
    <2>3. Count(t, steps) \in Nat /\ Count(t, steps)' \in Nat
      BY Counts, CountMoves
    <2>4. Count(t, steps)' + One(At(p, t, steps)) = Count(t, steps) + One(sig'[p] = t /\ pc'[p] \in steps)
      BY CountMoves
    <2>5. QED
      BY <2>1, <2>2, <2>3, <2>4 DEF One
  <1>2. Sending \subseteq Engaging /\ Owing \subseteq Engaging
    BY DEF Owing, Engaging
  <1>3. Count(t, Sending)' = Count(t, Sending) - One(pc[p] \in Sending) + One(pc'[p] \in Sending)
    BY <1>1, <1>2
  <1>4. Count(t, Owing)' = Count(t, Owing) - One(pc[p] \in Owing) + One(pc'[p] \in Owing)
    BY <1>1, <1>2
  <1>5. Count(t, Engaging)' = Count(t, Engaging) - One(pc[p] \in Engaging) + One(pc'[p] \in Engaging)
    BY <1>1, <1>2
  <1>6. QED
    BY <1>3, <1>4, <1>5 DEF Becomes

\* A pass goes from one of its reads before the wake to another.
LEMMA StaysSending ==
  ASSUME TypeOK, NEW p \in Passes, pc[p] \in Sending, NEW to \in Sending, GoOn(p, to),
         UNCHANGED <<ledger, tried, answered, cut, unnoted, overtaken>>, NEW s \in Sets, Books(s)
  PROVE  Books(s)'
  <1>1. Frame(p) /\ pc'[p] = to /\ sig'[p] = sig[p] /\ prev'[p] = prev[p]
    BY MoveFrame
  <1>2. ASSUME s # sig[p] PROVE Books(s)'
    BY <1>1, <1>2, Elsewhere DEF Same, At
  <1>3. ASSUME s = sig[p] PROVE Books(s)'
    <2>1. Becomes(p, s, pc[p], to)
      BY <1>1, <1>3, Becoming
    <2>2. /\ Count(s, Sending)' = Count(s, Sending) /\ Count(s, Owing)' = Count(s, Owing)
          /\ Count(s, Engaging)' = Count(s, Engaging)
      <3>1. pc[p] \in Sending \cap Owing \cap Engaging /\ to \in Sending \cap Owing \cap Engaging
        BY DEF Owing, Engaging
      <3>2. One(pc[p] \in Sending) = 1 /\ One(pc[p] \in Owing) = 1 /\ One(pc[p] \in Engaging) = 1
            /\ One(to \in Sending) = 1 /\ One(to \in Owing) = 1 /\ One(to \in Engaging) = 1
        BY <3>1 DEF One
      <3>3. QED
        BY <2>1, <3>2, SomeCount DEF Becomes
    <2>3. Exclusive(s)' /\ PaidFor(s)' /\ OneAnswer(s)'
      BY <2>2 DEF Books, Exclusive, PaidFor, OneAnswer, Answers
    <2>4. PaidBefore(s)' /\ Frugal(s)'
      <3>1. \A q \in Passes : /\ sig'[q] = sig[q] /\ prev'[q] = prev[q]
                              /\ (pc'[q] \in Sending <=> pc[q] \in Sending)
                              /\ (pc'[q] = "write" <=> pc[q] = "write")
        BY <1>1 DEF Frame, Sending
      <3>2. QED
        BY <2>2, <3>1 DEF Books, PaidBefore, Builds, Frugal
    <2>5. QED
      BY <2>3, <2>4 DEF Books
  <1>4. QED
    BY <1>2, <1>3

\* A wake is sent, or fails.
LEMMA Sends ==
  ASSUME TypeOK, RecordsSound, NEW p \in Passes, pc[p] \in Sending, Taken(p) \/ Refused(p),
         UNCHANGED <<ledger, cut, unnoted, overtaken>>, NEW s \in Sets, Books(s)
  PROVE  Books(s)'
  <1>0. Numbers(s) /\ sig[p] \in Sets
    BY AreNumbers
  <1>1. /\ Frame(p) /\ sig'[p] = sig[p] /\ pc'[p] \in {"succeeded", "failed"}
        /\ tried' = [tried EXCEPT ![sig[p]] = @ + 1]
        /\ IF pc'[p] = "succeeded" THEN answered' = [answered EXCEPT ![sig[p]] = @ + 1]
           ELSE UNCHANGED answered
    <2>1. tried' = [tried EXCEPT ![sig[p]] = @ + 1]
      BY DEF Taken, Refused
    <2>2. \/ GoOn(p, "succeeded") /\ answered' = [answered EXCEPT ![sig[p]] = @ + 1]
          \/ GoOn(p, "failed") /\ UNCHANGED answered
      BY Zenon DEF Taken, Refused
    <2>3. QED
      BY <2>1, <2>2, MoveFrame
  <1>2. ASSUME s # sig[p] PROVE Books(s)'
    <2>1. Same(s)
      BY <1>0, <1>1, <1>2 DEF Same, TypeOK
    <2>2. QED
      BY <1>1, <1>2, <2>1, Elsewhere DEF At
  <1>3. ASSUME s = sig[p] PROVE Books(s)'
    <2>1. Becomes(p, s, pc[p], pc'[p])
      BY <1>1, <1>3, Becoming
    <2>2. /\ Count(s, Sending)' = Count(s, Sending) - 1
          /\ Count(s, Owing)' = Count(s, Owing) - One(pc'[p] = "succeeded")
          /\ Count(s, Engaging)' = Count(s, Engaging)
      BY <1>1, <2>1, SomeCount DEF Becomes, One, Owing, Engaging, Sending
    <2>3. tried'[s] = tried[s] + 1 /\ answered'[s] = answered[s] + One(pc'[p] = "succeeded")
      BY <1>0, <1>1, <1>3 DEF One, TypeOK, Numbers
    <2>4. Exclusive(s)' /\ PaidFor(s)'
      BY <1>0, <2>2, <2>3, SomeCount DEF Books, Exclusive, PaidFor, Numbers
    <2>5. OneAnswer(s)'
      BY <1>0, <2>2, <2>3, SomeCount DEF Books, OneAnswer, Answers, Numbers, One
    <2>6. PaidBefore(s)'
      <3>1. \A q \in Passes : Builds(q)' => Builds(q) /\ prev'[q] = prev[q] /\ sig'[q] = sig[q]
        BY <1>1 DEF Frame, Builds, Sending
      <3>2. tried'[s] + Count(s, Sending)' = tried[s] + Count(s, Sending)
        BY <1>0, <2>2, <2>3, SomeCount DEF Numbers
      <3>3. QED
        BY <3>1, <3>2 DEF Books, PaidBefore
    <2>7. Frugal(s)'
      <3>1. \A q \in Passes : pc'[q] \in Sending => pc[q] \in Sending /\ prev'[q] = prev[q] /\ sig'[q] = sig[q]
        BY <1>1 DEF Frame, Sending
      <3>2. QED
        BY <1>0, <2>2, <2>3, <3>1, SomeCount DEF Books, Frugal, Numbers
    <2>8. QED
      BY <2>4, <2>5, <2>6, <2>7 DEF Books
  <1>4. QED
    BY <1>2, <1>3

\* A claim is undone: nothing was tried, and nothing is owed.
LEMMA Releases ==
  ASSUME TypeOK, RecordsSound, NEW p \in Passes, pc[p] \in Sending, Release(p), Leave(p),
         UNCHANGED <<tried, answered, cut, unnoted, overtaken>>, NEW s \in Sets, Books(s)
  PROVE  Books(s)'
  <1>0. Numbers(s) /\ sig[p] \in Sets /\ prev[p].attempts \in Nat
    BY AreNumbers
  <1>1. Frame(p) /\ pc'[p] = "prune" /\ ledger' = [ledger EXCEPT ![sig[p]] = prev[p]]
    BY MoveFrame DEF Release
  <1>2. ASSUME s # sig[p] PROVE Books(s)'
    <2>1. Same(s)
      BY <1>0, <1>1, <1>2 DEF Same, TypeOK
    <2>2. QED
      BY <1>1, <1>2, <2>1, Elsewhere DEF At, Engaging, Sending
  <1>3. ASSUME s = sig[p] PROVE Books(s)'
    <2>1. Becomes(p, s, pc[p], "prune")
      BY <1>1, <1>3, Becoming DEF Engaging, Sending
    <2>2. /\ Count(s, Sending)' = Count(s, Sending) - 1 /\ Count(s, Owing)' = Count(s, Owing) - 1
          /\ Count(s, Engaging)' = Count(s, Engaging) - 1
      BY <2>1, SomeCount DEF Becomes, One, Owing, Engaging, Sending
    <2>3. ledger'[s] = prev[p]
      BY <1>0, <1>1, <1>3 DEF TypeOK
    <2>4. Exclusive(s)'
      BY <1>0, <2>2, SomeCount DEF Books, Exclusive, One, Numbers
    <2>5. tried[s] + Count(s, Sending) <= prev[p].attempts + One(Fresh(ledger[s])) + overtaken[s]
      BY <1>3 DEF Books, PaidBefore, Builds
    <2>6. PaidFor(s)'
      BY <1>0, <2>2, <2>3, <2>5, SomeCount DEF PaidFor, One, Numbers
    <2>7. OneAnswer(s)'
      BY <1>0, <2>2, SomeCount DEF Books, OneAnswer, Answers, Numbers
    <2>8. PaidBefore(s)'
      <3>1. ASSUME NEW q \in Passes, sig'[q] = s, Builds(q)'
            PROVE  tried'[s] + Count(s, Sending)' <= prev'[q].attempts + One(Fresh(ledger[s]))' + overtaken'[s]
        <4>1. Builds(q) /\ prev'[q] = prev[q] /\ sig[q] = s
          BY <1>1, <3>1 DEF Frame, Builds, Sending
        <4>2. tried[s] + Count(s, Sending) <= prev[q].attempts + One(Fresh(ledger[s])) + overtaken[s]
          BY <4>1 DEF Books, PaidBefore
        <4>3. prev[q].attempts \in Nat
          BY AreNumbers
        <4>4. QED
          BY <1>0, <2>2, <4>1, <4>2, <4>3, SomeCount DEF One, Numbers
      <3>2. QED
        BY <3>1 DEF PaidBefore
    <2>9. Frugal(s)'
      <3>1. SUFFICES ASSUME overtaken[s] = 0
                     PROVE  /\ prev[p].attempts <= tried[s] + cut[s] + Count(s, Sending)'
                            /\ \A q \in Passes : sig'[q] = s => pc'[q] \notin Sending
        BY <2>3 DEF Frugal
      <3>2. ledger[s].attempts = prev[p].attempts + 1 /\ ledger[s].attempts <= tried[s] + cut[s] + Count(s, Sending)
        BY <1>3, <3>1 DEF Books, Frugal
      <3>3. Count(s, Engaging) <= 1
        BY <3>1, SomeCount DEF Books, Exclusive, One
      <3>4. ASSUME NEW q \in Passes, sig'[q] = s, pc'[q] \in Sending PROVE FALSE
        <4>1. q # p /\ sig[q] = s /\ pc[q] \in Engaging
          BY <1>1, <3>4 DEF Frame, Engaging, Sending
        <4>2. q = p
          BY <1>3, <3>3, <4>1, Counts DEF Engaging
        <4>3. QED
          BY <4>1, <4>2
      <3>5. QED
        BY <1>0, <2>2, <3>2, <3>4, SomeCount DEF Numbers
    <2>10. QED
      BY <2>4, <2>6, <2>7, <2>8, <2>9 DEF Books
  <1>4. QED
    BY <1>2, <1>3

\* A pass that does not engage in a claim stays away from the books.
LEMMA StaysAway ==
  ASSUME NEW p \in Passes, Frame(p), pc[p] \notin Engaging, pc'[p] \notin Engaging \cup {"write"},
         UNCHANGED <<ledger, tried, answered, cut, unnoted, overtaken>>, NEW s, Books(s)
  PROVE  Books(s)'
  BY Elsewhere DEF At, Same

\* A claim is written, given up for good, or refused.
LEMMA ClaimStep ==
  ASSUME TypeOK, RecordsSound, NEW p \in Passes, WriteClaim(p), NEW s \in Sets, Books(s)
  PROVE  Books(s)'
  <1> USE DEF boundVars
  <1>0. /\ Numbers(s) /\ Sound(ledger[s]) /\ ledger[s] \in WakeLedgerRecord /\ sig[p] \in Sets
        /\ prev[p].attempts \in Nat /\ prev[p] \in WakeLedgerRecord /\ Sound(prev[p])
    BY AreNumbers
  <1>1. /\ pc[p] = "write" /\ Frame(p) /\ UNCHANGED <<tried, answered, cut, unnoted>>
        /\ IF Claimable(prev[p])
           THEN pc'[p] = "recheck" /\ sig'[p] = sig[p] /\ prev'[p] = prev[p] ELSE pc'[p] = "prune"
    <2>1. IF Claimable(prev[p]) THEN GoOn(p, "recheck") ELSE Leave(p)
      BY DEF WriteClaim
    <2>2. QED
      BY <2>1, MoveFrame DEF WriteClaim
  <1>2. CASE s # sig[p]
    <2>1. \/ ledger' = ledger
          \/ ledger' = [ledger EXCEPT ![sig[p]] = [status |-> "claimed", attempts |-> prev[p].attempts + 1, age |-> "new"]]
          \/ ledger' = [ledger EXCEPT ![sig[p]] = [prev[p] EXCEPT !.status = "abandoned", !.age = "new"]]
      BY DEF WriteClaim
    <2>2. overtaken' = overtaken \/ overtaken' = [overtaken EXCEPT ![sig[p]] = @ + 1]
      BY DEF WriteClaim
    <2>3. Same(s)
      BY <1>0, <1>1, <1>2, <2>1, <2>2 DEF Same, TypeOK
    <2>4. QED
      BY <1>1, <1>2, <2>3, Elsewhere DEF At, Engaging, Sending
  <1>3. CASE s = sig[p] /\ Claimable(prev[p])
    <2>1. ledger'[s] = [status |-> "claimed", attempts |-> prev[p].attempts + 1, age |-> "new"]
      BY <1>0, <1>3 DEF WriteClaim, TypeOK
    <2>2. overtaken'[s] = overtaken[s] + One(ledger[s] # prev[p])
      BY <1>0, <1>3 DEF WriteClaim, TypeOK, One, Numbers
    <2>3. Becomes(p, s, "write", "recheck")
      BY <1>1, <1>3, Becoming
    <2>4. /\ Count(s, Sending)' = Count(s, Sending) + 1 /\ Count(s, Owing)' = Count(s, Owing) + 1
          /\ Count(s, Engaging)' = Count(s, Engaging) + 1
      BY <2>3, SomeCount DEF Becomes, One, Owing, Engaging, Sending
    <2>5. /\ ledger'[s].status = "claimed" /\ ledger'[s].attempts = prev[p].attempts + 1
          /\ One(Fresh(ledger'[s])) = 1 /\ ~Claimable(ledger'[s])
      BY <2>1 DEF Fresh, One, Claimable
    <2>6. ledger[s] = prev[p] => One(Fresh(ledger[s])) = 0
      BY <1>3 DEF Claimable, Fresh, One
    <2>7. Exclusive(s)'
      BY <1>0, <2>2, <2>4, <2>5, <2>6, SomeCount DEF Books, Exclusive, One, Numbers
    <2>8. tried[s] + Count(s, Sending) <= prev[p].attempts + One(Fresh(ledger[s])) + overtaken[s]
      BY <1>1, <1>3 DEF Books, PaidBefore, Builds
    <2>9. One(Fresh(ledger[s])) \in {0, 1}
      BY DEF One
    <2>10. PaidFor(s)'
      BY <1>0, <1>1, <2>2, <2>4, <2>5, <2>6, <2>8, <2>9, SomeCount DEF PaidFor, One, Numbers
    <2>11. PaidBefore(s)'
      <3>1. ASSUME NEW q \in Passes, sig'[q] = s, Builds(q)'
            PROVE  tried'[s] + Count(s, Sending)' <= prev'[q].attempts + One(Fresh(ledger[s]))' + overtaken'[s]
        <4>1. prev'[q] = prev[q] /\ sig[q] = s /\ Builds(q)
          BY <1>1, <1>3, <3>1 DEF Frame, Builds
        <4>2. tried[s] + Count(s, Sending) <= prev[q].attempts + One(Fresh(ledger[s])) + overtaken[s]
          BY <4>1 DEF Books, PaidBefore
        <4>3. prev[q].attempts \in Nat
          BY AreNumbers
        <4>4. QED
          BY <1>0, <1>1, <2>2, <2>4, <2>5, <2>6, <2>9, <4>1, <4>2, <4>3, SomeCount DEF One, Numbers
      <3>2. QED
        BY <3>1 DEF PaidBefore
    <2>12. OneAnswer(s)'
      <3>1. ledger[s] = prev[p] => Answers(s) <= overtaken[s] + unnoted[s]
        BY <1>3 DEF Books, OneAnswer
      <3>2. Answers(s)' = Answers(s) + 1 /\ Answers(s) \in Nat
        BY <1>0, <1>1, <2>4, SomeCount DEF Answers, Numbers
      <3>3. Answers(s)' <= 1 + overtaken'[s] + unnoted'[s]
        BY <1>0, <1>1, <2>2, <3>1, <3>2 DEF Books, OneAnswer, One, Numbers
      <3>4. Count(s, Engaging)' # 0
        BY <2>4, SomeCount
      <3>5. QED
        BY <2>5, <3>3, <3>4 DEF OneAnswer
    <2>13. Frugal(s)'
      <3>1. SUFFICES ASSUME overtaken'[s] = 0
                     PROVE  /\ ledger'[s].attempts <= tried'[s] + cut'[s] + Count(s, Sending)'
                            /\ \A q \in Passes : sig'[q] = s /\ pc'[q] \in Sending => ledger'[s].attempts = prev'[q].attempts + 1
        BY DEF Frugal
      <3>2. overtaken[s] = 0 /\ ledger[s] = prev[p]
        BY <1>0, <2>2, <3>1 DEF One, Numbers
      <3>3. Count(s, Engaging) = 0
        BY <2>6, <3>2, SomeCount DEF Books, Exclusive
      <3>4. \A q \in Passes \ {p} : ~(sig'[q] = s /\ pc'[q] \in Sending)
        BY <1>1, <3>3, Counts DEF Frame, Engaging
      <3>5. ledger[s].attempts <= tried[s] + cut[s] + Count(s, Sending)
        BY <3>2 DEF Books, Frugal
      <3>6. QED
        BY <1>0, <1>1, <1>3, <2>4, <2>5, <3>2, <3>4, <3>5, SomeCount DEF Numbers
    <2>14. QED
      BY <2>7, <2>10, <2>11, <2>12, <2>13 DEF Books
  <1>4. CASE s = sig[p] /\ ~Claimable(prev[p]) /\ ~Exhausted(prev[p])
    <2>1. UNCHANGED <<ledger, overtaken>>
      BY <1>4 DEF WriteClaim
    <2>2. QED
      BY <1>1, <1>4, <2>1, StaysAway DEF Engaging, Sending
  <1>5. CASE s = sig[p] /\ ~Claimable(prev[p]) /\ Exhausted(prev[p])
    <2>1. ledger'[s] = [prev[p] EXCEPT !.status = "abandoned", !.age = "new"]
      BY <1>0, <1>5 DEF WriteClaim, TypeOK
    <2>2. overtaken'[s] = overtaken[s] + One(ledger[s] # prev[p])
      BY <1>0, <1>5 DEF WriteClaim, TypeOK, One, Numbers
    <2>3. Becomes(p, s, "write", "prune")
      BY <1>1, <1>5, Becoming DEF Engaging, Sending
    <2>4. /\ Count(s, Sending)' = Count(s, Sending) /\ Count(s, Owing)' = Count(s, Owing)
          /\ Count(s, Engaging)' = Count(s, Engaging)
      BY <2>3, SomeCount DEF Becomes, One, Owing, Engaging, Sending
    <2>5. /\ ledger'[s].status = "abandoned" /\ ledger'[s].age = "new"
          /\ ledger'[s].attempts = prev[p].attempts
      BY <1>0, <2>1 DEF WakeLedgerRecord
    <2>6. /\ One(Fresh(ledger'[s])) = 1 /\ ~Claimable(ledger'[s])
          /\ prev[p].attempts >= MaxAttempts /\ One(Fresh(ledger[s])) \in {0, 1}
          /\ ledger[s].attempts \in Nat /\ ledger[s].attempts <= MaxAttempts
      <3>1. ledger[s].attempts \in 0 .. MaxAttempts
        BY <1>0, Records
      <3>2. QED
        BY <1>0, <1>5, <2>5, <3>1, Bounds DEF Fresh, One, Claimable, Exhausted
    <2>7. Exclusive(s)'
      BY <1>0, <2>2, <2>4, <2>6, SomeCount DEF Books, Exclusive, One, Numbers
    <2>8. PaidFor(s)'
      BY <1>0, <1>1, <2>2, <2>4, <2>5, <2>6, Bounds, SomeCount DEF Books, PaidFor, One, Numbers
    <2>9. PaidBefore(s)'
      <3>1. ASSUME NEW q \in Passes, sig'[q] = s, Builds(q)'
            PROVE  tried'[s] + Count(s, Sending)' <= prev'[q].attempts + One(Fresh(ledger[s]))' + overtaken'[s]
        <4>1. prev'[q] = prev[q] /\ sig[q] = s /\ Builds(q)
          BY <1>1, <1>5, <3>1 DEF Frame, Builds, Sending
        <4>2. tried[s] + Count(s, Sending) <= prev[q].attempts + One(Fresh(ledger[s])) + overtaken[s]
          BY <4>1 DEF Books, PaidBefore
        <4>3. prev[q].attempts \in Nat
          BY AreNumbers
        <4>4. QED
          BY <1>0, <1>1, <2>2, <2>4, <2>6, <4>1, <4>2, <4>3, SomeCount DEF One, Numbers
      <3>2. QED
        BY <3>1 DEF PaidBefore
    <2>10. OneAnswer(s)'
      <3>1. Answers(s)' = Answers(s) /\ Answers(s) \in Nat
        BY <1>0, <1>1, <2>4, SomeCount DEF Answers, Numbers
      <3>2. Answers(s)' <= 1 + overtaken'[s] + unnoted'[s]
        BY <1>0, <1>1, <2>2, <3>1 DEF Books, OneAnswer, One, Numbers
      <3>3. QED
        BY <2>5, <2>6, <3>2 DEF OneAnswer
    <2>11. Frugal(s)'
      <3>1. SUFFICES ASSUME overtaken'[s] = 0
                     PROVE  /\ ledger'[s].attempts <= tried'[s] + cut'[s] + Count(s, Sending)'
                            /\ \A q \in Passes : sig'[q] = s /\ pc'[q] \in Sending => ledger'[s].attempts = prev'[q].attempts + 1
        BY DEF Frugal
      <3>2. overtaken[s] = 0 /\ ledger[s] = prev[p]
        BY <1>0, <2>2, <3>1 DEF One, Numbers
      <3>3. \A q \in Passes : pc'[q] \in Sending => pc[q] \in Sending /\ sig'[q] = sig[q] /\ prev'[q] = prev[q]
        BY <1>1, <1>5 DEF Frame, Sending
      <3>4. QED
        BY <1>0, <1>1, <2>4, <2>5, <3>2, <3>3 DEF Books, Frugal
    <2>12. QED
      BY <2>7, <2>8, <2>9, <2>10, <2>11 DEF Books
  <1>6. QED
    BY <1>2, <1>3, <1>4, <1>5

\* The result is noted.
LEMMA MarkStep ==
  ASSUME TypeOK, RecordsSound, NEW p \in Passes, MarkNudged(p) \/ MarkFailed(p), NEW s \in Sets, Books(s)
  PROVE  Books(s)'
  <1> USE DEF boundVars, histVars
  <1>0. Numbers(s) /\ Sound(ledger[s]) /\ sig[p] \in Sets
    BY AreNumbers
  <1>1. PICK st \in {"nudged", "failed"} :
          /\ Mark(sig[p], st) /\ pc[p] = IF st = "nudged" THEN "succeeded" ELSE "failed"
          /\ Leave(p) /\ UNCHANGED <<tried, answered, cut, unnoted, overtaken>>
    BY DEF MarkNudged, MarkFailed
  <1>2. Frame(p) /\ pc'[p] = "prune"
    BY <1>1, MoveFrame
  <1>3. CASE s # sig[p]
    <2>1. Same(s)
      BY <1>0, <1>1, <1>3 DEF Same, Mark, TypeOK
    <2>2. QED
      BY <1>2, <1>3, <2>1, Elsewhere DEF At, Engaging, Sending
  <1>4. CASE s = sig[p]
    <2>1. Becomes(p, s, pc[p], "prune")
      BY <1>2, <1>4, Becoming DEF Engaging, Sending
    <2>2. /\ Count(s, Sending)' = Count(s, Sending)
          /\ Count(s, Owing)' = Count(s, Owing) - One(st = "failed")
          /\ Count(s, Engaging)' = Count(s, Engaging) - 1
      BY <1>1, <2>1, SomeCount DEF Becomes, One, Owing, Engaging, Sending
    <2>3. /\ ledger'[s].status = st /\ ledger'[s].age = "new"
          /\ ledger'[s].attempts = IF ledger[s].attempts = 0 THEN 1 ELSE ledger[s].attempts
      BY <1>0, <1>1, <1>4 DEF Mark, TypeOK
    <2>4. One(Fresh(ledger'[s])) = 1 /\ One(Fresh(ledger[s])) \in {0, 1} /\ ~Claimable(ledger'[s])
      BY <1>1, <2>3 DEF Fresh, One, Claimable
    <2>5. Exclusive(s)'
      BY <1>0, <1>1, <2>2, <2>4, SomeCount DEF Books, Exclusive, Numbers
    <2>6. PaidFor(s)'
      BY <1>0, <1>1, <2>2, <2>3, SomeCount DEF Books, PaidFor, Numbers
    <2>7. PaidBefore(s)'
      <3>1. ASSUME NEW q \in Passes, sig'[q] = s, Builds(q)'
            PROVE  tried'[s] + Count(s, Sending)' <= prev'[q].attempts + One(Fresh(ledger[s]))' + overtaken'[s]
        <4>1. prev'[q] = prev[q] /\ sig[q] = s /\ Builds(q)
          BY <1>2, <3>1 DEF Frame, Builds, Sending
        <4>2. tried[s] + Count(s, Sending) <= prev[q].attempts + One(Fresh(ledger[s])) + overtaken[s]
          BY <4>1 DEF Books, PaidBefore
        <4>3. prev[q].attempts \in Nat
          BY AreNumbers
        <4>4. QED
          BY <1>0, <1>1, <2>2, <2>4, <4>1, <4>2, <4>3, SomeCount DEF Numbers
      <3>2. QED
        BY <3>1 DEF PaidBefore
    <2>8. OneAnswer(s)'
      <3>1. Answers(s)' = Answers(s) - One(st = "failed")
        BY <1>0, <1>1, <2>2, SomeCount DEF Answers, Numbers, One
      <3>2. Answers(s) \in Nat /\ Answers(s) <= 1 + overtaken[s] + unnoted[s]
        BY <1>0, SomeCount DEF Books, OneAnswer, Answers, Numbers
      <3>3. CASE st = "nudged"
        BY <1>0, <1>1, <2>3, <2>4, <3>1, <3>2, <3>3 DEF OneAnswer, One, Numbers
      <3>4. CASE st = "failed"
        BY <1>0, <1>1, <2>4, <3>1, <3>2, <3>4 DEF OneAnswer, One, Numbers
      <3>5. QED
        BY <3>3, <3>4
    <2>9. Frugal(s)'
      <3>1. SUFFICES ASSUME overtaken[s] = 0
                     PROVE  /\ ledger'[s].attempts <= tried[s] + cut[s] + Count(s, Sending)'
                            /\ \A q \in Passes : sig'[q] = s => pc'[q] \notin Sending
        BY <1>1 DEF Frugal
      <3>2. Count(s, Engaging) <= 1 /\ (Count(s, Engaging) = 0 \/ Fresh(ledger[s]))
        BY <3>1, SomeCount DEF Books, Exclusive, One
      <3>3. pc[p] \in Engaging
        BY <1>1 DEF Engaging
      <3>4. ledger[s].attempts > 0
        BY <1>0, <1>4, <3>2, <3>3, Counts DEF Fresh, Sound
      <3>5. ASSUME NEW q \in Passes, sig'[q] = s, pc'[q] \in Sending PROVE FALSE
        <4>1. q # p /\ sig[q] = s /\ pc[q] \in Engaging
          BY <1>2, <3>5 DEF Frame, Engaging, Sending
        <4>2. QED
          BY <1>4, <3>2, <3>3, <4>1, Counts
      <3>6. ledger[s].attempts <= tried[s] + cut[s] + Count(s, Sending)
        BY <3>1 DEF Books, Frugal
      <3>7. QED
        BY <1>0, <2>2, <2>3, <3>4, <3>5, <3>6 DEF Numbers
    <2>10. QED
      BY <2>5, <2>6, <2>7, <2>8, <2>9 DEF Books
  <1>5. QED
    BY <1>3, <1>4

\* Old records go; of the passes that work on such a set, every one has overrun another.
LEMMA PruneStep ==
  ASSUME TypeOK, RecordsSound, NEW p \in Passes, Prune(p), NEW s \in Sets, Books(s)
  PROVE  Books(s)'
  <1> USE DEF boundVars
  <1>0. Numbers(s)
    BY AreNumbers
  <1>1. /\ Frame(p) /\ pc[p] = "prune" /\ pc'[p] \in {"idle", "done"} /\ overtaken' = overtaken
    BY MoveFrame DEF Prune
  <1>2. CASE ~Old(s)
    <2>1. Same(s)
      BY <1>1, <1>2 DEF Prune, Same
    <2>2. QED
      BY <1>1, <2>1, Elsewhere DEF At, Engaging, Sending
  <1>3. CASE Old(s)
    <2>1. ledger'[s] = NoRecord /\ tried'[s] = 0 /\ answered'[s] = 0 /\ cut'[s] = 0 /\ unnoted'[s] = 0
      BY <1>3 DEF Prune
    <2>2. \A steps : pc[p] \notin steps /\ pc'[p] \notin steps => Count(s, steps)' = Count(s, steps)
      BY <1>1, CountMoves, Counts DEF One, At
    <2>3. /\ Count(s, Sending)' = Count(s, Sending) /\ Count(s, Owing)' = Count(s, Owing)
          /\ Count(s, Engaging)' = Count(s, Engaging)
      BY <1>1, <2>2 DEF Sending, Owing, Engaging
    <2>4. Count(s, Engaging) <= overtaken[s]
      BY <1>0, <1>3, SomeCount DEF Books, Exclusive, One, Fresh, Old, Numbers
    <2>5. NoRecord.attempts = 0 /\ NoRecord.status = "none"
      BY DEF NoRecord
    <2>6. One(Fresh(ledger'[s])) = 0
      BY <2>1, <2>5 DEF One, Fresh
    <2>7. Exclusive(s)' /\ PaidFor(s)' /\ OneAnswer(s)'
      BY <1>0, <1>1, <2>1, <2>3, <2>4, <2>5, <2>6, SomeCount DEF Exclusive, PaidFor, OneAnswer, Answers, Numbers
    <2>8. PaidBefore(s)'
      <3>1. ASSUME NEW q \in Passes, Builds(q)' PROVE prev'[q].attempts \in Nat
        <4>1. prev'[q] = prev[q]
          BY <1>1, <3>1 DEF Builds, Frame, Sending
        <4>2. QED
          BY <4>1, AreNumbers
      <3>2. QED
        BY <1>0, <1>1, <2>1, <2>3, <2>4, <2>6, <3>1, SomeCount DEF PaidBefore, Numbers
    <2>9. Frugal(s)'
      <3>1. overtaken[s] = 0 => \A q \in Passes : sig'[q] = s => pc'[q] \notin Sending
        <4>1. overtaken[s] = 0 => Count(s, Engaging) = 0
          BY <2>4, SomeCount
        <4>2. \A q \in Passes : pc'[q] \in Sending => pc[q] \in Engaging /\ sig'[q] = sig[q]
          BY <1>1 DEF Frame, Engaging, Sending
        <4>3. QED
          BY <4>1, <4>2, Counts
      <3>2. QED
        BY <1>1, <2>1, <2>3, <2>5, <3>1, SomeCount DEF Frugal
    <2>10. QED
      BY <2>7, <2>8, <2>9 DEF Books
  <1>4. QED
    BY <1>2, <1>3

\* A claim of a dead pass is paid for with the cut, its answer with a success not noted.
LEMMA DiesStep ==
  ASSUME TypeOK, RecordsSound, NEW p \in Passes, Dies(p), NEW s \in Sets, Books(s)
  PROVE  Books(s)'
  <1>0. Numbers(s) /\ sig[p] \in Sets
    BY AreNumbers
  <1>1. /\ Frame(p) /\ pc'[p] \in {"idle", "done"} /\ UNCHANGED <<ledger, tried, answered, overtaken>>
        /\ cut' = IF pc[p] \in Sending THEN [cut EXCEPT ![sig[p]] = @ + 1] ELSE cut
        /\ unnoted' = IF pc[p] = "succeeded" THEN [unnoted EXCEPT ![sig[p]] = @ + 1] ELSE unnoted
    BY MoveFrame DEF Dies
  <1>2. CASE s # sig[p]
    <2>1. Same(s)
      BY <1>0, <1>1, <1>2 DEF Same, TypeOK
    <2>2. QED
      BY <1>1, <1>2, <2>1, Elsewhere DEF At, Engaging, Sending
  <1>3. CASE s = sig[p]
    <2>1. cut'[s] = cut[s] + One(pc[p] \in Sending) /\ unnoted'[s] = unnoted[s] + One(pc[p] = "succeeded")
      BY <1>0, <1>1, <1>3 DEF TypeOK, One, Numbers
    <2>2. Becomes(p, s, pc[p], pc'[p])
      BY <1>1, <1>3, Becoming DEF Engaging, Sending
    <2>3. /\ Count(s, Sending)' = Count(s, Sending) - One(pc[p] \in Sending)
          /\ Count(s, Owing)' = Count(s, Owing) - One(pc[p] \in Owing)
          /\ Count(s, Engaging)' = Count(s, Engaging) - One(pc[p] \in Engaging)
      <3>1. pc'[p] \notin Sending /\ pc'[p] \notin Owing /\ pc'[p] \notin Engaging
        BY <1>1 DEF Owing, Engaging, Sending
      <3>2. One(pc[p] \in Sending) \in {0, 1} /\ One(pc[p] \in Owing) \in {0, 1} /\ One(pc[p] \in Engaging) \in {0, 1}
        BY DEF One
      <3>3. One(pc'[p] \in Sending) = 0 /\ One(pc'[p] \in Owing) = 0 /\ One(pc'[p] \in Engaging) = 0
        BY <3>1 DEF One
      <3>4. QED
        BY <2>2, <3>2, <3>3, SomeCount DEF Becomes
    <2>4. \A q \in Passes : /\ pc'[q] \in Sending => pc[q] \in Sending /\ sig'[q] = sig[q] /\ prev'[q] = prev[q]
                            /\ pc'[q] = "write" => pc[q] = "write" /\ sig'[q] = sig[q] /\ prev'[q] = prev[q]
      BY <1>1 DEF Frame, Sending
    <2>5. Exclusive(s)' /\ PaidFor(s)'
      BY <1>0, <1>1, <2>3, SomeCount DEF Books, Exclusive, PaidFor, One, Numbers
    <2>6. PaidBefore(s)'
      <3>1. ASSUME NEW q \in Passes, sig'[q] = s, Builds(q)'
            PROVE  tried'[s] + Count(s, Sending)' <= prev'[q].attempts + One(Fresh(ledger[s]))' + overtaken'[s]
        <4>1. prev'[q] = prev[q] /\ sig[q] = s /\ Builds(q)
          BY <2>4, <3>1 DEF Builds
        <4>2. tried[s] + Count(s, Sending) <= prev[q].attempts + One(Fresh(ledger[s])) + overtaken[s]
          BY <4>1 DEF Books, PaidBefore
        <4>3. prev[q].attempts \in Nat
          BY AreNumbers
        <4>4. QED
          BY <1>0, <1>1, <2>3, <4>1, <4>2, <4>3, SomeCount DEF One, Numbers
      <3>2. QED
        BY <3>1 DEF PaidBefore
    <2>7. OneAnswer(s)'
      <3>1. CASE pc[p] \in Engaging
        <4>1. One(pc[p] = "succeeded") = 1 - One(pc[p] \in Owing)
          BY <3>1 DEF One, Engaging, Owing, Sending
        <4>2. Answers(s)' <= overtaken'[s] + unnoted'[s]
          BY <1>0, <1>1, <2>1, <2>3, <4>1, SomeCount DEF Books, OneAnswer, Answers, One, Numbers
        <4>3. Answers(s)' \in Int
          BY <1>0, <1>1, <2>3, SomeCount DEF Answers, One, Numbers
        <4>4. overtaken'[s] + unnoted'[s] \in Int
          BY <1>0, <1>1, <2>1 DEF One, Numbers
        <4>5. 1 + overtaken'[s] + unnoted'[s] = 1 + (overtaken'[s] + unnoted'[s])
          BY <1>0, <1>1, <2>1 DEF One, Numbers
        <4>6. QED
          BY <4>2, <4>3, <4>4, <4>5 DEF OneAnswer
      <3>2. CASE pc[p] \notin Engaging
        <4>1. Same(s)
          BY <1>0, <1>1, <2>1, <3>2 DEF Same, One, Engaging, Sending, Numbers
        <4>2. QED
          BY <1>1, <3>2, <4>1, Elsewhere DEF At, Engaging, Sending, Books
      <3>3. QED
        BY <3>1, <3>2
    <2>8. Frugal(s)'
      BY <1>0, <1>1, <2>1, <2>3, <2>4, SomeCount DEF Books, Frugal, One, Numbers
    <2>9. QED
      BY <2>5, <2>6, <2>7, <2>8 DEF Books
  <1>4. QED
    BY <1>2, <1>3

\* Time passes when no pass is under way.
LEMMA TimeStep ==
  ASSUME TypeOK, RecordsSound, DelayPasses \/ DayPasses, NEW s \in Sets, Books(s)
  PROVE  Books(s)'
  <1> USE DEF passVars, boundVars, histVars
  <1>0. Numbers(s) /\ ledger[s] \in WakeLedgerRecord
    BY AreNumbers
  <1>1. /\ \A p \in Passes : pc[p] \in {"idle", "done"}
        /\ UNCHANGED <<pc, sig, prev, tried, answered, cut, unnoted, overtaken>>
    BY DEF DelayPasses, DayPasses, Between
  <1>2. ledger'[s].attempts = ledger[s].attempts /\ ledger'[s].status = ledger[s].status
    <2>1. ledger'[s] = ledger[s] \/ \E age \in {"due", "day"} : ledger'[s] = [ledger[s] EXCEPT !.age = age]
      BY DEF DelayPasses, DayPasses
    <2>2. QED
      BY <1>0, <2>1 DEF WakeLedgerRecord
  <1>3. Count(s, Sending) = 0 /\ Count(s, Owing) = 0 /\ Count(s, Engaging) = 0
    BY <1>1, Counts DEF Sending, Owing, Engaging
  <1>4. Count(s, Sending)' = 0 /\ Count(s, Owing)' = 0 /\ Count(s, Engaging)' = 0
    BY <1>1, <1>3 DEF Count, Passing
  <1>5. Exclusive(s)' /\ PaidFor(s)'
    BY <1>0, <1>1, <1>2, <1>3, <1>4 DEF Books, Exclusive, PaidFor, One, Numbers
  <1>6. PaidBefore(s)' /\ Frugal(s)'
    <2>1. \A p \in Passes : ~Builds(p)' /\ pc'[p] \notin Sending
      BY <1>1 DEF Builds, Sending
    <2>2. QED
      BY <1>1, <1>2, <1>3, <1>4, <2>1 DEF Books, PaidBefore, Frugal
  <1>7. OneAnswer(s)'
    <2>1. ledger[s].status = "none" => ledger[s].attempts < MaxAttempts
      <3>1. ledger[s].status = "none" => ledger[s].attempts = 0
        BY AreNumbers DEF Sound, NoRecord
      <3>2. QED
        BY <3>1, Bounds
    <2>2. Claimable(ledger'[s]) => ledger[s].status # "nudged" /\ ledger[s].attempts < MaxAttempts
      BY <1>2, <2>1 DEF Claimable
    <2>3. Answers(s)' = Answers(s)
      BY <1>1, <1>3, <1>4 DEF Answers
    <2>4. ~(ledger[s].attempts >= MaxAttempts /\ ledger[s].attempts < MaxAttempts)
      BY <1>0, Bounds DEF Numbers
    <2>5. QED
      BY <1>1, <1>2, <1>3, <1>4, <2>2, <2>3, <2>4 DEF Books, OneAnswer
  <1>8. QED
    BY <1>5, <1>6, <1>7 DEF Books

LEMMA StepBooks ==
  ASSUME TypeOK, RecordsSound, [Next]_vars, NEW s \in Sets, Books(s) PROVE Books(s)'
  <1> USE DEF passVars, boundVars, histVars
  <1>1. ASSUME NEW p \in Passes, Begin(p) \/ Look(p) PROVE Books(s)'
    <2>1. /\ Frame(p) /\ pc[p] \notin Engaging /\ pc'[p] \notin Engaging \cup {"write"}
          /\ UNCHANGED <<ledger, tried, answered, cut, unnoted, overtaken>>
      <3>1. CASE Begin(p)
        BY <3>1 DEF Begin, Go, Frame, TypeOK, Engaging, Sending
      <3>2. CASE Look(p)
        <4>1. Leave(p) \/ GoOn(p, "claim")
          BY <3>2, Zenon DEF Look, SkipThread
        <4>2. QED
          BY <3>2, <4>1, MoveFrame DEF Look, Engaging, Sending
      <3>3. QED
        BY <1>1, <3>1, <3>2
    <2>2. QED
      BY <2>1, StaysAway
  <1>2. ASSUME NEW p \in Passes, Recheck(p) PROVE Books(s)'
    <2>1. pc[p] \in Sending /\ UNCHANGED <<tried, answered, cut, unnoted, overtaken>>
      BY <1>2 DEF Recheck, Sending
    <2>2. CASE Wakeable(thread)
      <3>1. (GoOn(p, "steer") \/ GoOn(p, "start")) /\ UNCHANGED ledger
        BY <1>2, <2>2 DEF Recheck
      <3>2. QED
        BY <2>1, <3>1, StaysSending DEF Sending
    <2>3. CASE ~Wakeable(thread)
      BY <1>2, <2>1, <2>3, Releases DEF Recheck, SkipThread
    <2>4. QED
      BY <2>2, <2>3
  <1>3. ASSUME NEW p \in Passes, Steer(p) PROVE Books(s)'
    <2>1. pc[p] \in Sending /\ UNCHANGED <<ledger, cut, unnoted, overtaken>>
      BY <1>3 DEF Steer, Sending
    <2>2. CASE Taken(p) \/ Refused(p)
      BY <2>1, <2>2, Sends
    <2>3. CASE ~(Taken(p) \/ Refused(p))
      <3>1. GoOn(p, "again") /\ UNCHANGED <<tried, answered>>
        BY <1>3, <2>3 DEF Steer
      <3>2. QED
        BY <2>1, <3>1, StaysSending DEF Sending
    <2>4. QED
      BY <2>2, <2>3
  <1>4. ASSUME NEW p \in Passes, ReadAgain(p) PROVE Books(s)'
    <2>1. pc[p] \in Sending /\ UNCHANGED <<cut, unnoted, overtaken>>
      BY <1>4 DEF ReadAgain, Sending
    <2>2. CASE thread = "down"
      <3>1. Refused(p) /\ UNCHANGED ledger
        BY <1>4, <2>2 DEF ReadAgain
      <3>2. QED
        BY <2>1, <3>1, Sends
    <2>3. CASE thread = "idle"
      <3>1. GoOn(p, "start") /\ UNCHANGED <<ledger, tried, answered>>
        BY <1>4, <2>3 DEF ReadAgain
      <3>2. QED
        BY <2>1, <3>1, StaysSending DEF Sending
    <2>4. CASE thread \notin {"down", "idle"}
      <3>1. Release(p) /\ Leave(p) /\ UNCHANGED <<tried, answered>>
        BY <1>4, <2>4 DEF ReadAgain, SkipThread
      <3>2. QED
        BY <2>1, <3>1, Releases
    <2>5. QED
      BY <2>2, <2>3, <2>4
  <1>5. ASSUME NEW p \in Passes, StartTurn(p) PROVE Books(s)'
    <2>1. pc[p] \in Sending /\ UNCHANGED <<ledger, cut, unnoted, overtaken>> /\ (Taken(p) \/ Refused(p))
      BY <1>5 DEF StartTurn, Sending
    <2>2. QED
      BY <2>1, Sends
  <1>6. CASE MailArrives \/ AgentReads \/ TurnEnds \/ ThreadChanges \/ Recovers \/ UNCHANGED vars
    <2>1. UNCHANGED <<pc, sig, prev, ledger, tried, answered, cut, unnoted, overtaken>>
      BY <1>6 DEF MailArrives, AgentReads, TurnEnds, ThreadChanges, Recovers, vars
    <2>2. QED
      BY <2>1, Untouched
  <1>7. QED
    BY <1>1, <1>2, <1>3, <1>4, <1>5, <1>6, ReadStep, ClaimStep, MarkStep, PruneStep, DiesStep, TimeStep DEF Next, Pass

-----------------------------------------------------------------------------
(* Theorems *)

LEMMA InitIInv == Init => IInv
  <1> SUFFICES ASSUME Init PROVE IInv
    OBVIOUS
  <1>1. RecordsSound
    BY SoundRecords DEF Init, RecordsSound
  <1>2. ASSUME NEW s \in Sets PROVE Books(s)
    <2>1. Count(s, Sending) = 0 /\ Count(s, Owing) = 0 /\ Count(s, Engaging) = 0
      BY Counts DEF Init, Sending, Owing, Engaging
    <2>2. \A p \in Passes : pc[p] = "idle"
      BY DEF Init
    <2>3. QED
      BY <2>1, <2>2 DEF Init, Books, Exclusive, PaidFor, PaidBefore, Builds, OneAnswer, Answers, Frugal,
                        NoRecord, One, Fresh, Sending
  <1>3. QED
    BY <1>1, <1>2, InitTypeOK DEF IInv

\* The inductive invariant of the wake pass.
THEOREM Safety == Spec => []IInv
  <1>1. IInv /\ [Next]_vars => IInv'
    BY StepTypeOK, RecordsStep, StepBooks DEF IInv
  <1>2. QED
    BY InitIInv, <1>1, PTL DEF Spec

\* Every variable keeps its type.
THEOREM TypeCorrect == Spec => []TypeOK
  BY Safety, PTL DEF IInv

\* Wakes are paid for with the attempts in the ledger, up to the claims that wrote over a
\* changed record; where none did, only a dead pass spends an attempt on nothing.
THEOREM Paid == Spec => []AttemptsAreWakes
  <1>1. IInv => AttemptsAreWakes
    <2> SUFFICES ASSUME IInv, NEW s \in Sets
                 PROVE  /\ tried[s] <= ledger[s].attempts + overtaken[s]
                        /\ overtaken[s] = 0 =>
                             ledger[s].attempts <= tried[s] + cut[s] + (IF InClaim(s) = {} THEN 0 ELSE 1)
      BY DEF AttemptsAreWakes
    <2>0. Numbers(s) /\ Books(s)
      BY AreNumbers DEF IInv
    <2>1. tried[s] <= ledger[s].attempts + overtaken[s]
      BY <2>0, SomeCount DEF Books, PaidFor, Numbers
    <2>2. ASSUME overtaken[s] = 0
          PROVE  ledger[s].attempts <= tried[s] + cut[s] + (IF InClaim(s) = {} THEN 0 ELSE 1)
      <3>1. Count(s, Sending) \in Nat /\ Count(s, Sending) <= 1
        BY <2>0, <2>2, SomeCount DEF Books, Exclusive, One
      <3>2. InClaim(s) = {} => Count(s, Sending) = 0
        BY Counts DEF InClaim
      <3>3. ledger[s].attempts <= tried[s] + cut[s] + Count(s, Sending)
        BY <2>0, <2>2 DEF Books, Frugal
      <3>4. QED
        BY <2>0, <3>1, <3>2, <3>3 DEF Numbers
    <2>3. QED
      BY <2>1, <2>2
  <1>2. QED
    BY Safety, <1>1, PTL

\* A set is woken successfully once while its record lasts, but for the successes that a
\* dying pass left unnoted and the claims that overran each other.
THEOREM Woken == Spec => []WokenOnce
  <1>1. IInv => WokenOnce
    <2> SUFFICES ASSUME IInv, NEW s \in Sets PROVE answered[s] <= 1 + unnoted[s] + overtaken[s]
      BY DEF WokenOnce
    <2>1. Numbers(s) /\ Books(s)
      BY AreNumbers DEF IInv
    <2>2. QED
      BY <2>1, SomeCount DEF Books, OneAnswer, Answers, Numbers
  <1>2. QED
    BY Safety, <1>1, PTL
===============================================================================
