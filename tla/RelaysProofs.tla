----------------------------- MODULE RelaysProofs -----------------------------
(***************************************************************************)
(* Proofs about the two relays.  Federation, for any number of sends,      *)
(* machines, restarts and lost or repeated requests; and the relay of a    *)
(* Droid session, for any number of messages, prompts, retries and faults. *)
(***************************************************************************)
EXTENDS MCRelays, FiniteSetTheorems, SequenceTheorems, TLAPS

\* A send that has not been answered has no row.
UnansweredHasNoRow == \A u \in Sends : call[u] \in {"new", "asking"} => outbox[u] = "none"

\* A row was inserted exactly when the receipt says so.
CopiesMatchReceipt == \A u \in Sends : mail[u] = IF receipt[u] \in Inserting THEN 1 ELSE 0

\* The answer that the origin holds is the one the destination recorded.
AnswerMatchesReceipt == \A u \in Sends : relay[u] \in Verdicts => receipt[u] = relay[u]

\* Nothing is relayed, on its way or recorded for a row that was not queued, and
\* only pending rows are being relayed.
OnlyQueuedRelayed ==
  \A u \in Sends :
    /\ relay[u] # "idle" => outbox[u] = "pending"
    /\ late[u] \/ receipt[u] # "none" => outbox[u] # "none"

\* A broker that refuses an envelope has not inserted it under another version:
\* it is upgraded, never rolled back.
RefusedHasNoReceipt == \A u \in Sends : Refuses(u) => receipt[u] = "none"

\* A message refused as an envelope that no later request can insert: the
\* destination is still old, or no request is left on the way.
Doomed(u) == u \in NewKind /\ receipt[u] = "none" /\ (old[HostOf[u]] \/ ~late[u])

RefusedIsDoomed == \A u \in Sends : relay[u] = "refused" => Doomed(u)

\* The outbox agrees with the destination about what was inserted.
SettledTruly ==
  \A u \in Sends :
    /\ outbox[u] = "delivered" => receipt[u] \in Inserting
    /\ outbox[u] = "bounced" => receipt[u] = "rejected" \/ Doomed(u)

IInv ==
  /\ TypeOK
  /\ UnansweredHasNoRow
  /\ CopiesMatchReceipt
  /\ AnswerMatchesReceipt
  /\ OnlyQueuedRelayed
  /\ RefusedHasNoReceipt
  /\ RefusedIsDoomed
  /\ SettledTruly
  /\ NoticeMatchesOutcome

-----------------------------------------------------------------------------
(* Type correctness *)

LEMMA EnqueueTyped ==
  ASSUME TypeOK, NEW u \in Sends, Enqueue(u)
  PROVE  /\ call' \in [Sends -> {"new", "asking"} \cup Answers]
         /\ rowId' \in [Sends -> Nat]
         /\ outbox' \in [Sends -> {"none", "pending", "delivered", "bounced"}]
         /\ due' \in [Sends -> BOOLEAN]
  <1>1. IsFiniteSet({v \in Sends : rowId[v] # 0})
    BY FederationAssumption, FS_Subset
  <1>2. Cardinality({v \in Sends : rowId[v] # 0}) \in Nat
    BY <1>1, FS_CardinalityType
  <1>3. QED
    BY <1>2 DEF Enqueue, TypeOK, Answers

\* What sending leaves alone.
SendFrame == UNCHANGED <<authed, local, relay, notices, late, destVars, restarts>>

LEMMA SendTyped ==
  ASSUME TypeOK, NEW u \in Sends, Send(u) \/ DirectoryAnswers(u)
  PROVE  TypeOK'
  <1>1. SendFrame
    BY DEF Send, DirectoryAnswers, SendFrame
  <1>2. Enqueue(u) \/ \E a \in Answers \cup {"asking"} : Answer(u, a)
    BY DEF Send, DirectoryAnswers, SendLocal, Answers
  <1>3. CASE Enqueue(u)
    BY <1>1, <1>3, EnqueueTyped DEF SendFrame, TypeOK, destVars
  <1>4. CASE \E a \in Answers \cup {"asking"} : Answer(u, a)
    BY <1>1, <1>4 DEF SendFrame, TypeOK, destVars, Answer
  <1>5. QED
    BY <1>2, <1>3, <1>4

LEMMA ReceiveTyped ==
  ASSUME TypeOK, NEW u \in Sends, NEW v \in Verdicts, Receive(u, v)
  PROVE  receipt' \in [Sends -> {"none"} \cup Verdicts] /\ mail' \in [Sends -> Nat]
  BY DEF Receive, Deliver, TypeOK, Inserting, Verdicts

LEMMA InitTyped == Init => TypeOK
  BY FederationAssumption DEF Init, TypeOK, Verdicts

LEMMA StepTyped == TypeOK /\ [Next]_vars => TypeOK'
  <1> SUFFICES ASSUME TypeOK, [Next]_vars PROVE TypeOK'
    OBVIOUS
  <1> USE DEF destVars
  <1>1. ASSUME NEW u \in Sends, Send(u) \/ DirectoryAnswers(u) PROVE TypeOK'
    BY <1>1, SendTyped
  <1>2. ASSUME NEW u \in Sends, LocalPeerChanges(u) PROVE TypeOK'
    BY <1>2 DEF LocalPeerChanges, TypeOK
  <1>3. ASSUME NEW u \in Sends, Lose(u) PROVE TypeOK'
    BY <1>3 DEF Lose, TypeOK
  <1>4. ASSUME NEW u \in Sends, Retry(u) PROVE TypeOK'
    BY <1>4 DEF Retry, BackOff, TypeOK
  <1>5. ASSUME NEW u \in Sends, BackOffEnds(u) PROVE TypeOK'
    BY <1>5 DEF BackOffEnds, TypeOK
  <1>6. ASSUME NEW u \in Sends, Complete(u) PROVE TypeOK'
    <2>1. CASE BackOff(u)
      BY <1>6, <2>1 DEF Complete, BackOff, TypeOK
    <2>2. CASE Settle(u) /\ relay' = [relay EXCEPT ![u] = "idle"] /\ UNCHANGED due
      <3>1. outbox' \in [Sends -> {"none", "pending", "delivered", "bounced"}]
        BY <2>2 DEF Settle, TypeOK
      <3>2. notices' \in [Sends -> SUBSET {"notice", "bounce"}]
        BY <2>2 DEF Settle, TypeOK
      <3>3. QED
        BY <1>6, <2>2, <3>1, <3>2 DEF Complete, TypeOK
    <2>3. QED
      BY <1>6, <2>1, <2>2 DEF Complete
  <1>7. ASSUME NEW u \in Sends, Handle(u) PROVE TypeOK'
    <2>1. receipt' \in [Sends -> {"none"} \cup Verdicts] /\ mail' \in [Sends -> Nat]
      BY <1>7, ReceiveTyped DEF Handle, TypeOK
    <2>2. relay' \in [Sends -> {"idle", "asked", "refused", "failed"} \cup Verdicts]
      BY <1>7 DEF Handle, TypeOK
    <2>3. QED
      BY <1>7, <2>1, <2>2 DEF Handle, TypeOK
  <1>8. ASSUME NEW u \in Sends, HandleLate(u) PROVE TypeOK'
    <2>1. receipt' \in [Sends -> {"none"} \cup Verdicts] /\ mail' \in [Sends -> Nat]
      BY <1>8, ReceiveTyped DEF HandleLate, TypeOK
    <2>2. QED
      BY <1>8, <2>1 DEF HandleLate, TypeOK, originVars
  <1>9. ASSUME NEW u \in Sends, LoseAnswer(u) PROVE TypeOK'
    BY <1>9 DEF LoseAnswer, TypeOK
  <1>10. ASSUME NEW h \in Hosts, DestinationRestarts(h) PROVE TypeOK'
    <2>1. old' \in [Hosts -> BOOLEAN]
      BY <1>10 DEF DestinationRestarts, TypeOK
    <2>2. late' \in [Sends -> BOOLEAN]
      BY <1>10 DEF DestinationRestarts, TypeOK
    <2>3. relay' \in [Sends -> {"idle", "asked", "refused", "failed"} \cup Verdicts]
      BY <1>10 DEF DestinationRestarts, TypeOK
    <2>4. restarts' \in 0 .. MaxRestarts
      BY <1>10, FederationAssumption DEF DestinationRestarts, TypeOK
    <2>5. QED
      BY <1>10, <2>1, <2>2, <2>3, <2>4 DEF DestinationRestarts, TypeOK
  <1>11. CASE SessionEnds
    BY <1>11 DEF SessionEnds, TypeOK
  <1>12. CASE Tick
    BY <1>12 DEF Tick, TypeOK
  <1>13. CASE OriginRestarts
    BY <1>13, FederationAssumption DEF OriginRestarts, TypeOK, Answers
  <1>14. CASE UNCHANGED vars
    BY <1>14 DEF vars, originVars, TypeOK
  <1>15. QED
    BY <1>1, <1>2, <1>3, <1>4, <1>5, <1>6, <1>7, <1>8, <1>9, <1>10, <1>11, <1>12, <1>13, <1>14
    DEF Next

\* Every reachable state is well typed.
THEOREM TypeCorrect == Spec => []TypeOK
  BY InitTyped, StepTyped, PTL DEF Spec

-----------------------------------------------------------------------------
(* The inductive invariant *)

LEMMA InitIInv == Init => IInv
  <1> SUFFICES ASSUME Init PROVE IInv
    OBVIOUS
  <1>1. UnansweredHasNoRow /\ CopiesMatchReceipt /\ AnswerMatchesReceipt /\ OnlyQueuedRelayed
    BY DEF Init, UnansweredHasNoRow, CopiesMatchReceipt, AnswerMatchesReceipt, OnlyQueuedRelayed, Inserting, Verdicts
  <1>2. RefusedHasNoReceipt /\ RefusedIsDoomed /\ SettledTruly
    BY DEF Init, RefusedHasNoReceipt, RefusedIsDoomed, SettledTruly
  <1>3. NoticeMatchesOutcome
    BY DEF Init, NoticeMatchesOutcome
  <1>4. QED
    BY <1>1, <1>2, <1>3, InitTyped DEF IInv

\* The parts of the invariant about one row, for a row whose own state does not change.
Kept(u) ==
  /\ outbox'[u] = outbox[u] /\ relay'[u] = relay[u] /\ notices'[u] = notices[u]
  /\ late'[u] = late[u] /\ receipt'[u] = receipt[u] /\ mail'[u] = mail[u]

RowInv(u) ==
  /\ mail[u] = IF receipt[u] \in Inserting THEN 1 ELSE 0
  /\ relay[u] \in Verdicts => receipt[u] = relay[u]
  /\ relay[u] # "idle" => outbox[u] = "pending"
  /\ late[u] \/ receipt[u] # "none" => outbox[u] # "none"
  /\ Refuses(u) => receipt[u] = "none"
  /\ relay[u] = "refused" => Doomed(u)
  /\ outbox[u] = "delivered" => receipt[u] \in Inserting
  /\ outbox[u] = "bounced" => receipt[u] = "rejected" \/ Doomed(u)
  /\ notices[u] = CASE outbox[u] = "bounced" -> {"bounce"}
                     [] outbox[u] = "delivered" /\ receipt[u] = "warned" -> {"notice"}
                     [] OTHER -> {}

LEMMA IInvByRows == IInv <=> TypeOK /\ UnansweredHasNoRow /\ \A u \in Sends : RowInv(u)
  BY DEF IInv, RowInv, CopiesMatchReceipt, AnswerMatchesReceipt, OnlyQueuedRelayed,
         RefusedHasNoReceipt, RefusedIsDoomed, SettledTruly, NoticeMatchesOutcome

LEMMA KeptRow ==
  ASSUME NEW u \in Sends, RowInv(u), Kept(u), old' = old
  PROVE  RowInv(u)'
  BY DEF RowInv, Kept, Refuses, Doomed

\* A step that touches one row keeps the others.
LEMMA OtherRows ==
  ASSUME TypeOK, NEW u \in Sends, NEW w \in Sends, w # u,
         Send(u) \/ DirectoryAnswers(u) \/ Lose(u) \/ Retry(u) \/ Complete(u)
           \/ Handle(u) \/ HandleLate(u) \/ LoseAnswer(u)
  PROVE  Kept(w) /\ old' = old
  <1> USE DEF TypeOK, Kept, destVars, originVars
  <1>1. CASE Send(u) \/ DirectoryAnswers(u)
    BY <1>1 DEF Send, DirectoryAnswers, SendLocal, Enqueue, Answer
  <1>2. CASE Lose(u) \/ Retry(u) \/ LoseAnswer(u)
    BY <1>2 DEF Lose, Retry, BackOff, LoseAnswer
  <1>3. CASE Complete(u)
    BY <1>3 DEF Complete, Settle, BackOff
  <1>4. CASE Handle(u) \/ HandleLate(u)
    BY <1>4 DEF Handle, HandleLate, Receive, Deliver
  <1>5. QED
    BY <1>1, <1>2, <1>3, <1>4

\* A queued row has no answer, request or receipt yet.
LEMMA SendRow ==
  ASSUME TypeOK, NEW u \in Sends, RowInv(u), Send(u) \/ DirectoryAnswers(u), outbox[u] = "none"
  PROVE  RowInv(u)'
  <1>1. /\ relay'[u] = relay[u] /\ notices'[u] = notices[u] /\ late'[u] = late[u]
        /\ receipt' = receipt /\ mail' = mail /\ old' = old
    BY DEF Send, DirectoryAnswers, destVars
  <1>2. outbox'[u] \in {"none", "pending"}
    BY DEF Send, DirectoryAnswers, SendLocal, Enqueue, Answer, TypeOK
  <1>3. QED
    BY <1>1, <1>2 DEF RowInv, Refuses, Doomed, Verdicts, Inserting

LEMMA ReceiveRow ==
  ASSUME TypeOK, NEW u \in Sends, NEW v \in Verdicts, RowInv(u), Receive(u, v)
  PROVE  /\ receipt'[u] = v
         /\ receipt[u] \in {"none", v}
         /\ mail'[u] = IF v \in Inserting THEN 1 ELSE 0
  BY DEF Receive, Deliver, RowInv, TypeOK, Inserting, Verdicts

LEMMA HandleRow ==
  ASSUME TypeOK, NEW u \in Sends, RowInv(u), Handle(u)
  PROVE  RowInv(u)'
  <1>1. relay[u] = "asked" /\ outbox[u] = "pending" /\ notices[u] = {}
    BY DEF Handle, RowInv
  <1>2. outbox'[u] = "pending" /\ notices'[u] = {} /\ late' = late /\ old' = old
    BY <1>1 DEF Handle
  <1>3. CASE Refuses(u) /\ relay' = [relay EXCEPT ![u] = "refused"] /\ UNCHANGED <<receipt, mail>>
    BY <1>1, <1>2, <1>3 DEF RowInv, Refuses, Doomed, TypeOK, Verdicts
  <1>4. ASSUME ~Refuses(u), NEW v \in Verdicts, Receive(u, v), relay' = [relay EXCEPT ![u] = v]
        PROVE  RowInv(u)'
    <2>1. receipt'[u] = v /\ mail'[u] = (IF v \in Inserting THEN 1 ELSE 0)
      BY <1>4, ReceiveRow
    <2>2. relay'[u] = v /\ v # "refused" /\ v # "none"
      BY <1>4 DEF TypeOK, Verdicts
    <2>3. ~Refuses(u)'
      BY <1>2, <1>4 DEF Refuses
    <2>4. QED
      BY <1>2, <2>1, <2>2, <2>3 DEF RowInv
  <1>5. QED
    BY <1>3, <1>4 DEF Handle

LEMMA HandleLateRow ==
  ASSUME TypeOK, NEW u \in Sends, RowInv(u), HandleLate(u)
  PROVE  RowInv(u)'
  <1>1. /\ outbox'[u] = outbox[u] /\ relay'[u] = relay[u] /\ notices'[u] = notices[u] /\ old' = old
        /\ late[u] /\ outbox[u] # "none"
    BY DEF HandleLate, originVars, RowInv
  <1>2. CASE Refuses(u) /\ UNCHANGED <<receipt, mail>>
    BY <1>1, <1>2 DEF RowInv, Refuses, Doomed
  <1>3. ASSUME ~Refuses(u), NEW v \in Verdicts, Receive(u, v) PROVE RowInv(u)'
    <2>1. receipt'[u] = v /\ receipt[u] \in {"none", v} /\ mail'[u] = (IF v \in Inserting THEN 1 ELSE 0)
      BY <1>3, ReceiveRow
    <2>2. ~Refuses(u)' /\ ~Doomed(u)
      BY <1>1, <1>3 DEF Refuses, Doomed
    <2>3. v # "none"
      BY DEF Verdicts
    <2>4. QED
      BY <1>1, <2>1, <2>2, <2>3 DEF RowInv, Inserting, Verdicts
  <1>4. QED
    BY <1>2, <1>3 DEF HandleLate

LEMMA CompleteRow ==
  ASSUME TypeOK, NEW u \in Sends, RowInv(u), Complete(u)
  PROVE  RowInv(u)'
  <1>1. /\ late' = late /\ receipt' = receipt /\ mail' = mail /\ old' = old /\ relay'[u] = "idle"
        /\ relay[u] \in Verdicts \cup {"refused"} /\ outbox[u] = "pending" /\ notices[u] = {}
    BY DEF Complete, destVars, Settle, BackOff, TypeOK, RowInv, Verdicts
  <1>2. CASE BackOff(u)
    BY <1>1, <1>2 DEF BackOff, RowInv, Refuses, Doomed, Verdicts
  <1>3. CASE Settle(u)
    <2>1. CASE relay[u] = "refused"
      <3>1. outbox'[u] = "bounced" /\ notices'[u] = {"bounce"}
        BY <1>1, <1>3, <2>1 DEF Settle, TypeOK, Inserting
      <3>2. QED
        BY <1>1, <2>1, <3>1 DEF RowInv, Refuses, Doomed, Verdicts
    <2>2. CASE relay[u] = "rejected"
      <3>1. outbox'[u] = "bounced" /\ notices'[u] = {"bounce"}
        BY <1>1, <1>3, <2>2 DEF Settle, TypeOK, Inserting
      <3>2. QED
        BY <1>1, <2>2, <3>1 DEF RowInv, Refuses, Doomed, Verdicts
    <2>3. CASE relay[u] = "warned"
      <3>1. outbox'[u] = "delivered" /\ notices'[u] = {"notice"}
        BY <1>1, <1>3, <2>3 DEF Settle, TypeOK, Inserting
      <3>2. QED
        BY <1>1, <2>3, <3>1 DEF RowInv, Refuses, Doomed, Verdicts, Inserting
    <2>4. CASE relay[u] = "ok"
      <3>1. outbox'[u] = "delivered" /\ notices'[u] = {}
        BY <1>1, <1>3, <2>4 DEF Settle, TypeOK, Inserting
      <3>2. QED
        BY <1>1, <2>4, <3>1 DEF RowInv, Refuses, Doomed, Verdicts, Inserting
    <2>5. QED
      BY <1>1, <2>1, <2>2, <2>3, <2>4 DEF Verdicts
  <1>4. QED
    BY <1>2, <1>3 DEF Complete

\* A relay that failed is no answer, and may leave a late request only while pending.
LEMMA FailRow ==
  ASSUME TypeOK, NEW u \in Sends, RowInv(u), Lose(u) \/ Retry(u) \/ LoseAnswer(u)
  PROVE  RowInv(u)'
  <1>1. /\ outbox'[u] = "pending" /\ outbox[u] = "pending" /\ notices' = notices
        /\ receipt' = receipt /\ mail' = mail /\ old' = old /\ relay'[u] \in {"failed", "idle"}
    BY DEF Lose, Retry, BackOff, LoseAnswer, destVars, TypeOK, RowInv, Verdicts
  <1>2. QED
    BY <1>1 DEF RowInv, Refuses, Verdicts

\* A step that writes no row of the outbox, no receipt and no late request.
Background == UNCHANGED <<outbox, notices, receipt, mail>>

LEMMA TickRow ==
  ASSUME TypeOK, NEW u \in Sends, RowInv(u), Tick
  PROVE  RowInv(u)'
  <1>1. Background /\ late' = late /\ old' = old
    BY DEF Tick, Background, destVars
  <1>2. CASE u \in Round
    BY <1>1, <1>2 DEF Tick, Round, Due, Background, TypeOK, RowInv, Refuses, Doomed, Verdicts
  <1>3. CASE u \notin Round
    <2>1. Kept(u)
      BY <1>1, <1>3 DEF Tick, Background, Kept, TypeOK
    <2>2. QED
      BY <1>1, <2>1, KeptRow
  <1>4. QED
    BY <1>2, <1>3

\* A restart of a destination makes no refused envelope acceptable that is still
\* on its way: the requests are cut when the version changes.
LEMMA DestinationRow ==
  ASSUME TypeOK, NEW u \in Sends, NEW h \in Hosts, RowInv(u), DestinationRestarts(h)
  PROVE  RowInv(u)'
  <1>1. Background
    BY DEF DestinationRestarts, Background
  <1>2. late'[u] = (late[u] /\ HostOf[u] # h)
    BY DEF DestinationRestarts
  <1>3. relay'[u] = IF relay[u] = "asked" /\ HostOf[u] = h THEN "failed" ELSE relay[u]
    BY DEF DestinationRestarts
  <1>4. HostOf[u] \in Hosts
    BY FederationAssumption
  <1>5. Refuses(u)' => Refuses(u)
    BY <1>4 DEF DestinationRestarts, Refuses, TypeOK
  <1>6. Doomed(u) => Doomed(u)'
    BY <1>1, <1>2, <1>4 DEF DestinationRestarts, Doomed, Background, TypeOK
  <1>7. QED
    BY <1>1, <1>2, <1>3, <1>5, <1>6 DEF RowInv, Background, Verdicts

\* A request that a restarting origin abandons was asked for a pending row, and
\* nothing is known of its answer.
LEMMA OriginRow ==
  ASSUME TypeOK, NEW u \in Sends, RowInv(u), OriginRestarts
  PROVE  RowInv(u)'
  <1>1. Background /\ old' = old /\ relay'[u] = "idle"
    BY DEF OriginRestarts, Background, destVars
  <1>2. late'[u] # late[u] => outbox[u] = "pending"
    BY DEF OriginRestarts, RowInv
  <1>3. late[u] \in BOOLEAN /\ late'[u] \in BOOLEAN
    BY DEF OriginRestarts, TypeOK
  <1>4. CASE late'[u] = late[u]
    BY <1>1, <1>4 DEF RowInv, Background, Refuses, Doomed, Verdicts
  <1>5. CASE late'[u] # late[u]
    BY <1>1, <1>2, <1>5 DEF RowInv, Background, Refuses, Verdicts
  <1>6. QED
    BY <1>4, <1>5

LEMMA StepUnanswered ==
  TypeOK /\ UnansweredHasNoRow /\ (\A u \in Sends : RowInv(u)) /\ [Next]_vars => UnansweredHasNoRow'
  <1> SUFFICES ASSUME TypeOK, UnansweredHasNoRow, \A u \in Sends : RowInv(u), [Next]_vars,
                      NEW w \in Sends, call'[w] \in {"new", "asking"}
               PROVE  outbox'[w] = "none"
    BY DEF UnansweredHasNoRow
  <1> USE DEF UnansweredHasNoRow, TypeOK
  <1>1. ASSUME NEW u \in Sends, Send(u) \/ DirectoryAnswers(u) PROVE outbox'[w] = "none"
    <2>1. Enqueue(u) \/ \E a \in Answers \cup {"asking"} : Answer(u, a)
      BY <1>1 DEF Send, DirectoryAnswers, SendLocal, Answers
    <2>2. call[u] \in {"new", "asking"}
      BY <1>1 DEF Send, DirectoryAnswers
    <2>3. QED
      BY <2>1, <2>2 DEF Enqueue, Answer
  <1>2. ASSUME NEW u \in Sends, Complete(u) PROVE outbox'[w] = "none"
    <2>1. call' = call /\ outbox[u] = "pending" /\ (outbox' = outbox \/ Settle(u))
      BY <1>2 DEF Complete, BackOff, RowInv, Verdicts
    <2>2. QED
      BY <2>1 DEF Settle
  <1>3. CASE OriginRestarts
    BY <1>3 DEF OriginRestarts
  <1>4. CASE UNCHANGED <<call, outbox>>
    BY <1>4
  <1>5. QED
    BY <1>1, <1>2, <1>3, <1>4
    DEF Next, vars, originVars, LocalPeerChanges, Lose, Retry, BackOff, BackOffEnds, Handle, HandleLate,
        LoseAnswer, DestinationRestarts, SessionEnds, Tick

LEMMA StepIInv == IInv /\ [Next]_vars => IInv'
  <1> SUFFICES ASSUME TypeOK, UnansweredHasNoRow, \A u \in Sends : RowInv(u), [Next]_vars
               PROVE  TypeOK' /\ UnansweredHasNoRow' /\ \A u \in Sends : RowInv(u)'
    BY IInvByRows DEF IInv, RowInv, CopiesMatchReceipt, AnswerMatchesReceipt, OnlyQueuedRelayed,
         RefusedHasNoReceipt, RefusedIsDoomed, SettledTruly, NoticeMatchesOutcome
  <1>1. TypeOK' /\ UnansweredHasNoRow'
    BY StepTyped, StepUnanswered
  <1>2. ASSUME NEW w \in Sends PROVE RowInv(w)'
    <2>1. ASSUME NEW u \in Sends,
                 Send(u) \/ DirectoryAnswers(u) \/ Lose(u) \/ Retry(u) \/ Complete(u)
                   \/ Handle(u) \/ HandleLate(u) \/ LoseAnswer(u)
          PROVE  RowInv(w)'
      <3>1. CASE w # u
        BY <2>1, <3>1, OtherRows, KeptRow
      <3>2. CASE w = u /\ (Send(u) \/ DirectoryAnswers(u))
        <4>1. outbox[u] = "none"
          BY <3>2 DEF Send, DirectoryAnswers, UnansweredHasNoRow
        <4>2. QED
          BY <3>2, <4>1, SendRow
      <3>3. CASE w = u /\ (Lose(u) \/ Retry(u) \/ LoseAnswer(u))
        BY <3>3, FailRow
      <3>4. CASE w = u /\ Complete(u)
        BY <3>4, CompleteRow
      <3>5. CASE w = u /\ Handle(u)
        BY <3>5, HandleRow
      <3>6. CASE w = u /\ HandleLate(u)
        BY <3>6, HandleLateRow
      <3>7. QED
        BY <2>1, <3>1, <3>2, <3>3, <3>4, <3>5, <3>6
    <2>2. CASE UNCHANGED <<outbox, relay, notices, late, receipt, mail, old>>
      BY <2>2, KeptRow DEF Kept
    <2>3. CASE Tick
      BY <2>3, TickRow
    <2>4. ASSUME NEW h \in Hosts, DestinationRestarts(h) PROVE RowInv(w)'
      BY <2>4, DestinationRow
    <2>5. CASE OriginRestarts
      BY <2>5, OriginRow
    <2>6. QED
      BY <2>1, <2>2, <2>3, <2>4, <2>5
      DEF Next, vars, originVars, destVars, LocalPeerChanges, BackOffEnds, SessionEnds
  <1>3. QED
    BY <1>1, <1>2

LEMMA Safety == Spec => []IInv
  BY InitIInv, StepIInv, PTL DEF Spec

\* A relayed message is inserted at most once at its destination, whatever is
\* lost, late, repeated or restarted.
THEOREM OneCopy == Spec => []InsertedAtMostOnce
  <1>1. IInv => InsertedAtMostOnce
    BY DEF IInv, CopiesMatchReceipt, InsertedAtMostOnce
  <1>2. QED
    BY <1>1, Safety, PTL

\* The sender's notices say what the outbox says, and the destination's receipt.
THEOREM TruthfulNotices == Spec => []NoticeMatchesOutcome
  <1>1. IInv => NoticeMatchesOutcome
    BY DEF IInv
  <1>2. QED
    BY <1>1, Safety, PTL

-----------------------------------------------------------------------------
(* What is queued, and the contract *)

\* A message is queued for another machine only for a current session and, sent
\* to a bare name, only while no local peer has the name at that moment.
THEOREM QueuesOnlyRemote == Spec => QueuedOnlyWhenRemote
  <1>1. ASSUME IInv, [Next]_vars, NEW w \in Sends, outbox[w] = "none", outbox'[w] # "none"
        PROVE  authed /\ (w \in Explicit \/ ~local[w])
    <2> USE <1>1 DEF IInv, TypeOK
    <2>1. ASSUME NEW u \in Sends, Send(u) \/ DirectoryAnswers(u)
          PROVE  authed /\ (w \in Explicit \/ ~local[w])
      BY <2>1 DEF Send, DirectoryAnswers, SendLocal, Enqueue, Answer
    <2>2. ASSUME NEW u \in Sends, Complete(u) PROVE FALSE
      <3>1. Settle(u)
        BY <2>2 DEF Complete, BackOff
      <3>2. QED
        BY <3>1 DEF Settle
    <2>3. outbox' # outbox
      OBVIOUS
    <2>4. QED
      BY <2>1, <2>2, <2>3
      DEF Next, vars, originVars, LocalPeerChanges, Lose, Retry, BackOff, BackOffEnds, Handle, HandleLate,
          LoseAnswer, DestinationRestarts, SessionEnds, Tick, OriginRestarts
  <1>2. IInv /\ [Next]_vars =>
          [\A u \in Sends : outbox[u] = "none" /\ outbox'[u] # "none"
             => authed /\ (u \in Explicit \/ ~local[u])]_vars
    BY <1>1
  <1>3. QED
    BY <1>2, Safety, PTL DEF Spec, QueuedOnlyWhenRemote

\* The contract's variables.
Accepted == {u \in Sends : outbox[u] # "none"}
Outcome == [u \in Sends |-> IF outbox[u] \in {"delivered", "bounced"} THEN outbox[u] ELSE "open"]

\* A step that inserts nothing and settles nothing accepts at most one message.
LEMMA QueueStep ==
  ASSUME TypeOK, UnansweredHasNoRow, NEW u \in Sends, Send(u) \/ DirectoryAnswers(u)
  PROVE  RC!Accept(u) \/ UNCHANGED RC!contractVars
  <1>1. mail' = mail /\ outbox[u] = "none"
    BY DEF Send, DirectoryAnswers, destVars, UnansweredHasNoRow
  <1>2. CASE outbox' = outbox
    BY <1>1, <1>2 DEF RC!contractVars
  <1>3. CASE outbox' = [outbox EXCEPT ![u] = "pending"]
    <2>1. Accepted' = Accepted \cup {u}
      BY <1>3 DEF Accepted, TypeOK
    <2>2. Outcome' = Outcome
      BY <1>1, <1>3 DEF Outcome, TypeOK
    <2>3. QED
      BY <1>1, <2>1, <2>2 DEF RC!Accept, Accepted, Outcome
  <1>4. QED
    BY <1>2, <1>3 DEF Send, DirectoryAnswers, SendLocal, Enqueue, Answer

\* The first request of a message that its destination accepts inserts it, and
\* then the message is still open.
LEMMA InsertStep ==
  ASSUME TypeOK, NEW u \in Sends, RowInv(u), NEW v \in Verdicts, Receive(u, v), ~Refuses(u),
         relay[u] = "asked" \/ late[u], outbox' = outbox
  PROVE  RC!Insert(u) \/ UNCHANGED RC!contractVars
  <1>1. CASE mail' = mail
    BY <1>1 DEF RC!contractVars
  <1>2. CASE mail' # mail
    <2>1. receipt[u] = "none" /\ v \in Inserting /\ mail' = [mail EXCEPT ![u] = mail[u] + 1]
      BY <1>2 DEF Receive, Deliver, TypeOK
    <2>2. mail[u] = 0
      BY <2>1 DEF RowInv, Inserting
    <2>3. outbox[u] = "pending"
      BY <2>1 DEF RowInv, Doomed, Refuses, Inserting, Verdicts, TypeOK
    <2>4. u \in Accepted /\ Outcome[u] = "open"
      BY <2>3 DEF Accepted, Outcome
    <2>5. QED
      BY <2>1, <2>2, <2>4 DEF RC!Insert, Accepted, Outcome
  <1>3. QED
    BY <1>1, <1>2

\* An answer settles the message as what the destination recorded.
LEMMA SettleStep ==
  ASSUME TypeOK, NEW u \in Sends, RowInv(u), Complete(u)
  PROVE  (\E o \in {"delivered", "bounced"} : RC!Settle(u, o)) \/ UNCHANGED RC!contractVars
  <1>1. mail' = mail
    BY DEF Complete, destVars
  <1>2. CASE BackOff(u)
    BY <1>1, <1>2 DEF BackOff, RC!contractVars
  <1>3. CASE Settle(u)
    <2> DEFINE fate == IF relay[u] \in Inserting THEN "delivered" ELSE "bounced"
    <2>1. outbox[u] = "pending" /\ outbox' = [outbox EXCEPT ![u] = fate]
      BY <1>3 DEF Settle
    <2>2. mail[u] = IF fate = "delivered" THEN 1 ELSE 0
      BY DEF Complete, RowInv, Doomed, Inserting, Verdicts
    <2>0. fate \in {"delivered", "bounced"}
      OBVIOUS
    <2> HIDE DEF fate
    <2>3. Accepted' = Accepted
      BY <2>0, <2>1 DEF Accepted, TypeOK
    <2>4. Outcome' = [Outcome EXCEPT ![u] = fate]
      BY <2>0, <2>1 DEF Outcome, TypeOK
    <2>5. u \in Accepted /\ Outcome[u] = "open"
      BY <2>1 DEF Accepted, Outcome
    <2>6. RC!Settle(u, fate)
      BY <1>1, <2>2, <2>3, <2>4, <2>5 DEF RC!Settle, Accepted, Outcome
    <2>7. QED
      BY <2>0, <2>6 DEF RC!Settle
  <1>4. QED
    BY <1>2, <1>3 DEF Complete

\* Federation keeps the contract: delivered means inserted once, bounced means
\* not inserted then or later, and a settled message stays settled.
THEOREM Refinement == Spec => KeepsContract
  <1>1. Init => RC!Init
    BY DEF Init, RC!Init
  <1>2. IInv /\ [Next]_vars => [RC!Next]_RC!contractVars
    <2> SUFFICES ASSUME TypeOK, UnansweredHasNoRow, \A u \in Sends : RowInv(u), [Next]_vars
                 PROVE  [RC!Next]_RC!contractVars
      BY IInvByRows
    <2>1. ASSUME NEW u \in Sends, Send(u) \/ DirectoryAnswers(u) PROVE [RC!Next]_RC!contractVars
      BY <2>1, QueueStep DEF RC!Next
    <2>2. ASSUME NEW u \in Sends, Handle(u) \/ HandleLate(u) PROVE [RC!Next]_RC!contractVars
      <3>1. outbox' = outbox /\ (relay[u] = "asked" \/ late[u])
        BY <2>2 DEF Handle, HandleLate, originVars
      <3>2. UNCHANGED mail \/ (~Refuses(u) /\ \E v \in Verdicts : Receive(u, v))
        <4>1. CASE Handle(u)
          BY <4>1 DEF Handle
        <4>2. CASE HandleLate(u)
          BY <4>2 DEF HandleLate
        <4>3. QED
          BY <2>2, <4>1, <4>2
      <3>3. CASE UNCHANGED mail
        BY <3>1, <3>3 DEF RC!contractVars
      <3>4. CASE ~Refuses(u) /\ \E v \in Verdicts : Receive(u, v)
        BY <3>1, <3>4, InsertStep DEF RC!Next
      <3>5. QED
        BY <3>2, <3>3, <3>4
    <2>3. ASSUME NEW u \in Sends, Complete(u) PROVE [RC!Next]_RC!contractVars
      BY <2>3, SettleStep DEF RC!Next
    <2>4. CASE UNCHANGED <<outbox, mail>>
      BY <2>4 DEF RC!contractVars
    <2>5. QED
      BY <2>1, <2>2, <2>3, <2>4
      DEF Next, vars, originVars, destVars, LocalPeerChanges, Lose, Retry, BackOff, BackOffEnds,
          LoseAnswer, DestinationRestarts, SessionEnds, Tick, OriginRestarts
  <1>3. QED
    BY <1>1, <1>2, Safety, PTL DEF Spec, KeepsContract, RC!Spec

-----------------------------------------------------------------------------
(***************************************************************************)
(* The relay of a Droid session                                            *)
(***************************************************************************)

LEMMA DroidRuns == BothSpec => Droid!Init /\ [][Droid!Next]_(Droid!vars)
  <1>1. BothInit => Droid!Init
    BY DEF BothInit
  <1>2. [BothNext]_<<vars, droidVars>> => [Droid!Next]_(Droid!vars)
    BY DEF BothNext, droidVars, Droid!vars, Droid!engineVars, Droid!mailVars, Droid!pollVars
  <1>3. QED
    BY <1>1, <1>2, PTL DEF BothSpec

(* Sequences, by what occurs in them *)

Occurs(s, x) == \E i \in 1 .. Len(s) : s[i] = x
Once(s, x) == \A i, j \in 1 .. Len(s) : s[i] = x /\ s[j] = x => i = j

LEMMA OccursInAppend ==
  ASSUME NEW S, NEW s \in Seq(S), NEW e \in S, NEW x
  PROVE  /\ Append(s, e) \in Seq(S)
         /\ Occurs(Append(s, e), x) <=> Occurs(s, x) \/ x = e
         /\ Once(s, x) /\ (x = e => ~Occurs(s, x)) => Once(Append(s, e), x)
  <1> DEFINE t == Append(s, e)
  <1>1. /\ t \in Seq(S) /\ Len(t) = Len(s) + 1 /\ Len(s) \in Nat /\ t[Len(s) + 1] = e
        /\ \A i \in 1 .. Len(s) : t[i] = s[i]
    BY AppendProperties, LenProperties
  <1> HIDE DEF t
  <1>2. \A i \in 1 .. Len(t) : i \in 1 .. Len(s) \/ i = Len(s) + 1
    BY <1>1
  <1>3. 1 .. Len(s) \subseteq 1 .. Len(t) /\ Len(s) + 1 \in 1 .. Len(t)
    BY <1>1
  <1>4. Occurs(t, x) <=> Occurs(s, x) \/ x = e
    BY <1>1, <1>2, <1>3 DEF Occurs
  <1>5. Once(s, x) /\ (x = e => ~Occurs(s, x)) => Once(t, x)
    BY <1>1, <1>2 DEF Once, Occurs
  <1>6. QED
    BY <1>1, <1>4, <1>5 DEF t

LEMMA OccursInTail ==
  ASSUME NEW S, NEW s \in Seq(S), s # <<>>, NEW x
  PROVE  /\ Head(s) \in S /\ Tail(s) \in Seq(S) /\ Occurs(s, Head(s))
         /\ Occurs(s, x) <=> Occurs(Tail(s), x) \/ x = Head(s)
         /\ Once(s, x) => Once(Tail(s), x) /\ (x = Head(s) => ~Occurs(Tail(s), x))
  <1> DEFINE t == Tail(s)
  <1>1. /\ t \in Seq(S) /\ Len(t) = Len(s) - 1 /\ Len(s) \in Nat \ {0} /\ Head(s) \in S
        /\ \A i \in 1 .. Len(t) : t[i] = s[i + 1]
    BY HeadTailProperties, EmptySeq, LenProperties
  <1>2. Head(s) = s[1]
    OBVIOUS
  <1> HIDE DEF t
  <1>3. \A i \in 1 .. Len(s) : i = 1 \/ i - 1 \in 1 .. Len(t)
    BY <1>1
  <1>4. \A i \in 1 .. Len(t) : i + 1 \in 1 .. Len(s) /\ i + 1 # 1
    BY <1>1
  <1>5. 1 \in 1 .. Len(s)
    BY <1>1
  <1>6. \A i \in 1 .. Len(s) : i # 1 => t[i - 1] = s[i]
    BY <1>1, <1>3
  <1>7. Occurs(t, x) => Occurs(s, x)
    BY <1>1, <1>4 DEF Occurs
  <1>8. Occurs(s, x) => Occurs(t, x) \/ x = s[1]
    BY <1>3, <1>6 DEF Occurs
  <1>9. ASSUME Once(s, x) PROVE Once(t, x) /\ (x = s[1] => ~Occurs(t, x))
    <2>1. ASSUME NEW i \in 1 .. Len(t), NEW j \in 1 .. Len(t), t[i] = x, t[j] = x PROVE i = j
      <3>1. i + 1 = j + 1
        BY <1>1, <1>4, <1>9, <2>1 DEF Once
      <3>2. QED
        BY <1>1, <3>1
    <2>2. ASSUME x = s[1], NEW i \in 1 .. Len(t), t[i] = x PROVE FALSE
      BY <1>1, <1>4, <1>5, <1>9, <2>2 DEF Once
    <2>3. QED
      BY <2>1, <2>2 DEF Once, Occurs
  <1>10. QED
    BY <1>1, <1>2, <1>5, <1>7, <1>8, <1>9 DEF t, Occurs

LEMMA OccursInConcat ==
  ASSUME NEW S, NEW s \in Seq(S), NEW u \in Seq(S), NEW x
  PROVE  /\ s \o u \in Seq(S)
         /\ Occurs(s \o u, x) <=> Occurs(s, x) \/ Occurs(u, x)
         /\ Once(s, x) /\ ~Occurs(u, x) => Once(s \o u, x)
  <1> DEFINE t == s \o u
  <1>1. /\ t \in Seq(S) /\ Len(t) = Len(s) + Len(u) /\ Len(s) \in Nat /\ Len(u) \in Nat
        /\ \A i \in 1 .. Len(s) + Len(u) : t[i] = IF i <= Len(s) THEN s[i] ELSE u[i - Len(s)]
    BY ConcatProperties, LenProperties
  <1> HIDE DEF t
  <1>2. \A i \in 1 .. Len(s) : i \in 1 .. Len(t) /\ t[i] = s[i]
    BY <1>1
  <1>3. ASSUME NEW i \in 1 .. Len(u) PROVE i + Len(s) \in 1 .. Len(t) /\ t[i + Len(s)] = u[i]
    <2>1. i + Len(s) \in 1 .. Len(s) + Len(u) /\ ~(i + Len(s) <= Len(s)) /\ (i + Len(s)) - Len(s) = i
      BY <1>1
    <2>2. QED
      BY <1>1, <2>1
  <1>4. ASSUME NEW i \in 1 .. Len(t)
        PROVE  (i \in 1 .. Len(s) /\ t[i] = s[i]) \/ (i - Len(s) \in 1 .. Len(u) /\ t[i] = u[i - Len(s)])
    <2>1. i \in 1 .. Len(s) + Len(u) /\ i \in Nat
      BY <1>1
    <2>2. CASE i <= Len(s)
      BY <1>1, <2>1, <2>2
    <2>3. CASE ~(i <= Len(s))
      BY <1>1, <2>1, <2>3
    <2>4. QED
      BY <2>2, <2>3
  <1>5. Occurs(t, x) <=> Occurs(s, x) \/ Occurs(u, x)
    BY <1>2, <1>3, <1>4 DEF Occurs
  <1>6. Once(s, x) /\ ~Occurs(u, x) => Once(t, x)
    BY <1>4 DEF Once, Occurs
  <1>7. QED
    BY <1>1, <1>5, <1>6 DEF t

LEMMA OccursInRest ==
  ASSUME NEW S, NEW s \in Seq(S), NEW k \in 1 .. Len(s), NEW x
  PROVE  LET r == SubSeq(s, 1, k - 1) \o SubSeq(s, k + 1, Len(s)) IN
         /\ r \in Seq(S)
         /\ Occurs(r, x) => Occurs(s, x)
         /\ Once(s, x) => Once(r, x) /\ (x = s[k] => ~Occurs(r, x))
  <1> DEFINE a == SubSeq(s, 1, k - 1)
             b == SubSeq(s, k + 1, Len(s))
             r == a \o b
             at(i) == IF i < k THEN i ELSE i + 1
  <1>0. Len(s) \in Nat /\ k \in Nat /\ k >= 1 /\ k <= Len(s) /\ \A i \in 1 .. Len(s) : s[i] \in S
    BY LenProperties, ElementOfSeq
  <1>1. a \in Seq(S) /\ Len(a) = k - 1 /\ \A i \in 1 .. k - 1 : a[i] = s[i]
    <2>1. \A i \in 1 .. k - 1 : s[i] \in S
      BY <1>0
    <2>2. /\ a \in Seq(S) /\ Len(a) = IF 1 <= k - 1 THEN (k - 1) - 1 + 1 ELSE 0
          /\ \A i \in 1 .. (k - 1) - 1 + 1 : a[i] = s[1 + i - 1]
      BY <1>0, <2>1, SubSeqProperties
    <2> HIDE DEF a
    <2>3. QED
      BY <1>0, <2>2
  <1>2. b \in Seq(S) /\ Len(b) = Len(s) - k /\ \A i \in 1 .. Len(s) - k : b[i] = s[i + k]
    <2>1. \A i \in k + 1 .. Len(s) : s[i] \in S
      BY <1>0
    <2>2. /\ b \in Seq(S) /\ Len(b) = IF k + 1 <= Len(s) THEN Len(s) - (k + 1) + 1 ELSE 0
          /\ \A i \in 1 .. Len(s) - (k + 1) + 1 : b[i] = s[(k + 1) + i - 1]
      BY <1>0, <2>1, SubSeqProperties
    <2> HIDE DEF b
    <2>3. QED
      BY <1>0, <2>2
  <1> HIDE DEF a, b
  <1>3. /\ r \in Seq(S) /\ Len(r) = Len(a) + Len(b)
        /\ \A i \in 1 .. Len(a) + Len(b) : r[i] = IF i <= Len(a) THEN a[i] ELSE b[i - Len(a)]
    BY <1>1, <1>2, ConcatProperties
  <1> HIDE DEF r
  <1>4. ASSUME NEW i \in 1 .. Len(r) PROVE at(i) \in 1 .. Len(s) /\ at(i) # k /\ r[i] = s[at(i)]
    <2>1. i \in 1 .. Len(a) + Len(b) /\ i \in Nat /\ Len(a) = k - 1 /\ Len(b) = Len(s) - k
      BY <1>1, <1>2, <1>3
    <2>2. CASE i <= Len(a)
      <3>1. i \in 1 .. k - 1 /\ r[i] = a[i] /\ i < k
        BY <1>0, <1>3, <2>1, <2>2
      <3>2. QED
        BY <1>0, <1>1, <3>1
    <2>3. CASE ~(i <= Len(a))
      <3>1. i - Len(a) \in 1 .. Len(s) - k /\ r[i] = b[i - Len(a)] /\ ~(i < k)
        BY <1>0, <1>3, <2>1, <2>3
      <3>2. b[i - Len(a)] = s[i + 1]
        <4>1. (i - Len(a)) + k = i + 1
          BY <1>0, <2>1
        <4>2. QED
          BY <1>2, <3>1, <4>1
      <3>3. QED
        BY <1>0, <2>1, <3>1, <3>2
    <2>4. QED
      BY <2>2, <2>3
  <1>5. \A i, j \in 1 .. Len(r) : at(i) = at(j) => i = j
    BY <1>0, <1>1, <1>2, <1>3
  <1> HIDE DEF at
  <1>6. Occurs(r, x) => Occurs(s, x)
    BY <1>4 DEF Occurs
  <1>7. Once(s, x) => Once(r, x) /\ (x = s[k] => ~Occurs(r, x))
    BY <1>4, <1>5 DEF Once, Occurs
  <1>8. QED
    BY <1>3, <1>6, <1>7 DEF r, a, b

-----------------------------------------------------------------------------
(* A person's cancellation sticks *)

NativeRecord ==
  [phase : {"start", "loading", "binding", "bound", "closing", "stopped"}, humanTurns : SUBSET Humans,
   startedTurns : SUBSET Droid!Requests, working : BOOLEAN, wake : BOOLEAN]

\* A set of unread mail that is not unread now will never be again.
NeverAgain(S) == S # unread /\ S \notin poll

MailIsNumbered ==
  /\ sent \in Nat /\ unread \subseteq 1 .. sent
  /\ controller.tracked \subseteq 1 .. sent /\ \A P \in poll : P \subseteq 1 .. sent
PollIsNewer == controller.tracked # {} /\ (\E P \in poll : P # controller.tracked) => unread # controller.tracked

\* A cancelled set is suppressed, or gone for good; and so would be the one of the
\* wake under way if it were cancelled now.
CancelledStay ==
  \A S \in cancelled :
    /\ S # {} /\ S \subseteq 1 .. sent
    /\ (controller.tracked = S /\ controller.attempts = Droid!Max1) \/ NeverAgain(S)
WakeIsTracked ==
  droid.wake => /\ wokenFor # {} /\ wokenFor \subseteq 1 .. sent
                /\ controller.tracked = wokenFor \/ NeverAgain(wokenFor)

ControllerRecord == [tracked : SUBSET Nat, attempts : 0 .. Droid!Max1, due : BOOLEAN]
CancelInv ==
  /\ droid \in NativeRecord /\ controller \in ControllerRecord
  /\ MailIsNumbered /\ PollIsNewer /\ CancelledStay /\ WakeIsTracked

LEMMA NoticedRelay ==
  ASSUME droid \in NativeRecord, NEW f
  PROVE  Droid!Noticed(droid, f) \in NativeRecord /\ (Droid!Noticed(droid, f).wake => droid.wake)
  <1>1. Droid!close(droid) \in NativeRecord /\ ~Droid!close(droid).wake
    BY DEF NativeRecord, Droid!close
  <1>2. ASSUME NEW gone
        PROVE  Droid!discardTurn(droid, gone) \in NativeRecord /\ (Droid!discardTurn(droid, gone).wake => droid.wake)
    <2>1. PICK w \in BOOLEAN : w = (droid.wake /\ 0 \notin gone)
      OBVIOUS
    <2>2. PICK H \in SUBSET Humans, T \in SUBSET Droid!Requests : H = droid.humanTurns \ gone /\ T = droid.startedTurns \ gone
      <3>1. droid.humanTurns \ gone \in SUBSET Humans /\ droid.startedTurns \ gone \in SUBSET Droid!Requests
        BY DEF NativeRecord
      <3>2. QED
        BY <3>1
    <2>3. Droid!discardTurn(droid, gone) = [droid EXCEPT !.humanTurns = H, !.startedTurns = T, !.wake = w]
      BY <2>1, <2>2 DEF Droid!discardTurn, Droid!Wake, NativeRecord
    <2>4. [droid EXCEPT !.humanTurns = H, !.startedTurns = T, !.wake = w] \in NativeRecord
      BY DEF NativeRecord
    <2>5. [droid EXCEPT !.humanTurns = H, !.startedTurns = T, !.wake = w].wake = w
      BY DEF NativeRecord
    <2>6. QED
      BY <2>1, <2>3, <2>4, <2>5
  <1>3. [droid EXCEPT !.humanTurns = @ \ {f.req}] \in NativeRecord /\ ([droid EXCEPT !.humanTurns = @ \ {f.req}].wake => droid.wake)
    BY DEF NativeRecord
  <1>4. [droid EXCEPT !.working = FALSE] \in NativeRecord /\ ([droid EXCEPT !.working = FALSE].wake => droid.wake)
    BY DEF NativeRecord
  <1>5. LET n == [droid EXCEPT !.working = TRUE,
                     !.startedTurns = @ \cup ({f.req} \cap (droid.humanTurns \cup IF droid.wake THEN {Droid!Wake} ELSE {}))]
        IN n \in NativeRecord /\ (n.wake => droid.wake)
    <2>1. PICK T \in SUBSET Droid!Requests : T = droid.startedTurns \cup ({f.req} \cap (droid.humanTurns \cup IF droid.wake THEN {Droid!Wake} ELSE {}))
      BY DEF NativeRecord, Droid!Requests
    <2>2. [droid EXCEPT !.working = TRUE, !.startedTurns = T] \in NativeRecord /\ ([droid EXCEPT !.working = TRUE, !.startedTurns = T].wake => droid.wake)
      BY DEF NativeRecord
    <2>3. QED
      BY <2>1, <2>2 DEF NativeRecord
  <1>6. \/ Droid!Noticed(droid, f) = Droid!close(droid)
        \/ Droid!Noticed(droid, f) = [droid EXCEPT !.humanTurns = @ \ {f.req}]
        \/ Droid!Noticed(droid, f) = [droid EXCEPT !.working = FALSE]
        \/ Droid!Noticed(droid, f) = [droid EXCEPT !.working = TRUE,
                     !.startedTurns = @ \cup ({f.req} \cap (droid.humanTurns \cup IF droid.wake THEN {Droid!Wake} ELSE {}))]
        \/ \E gone : Droid!Noticed(droid, f) = Droid!discardTurn(droid, gone)
    <2>1. CASE f.type = "closed" \/ (f.type = "error" /\ f.req = Droid!Wake /\ droid.wake)
      BY <2>1 DEF Droid!Noticed
    <2>2. CASE f.type = "error" /\ ~(f.req = Droid!Wake /\ droid.wake)
      BY <2>2 DEF Droid!Noticed
    <2>3. CASE f.type = "created"
      BY <2>3 DEF Droid!Noticed
    <2>4. CASE f.type = "idle"
      BY <2>4 DEF Droid!Noticed
    <2>5. CASE f.type \in {"completed", "cancelled"}
      BY <2>5 DEF Droid!Noticed
    <2>6. CASE f.type \notin {"closed", "error", "created", "idle", "completed", "cancelled"}
      BY <2>6 DEF Droid!Noticed
    <2>7. QED
      BY <2>1, <2>2, <2>3, <2>4, <2>5, <2>6
  <1>7. QED
    BY <1>1, <1>2, <1>3, <1>4, <1>5, <1>6

LEMMA RetryNumbers ==
  Droid!Max1 \in Nat /\ Droid!Max1 = Schedule + 1 /\ Schedule \in Nat /\ 0 \notin Humans /\ 0 \in 0 .. Droid!Max1
  BY DroidAssumption DEF Droid!Max1

\* What a step of the relay may do to the mail, the tracked set and the wake.
LEMMA SameMail ==
  ASSUME CancelInv, droid' \in NativeRecord, droid'.wake => droid.wake /\ wokenFor' = wokenFor,
         unread' = unread, sent' = sent, poll' = poll,
         \/ controller' = controller /\ cancelled' = cancelled
         \/ Droid!onCancel(droid.wake)
  PROVE  CancelInv'
  <1> USE DEF CancelInv, MailIsNumbered, PollIsNewer, CancelledStay, WakeIsTracked, NeverAgain
  <1>1. CASE controller' = controller /\ cancelled' = cancelled
    BY <1>1
  <1>2. CASE droid.wake /\ Droid!onCancel(TRUE)
    <2>1. /\ controller' = [controller EXCEPT !.attempts = Droid!Max1] /\ cancelled' = cancelled \cup {wokenFor}
      BY <1>2 DEF Droid!onCancel, Droid!suppressCurrentUnread
    <2>2. Droid!Max1 \in 0 .. Droid!Max1
      BY RetryNumbers
    <2>3. controller' \in ControllerRecord /\ controller'.tracked = controller.tracked /\ controller'.attempts = Droid!Max1
      BY <2>1, <2>2 DEF ControllerRecord
    <2>4. QED
      BY <1>2, <2>1, <2>3
  <1>3. QED
    BY <1>1, <1>2 DEF Droid!onCancel

\* What a poll makes of the set that it has read.
LEMMA PollCancelled ==
  ASSUME CancelInv, Droid!pollOnce
  PROVE  CancelInv' /\ (~droid.wake /\ droid'.wake => wokenFor' \notin cancelled)
  <1> DEFINE M == Droid!Max1
  <1>0. /\ M = Schedule + 1 /\ Schedule \in Nat /\ 0 \in 0 .. M
        /\ droid \in NativeRecord /\ controller \in ControllerRecord /\ MailIsNumbered
        /\ unread' = unread /\ sent' = sent /\ poll' = {} /\ cancelled' = cancelled
    BY RetryNumbers DEF CancelInv, Droid!pollOnce, Droid!mailVars
  <1>1. PICK snapshot \in poll :
          LET c == Droid!Tracks(snapshot) IN
          \/ controller' = c /\ UNCHANGED <<droid, wokenFor>>
          \/ /\ snapshot # {} /\ ~droid.wake /\ Droid!MayRetry(c)
             /\ controller' = [c EXCEPT !.attempts = @ + 1, !.due = FALSE]
             /\ droid' = [droid EXCEPT !.wake = TRUE] /\ wokenFor' = snapshot
    BY DEF Droid!pollOnce, Droid!isBusy
  <1>2. PICK c \in ControllerRecord :
          /\ c = Droid!Tracks(snapshot) /\ c.tracked = snapshot
          /\ snapshot # {} /\ snapshot = controller.tracked => c = controller
    <2>1. snapshot \in SUBSET Nat
      BY <1>0 DEF MailIsNumbered
    <2>2. [tracked |-> {}, attempts |-> 0, due |-> TRUE] \in ControllerRecord
      BY <1>0 DEF ControllerRecord
    <2>3. [tracked |-> snapshot, attempts |-> 0, due |-> TRUE] \in ControllerRecord
      BY <1>0, <2>1 DEF ControllerRecord
    <2>4. QED
      BY <1>0, <2>2, <2>3 DEF Droid!Tracks, Droid!Untracked
  <1>3. Droid!MayRetry(c) => c.attempts \in 0 .. Schedule
    BY <1>0 DEF Droid!MayRetry, ControllerRecord
  <1>4. ASSUME snapshot \in cancelled
        PROVE  ~Droid!MayRetry(c)
    <2>1. snapshot # {} /\ controller.tracked = snapshot /\ controller.attempts = M
      BY <1>4 DEF CancelInv, CancelledStay, NeverAgain
    <2>2. QED
      BY <1>0, <1>2, <1>3, <2>1
  <1>5. controller' \in ControllerRecord /\ controller'.tracked = snapshot /\ droid' \in NativeRecord
    <2>1. CASE controller' = c /\ UNCHANGED <<droid, wokenFor>>
      BY <1>0, <1>2, <2>1
    <2>2. ASSUME Droid!MayRetry(c), controller' = [c EXCEPT !.attempts = @ + 1, !.due = FALSE],
                 droid' = [droid EXCEPT !.wake = TRUE]
          PROVE  controller' \in ControllerRecord /\ controller'.tracked = snapshot /\ droid' \in NativeRecord
      <3>1. c.attempts + 1 \in 0 .. M
        BY <1>0, <1>3, <2>2
      <3>2. controller' \in ControllerRecord /\ controller'.tracked = snapshot
        BY <1>2, <2>2, <3>1 DEF ControllerRecord
      <3>3. QED
        BY <1>0, <2>2, <3>2 DEF NativeRecord
    <2>3. QED
      BY <1>1, <1>2, <2>1, <2>2
  <1>6. MailIsNumbered' /\ PollIsNewer'
    BY <1>0, <1>5 DEF MailIsNumbered, PollIsNewer
  <1>7. \A S : controller.tracked = S /\ S # {} /\ S # snapshot => NeverAgain(S)'
    BY <1>0 DEF CancelInv, PollIsNewer, NeverAgain
  <1>8. \A S : NeverAgain(S) => NeverAgain(S)'
    BY <1>0 DEF NeverAgain
  <1>9. CancelledStay'
    <2> SUFFICES ASSUME NEW S \in cancelled
                 PROVE  /\ S # {} /\ S \subseteq 1 .. sent
                        /\ (controller'.tracked = S /\ controller'.attempts = M) \/ NeverAgain(S)'
      BY <1>0 DEF CancelledStay
    <2>1. S # {} /\ S \subseteq 1 .. sent /\ ((controller.tracked = S /\ controller.attempts = M) \/ NeverAgain(S))
      BY DEF CancelInv, CancelledStay
    <2>2. CASE S = snapshot /\ controller.tracked = S /\ controller.attempts = M
      <3>1. c = controller /\ controller' = c
        BY <1>1, <1>2, <1>4, <2>1, <2>2
      <3>2. QED
        BY <2>1, <2>2, <3>1
    <2>3. QED
      BY <1>7, <1>8, <2>1, <2>2
  <1>10. WakeIsTracked'
    <2>1. CASE UNCHANGED <<droid, wokenFor>>
      <3> SUFFICES ASSUME droid.wake
                   PROVE  /\ wokenFor # {} /\ wokenFor \subseteq 1 .. sent
                          /\ controller'.tracked = wokenFor \/ NeverAgain(wokenFor)'
        BY <1>0, <2>1 DEF WakeIsTracked, NeverAgain
      <3>1. wokenFor # {} /\ wokenFor \subseteq 1 .. sent /\ (controller.tracked = wokenFor \/ NeverAgain(wokenFor))
        BY DEF CancelInv, WakeIsTracked
      <3>2. QED
        BY <1>5, <1>7, <1>8, <2>1, <3>1
    <2>2. CASE snapshot # {} /\ wokenFor' = snapshot
      <3>1. snapshot \subseteq 1 .. sent
        BY <1>0 DEF MailIsNumbered
      <3>2. QED
        BY <1>0, <1>5, <2>2, <3>1 DEF WakeIsTracked
    <2>3. QED
      BY <1>1, <2>1, <2>2
  <1>11. ~droid.wake /\ droid'.wake => wokenFor' \notin cancelled
    BY <1>1, <1>2, <1>4
  <1>12. QED
    BY <1>5, <1>6, <1>9, <1>10, <1>11 DEF CancelInv

\* No step wakes a set whose wake was cancelled, and the sets stay cancelled.
LEMMA CancelStep ==
  ASSUME CancelInv, Droid!Next
  PROVE  CancelInv' /\ (~droid.wake /\ droid'.wake => wokenFor' \notin cancelled)
  <1>0. droid \in NativeRecord /\ controller \in ControllerRecord /\ MailIsNumbered /\ PollIsNewer /\ CancelledStay /\ WakeIsTracked
    BY DEF CancelInv
  <1>1. ASSUME Droid!LoadSession PROVE CancelInv' /\ (~droid.wake /\ droid'.wake => wokenFor' \notin cancelled)
    <2>1. droid' \in NativeRecord /\ (droid'.wake => droid.wake)
      BY <1>1, <1>0 DEF Droid!LoadSession, NativeRecord
    <2>2. QED
      BY <1>1, <2>1, SameMail DEF Droid!LoadSession, Droid!engineVars, Droid!mailVars, Droid!pollVars, Droid!Control, Droid!onCancel
  <1>2. ASSUME Droid!sessionReady PROVE CancelInv' /\ (~droid.wake /\ droid'.wake => wokenFor' \notin cancelled)
    <2>1. droid' \in NativeRecord /\ (droid'.wake => droid.wake)
      BY <1>2, <1>0 DEF Droid!sessionReady, NativeRecord
    <2>2. QED
      BY <1>2, <2>1, SameMail DEF Droid!sessionReady, Droid!engineVars, Droid!mailVars, Droid!pollVars, Droid!Control, Droid!onCancel
  <1>3. ASSUME Droid!StartFails PROVE CancelInv' /\ (~droid.wake /\ droid'.wake => wokenFor' \notin cancelled)
    <2>1. droid' \in NativeRecord /\ (droid'.wake => droid.wake)
      BY <1>3, <1>0 DEF Droid!StartFails, NativeRecord, Droid!close
    <2>2. QED
      BY <1>3, <2>1, SameMail DEF Droid!StartFails, Droid!engineVars, Droid!mailVars, Droid!pollVars, Droid!Control, Droid!onCancel
  <1>4. ASSUME Droid!fromDaemon PROVE CancelInv' /\ (~droid.wake /\ droid'.wake => wokenFor' \notin cancelled)
    <2>1. PICK f : droid' = Droid!Noticed(droid, f)
      BY <1>4 DEF Droid!fromDaemon
    <2>2. droid' \in NativeRecord /\ (droid'.wake => droid.wake /\ wokenFor' = wokenFor)
      BY <1>4, <1>0, <2>1, NoticedRelay DEF Droid!fromDaemon
    <2>3. (controller' = controller /\ cancelled' = cancelled) \/ Droid!onCancel(droid.wake)
      BY <1>4 DEF Droid!fromDaemon, Droid!onCancel
    <2>4. QED
      BY <1>4, <2>2, <2>3, SameMail DEF Droid!fromDaemon, Droid!mailVars
  <1>5. ASSUME NEW r \in Humans, Droid!add_user_message(r) PROVE CancelInv' /\ (~droid.wake /\ droid'.wake => wokenFor' \notin cancelled)
    <2>1. droid' \in NativeRecord /\ (droid'.wake => droid.wake)
      BY <1>5, <1>0 DEF Droid!add_user_message, NativeRecord
    <2>2. QED
      BY <1>5, <2>1, SameMail DEF Droid!add_user_message, Droid!engineVars, Droid!mailVars, Droid!pollVars, Droid!Control, Droid!onCancel
  <1>6. ASSUME NEW r \in Droid!Requests, Droid!resolve_queued_user_message(r) PROVE CancelInv' /\ (~droid.wake /\ droid'.wake => wokenFor' \notin cancelled)
    <2>1. droid' \in NativeRecord /\ (droid'.wake => droid.wake)
      BY <1>6, <1>0 DEF Droid!resolve_queued_user_message, NativeRecord
    <2>2. QED
      BY <1>6, <2>1, SameMail DEF Droid!resolve_queued_user_message, Droid!engineVars, Droid!mailVars, Droid!pollVars, Droid!Control, Droid!onCancel
  <1>7. ASSUME Droid!interrupt_session PROVE CancelInv' /\ (~droid.wake /\ droid'.wake => wokenFor' \notin cancelled)
    BY <1>7, <1>0, SameMail DEF Droid!interrupt_session, Droid!mailVars, Droid!pollVars
  <1>8. ASSUME Droid!close_session PROVE CancelInv' /\ (~droid.wake /\ droid'.wake => wokenFor' \notin cancelled)
    <2>1. droid' \in NativeRecord /\ (droid'.wake => droid.wake)
      BY <1>8, <1>0 DEF Droid!close_session, NativeRecord
    <2>2. QED
      BY <1>8, <2>1, SameMail DEF Droid!close_session, Droid!engineVars, Droid!mailVars, Droid!pollVars, Droid!Control, Droid!onCancel
  <1>9. ASSUME Droid!PollReads PROVE CancelInv' /\ (~droid.wake /\ droid'.wake => wokenFor' \notin cancelled)
    <2>1. /\ droid' = droid /\ controller' = controller /\ wokenFor' = wokenFor /\ cancelled' = cancelled
          /\ unread' = unread /\ sent' = sent /\ poll' = {unread}
      BY <1>9 DEF Droid!PollReads, Droid!mailVars
    <2>2. \A S : NeverAgain(S) => NeverAgain(S)'
      BY <2>1 DEF NeverAgain
    <2>3. MailIsNumbered' /\ PollIsNewer'
      BY <1>0, <2>1 DEF MailIsNumbered, PollIsNewer
    <2>4. CancelledStay' /\ WakeIsTracked'
      BY <1>0, <2>1, <2>2 DEF CancelledStay, WakeIsTracked
    <2>5. QED
      BY <1>0, <2>1, <2>3, <2>4 DEF CancelInv
  <1>10. ASSUME Droid!pollOnce PROVE CancelInv' /\ (~droid.wake /\ droid'.wake => wokenFor' \notin cancelled)
    BY <1>10, PollCancelled
  <1>11. ASSUME Droid!RetryDelayEnds PROVE CancelInv' /\ (~droid.wake /\ droid'.wake => wokenFor' \notin cancelled)
    <2>1. /\ droid' = droid /\ wokenFor' = wokenFor /\ cancelled' = cancelled
          /\ unread' = unread /\ sent' = sent /\ poll' = poll
      BY <1>11 DEF Droid!RetryDelayEnds, Droid!mailVars, Droid!pollVars
    <2>2. /\ controller' \in ControllerRecord
          /\ controller'.tracked = controller.tracked /\ controller'.attempts = controller.attempts
      BY <1>11, <1>0 DEF Droid!RetryDelayEnds, ControllerRecord
    <2>3. \A S : NeverAgain(S)' <=> NeverAgain(S)
      BY <2>1 DEF NeverAgain
    <2>4. CancelledStay' /\ WakeIsTracked' /\ MailIsNumbered' /\ PollIsNewer'
      BY <1>0, <2>1, <2>2, <2>3 DEF CancelledStay, WakeIsTracked, MailIsNumbered, PollIsNewer
    <2>5. QED
      BY <1>0, <2>1, <2>2, <2>4 DEF CancelInv
  <1>12. ASSUME Droid!EngineTakes PROVE CancelInv' /\ (~droid.wake /\ droid'.wake => wokenFor' \notin cancelled)
    BY <1>12, <1>0, SameMail DEF Droid!EngineTakes, Droid!engineVars, Droid!mailVars, Droid!pollVars
  <1>13. ASSUME Droid!EngineStarts PROVE CancelInv' /\ (~droid.wake /\ droid'.wake => wokenFor' \notin cancelled)
    BY <1>13, <1>0, SameMail DEF Droid!EngineStarts, Droid!engineVars, Droid!mailVars, Droid!pollVars
  <1>14. ASSUME Droid!EngineCoalesces PROVE CancelInv' /\ (~droid.wake /\ droid'.wake => wokenFor' \notin cancelled)
    BY <1>14, <1>0, SameMail DEF Droid!EngineCoalesces, Droid!engineVars, Droid!mailVars, Droid!pollVars
  <1>15. ASSUME Droid!EngineCompletes PROVE CancelInv' /\ (~droid.wake /\ droid'.wake => wokenFor' \notin cancelled)
    BY <1>15, <1>0, SameMail DEF Droid!EngineCompletes, Droid!engineVars, Droid!mailVars, Droid!pollVars
  <1>16. ASSUME Droid!MailArrives PROVE CancelInv' /\ (~droid.wake /\ droid'.wake => wokenFor' \notin cancelled)
    <2>1. /\ droid' = droid /\ controller' = controller /\ wokenFor' = wokenFor /\ cancelled' = cancelled
          /\ unread' = unread \cup {sent + 1} /\ sent' = sent + 1 /\ poll' = poll
      BY <1>16 DEF Droid!MailArrives, Droid!pollVars
    <2>2. sent \in Nat /\ sent + 1 \notin 1 .. sent /\ 1 .. sent \subseteq 1 .. sent' /\ sent + 1 \in 1 .. sent'
      BY <1>0, <2>1 DEF MailIsNumbered
    <2>3. \A S : S \subseteq 1 .. sent => S # unread'
      BY <2>1, <2>2
    <2>4. \A S : S \subseteq 1 .. sent /\ NeverAgain(S) => NeverAgain(S)'
      BY <2>1, <2>3 DEF NeverAgain
    <2>5. MailIsNumbered' /\ PollIsNewer'
      BY <1>0, <2>1, <2>2, <2>3 DEF MailIsNumbered, PollIsNewer
    <2>6. \A S : S \subseteq 1 .. sent => S \subseteq 1 .. sent'
      BY <2>2
    <2>7. CancelledStay' /\ WakeIsTracked'
      BY <1>0, <2>1, <2>4, <2>6 DEF CancelledStay, WakeIsTracked
    <2>8. QED
      BY <1>0, <2>1, <2>5, <2>7 DEF CancelInv
  <1>17. ASSUME Droid!AgentReads PROVE CancelInv' /\ (~droid.wake /\ droid'.wake => wokenFor' \notin cancelled)
    <2>1. /\ droid' = droid /\ controller' = controller /\ wokenFor' = wokenFor /\ cancelled' = cancelled
          /\ unread' = {} /\ sent' = sent /\ poll' = poll
      BY <1>17 DEF Droid!AgentReads, Droid!pollVars
    <2>2. \A S : S # {} /\ NeverAgain(S) => NeverAgain(S)'
      BY <2>1 DEF NeverAgain
    <2>3. MailIsNumbered' /\ PollIsNewer'
      BY <1>0, <2>1 DEF MailIsNumbered, PollIsNewer
    <2>4. CancelledStay' /\ WakeIsTracked'
      BY <1>0, <2>1, <2>2 DEF CancelledStay, WakeIsTracked
    <2>5. QED
      BY <1>0, <2>1, <2>3, <2>4 DEF CancelInv
  <1>18. QED
    BY <1>1, <1>2, <1>3, <1>4, <1>5, <1>6, <1>7, <1>8, <1>9, <1>10, <1>11, <1>12, <1>13, <1>14, <1>15, <1>16, <1>17 DEF Droid!Next

LEMMA CancelledAtFirst ==
  ASSUME Droid!Init
  PROVE  CancelInv
  <1>1. droid \in NativeRecord /\ ~droid.wake
    BY DEF Droid!Init, NativeRecord
  <1>2. controller \in ControllerRecord /\ controller.tracked = {}
    BY RetryNumbers DEF Droid!Init, Droid!Untracked, ControllerRecord
  <1>3. QED
    BY <1>1, <1>2 DEF Droid!Init, CancelInv, MailIsNumbered, PollIsNewer, CancelledStay, WakeIsTracked

\* When a person cancels the wake for a set of unread mail, the relay sends no wake
\* for that set again (interrupt_session, a queued wake's deletion, cancelled turns):
\* it is at the end of its retry schedule for as long as it is the unread set, and
\* once the unread set is another it never is this one again.
THEOREM CancelledWake == BothSpec => CancelSticks
  <1>1. Droid!Init => CancelInv
    BY CancelledAtFirst
  <1>2. CancelInv /\ [Droid!Next]_(Droid!vars)
          => CancelInv' /\ [~droid.wake /\ droid'.wake => wokenFor' \notin cancelled]_(Droid!vars)
    <2>1. ASSUME CancelInv, Droid!Next PROVE CancelInv' /\ (~droid.wake /\ droid'.wake => wokenFor' \notin cancelled)
      BY <2>1, CancelStep
    <2>2. ASSUME CancelInv, UNCHANGED Droid!vars PROVE CancelInv'
      BY <2>2 DEF CancelInv, MailIsNumbered, PollIsNewer, CancelledStay, WakeIsTracked, NeverAgain, NativeRecord,
                  ControllerRecord, Droid!vars, Droid!engineVars, Droid!mailVars, Droid!pollVars
    <2>3. QED
      BY <2>1, <2>2
  <1>3. QED
    BY DroidRuns, <1>1, <1>2, PTL DEF CancelSticks, Droid!CancelSticks

-----------------------------------------------------------------------------
(* The relay counts the person's prompts *)

Ends == {"completed", "cancelled"}
NoEnds(s) == \A f : Occurs(s, f) => f.type \notin Ends
Closes(s, x) == \A i \in 1 .. Len(s) : s[i].type \in Ends => \E j \in i + 1 .. Len(s) : s[j] = x

LEMMA ClosesGrows ==
  ASSUME NEW S, NEW s \in Seq(S), NEW u \in Seq(S), NEW x
  PROVE  /\ Closes(s, x) /\ NoEnds(u) => Closes(s \o u, x)
         /\ x.type \notin Ends /\ u = <<x>> => Closes(s \o u, x)
         /\ NoEnds(s) /\ NoEnds(u) => NoEnds(s \o u)
  <1> DEFINE t == s \o u
  <1>1. /\ t \in Seq(S) /\ Len(t) = Len(s) + Len(u) /\ Len(s) \in Nat /\ Len(u) \in Nat
        /\ \A i \in 1 .. Len(s) + Len(u) : t[i] = IF i <= Len(s) THEN s[i] ELSE u[i - Len(s)]
    BY ConcatProperties, LenProperties
  <1> HIDE DEF t
  <1>2. ASSUME NEW i \in 1 .. Len(t), i \notin 1 .. Len(s)
        PROVE  i - Len(s) \in 1 .. Len(u) /\ t[i] = u[i - Len(s)]
    BY <1>1, <1>2
  <1>3. \A i \in 1 .. Len(s) : i \in 1 .. Len(t) /\ t[i] = s[i]
    BY <1>1
  <1>4. Closes(s, x) /\ NoEnds(u) => Closes(t, x)
    <2> SUFFICES ASSUME Closes(s, x), NoEnds(u), NEW i \in 1 .. Len(t), t[i].type \in Ends
                 PROVE  \E j \in i + 1 .. Len(t) : t[j] = x
      BY DEF Closes
    <2>1. i \in 1 .. Len(s) /\ t[i] = s[i]
      BY <1>2, <1>3 DEF NoEnds, Occurs
    <2>2. PICK j \in i + 1 .. Len(s) : s[j] = x
      BY <2>1 DEF Closes
    <2>3. j \in 1 .. Len(s) /\ j \in i + 1 .. Len(t)
      BY <1>1, <2>1, <2>2
    <2>4. QED
      BY <1>3, <2>2, <2>3
  <1>5. x.type \notin Ends /\ u = <<x>> => Closes(t, x)
    <2> SUFFICES ASSUME x.type \notin Ends, u = <<x>>, NEW i \in 1 .. Len(t), t[i].type \in Ends
                 PROVE  \E j \in i + 1 .. Len(t) : t[j] = x
      BY DEF Closes
    <2>1. Len(u) = 1 /\ u[1] = x
      OBVIOUS
    <2>2. Len(t) = Len(s) + 1 /\ t[Len(s) + 1] = x
      BY <1>1, <2>1
    <2>3. i # Len(s) + 1
      BY <2>2
    <2>4. Len(t) \in i + 1 .. Len(t)
      BY <1>1, <2>2, <2>3
    <2>5. QED
      BY <2>2, <2>4
  <1>6. NoEnds(s) /\ NoEnds(u) => NoEnds(t)
    <2>1. \A f : Occurs(t, f) => Occurs(s, f) \/ Occurs(u, f)
      BY OccursInConcat DEF t
    <2>2. QED
      BY <2>1 DEF NoEnds
  <1>7. QED
    BY <1>4, <1>5, <1>6 DEF t

LEMMA ClosesShrinks ==
  ASSUME NEW S, NEW s \in Seq(S), s # <<>>, NEW x
  PROVE  /\ Closes(s, x) => Closes(Tail(s), x)
         /\ NoEnds(s) => NoEnds(Tail(s))
         /\ Closes(s, x) /\ Once(s, x) /\ x.type \notin Ends /\ x = Head(s) => NoEnds(Tail(s))
  <1> DEFINE t == Tail(s)
  <1>1. /\ t \in Seq(S) /\ Len(t) = Len(s) - 1 /\ Len(s) \in Nat \ {0} /\ Head(s) \in S
        /\ \A i \in 1 .. Len(t) : t[i] = s[i + 1]
    BY HeadTailProperties, EmptySeq, LenProperties
  <1>2. Head(s) = s[1]
    OBVIOUS
  <1> HIDE DEF t
  <1>3. \A i \in 1 .. Len(t) : i + 1 \in 1 .. Len(s) /\ t[i] = s[i + 1]
    BY <1>1
  <1>4. ASSUME Closes(s, x), NEW i \in 1 .. Len(t), t[i].type \in Ends
        PROVE  \E j \in i + 1 .. Len(t) : t[j] = x
    <2>1. PICK k \in i + 1 + 1 .. Len(s) : s[k] = x
      BY <1>3, <1>4 DEF Closes
    <2>2. k - 1 \in i + 1 .. Len(t) /\ k - 1 \in 1 .. Len(t) /\ (k - 1) + 1 = k
      BY <1>1, <2>1
    <2>3. t[k - 1] = x
      BY <1>3, <2>1, <2>2
    <2>4. QED
      BY <2>2, <2>3
  <1>5. NoEnds(s) => NoEnds(t)
    BY <1>3 DEF NoEnds, Occurs
  <1>6. ASSUME Closes(s, x), Once(s, x), x = s[1], NEW i \in 1 .. Len(t), t[i].type \in Ends
        PROVE  FALSE
    <2>1. PICK j \in i + 1 .. Len(t) : t[j] = x
      BY <1>4, <1>6
    <2>2. j \in 1 .. Len(t) /\ 1 \in 1 .. Len(s) /\ j + 1 \in 1 .. Len(s) /\ j + 1 # 1
      BY <1>1, <2>1
    <2>3. QED
      BY <1>3, <1>6, <2>1, <2>2 DEF Once
  <1>7. QED
    BY <1>2, <1>4, <1>5, <1>6 DEF Closes, NoEnds, Occurs, t

EngineRecord == [outer : Droid!Requests, running : SUBSET Droid!Requests, queue : Seq(Droid!Requests)]
TurnTypes ==
  /\ droid \in NativeRecord /\ engine \in EngineRecord /\ typed \subseteq Humans
  /\ toDaemon \in Seq(Droid!Frames) /\ toRelay \in Seq(Droid!Notices)

\* Where a prompt that the person typed is: on its way, queued, or in the turn that runs.
Sent(h) == Occurs(toDaemon, Droid!Frame("prompt", h))
Queued(h) == Occurs(engine.queue, h)
Runs(h) == h \in engine.running
Held(h) == Sent(h) \/ Queued(h) \/ Runs(h)
Created(h) == Occurs(toRelay, Droid!Frame("created", h))
Over == {"error", "deleted", "discarded", "completed", "cancelled"}

OnePlace(h) ==
  /\ Once(toDaemon, Droid!Frame("prompt", h)) /\ Once(engine.queue, h) /\ Once(toRelay, Droid!Frame("created", h))
  /\ Sent(h) => ~Queued(h) /\ ~Runs(h)
  /\ Queued(h) => ~Runs(h)
  /\ Created(h) \/ h \in droid.startedTurns => ~Sent(h) /\ ~Queued(h)

\* A notice that a prompt is over travels only when it is.
EndedIsGone(h) == \A f : Occurs(toRelay, f) /\ f.req = h /\ f.type \in Over => ~Held(h)

\* While a prompt runs, the ends of earlier turns reach the relay before its start does.
StartIsNews(h) ==
  Runs(h) => /\ Closes(toRelay, Droid!Frame("created", h))
             /\ h \in droid.startedTurns => NoEnds(toRelay)

TypedFirst(h) ==
  h \notin typed => ~Held(h) /\ h \notin droid.startedTurns /\ \A f : Occurs(toRelay, f) => f.req # h
Counted(h) == droid.phase # "stopped" /\ Held(h) => h \in droid.humanTurns \cup overtaken

HumanInv(h) == OnePlace(h) /\ EndedIsGone(h) /\ StartIsNews(h) /\ TypedFirst(h) /\ Counted(h)
OuterRuns == engine.running # {} => engine.outer \in engine.running
TurnsInv == TurnTypes /\ OuterRuns /\ \A h \in Humans : HumanInv(h)

\* What a step of the engine that sends the notices news does with a prompt.
EngineMoves(h, news) ==
  /\ Once(toDaemon, Droid!Frame("prompt", h))' /\ Once(engine.queue, h)'
  /\ Sent(h)' => Sent(h) /\ ~Queued(h)' /\ ~Runs(h)'
  /\ Queued(h)' => (Sent(h) \/ Queued(h)) /\ ~Runs(h)'
  /\ Runs(h)' => \/ Queued(h) /\ news = <<Droid!Frame("created", h)>>
                 \/ Runs(h) /\ NoEnds(news)
  /\ Occurs(news, Droid!Frame("created", h)) => Queued(h) /\ Runs(h)' /\ news = <<Droid!Frame("created", h)>>
  /\ \A f : Occurs(news, f) /\ f.req = h => Held(h) /\ (f.type \in Over => ~Held(h)')

LEMMA EngineMove ==
  ASSUME TurnTypes, NEW h \in Humans, HumanInv(h), NEW news \in Seq(Droid!Notices), EngineMoves(h, news),
         toRelay' = toRelay \o news, droid' = droid, typed' = typed, overtaken' = overtaken
  PROVE  HumanInv(h)'
  <1> DEFINE c == Droid!Frame("created", h)
  <1>0. toRelay \in Seq(Droid!Notices) /\ c.type \notin Ends
    BY DEF TurnTypes, Droid!Frame, Ends
  <1>1. /\ \A f : Occurs(toRelay', f) <=> Occurs(toRelay, f) \/ Occurs(news, f)
        /\ Once(toRelay, c) /\ ~Occurs(news, c) => Once(toRelay', c)
    BY <1>0, OccursInConcat
  <1>2. /\ Closes(toRelay, c) /\ NoEnds(news) => Closes(toRelay', c)
        /\ news = <<c>> => Closes(toRelay', c)
        /\ NoEnds(toRelay) /\ NoEnds(news) => NoEnds(toRelay')
    BY <1>0, ClosesGrows
  <1>3. Droid!Frame("prompt", h)' = Droid!Frame("prompt", h) /\ c' = c
    BY DEF Droid!Frame
  <1>4. Held(h)' => Held(h)
    BY DEF EngineMoves, Held
  <1>5. OnePlace(h)'
    <2>1. Once(toRelay', c)
      <3>1. CASE ~Occurs(news, c)
        BY <1>1, <3>1 DEF HumanInv, OnePlace
      <3>2. CASE Occurs(news, c)
        <4>1. news = <<c>> /\ ~Occurs(toRelay, c)
          BY <3>2 DEF EngineMoves, HumanInv, OnePlace, Created
        <4>2. c \in Droid!Notices
          <5>1. news[1] = c /\ 1 \in 1 .. Len(news)
            BY <4>1
          <5>2. QED
            BY <5>1, ElementOfSeq
        <4>3. toRelay' = Append(toRelay, c)
          BY <1>0, <4>1, <4>2, AppendIsConcat
        <4>4. Once(toRelay, c)
          BY DEF Once, HumanInv, OnePlace
        <4> HIDE DEF c
        <4>5. Once(toRelay, c) /\ (c = c => ~Occurs(toRelay, c)) => Once(Append(toRelay, c), c)
          BY <1>0, <4>2, OccursInAppend
        <4>6. QED
          BY <4>1, <4>3, <4>4, <4>5
      <3>3. QED
        BY <3>1, <3>2
    <2>2. Created(h)' => Created(h) \/ (Queued(h) /\ Runs(h)')
      BY <1>1, <1>3 DEF Created, EngineMoves
    <2>3. Created(h)' \/ h \in droid'.startedTurns => ~Sent(h)' /\ ~Queued(h)'
      BY <2>2 DEF EngineMoves, HumanInv, OnePlace
    <2>4. QED
      BY <1>3, <2>1, <2>3 DEF OnePlace, EngineMoves
  <1>6. EndedIsGone(h)'
    BY <1>1, <1>4 DEF EndedIsGone, EngineMoves, HumanInv
  <1>7. StartIsNews(h)'
    <2>1. CASE Queued(h) /\ news = <<c>>
      <3>1. h \notin droid.startedTurns
        BY <2>1 DEF HumanInv, OnePlace
      <3>2. QED
        BY <1>2, <1>3, <2>1, <3>1 DEF StartIsNews
    <2>2. CASE Runs(h) /\ NoEnds(news)
      BY <1>2, <1>3, <2>2 DEF StartIsNews, HumanInv
    <2>3. CASE ~Runs(h)'
      BY <2>3 DEF StartIsNews
    <2>4. QED
      BY <2>1, <2>2, <2>3 DEF EngineMoves
  <1>8. TypedFirst(h)'
    BY <1>1, <1>4 DEF TypedFirst, EngineMoves, HumanInv
  <1>9. Counted(h)'
    BY <1>4 DEF Counted, HumanInv
  <1>10. QED
    BY <1>5, <1>6, <1>7, <1>8, <1>9 DEF HumanInv

\* A step that takes no notice from the daemon and leaves the person's prompts alone.
LEMMA QuietMove ==
  ASSUME TurnTypes, NEW h \in Humans, HumanInv(h), engine' = engine, toRelay' = toRelay, typed' = typed,
         overtaken' = overtaken, Sent(h)' = Sent(h), Once(toDaemon, Droid!Frame("prompt", h))',
         droid'.startedTurns \subseteq droid.startedTurns,
         droid'.phase # "stopped" => droid.phase # "stopped" /\ droid'.humanTurns = droid.humanTurns
  PROVE  HumanInv(h)'
  <1>1. /\ Droid!Frame("prompt", h)' = Droid!Frame("prompt", h)
        /\ Droid!Frame("created", h)' = Droid!Frame("created", h)
    BY DEF Droid!Frame
  <1>2. /\ Queued(h)' = Queued(h) /\ Runs(h)' = Runs(h) /\ Created(h)' = Created(h) /\ Held(h)' = Held(h)
    BY <1>1 DEF Queued, Runs, Created, Held, Occurs
  <1>3. OnePlace(h)'
    BY <1>1, <1>2 DEF OnePlace, HumanInv, Once
  <1>4. EndedIsGone(h)' /\ StartIsNews(h)' /\ TypedFirst(h)' /\ Counted(h)'
    BY <1>1, <1>2 DEF EndedIsGone, StartIsNews, TypedFirst, Counted, HumanInv
  <1>5. QED
    BY <1>3, <1>4 DEF HumanInv

LEMMA FrameEquality ==
  /\ \A f \in Droid!Frames \cup Droid!Notices : f = Droid!Frame(f.type, f.req)
  /\ \A t, r : Droid!Frame(t, r).type = t /\ Droid!Frame(t, r).req = r
  BY DEF Droid!Frames, Droid!Notices, Droid!Frame

LEMMA OutstandingIsHeld ==
  ASSUME TurnTypes, NEW h \in Humans
  PROVE  h \in Droid!Outstanding <=> Held(h)
  <1>1. /\ toDaemon \in Seq(Droid!Frames) /\ DOMAIN toDaemon = 1 .. Len(toDaemon)
        /\ engine.queue \in Seq(Droid!Requests) /\ DOMAIN engine.queue = 1 .. Len(engine.queue)
        /\ \A i \in 1 .. Len(toDaemon) : toDaemon[i] \in Droid!Frames
    <2>1. toDaemon \in Seq(Droid!Frames) /\ engine.queue \in Seq(Droid!Requests)
      BY DEF TurnTypes, EngineRecord
    <2>2. QED
      BY <2>1, LenProperties, ElementOfSeq
  <1>2. h \in Droid!ToSet(engine.queue) <=> Queued(h)
    BY <1>1 DEF Droid!ToSet, Queued, Occurs
  <1>3. (\E f \in Droid!ToSet(toDaemon) : f.type = "prompt" /\ f.req = h) <=> Sent(h)
    <2>1. ASSUME NEW f \in Droid!ToSet(toDaemon), f.type = "prompt", f.req = h PROVE Sent(h)
      <3>1. PICK i \in 1 .. Len(toDaemon) : toDaemon[i] = f
        BY <1>1 DEF Droid!ToSet
      <3>2. f = Droid!Frame("prompt", h)
        BY <1>1, <2>1, <3>1, FrameEquality
      <3>3. QED
        BY <3>1, <3>2 DEF Sent, Occurs
    <2>2. ASSUME Sent(h) PROVE \E f \in Droid!ToSet(toDaemon) : f.type = "prompt" /\ f.req = h
      <3>1. PICK i \in 1 .. Len(toDaemon) : toDaemon[i] = Droid!Frame("prompt", h)
        BY <2>2 DEF Sent, Occurs
      <3>2. toDaemon[i] \in Droid!ToSet(toDaemon)
        BY <1>1 DEF Droid!ToSet
      <3>3. QED
        BY <3>1, <3>2, FrameEquality
    <2>3. QED
      BY <2>1, <2>2
  <1>4. QED
    BY <1>2, <1>3 DEF Droid!Outstanding, Held, Runs

\* What a notice does to the turns that the relay counts.
LEMMA NoticedTurns ==
  ASSUME droid \in NativeRecord, NEW f, NEW h
  PROVE  LET n == Droid!Noticed(droid, f) IN
         /\ h \in n.startedTurns => h \in droid.startedTurns \/ (f.type = "created" /\ f.req = h)
         /\ n.phase # "stopped" /\ h \in droid.humanTurns /\ h \notin n.humanTurns
              => \/ f.type \in Over /\ f.req = h
                 \/ f.type \in Ends /\ h \in droid.startedTurns
                 \/ f.type = "discarded_all" /\ h \notin droid.startedTurns
  <1> DEFINE n == Droid!Noticed(droid, f)
  <1>1. CASE f.type = "closed" \/ (f.type = "error" /\ f.req = Droid!Wake /\ droid.wake)
    <2>1. n = Droid!close(droid)
      BY <1>1 DEF Droid!Noticed
    <2>2. n.phase = "stopped" /\ n.startedTurns = {}
      BY <2>1 DEF Droid!close
    <2>3. QED
      BY <2>2
  <1>2. CASE f.type = "error" /\ ~(f.req = Droid!Wake /\ droid.wake)
    <2>1. n = [droid EXCEPT !.humanTurns = @ \ {f.req}]
      BY <1>2 DEF Droid!Noticed
    <2>2. n.humanTurns = droid.humanTurns \ {f.req} /\ n.startedTurns = droid.startedTurns
      BY <2>1 DEF NativeRecord
    <2>3. QED
      BY <1>2, <2>2 DEF Over
  <1>3. CASE f.type = "created"
    <2>1. PICK T : T = droid.startedTurns \cup ({f.req} \cap (droid.humanTurns \cup IF droid.wake THEN {Droid!Wake} ELSE {}))
      OBVIOUS
    <2>2. n = [droid EXCEPT !.working = TRUE, !.startedTurns = T]
      BY <1>3, <2>1 DEF Droid!Noticed
    <2>3. n.startedTurns = T /\ n.humanTurns = droid.humanTurns
      BY <2>2 DEF NativeRecord
    <2>4. QED
      BY <1>3, <2>1, <2>3
  <1>4. CASE f.type = "idle"
    <2>1. n = [droid EXCEPT !.working = FALSE]
      BY <1>4 DEF Droid!Noticed
    <2>2. n.startedTurns = droid.startedTurns /\ n.humanTurns = droid.humanTurns
      BY <2>1 DEF NativeRecord
    <2>3. QED
      BY <2>2
  <1>5. ASSUME NEW gone PROVE /\ Droid!discardTurn(droid, gone).humanTurns = droid.humanTurns \ gone
                              /\ Droid!discardTurn(droid, gone).startedTurns = droid.startedTurns \ gone
    BY DEF Droid!discardTurn, NativeRecord
  <1>6. CASE f.type \in {"completed", "cancelled"}
    <2>1. n = Droid!discardTurn(droid, Droid!Outlived(droid, f.req))
      BY <1>6 DEF Droid!Noticed
    <2>2. h \in Droid!Outlived(droid, f.req) => h = f.req \/ h \in droid.startedTurns
      BY DEF Droid!Outlived
    <2>3. QED
      BY <1>5, <1>6, <2>1, <2>2 DEF Over, Ends
  <1>7. CASE f.type \notin {"closed", "error", "created", "idle", "completed", "cancelled"}
    <2>1. n = Droid!discardTurn(droid, Droid!Discards(droid, f))
      BY <1>7 DEF Droid!Noticed
    <2>2. h \in Droid!Discards(droid, f)
            => (f.type \in {"deleted", "discarded"} /\ h = f.req) \/ (f.type = "discarded_all" /\ h \notin droid.startedTurns)
      BY DEF Droid!Discards
    <2>3. QED
      BY <1>5, <2>1, <2>2 DEF Over
  <1>8. QED
    BY <1>1, <1>2, <1>3, <1>4, <1>6, <1>7

LEMMA NoticeMove ==
  ASSUME TurnTypes, NEW h \in Humans, HumanInv(h), Droid!fromDaemon, droid.phase # "stopped"
  PROVE  HumanInv(h)'
  <1> DEFINE f == Head(toRelay)
             c == Droid!Frame("created", h)
  <1>1. /\ droid \in NativeRecord /\ toRelay \in Seq(Droid!Notices) /\ toRelay # <<>> /\ toRelay' = Tail(toRelay)
        /\ droid' = Droid!Noticed(droid, f)
        /\ overtaken' = overtaken \cup IF f.type = "discarded_all" THEN Droid!Outstanding \ droid.startedTurns ELSE {}
        /\ engine' = engine /\ toDaemon' = toDaemon /\ typed' = typed
    BY DEF TurnTypes, Droid!fromDaemon, Droid!engineVars
  <1>2. /\ f \in Droid!Notices /\ Occurs(toRelay, f)
        /\ \A x : Occurs(toRelay', x) => Occurs(toRelay, x)
        /\ Once(toRelay, c) => Once(toRelay', c)
    BY <1>1, OccursInTail
  <1>3. /\ Droid!Frame("prompt", h)' = Droid!Frame("prompt", h) /\ c' = c /\ c.type \notin Ends
    BY DEF Droid!Frame, Ends
  <1>4. /\ Sent(h)' = Sent(h) /\ Queued(h)' = Queued(h) /\ Runs(h)' = Runs(h) /\ Held(h)' = Held(h)
        /\ Created(h)' => Created(h)
    BY <1>1, <1>2, <1>3 DEF Sent, Queued, Runs, Created, Held, Occurs
  <1>5. f.type = "created" /\ f.req = h => f = c
    BY <1>2, FrameEquality
  <1>6. h \in droid'.startedTurns => h \in droid.startedTurns \/ f = c
    BY <1>1, <1>5, NoticedTurns
  <1>7. OnePlace(h)'
    BY <1>1, <1>2, <1>3, <1>4, <1>6 DEF OnePlace, HumanInv, Created, Once
  <1>8. EndedIsGone(h)'
    BY <1>2, <1>4 DEF EndedIsGone, HumanInv
  <1>9. StartIsNews(h)'
    <2> SUFFICES ASSUME Runs(h)
                 PROVE  Closes(toRelay', c) /\ (h \in droid'.startedTurns => NoEnds(toRelay'))
      BY <1>3, <1>4 DEF StartIsNews
    <2>1. /\ Closes(toRelay, c) /\ Once(toRelay, c) /\ (h \in droid.startedTurns => NoEnds(toRelay))
      BY DEF HumanInv, StartIsNews, OnePlace
    <2> HIDE DEF c
    <2>2. /\ Closes(toRelay', c) /\ (NoEnds(toRelay) => NoEnds(toRelay')) /\ (c = f => NoEnds(toRelay'))
      BY <1>1, <1>3, <2>1, ClosesShrinks
    <2>3. QED
      BY <1>6, <2>1, <2>2
  <1>10. TypedFirst(h)'
    <2>1. f = c => f.req = h
      BY FrameEquality
    <2>2. QED
      BY <1>1, <1>2, <1>4, <1>6, <2>1 DEF TypedFirst, HumanInv
  <1>11. Counted(h)'
    <2> SUFFICES ASSUME droid'.phase # "stopped", Held(h), h \notin overtaken'
                 PROVE  h \in droid'.humanTurns
      BY <1>4 DEF Counted
    <2>1. h \in droid.humanTurns
      BY <1>1 DEF Counted, HumanInv
    <2>2. ~(f.type \in Over /\ f.req = h)
      BY <1>2 DEF EndedIsGone, HumanInv
    <2>3. ~(f.type \in Ends /\ h \in droid.startedTurns)
      BY <1>2 DEF HumanInv, OnePlace, StartIsNews, NoEnds, Held
    <2>4. ~(f.type = "discarded_all" /\ h \notin droid.startedTurns)
      BY <1>1, OutstandingIsHeld
    <2>5. QED
      BY <1>1, <2>1, <2>2, <2>3, <2>4, NoticedTurns
  <1>12. QED
    BY <1>7, <1>8, <1>9, <1>10, <1>11 DEF HumanInv

LEMMA QuietStep ==
  ASSUME TurnsInv, droid' \in NativeRecord, engine' = engine, toRelay' = toRelay, typed' = typed, overtaken' = overtaken,
         \/ toDaemon' = toDaemon
         \/ \E g \in Droid!Frames : (\A h \in Humans : g # Droid!Frame("prompt", h)) /\ toDaemon' = Append(toDaemon, g),
         droid'.startedTurns \subseteq droid.startedTurns,
         droid'.phase # "stopped" => droid.phase # "stopped" /\ droid'.humanTurns = droid.humanTurns
  PROVE  TurnsInv'
  <1>1. TurnTypes /\ toDaemon \in Seq(Droid!Frames)
    BY DEF TurnsInv, TurnTypes
  <1>2. toDaemon' \in Seq(Droid!Frames)
    BY <1>1, AppendProperties
  <1>3. ASSUME NEW h \in Humans PROVE HumanInv(h)'
    <2>1. HumanInv(h) /\ Once(toDaemon, Droid!Frame("prompt", h))
      BY DEF TurnsInv, HumanInv, OnePlace
    <2>2. Droid!Frame("prompt", h)' = Droid!Frame("prompt", h)
      BY DEF Droid!Frame
    <2>3. Sent(h)' = Sent(h) /\ Once(toDaemon, Droid!Frame("prompt", h))'
      <3>1. CASE toDaemon' = toDaemon
        BY <2>1, <2>2, <3>1 DEF Sent, Occurs, Once
      <3>2. ASSUME NEW g \in Droid!Frames, g # Droid!Frame("prompt", h), toDaemon' = Append(toDaemon, g)
            PROVE  Sent(h)' = Sent(h) /\ Once(toDaemon, Droid!Frame("prompt", h))'
        <4> DEFINE p == Droid!Frame("prompt", h)
        <4>1. Once(toDaemon, p) /\ p # g
          BY <2>1, <3>2
        <4> HIDE DEF p
        <4>2. (Occurs(toDaemon', p) <=> Occurs(toDaemon, p)) /\ Once(toDaemon', p)
          BY <1>1, <3>2, <4>1, OccursInAppend
        <4>3. QED
          BY <2>2, <4>2 DEF Sent, Occurs, p
      <3>3. QED
        BY <3>1, <3>2
    <2>4. QED
      BY <1>1, <2>1, <2>3, QuietMove
  <1>4. QED
    BY <1>1, <1>2, <1>3 DEF TurnsInv, TurnTypes, OuterRuns

LEMMA EngineStep ==
  ASSUME TurnsInv, droid' = droid, typed' = typed, overtaken' = overtaken,
         toDaemon' \in Seq(Droid!Frames), engine' \in EngineRecord, OuterRuns',
         NEW news \in Seq(Droid!Notices), toRelay' = toRelay \o news, \A h \in Humans : EngineMoves(h, news)
  PROVE  TurnsInv'
  <1>1. TurnTypes'
    BY ConcatProperties DEF TurnsInv, TurnTypes
  <1>2. ASSUME NEW h \in Humans PROVE HumanInv(h)'
    BY EngineMove DEF TurnsInv
  <1>3. QED
    BY <1>1, <1>2 DEF TurnsInv

LEMMA Typed ==
  ASSUME TurnsInv, NEW k \in Humans, Droid!add_user_message(k), droid' \in NativeRecord
  PROVE  TurnsInv'
  <1>1. /\ TurnTypes /\ droid \in NativeRecord /\ toDaemon \in Seq(Droid!Frames) /\ typed' = typed \cup {k} /\ k \notin typed
        /\ droid' = [droid EXCEPT !.humanTurns = @ \cup {k}] /\ toDaemon' = Append(toDaemon, Droid!Frame("prompt", k))
        /\ engine' = engine /\ toRelay' = toRelay /\ overtaken' = overtaken
    BY DEF TurnsInv, TurnTypes, Droid!add_user_message, Droid!Send
  <1>2. droid'.startedTurns = droid.startedTurns /\ droid'.humanTurns = droid.humanTurns \cup {k} /\ droid'.phase = droid.phase
    BY <1>1 DEF NativeRecord
  <1>3. Droid!Frame("prompt", k) \in Droid!Frames
    BY DEF Droid!Frame, Droid!Frames, Droid!Requests
  <1>4. toDaemon' \in Seq(Droid!Frames)
    BY <1>1, <1>3, AppendProperties
  <1>5. ASSUME NEW h \in Humans PROVE HumanInv(h)'
    <2> DEFINE p == Droid!Frame("prompt", h)
               q == Droid!Frame("prompt", k)
    <2>1. p' = p /\ Droid!Frame("created", h)' = Droid!Frame("created", h)
      BY DEF Droid!Frame
    <2>2. (p = q => h = k) /\ HumanInv(h)
      BY FrameEquality DEF TurnsInv
    <2>3. (Occurs(toDaemon', p) <=> Occurs(toDaemon, p) \/ p = q)
          /\ (Once(toDaemon, p) /\ (p = q => ~Occurs(toDaemon, p)) => Once(toDaemon', p))
      <3> HIDE DEF p, q
      <3>1. q \in Droid!Frames /\ toDaemon' = Append(toDaemon, q)
        BY <1>1, <1>3 DEF q
      <3>2. QED
        BY <1>1, <3>1, OccursInAppend
    <2>4. h = k => ~Held(h) /\ h \notin droid.startedTurns /\ \A f : Occurs(toRelay, f) => f.req # h
      BY <1>1, <2>2 DEF HumanInv, TypedFirst
    <2>5. /\ Queued(h)' = Queued(h) /\ Runs(h)' = Runs(h) /\ Created(h)' = Created(h) /\ (Sent(h)' <=> Sent(h) \/ p = q)
          /\ Held(h)' => Held(h) \/ h = k
      BY <1>1, <2>1, <2>2, <2>3 DEF Queued, Runs, Created, Sent, Held, Occurs
    <2>6. h = k => ~Created(h)
      BY <2>4, FrameEquality DEF Created
    <2>7. OnePlace(h)'
      <3>1. Once(toDaemon, p) /\ Once(engine.queue, h) /\ Once(toRelay, Droid!Frame("created", h))
        BY <2>2 DEF HumanInv, OnePlace
      <3>2. Once(toDaemon', p)
        BY <2>2, <2>3, <2>4, <3>1 DEF Held, Sent
      <3>3. Once(engine'.queue, h) /\ Once(toRelay', Droid!Frame("created", h))
        BY <1>1, <3>1
      <3>4. QED
        BY <1>2, <2>1, <2>2, <2>4, <2>5, <2>6, <3>2, <3>3 DEF OnePlace, HumanInv, Held
    <2>8. EndedIsGone(h)'
      BY <1>1, <2>2, <2>4, <2>5 DEF EndedIsGone, HumanInv
    <2>9. StartIsNews(h)'
      BY <1>1, <1>2, <2>1, <2>2, <2>5 DEF StartIsNews, HumanInv
    <2>10. TypedFirst(h)'
      BY <1>1, <1>2, <2>2, <2>5 DEF TypedFirst, HumanInv
    <2>11. Counted(h)'
      BY <1>1, <1>2, <2>2, <2>5 DEF Counted, HumanInv
    <2>12. QED
      BY <2>7, <2>8, <2>9, <2>10, <2>11 DEF HumanInv
  <1>6. QED
    BY <1>1, <1>4, <1>5 DEF TurnsInv, TurnTypes, OuterRuns

\* The notices of a step, by what occurs in them.
LEMMA FewNotices ==
  /\ \A x : ~Occurs(<<>>, x)
  /\ \A a, x : Occurs(<<a>>, x) <=> x = a
  /\ \A a, b, x : Occurs(<<a, b>>, x) <=> x = a \/ x = b
  /\ \A a, b \in Droid!Notices : <<a>> \in Seq(Droid!Notices) /\ <<a, b>> \in Seq(Droid!Notices)
  /\ <<>> \in Seq(Droid!Notices)
  <1>1. \A x : ~Occurs(<<>>, x)
    BY DEF Occurs
  <1>2. \A a, x : Occurs(<<a>>, x) <=> x = a
    <2> SUFFICES ASSUME NEW a, NEW x PROVE Occurs(<<a>>, x) <=> x = a
      OBVIOUS
    <2>1. Len(<<a>>) = 1 /\ <<a>>[1] = a /\ 1 .. 1 = {1}
      OBVIOUS
    <2>2. QED
      BY <2>1 DEF Occurs
  <1>3. \A a, b, x : Occurs(<<a, b>>, x) <=> x = a \/ x = b
    <2> SUFFICES ASSUME NEW a, NEW b, NEW x PROVE Occurs(<<a, b>>, x) <=> x = a \/ x = b
      OBVIOUS
    <2>1. Len(<<a, b>>) = 2 /\ <<a, b>>[1] = a /\ <<a, b>>[2] = b /\ 1 .. 2 = {1, 2}
      OBVIOUS
    <2>2. QED
      BY <2>1 DEF Occurs
  <1>4. QED
    BY <1>1, <1>2, <1>3

LEMMA StartsMove ==
  ASSUME TurnsInv, Droid!EngineStarts \/ Droid!EngineCoalesces
  PROVE  TurnsInv'
  <1> DEFINE q == Head(engine.queue)
             news == <<Droid!Frame("created", q)>>
  <1>1. /\ TurnTypes /\ engine \in EngineRecord /\ engine.queue \in Seq(Droid!Requests) /\ engine.queue # <<>>
        /\ toDaemon \in Seq(Droid!Frames) /\ toDaemon' = toDaemon /\ toRelay' = toRelay \o news
        /\ droid' = droid /\ typed' = typed /\ overtaken' = overtaken
    BY DEF TurnsInv, TurnTypes, EngineRecord, Droid!EngineStarts, Droid!EngineCoalesces, Droid!Tells
  <1>2. /\ q \in Droid!Requests /\ Tail(engine.queue) \in Seq(Droid!Requests)
        /\ \A x : /\ Occurs(engine.queue, x) <=> Occurs(Tail(engine.queue), x) \/ x = q
                  /\ Once(engine.queue, x) => Once(Tail(engine.queue), x) /\ (x = q => ~Occurs(Tail(engine.queue), x))
    BY <1>1, OccursInTail
  <1>3. /\ engine'.queue = Tail(engine.queue) /\ engine' \in EngineRecord
        /\ \/ engine.running = {} /\ engine'.running = {q} /\ engine'.outer = q
           \/ engine.running # {} /\ engine'.running = engine.running \cup {q} /\ engine'.outer = engine.outer
    <2>1. CASE Droid!EngineStarts
      BY <1>2, <2>1 DEF Droid!EngineStarts, EngineRecord
    <2>2. CASE Droid!EngineCoalesces
      <3>1. engine.running # {} /\ engine' = [engine EXCEPT !.running = @ \cup {q}, !.queue = Tail(@)]
        BY <2>2 DEF Droid!EngineCoalesces
      <3>2. engine.running \cup {q} \in SUBSET Droid!Requests
        BY <1>1, <1>2 DEF EngineRecord
      <3>3. QED
        BY <1>1, <1>2, <3>1, <3>2 DEF EngineRecord
    <2>3. QED
      BY <2>1, <2>2
  <1>4. Droid!Frame("created", q) \in Droid!Notices
    BY <1>2 DEF Droid!Frame, Droid!Notices
  <1>5. news \in Seq(Droid!Notices) /\ (\A x : Occurs(news, x) <=> x = Droid!Frame("created", q))
    BY <1>4, FewNotices
  <1>6. ASSUME NEW h \in Humans PROVE EngineMoves(h, news)
    <2> DEFINE p == Droid!Frame("prompt", h)
               c == Droid!Frame("created", h)
    <2>1. p' = p /\ c' = c /\ HumanInv(h) /\ (c = Droid!Frame("created", q) <=> h = q)
      BY FrameEquality DEF TurnsInv, Droid!Frame
    <2>2. Sent(h)' = Sent(h) /\ Once(toDaemon, p)' /\ Once(engine.queue, h)'
      <3>1. Once(toDaemon, p) /\ Once(engine.queue, h)
        BY <2>1 DEF HumanInv, OnePlace
      <3>2. Sent(h)' = Sent(h) /\ Once(toDaemon, p)'
        BY <1>1, <2>1, <3>1 DEF Sent, Occurs, Once
      <3>3. Once(Tail(engine.queue), h)
        BY <1>2, <3>1
      <3>4. QED
        BY <1>3, <3>2, <3>3 DEF Once
    <2>3. (Queued(h) <=> Queued(h)' \/ h = q) /\ (h = q => ~Queued(h)') /\ (Runs(h)' <=> Runs(h) \/ h = q)
      BY <1>2, <1>3 DEF Queued, Runs, HumanInv, OnePlace, TurnsInv
    <2>4. NoEnds(news)
      BY <1>5, FrameEquality DEF NoEnds, Ends
    <2>5. Sent(h) => ~Queued(h) /\ ~Runs(h)
      BY <2>1 DEF HumanInv, OnePlace
    <2>6. Queued(h) => ~Runs(h)
      BY <2>1 DEF HumanInv, OnePlace
    <2>7. h = q => news = <<c>>
      OBVIOUS
    <2>8. \A f : Occurs(news, f) /\ f.req = h => h = q /\ f.type \notin Over
      BY <1>5, FrameEquality DEF Over
    <2> HIDE DEF news, c, p
    <2>9. QED
      BY <1>5, <2>1, <2>2, <2>3, <2>4, <2>5, <2>6, <2>7, <2>8 DEF EngineMoves, Held, c, p
  <1>7. OuterRuns'
    BY <1>3 DEF TurnsInv, OuterRuns
  <1>8. QED
    BY <1>1, <1>3, <1>5, <1>6, <1>7, EngineStep

\* A turn ends with a notice that names its outer request, which it ran.
LEMMA EndOfTurn ==
  ASSUME TurnsInv, NEW t \in Ends, engine.running # {}
  PROVE  LET ended == <<Droid!Frame(t, engine.outer), Droid!Frame("idle", Droid!Wake)>> IN
         /\ ended \in Seq(Droid!Notices)
         /\ \A h \in Humans : \A f : Occurs(ended, f) /\ f.req = h => Runs(h)
         /\ \A h \in Humans : ~Occurs(ended, Droid!Frame("created", h))
  <1>1. engine.outer \in Droid!Requests /\ engine.outer \in engine.running
    BY DEF TurnsInv, TurnTypes, EngineRecord, OuterRuns
  <1>2. Droid!Frame(t, engine.outer) \in Droid!Notices /\ Droid!Frame("idle", Droid!Wake) \in Droid!Notices
    BY <1>1 DEF Droid!Frame, Droid!Notices, Droid!Wake, Droid!Requests, Ends
  <1>3. \A h \in Humans : h # Droid!Wake
    BY DroidAssumption DEF Droid!Wake
  <1>4. QED
    BY <1>1, <1>2, <1>3, FewNotices, FrameEquality DEF Ends, Runs

LEMMA EndsMove ==
  ASSUME TurnsInv, Droid!EngineCompletes
  PROVE  TurnsInv'
  <1> DEFINE news == <<Droid!Frame("completed", engine.outer), Droid!Frame("idle", Droid!Wake)>>
  <1>1. /\ TurnTypes /\ engine \in EngineRecord /\ engine.running # {} /\ engine' = [engine EXCEPT !.running = {}]
        /\ toDaemon \in Seq(Droid!Frames) /\ toDaemon' = toDaemon /\ toRelay' = toRelay \o news
        /\ droid' = droid /\ typed' = typed /\ overtaken' = overtaken
    BY DEF TurnsInv, TurnTypes, Droid!EngineCompletes, Droid!Tells
  <1>2. engine' \in EngineRecord /\ engine'.running = {} /\ engine'.queue = engine.queue
    BY <1>1 DEF EngineRecord
  <1>3. /\ news \in Seq(Droid!Notices)
        /\ \A h \in Humans : \A f : Occurs(news, f) /\ f.req = h => Runs(h)
        /\ \A h \in Humans : ~Occurs(news, Droid!Frame("created", h))
    <2>1. "completed" \in Ends
      BY DEF Ends
    <2>2. QED
      BY <1>1, <2>1, EndOfTurn
  <1> HIDE DEF news
  <1>4. ASSUME NEW h \in Humans PROVE EngineMoves(h, news)
    <2>1. HumanInv(h) /\ Droid!Frame("prompt", h)' = Droid!Frame("prompt", h)
      BY DEF TurnsInv, Droid!Frame
    <2>2. Sent(h)' = Sent(h) /\ Queued(h)' = Queued(h) /\ ~Runs(h)'
      BY <1>1, <1>2, <2>1 DEF Sent, Queued, Runs, Occurs
    <2>3. Once(toDaemon, Droid!Frame("prompt", h))' /\ Once(engine.queue, h)'
      BY <1>1, <1>2, <2>1 DEF HumanInv, OnePlace, Once
    <2>4. Sent(h) => ~Queued(h) /\ ~Runs(h)
      BY <2>1 DEF HumanInv, OnePlace
    <2>5. Queued(h) => ~Runs(h)
      BY <2>1 DEF HumanInv, OnePlace
    <2>6. QED
      BY <1>3, <2>2, <2>3, <2>4, <2>5 DEF EngineMoves, Held
  <1>5. OuterRuns'
    BY <1>2 DEF OuterRuns
  <1>6. QED
    BY <1>1, <1>2, <1>3, <1>4, <1>5, EngineStep

\* What the daemon does with the queue and the running turn when it takes a frame.
LEMMA TakesMove ==
  ASSUME TurnsInv, Droid!EngineTakes
  PROVE  TurnsInv'
  <1> DEFINE f == Head(toDaemon)
  <1>1. /\ TurnTypes /\ engine \in EngineRecord /\ toDaemon \in Seq(Droid!Frames) /\ toDaemon # <<>>
        /\ toDaemon' = Tail(toDaemon) /\ toRelay \in Seq(Droid!Notices) /\ engine.queue \in Seq(Droid!Requests)
        /\ droid' = droid /\ typed' = typed /\ overtaken' = overtaken
    BY DEF TurnsInv, TurnTypes, EngineRecord, Droid!EngineTakes
  <1>2. /\ f \in Droid!Frames /\ f.req \in Droid!Requests /\ f = Droid!Frame(f.type, f.req) /\ toDaemon' \in Seq(Droid!Frames)
        /\ \A x : /\ Occurs(toDaemon, x) <=> Occurs(toDaemon', x) \/ x = f
                  /\ Once(toDaemon, x) => Once(toDaemon', x) /\ (x = f => ~Occurs(toDaemon', x))
    <2>1. f \in Droid!Frames
      BY <1>1, OccursInTail
    <2>2. f.req \in Droid!Requests /\ f = Droid!Frame(f.type, f.req)
      BY <2>1, FrameEquality DEF Droid!Frames
    <2>3. QED
      BY <1>1, <2>1, <2>2, OccursInTail
  <1> HIDE DEF f
  <1>3. ASSUME NEW h \in Humans
        PROVE  /\ HumanInv(h) /\ h # Droid!Wake /\ h \in Droid!Requests /\ Once(engine.queue, h)
               /\ Once(toDaemon, Droid!Frame("prompt", h))' /\ (Sent(h)' => Sent(h))
               /\ f.type = "prompt" /\ f.req = h => Sent(h) /\ ~Sent(h)'
               /\ Sent(h) => ~Queued(h) /\ ~Runs(h)
               /\ Queued(h) => ~Runs(h)
    <2> DEFINE p == Droid!Frame("prompt", h)
    <2>1. HumanInv(h) /\ p' = p /\ (f.type = "prompt" /\ f.req = h => f = p)
      BY <1>2 DEF TurnsInv, Droid!Frame
    <2>2. Once(toDaemon, p) /\ Once(engine.queue, h) /\ (Sent(h) => ~Queued(h) /\ ~Runs(h)) /\ (Queued(h) => ~Runs(h))
      BY <2>1 DEF HumanInv, OnePlace
    <2>3. h # Droid!Wake /\ h \in Droid!Requests
      BY DroidAssumption DEF Droid!Wake, Droid!Requests
    <2> HIDE DEF p
    <2>4. Once(toDaemon', p) /\ (Occurs(toDaemon', p) => Occurs(toDaemon, p)) /\ (f = p => Occurs(toDaemon, p) /\ ~Occurs(toDaemon', p))
      BY <1>2, <2>2
    <2>5. (Sent(h) <=> Occurs(toDaemon, p)) /\ (Sent(h)' <=> Occurs(toDaemon', p))
      BY <2>1 DEF Sent, Occurs, p
    <2>6. Once(toDaemon, Droid!Frame("prompt", h))'
      BY <2>1, <2>4 DEF Once, p
    <2>7. QED
      BY <2>1, <2>2, <2>3, <2>4, <2>5, <2>6
  \* it is enough to name the notices, and what becomes of each prompt
  <1>4. ASSUME NEW news \in Seq(Droid!Notices), toRelay' = toRelay \o news, engine' \in EngineRecord, OuterRuns',
               \A h \in Humans :
                 /\ Once(engine'.queue, h)
                 /\ Queued(h)' => Queued(h) \/ (f.type = "prompt" /\ f.req = h)
                 /\ Runs(h)' => Runs(h) /\ NoEnds(news)
                 /\ ~Occurs(news, Droid!Frame("created", h))
                 /\ \A g : Occurs(news, g) /\ g.req = h => Held(h) /\ (g.type \in Over => ~Held(h)')
        PROVE  TurnsInv'
    <2>1. ASSUME NEW h \in Humans PROVE EngineMoves(h, news)
      <3>1. /\ Once(engine'.queue, h)
            /\ Queued(h)' => Queued(h) \/ (f.type = "prompt" /\ f.req = h)
            /\ Runs(h)' => Runs(h) /\ NoEnds(news)
            /\ ~Occurs(news, Droid!Frame("created", h))
            /\ \A g : Occurs(news, g) /\ g.req = h => Held(h) /\ (g.type \in Over => ~Held(h)')
        BY <1>4
      <3>2. Queued(h)' => (Sent(h) \/ Queued(h)) /\ ~Runs(h)'
        BY <1>3, <3>1
      <3>3. Sent(h)' => Sent(h) /\ ~Queued(h)' /\ ~Runs(h)'
        BY <1>3, <3>1
      <3>4. QED
        BY <1>3, <3>1, <3>2, <3>3 DEF EngineMoves
    <2>2. QED
      BY <1>1, <1>2, <1>4, <2>1, EngineStep
  <1>5. /\ <<>> \in Seq(Droid!Notices) /\ toRelay \o <<>> = toRelay /\ NoEnds(<<>>) /\ \A x : ~Occurs(<<>>, x)
    BY <1>1, FewNotices, ConcatEmptySeq DEF NoEnds
  <1>6. CASE f.type = "prompt" /\ engine' = [engine EXCEPT !.queue = Append(@, f.req)] /\ toRelay' = toRelay
    <2>1. Append(engine.queue, f.req) \in Seq(Droid!Requests)
      BY <1>1, <1>2, AppendProperties
    <2>2. /\ engine' \in EngineRecord /\ engine'.queue = Append(engine.queue, f.req)
          /\ engine'.running = engine.running /\ engine'.outer = engine.outer
      BY <1>1, <1>6, <2>1 DEF EngineRecord
    <2>3. \A h \in Humans : /\ Occurs(engine'.queue, h) <=> Occurs(engine.queue, h) \/ h = f.req
                            /\ Once(engine.queue, h) /\ (h = f.req => ~Occurs(engine.queue, h)) => Once(engine'.queue, h)
      BY <1>1, <1>2, <2>2, OccursInAppend
    <2>4. \A h \in Humans : Once(engine'.queue, h) /\ (Queued(h)' => Queued(h) \/ h = f.req) /\ (Runs(h)' => Runs(h))
      BY <1>3, <1>6, <2>2, <2>3 DEF Queued, Runs
    <2>5. OuterRuns'
      BY <2>2 DEF OuterRuns, TurnsInv
    <2>6. QED
      BY <1>4, <1>5, <1>6, <2>2, <2>4, <2>5
  <1>7. CASE engine' = engine /\ toRelay' = toRelay
    <2>1. \A h \in Humans : Once(engine'.queue, h) /\ (Queued(h)' => Queued(h)) /\ (Runs(h)' => Runs(h))
      BY <1>3, <1>7 DEF Queued, Runs, Occurs
    <2>2. OuterRuns'
      BY <1>7 DEF OuterRuns, TurnsInv
    <2>3. QED
      BY <1>1, <1>4, <1>5, <1>7, <2>1, <2>2
  <1>8. CASE f.type = "prompt" /\ Droid!Tells(<<Droid!Frame("error", f.req)>>) /\ engine' = engine
    <2> DEFINE g == Droid!Frame("error", f.req)
    <2>1. g \in Droid!Notices /\ g.type = "error" /\ g.req = f.req
      BY <1>2 DEF Droid!Frame, Droid!Notices
    <2>2. <<g>> \in Seq(Droid!Notices) /\ (\A x : Occurs(<<g>>, x) <=> x = g) /\ toRelay' = toRelay \o <<g>>
      BY <1>8, <2>1, FewNotices DEF Droid!Tells
    <2>3. \A h \in Humans : Once(engine'.queue, h) /\ (Queued(h)' <=> Queued(h)) /\ (Runs(h)' <=> Runs(h))
      BY <1>3, <1>8 DEF Queued, Runs, Occurs
    <2>4. NoEnds(<<g>>) /\ \A h \in Humans : Droid!Frame("created", h) # g
      BY <2>1, <2>2, FrameEquality DEF NoEnds, Ends
    <2>5. \A h \in Humans : f.req = h => Held(h) /\ ~Held(h)'
      BY <1>3, <1>8, <2>3 DEF Held
    <2>6. OuterRuns'
      BY <1>8 DEF OuterRuns, TurnsInv
    <2> HIDE DEF g
    <2>7. QED
      BY <1>1, <1>4, <1>8, <2>1, <2>2, <2>3, <2>4, <2>5, <2>6
  <1>9. CASE /\ Droid!Contains(engine.queue, f.req) /\ engine' = Droid!Forget(f.req)
             /\ Droid!Tells(<<Droid!Frame("deleted", f.req)>>)
    <2> DEFINE g == Droid!Frame("deleted", f.req)
               k == CHOOSE k \in 1 .. Len(engine.queue) : engine.queue[k] = f.req
               rest == Droid!RemoveAt(engine.queue, k)
    <2>1. g \in Droid!Notices /\ g.type = "deleted" /\ g.req = f.req
      BY <1>2 DEF Droid!Frame, Droid!Notices
    <2>2. <<g>> \in Seq(Droid!Notices) /\ (\A x : Occurs(<<g>>, x) <=> x = g) /\ toRelay' = toRelay \o <<g>>
      BY <1>9, <2>1, FewNotices DEF Droid!Tells
    <2>3. k \in 1 .. Len(engine.queue) /\ engine.queue[k] = f.req
      BY <1>9 DEF Droid!Contains
    <2>4. engine' = [engine EXCEPT !.queue = rest]
      BY <1>9 DEF Droid!Forget
    <2> HIDE DEF k
    <2>5. /\ rest \in Seq(Droid!Requests)
          /\ \A x : (Occurs(rest, x) => Occurs(engine.queue, x))
                    /\ (Once(engine.queue, x) => Once(rest, x) /\ (x = f.req => ~Occurs(rest, x)))
      BY <1>1, <2>3, OccursInRest DEF Droid!RemoveAt
    <2> HIDE DEF rest
    <2>6. /\ engine' \in EngineRecord /\ engine'.queue = rest
          /\ engine'.running = engine.running /\ engine'.outer = engine.outer
      BY <1>1, <2>4, <2>5 DEF EngineRecord
    <2>7. \A h \in Humans : /\ Once(engine'.queue, h) /\ (Queued(h)' => Queued(h)) /\ (Runs(h)' <=> Runs(h))
                            /\ f.req = h => ~Queued(h)'
      BY <1>3, <2>5, <2>6 DEF Queued, Runs
    <2>8. \A h \in Humans : f.req = h => Queued(h)
      BY <2>3 DEF Queued, Occurs
    <2>9. NoEnds(<<g>>) /\ \A h \in Humans : Droid!Frame("created", h) # g
      BY <2>1, <2>2, FrameEquality DEF NoEnds, Ends
    <2>10. \A h \in Humans : f.req = h => Held(h) /\ ~Held(h)'
      BY <1>3, <2>7, <2>8 DEF Held
    <2>11. OuterRuns'
      BY <2>6 DEF OuterRuns, TurnsInv
    <2> HIDE DEF g
    <2>12. QED
      BY <1>4, <2>1, <2>2, <2>6, <2>7, <2>9, <2>10, <2>11
  <1> DEFINE ended == IF engine.running = {} THEN <<>>
                      ELSE <<Droid!Frame("cancelled", engine.outer), Droid!Frame("idle", Droid!Wake)>>
  <1>10. /\ ended \in Seq(Droid!Notices)
         /\ \A h \in Humans : \A g : Occurs(ended, g) /\ g.req = h => Runs(h)
         /\ \A h \in Humans : ~Occurs(ended, Droid!Frame("created", h))
    <2>1. "cancelled" \in Ends
      BY DEF Ends
    <2>2. CASE engine.running = {}
      BY <1>5, <2>2
    <2>3. CASE engine.running # {}
      BY <2>1, <2>3, EndOfTurn
    <2>4. QED
      BY <2>2, <2>3
  <1> HIDE DEF ended
  <1>11. CASE engine' = [engine EXCEPT !.running = {}] /\ Droid!Tells(ended)
    <2>1. engine' \in EngineRecord /\ engine'.queue = engine.queue /\ engine'.running = {}
      BY <1>1, <1>11 DEF EngineRecord
    <2>2. \A h \in Humans : Once(engine'.queue, h) /\ (Queued(h)' <=> Queued(h)) /\ ~Runs(h)'
      BY <1>3, <2>1 DEF Queued, Runs, Occurs
    <2>3. \A h \in Humans : Runs(h) => Held(h) /\ ~Held(h)'
      BY <1>3, <2>2 DEF Held
    <2>4. OuterRuns'
      BY <2>1 DEF OuterRuns
    <2>5. QED
      BY <1>4, <1>10, <1>11, <2>1, <2>2, <2>3, <2>4 DEF Droid!Tells
  <1>12. CASE /\ engine.queue # <<>> /\ engine' = [engine EXCEPT !.running = {}, !.queue = <<>>]
              /\ Droid!Tells(<<IF Len(engine.queue) = 1 THEN Droid!Frame("discarded", engine.queue[1])
                               ELSE Droid!Frame("discarded_all", Droid!Wake)>> \o ended)
    <2> DEFINE g == IF Len(engine.queue) = 1 THEN Droid!Frame("discarded", engine.queue[1])
                    ELSE Droid!Frame("discarded_all", Droid!Wake)
               news == <<g>> \o ended
    <2>1. /\ g \in Droid!Notices /\ g.type \notin {"created"}
          /\ \A h \in Humans : g.req = h => Queued(h)
      <3>1. CASE Len(engine.queue) = 1
        <4>1. 1 \in 1 .. Len(engine.queue)
          BY <3>1
        <4>2. engine.queue[1] \in Droid!Requests
          BY <1>1, <4>1, ElementOfSeq
        <4>3. g = Droid!Frame("discarded", engine.queue[1])
          BY <3>1
        <4>4. g \in Droid!Notices /\ g.type = "discarded" /\ g.req = engine.queue[1]
          BY <4>2, <4>3 DEF Droid!Frame, Droid!Notices
        <4>5. QED
          BY <4>1, <4>4 DEF Queued, Occurs
      <3>2. CASE Len(engine.queue) # 1
        <4>1. g = Droid!Frame("discarded_all", Droid!Wake)
          BY <3>2
        <4>2. g \in Droid!Notices /\ g.type = "discarded_all" /\ g.req = Droid!Wake
          BY <4>1 DEF Droid!Frame, Droid!Notices, Droid!Wake, Droid!Requests
        <4>3. QED
          BY <1>3, <4>2
      <3>3. QED
        BY <3>1, <3>2
    <2>2. toRelay' = toRelay \o news
      BY <1>12 DEF Droid!Tells
    <2> HIDE DEF g
    <2>3. <<g>> \in Seq(Droid!Notices) /\ \A x : Occurs(<<g>>, x) <=> x = g
      BY <2>1, FewNotices
    <2>4. news \in Seq(Droid!Notices) /\ \A x : Occurs(news, x) <=> x = g \/ Occurs(ended, x)
      BY <1>10, <2>3, OccursInConcat
    <2> HIDE DEF news
    <2>5. <<>> \in Seq(Droid!Requests)
      OBVIOUS
    <2>6. engine' \in EngineRecord /\ engine'.queue = <<>> /\ engine'.running = {}
      BY <1>1, <1>12, <2>5 DEF EngineRecord
    <2>7. \A h \in Humans : Once(engine'.queue, h) /\ ~Queued(h)' /\ ~Runs(h)'
      BY <1>5, <2>6 DEF Queued, Runs, Once
    <2>8. \A h \in Humans : Runs(h) \/ Queued(h) => Held(h) /\ ~Held(h)'
      BY <1>3, <2>7 DEF Held
    <2>9. \A h \in Humans : Droid!Frame("created", h) # g
      BY <2>1, FrameEquality
    <2>10. OuterRuns'
      BY <2>6 DEF OuterRuns
    <2>11. QED
      BY <1>4, <1>10, <2>1, <2>2, <2>4, <2>6, <2>7, <2>8, <2>9, <2>10
  <1>13. CASE f.type = "close" /\ Droid!Tells(<<Droid!Frame("closed", Droid!Wake)>>) /\ engine' = engine
    <2> DEFINE g == Droid!Frame("closed", Droid!Wake)
    <2>1. g \in Droid!Notices /\ g.type = "closed" /\ g.req = Droid!Wake
      BY DEF Droid!Frame, Droid!Notices, Droid!Wake, Droid!Requests
    <2>2. <<g>> \in Seq(Droid!Notices) /\ (\A x : Occurs(<<g>>, x) <=> x = g) /\ toRelay' = toRelay \o <<g>>
      BY <1>13, <2>1, FewNotices DEF Droid!Tells
    <2>3. \A h \in Humans : Once(engine'.queue, h) /\ (Queued(h)' <=> Queued(h)) /\ (Runs(h)' <=> Runs(h))
      BY <1>3, <1>13 DEF Queued, Runs, Occurs
    <2>4. NoEnds(<<g>>) /\ \A h \in Humans : Droid!Frame("created", h) # g
      BY <2>1, <2>2, FrameEquality DEF NoEnds, Ends
    <2>5. OuterRuns'
      BY <1>13 DEF OuterRuns, TurnsInv
    <2> HIDE DEF g
    <2>6. QED
      BY <1>1, <1>3, <1>4, <1>13, <2>1, <2>2, <2>3, <2>4, <2>5
  <1>14. QED
    <2>1. \/ f.type = "prompt" /\ engine' = [engine EXCEPT !.queue = Append(@, f.req)] /\ toRelay' = toRelay
          \/ engine' = engine /\ toRelay' = toRelay
          \/ f.type = "prompt" /\ Droid!Tells(<<Droid!Frame("error", f.req)>>) /\ engine' = engine
          \/ /\ Droid!Contains(engine.queue, f.req) /\ engine' = Droid!Forget(f.req)
             /\ Droid!Tells(<<Droid!Frame("deleted", f.req)>>)
          \/ engine' = [engine EXCEPT !.running = {}] /\ Droid!Tells(ended)
          \/ /\ engine.queue # <<>> /\ engine' = [engine EXCEPT !.running = {}, !.queue = <<>>]
             /\ Droid!Tells(<<IF Len(engine.queue) = 1 THEN Droid!Frame("discarded", engine.queue[1])
                              ELSE Droid!Frame("discarded_all", Droid!Wake)>> \o ended)
          \/ f.type = "close" /\ Droid!Tells(<<Droid!Frame("closed", Droid!Wake)>>) /\ engine' = engine
      BY DEF Droid!EngineTakes, f, ended
    <2>2. QED
      BY <1>6, <1>7, <1>8, <1>9, <1>11, <1>12, <1>13, <2>1

\* The prompts keep their places, and their notices keep their order.
LEMMA TurnStep ==
  ASSUME CancelInv, TurnsInv, Droid!Next
  PROVE  TurnsInv'
  <1>0. TurnTypes /\ droid \in NativeRecord /\ droid' \in NativeRecord /\ droid.phase # "stopped"
    BY CancelStep DEF TurnsInv, CancelInv, Droid!Next, Droid!Running
  <1>1. ASSUME Droid!LoadSession PROVE TurnsInv'
    <2>1. /\ engine' = engine /\ toRelay' = toRelay /\ typed' = typed /\ overtaken' = overtaken
          /\ toDaemon' = toDaemon
      BY <1>1 DEF Droid!LoadSession, Droid!engineVars, Droid!Send
    <2>2. /\ droid'.startedTurns \subseteq droid.startedTurns
          /\ droid'.phase # "stopped" => droid'.humanTurns = droid.humanTurns
      BY <1>1, <1>0 DEF Droid!LoadSession, NativeRecord
    <2>3. QED
      BY <1>0, <2>1, <2>2, QuietStep
  <1>2. ASSUME Droid!sessionReady PROVE TurnsInv'
    <2>1. /\ engine' = engine /\ toRelay' = toRelay /\ typed' = typed /\ overtaken' = overtaken
          /\ toDaemon' = toDaemon
      BY <1>2 DEF Droid!sessionReady, Droid!engineVars, Droid!Send
    <2>2. /\ droid'.startedTurns \subseteq droid.startedTurns
          /\ droid'.phase # "stopped" => droid'.humanTurns = droid.humanTurns
      BY <1>2, <1>0 DEF Droid!sessionReady, NativeRecord
    <2>3. QED
      BY <1>0, <2>1, <2>2, QuietStep
  <1>3. ASSUME Droid!StartFails PROVE TurnsInv'
    <2>1. /\ engine' = engine /\ toRelay' = toRelay /\ typed' = typed /\ overtaken' = overtaken
          /\ toDaemon' = toDaemon
      BY <1>3 DEF Droid!StartFails, Droid!engineVars, Droid!Send
    <2>2. /\ droid'.startedTurns \subseteq droid.startedTurns
          /\ droid'.phase # "stopped" => droid'.humanTurns = droid.humanTurns
      BY <1>3, <1>0 DEF Droid!StartFails, NativeRecord, Droid!close
    <2>3. QED
      BY <1>0, <2>1, <2>2, QuietStep
  <1>4. ASSUME Droid!fromDaemon PROVE TurnsInv'
    <2>1. TurnTypes /\ toRelay # <<>> /\ toRelay' = Tail(toRelay) /\ engine' = engine /\ toDaemon' = toDaemon /\ typed' = typed
      BY <1>4 DEF TurnsInv, Droid!fromDaemon, Droid!engineVars
    <2>2. toRelay' \in Seq(Droid!Notices)
      BY <2>1, OccursInTail DEF TurnTypes
    <2>3. \A h \in Humans : HumanInv(h)'
      BY <1>4, <1>0, <2>1, NoticeMove DEF TurnsInv
    <2>4. QED
      BY <1>0, <2>1, <2>2, <2>3 DEF TurnsInv, TurnTypes, OuterRuns
  <1>5. ASSUME NEW r \in Humans, Droid!add_user_message(r) PROVE TurnsInv'
    BY <1>5, <1>0, Typed
  <1>6. ASSUME NEW r \in Droid!Requests, Droid!resolve_queued_user_message(r) PROVE TurnsInv'
    <2>1. /\ engine' = engine /\ toRelay' = toRelay /\ typed' = typed /\ overtaken' = overtaken
          /\ toDaemon' = Append(toDaemon, Droid!Frame("delete", r))
      BY <1>6 DEF Droid!resolve_queued_user_message, Droid!engineVars, Droid!Send
    <2>2. /\ droid'.startedTurns \subseteq droid.startedTurns
          /\ droid'.phase # "stopped" => droid'.humanTurns = droid.humanTurns
      BY <1>6, <1>0 DEF Droid!resolve_queued_user_message, NativeRecord
    <2>3. Droid!Frame("delete", r) \in Droid!Frames
      BY DEF Droid!Frame, Droid!Frames, Droid!Wake, Droid!Requests
    <2>4. \A h \in Humans : Droid!Frame("delete", r) # Droid!Frame("prompt", h)
      BY FrameEquality
    <2>5. QED
      BY <1>0, <2>1, <2>2, <2>3, <2>4, QuietStep
  <1>7. ASSUME Droid!interrupt_session PROVE TurnsInv'
    <2>1. /\ engine' = engine /\ toRelay' = toRelay /\ typed' = typed /\ overtaken' = overtaken
          /\ toDaemon' = Append(toDaemon, Droid!Frame("interrupt", Droid!Wake))
      BY <1>7 DEF Droid!interrupt_session, Droid!engineVars, Droid!Send
    <2>2. /\ droid'.startedTurns \subseteq droid.startedTurns
          /\ droid'.phase # "stopped" => droid'.humanTurns = droid.humanTurns
      BY <1>7, <1>0 DEF Droid!interrupt_session, NativeRecord
    <2>3. Droid!Frame("interrupt", Droid!Wake) \in Droid!Frames
      BY DEF Droid!Frame, Droid!Frames, Droid!Wake, Droid!Requests
    <2>4. \A h \in Humans : Droid!Frame("interrupt", Droid!Wake) # Droid!Frame("prompt", h)
      BY FrameEquality
    <2>5. QED
      BY <1>0, <2>1, <2>2, <2>3, <2>4, QuietStep
  <1>8. ASSUME Droid!close_session PROVE TurnsInv'
    <2>1. /\ engine' = engine /\ toRelay' = toRelay /\ typed' = typed /\ overtaken' = overtaken
          /\ toDaemon' = Append(toDaemon, Droid!Frame("close", Droid!Wake))
      BY <1>8 DEF Droid!close_session, Droid!engineVars, Droid!Send
    <2>2. /\ droid'.startedTurns \subseteq droid.startedTurns
          /\ droid'.phase # "stopped" => droid'.humanTurns = droid.humanTurns
      BY <1>8, <1>0 DEF Droid!close_session, NativeRecord
    <2>3. Droid!Frame("close", Droid!Wake) \in Droid!Frames
      BY DEF Droid!Frame, Droid!Frames, Droid!Wake, Droid!Requests
    <2>4. \A h \in Humans : Droid!Frame("close", Droid!Wake) # Droid!Frame("prompt", h)
      BY FrameEquality
    <2>5. QED
      BY <1>0, <2>1, <2>2, <2>3, <2>4, QuietStep
  <1>9. ASSUME Droid!PollReads PROVE TurnsInv'
    <2>1. /\ engine' = engine /\ toRelay' = toRelay /\ typed' = typed /\ overtaken' = overtaken
          /\ toDaemon' = toDaemon
      BY <1>9 DEF Droid!PollReads, Droid!engineVars, Droid!Send
    <2>2. /\ droid'.startedTurns \subseteq droid.startedTurns
          /\ droid'.phase # "stopped" => droid'.humanTurns = droid.humanTurns
      BY <1>9, <1>0 DEF Droid!PollReads, NativeRecord
    <2>3. QED
      BY <1>0, <2>1, <2>2, QuietStep
  <1>10. ASSUME Droid!pollOnce PROVE TurnsInv'
    <2>1. /\ engine' = engine /\ toRelay' = toRelay /\ typed' = typed /\ overtaken' = overtaken
          /\ \/ droid' = droid /\ toDaemon' = toDaemon
             \/ droid' = [droid EXCEPT !.wake = TRUE] /\ toDaemon' = Append(toDaemon, Droid!Frame("prompt", Droid!Wake))
      BY <1>10 DEF Droid!pollOnce, Droid!Send
    <2>2. droid'.startedTurns = droid.startedTurns /\ droid'.humanTurns = droid.humanTurns
      BY <1>0, <2>1 DEF NativeRecord
    <2>3. Droid!Frame("prompt", Droid!Wake) \in Droid!Frames
      BY DEF Droid!Frame, Droid!Frames, Droid!Wake, Droid!Requests
    <2>4. \A h \in Humans : Droid!Frame("prompt", Droid!Wake) # Droid!Frame("prompt", h)
      BY FrameEquality, DroidAssumption DEF Droid!Wake
    <2>5. QED
      BY <1>0, <2>1, <2>2, <2>3, <2>4, QuietStep
  <1>11. ASSUME Droid!RetryDelayEnds PROVE TurnsInv'
    <2>1. /\ engine' = engine /\ toRelay' = toRelay /\ typed' = typed /\ overtaken' = overtaken
          /\ toDaemon' = toDaemon
      BY <1>11 DEF Droid!RetryDelayEnds, Droid!engineVars, Droid!Send
    <2>2. /\ droid'.startedTurns \subseteq droid.startedTurns
          /\ droid'.phase # "stopped" => droid'.humanTurns = droid.humanTurns
      BY <1>11, <1>0 DEF Droid!RetryDelayEnds, NativeRecord
    <2>3. QED
      BY <1>0, <2>1, <2>2, QuietStep
  <1>12. ASSUME Droid!EngineTakes PROVE TurnsInv'
    BY <1>12, TakesMove
  <1>13. ASSUME Droid!EngineStarts PROVE TurnsInv'
    BY <1>13, StartsMove
  <1>14. ASSUME Droid!EngineCoalesces PROVE TurnsInv'
    BY <1>14, StartsMove
  <1>15. ASSUME Droid!EngineCompletes PROVE TurnsInv'
    BY <1>15, EndsMove
  <1>16. ASSUME Droid!MailArrives PROVE TurnsInv'
    <2>1. /\ engine' = engine /\ toRelay' = toRelay /\ typed' = typed /\ overtaken' = overtaken
          /\ toDaemon' = toDaemon
      BY <1>16 DEF Droid!MailArrives, Droid!engineVars, Droid!Send
    <2>2. /\ droid'.startedTurns \subseteq droid.startedTurns
          /\ droid'.phase # "stopped" => droid'.humanTurns = droid.humanTurns
      BY <1>16, <1>0 DEF Droid!MailArrives, NativeRecord
    <2>3. QED
      BY <1>0, <2>1, <2>2, QuietStep
  <1>17. ASSUME Droid!AgentReads PROVE TurnsInv'
    <2>1. /\ engine' = engine /\ toRelay' = toRelay /\ typed' = typed /\ overtaken' = overtaken
          /\ toDaemon' = toDaemon
      BY <1>17 DEF Droid!AgentReads, Droid!engineVars, Droid!Send
    <2>2. /\ droid'.startedTurns \subseteq droid.startedTurns
          /\ droid'.phase # "stopped" => droid'.humanTurns = droid.humanTurns
      BY <1>17, <1>0 DEF Droid!AgentReads, NativeRecord
    <2>3. QED
      BY <1>0, <2>1, <2>2, QuietStep
  <1>18. QED
    BY <1>1, <1>2, <1>3, <1>4, <1>5, <1>6, <1>7, <1>8, <1>9, <1>10, <1>11, <1>12, <1>13, <1>14, <1>15, <1>16, <1>17 DEF Droid!Next

\* As long as a prompt that the person typed is on its way to the engine or held by it,
\* the relay counts it among humanTurns and no wake is sent into the person's turn
\* (droid-native-relay.ts); except for one that a batch of discarded ones overtook.  A
\* turn that was coalesced into another is over with it, and a notice in transit never
\* ends a prompt that the engine still holds.
THEOREM HumanTurns == BothSpec => []HumanTurnsTracked
  <1> DEFINE I == CancelInv /\ TurnsInv
  <1>1. Droid!Init => I
    <2> SUFFICES ASSUME Droid!Init PROVE CancelInv /\ TurnsInv
      OBVIOUS
    <2>1. CancelInv
      BY CancelledAtFirst
    <2>2. /\ toDaemon = <<>> /\ toRelay = <<>> /\ typed = {} /\ droid.startedTurns = {}
          /\ engine = [outer |-> Droid!Wake, running |-> {}, queue |-> <<>>]
      BY DEF Droid!Init
    <2>3. engine \in EngineRecord /\ engine.running = {} /\ engine.queue = <<>>
      <3>1. Droid!Wake \in Droid!Requests /\ <<>> \in Seq(Droid!Requests)
        BY DEF Droid!Requests
      <3>2. QED
        BY <2>2, <3>1 DEF EngineRecord
    <2>4. TurnTypes /\ OuterRuns
      BY <2>1, <2>2, <2>3 DEF TurnTypes, OuterRuns, CancelInv
    <2>5. \A x : ~Occurs(<<>>, x) /\ Once(<<>>, x)
      BY FewNotices DEF Once
    <2>6. \A h \in Humans : HumanInv(h)
      BY <2>2, <2>3, <2>5 DEF HumanInv, OnePlace, EndedIsGone, StartIsNews, TypedFirst, Counted, Held, Sent, Queued, Runs, Created
    <2>7. QED
      BY <2>1, <2>4, <2>6 DEF TurnsInv
  <1>2. I /\ [Droid!Next]_(Droid!vars) => I'
    <2>1. ASSUME CancelInv, TurnsInv, Droid!Next PROVE CancelInv' /\ TurnsInv'
      BY <2>1, CancelStep, TurnStep
    <2>2. ASSUME CancelInv, TurnsInv, UNCHANGED Droid!vars PROVE CancelInv' /\ TurnsInv'
      <3>1. CancelInv'
        BY <2>2 DEF CancelInv, MailIsNumbered, PollIsNewer, CancelledStay, WakeIsTracked, NeverAgain, NativeRecord,
                    ControllerRecord, Droid!vars, Droid!engineVars, Droid!mailVars, Droid!pollVars
      <3>2. /\ droid' = droid /\ engine' = engine /\ toRelay' = toRelay /\ toDaemon' = toDaemon
            /\ typed' = typed /\ overtaken' = overtaken
        BY <2>2 DEF Droid!vars, Droid!engineVars
      <3>3. TurnTypes' /\ OuterRuns'
        BY <2>2, <3>2 DEF TurnsInv, TurnTypes, OuterRuns
      <3>4. ASSUME NEW h \in Humans PROVE HumanInv(h)'
        <4>1. HumanInv(h)
          BY <2>2 DEF TurnsInv
        <4>2. Droid!Frame("prompt", h)' = Droid!Frame("prompt", h) /\ Droid!Frame("created", h)' = Droid!Frame("created", h)
          BY DEF Droid!Frame
        <4>3. Sent(h)' = Sent(h) /\ Once(toDaemon, Droid!Frame("prompt", h))'
          BY <3>2, <4>1, <4>2 DEF Sent, Occurs, HumanInv, OnePlace
        <4>4. QED
          BY <2>2, <3>2, <4>1, <4>3, QuietMove DEF TurnsInv
      <3>5. QED
        BY <3>1, <3>3, <3>4 DEF TurnsInv
    <2>3. QED
      BY <2>1, <2>2
  <1>3. I => Droid!HumanTurnsTracked
    <2> SUFFICES ASSUME TurnsInv, droid.phase # "stopped", NEW h \in Droid!Outstanding
                 PROVE  h \in droid.humanTurns \cup overtaken
      BY DEF Droid!HumanTurnsTracked, Droid!Running
    <2>1. TurnTypes /\ h \in Humans
      BY DEF TurnsInv, Droid!Outstanding
    <2>2. Held(h)
      BY <2>1, OutstandingIsHeld
    <2>3. QED
      BY <2>1, <2>2 DEF TurnsInv, HumanInv, Counted
  <1> HIDE DEF I
  <1>4. QED
    BY DroidRuns, <1>1, <1>2, <1>3, PTL DEF HumanTurnsTracked
===============================================================================
