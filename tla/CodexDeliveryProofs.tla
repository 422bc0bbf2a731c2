------------------------- MODULE CodexDeliveryProofs -------------------------
(***************************************************************************)
(* Theorems of CodexDelivery for every number of messages, calls, chats,   *)
(* leases, crashes and evictions, and proofs that TLAPS checks.            *)
(***************************************************************************)
EXTENDS CodexDelivery, TLAPS

-----------------------------------------------------------------------------
(* What the helpers of the model do to the state *)

\* enqueueAck, with or without the trim, adds no token but the given ones.
LEMMA EnqueueAcksBound ==
  ASSUME NEW tokens, EnqueueAcks(tokens)
  PROVE  pendingAcks' \subseteq pendingAcks \cup tokens
  BY DEF EnqueueAcks

\* Leasing rows yields a batch of queued rows.
LEMMA LeasedIsBatch ==
  ASSUME TableTypeOK, NEW ms, ms \subseteq Msgs
  PROVE  /\ Leased(ms) \in Batches
         /\ InBatch(Leased(ms)) \subseteq ms
         /\ Lease(ms) => TableTypeOK'
  BY DEF TableTypeOK, Leased, Batches, InBatch, Lease, LeaseStates

LEMMA LeasableIsQueued ==
  ASSUME NEW scope
  PROVE  Leasable(scope) \subseteq queued
  BY DEF Leasable

\* applyLeasedToQueue stores only rows of the batch, and enqueues acks only for
\* rows of the batch that are confirmed.
LEMMA ApplyLeasedEffect ==
  ASSUME TypeOK, NEW b \in Batches, ApplyLeased(b)
  PROVE  /\ inbox' \in Batches
         /\ oldInbox' = oldInbox /\ migrating' = migrating
         /\ InBatch(inbox') \subseteq InBatch(inbox) \cup InBatch(b)
         /\ pendingAcks' \subseteq pendingAcks \cup {<<m, b[m]>> : m \in confirmed}
         /\ pendingAcks' \subseteq Tokens
<1>1. pendingAcks' \subseteq pendingAcks \cup {<<m, b[m]>> : m \in InBatch(b) \cap confirmed}
  BY EnqueueAcksBound DEF ApplyLeased
<1>2. /\ inbox' \in Batches
      /\ InBatch(inbox') \subseteq InBatch(inbox) \cup InBatch(b)
      /\ oldInbox' = oldInbox /\ migrating' = migrating
  BY DEF ApplyLeased, TypeOK, Batches, InBatch
<1>3. {<<m, b[m]>> : m \in InBatch(b) \cap confirmed} \subseteq Tokens
  BY DEF Batches, InBatch, Tokens
<1> QED
  BY <1>1, <1>2, <1>3 DEF TypeOK

\* removeByIds leaves a batch.
LEMMA RemovedIsBatch ==
  ASSUME NEW b \in Batches, NEW ids
  PROVE  /\ [m \in Msgs |-> IF m \in ids THEN 0 ELSE b[m]] \in Batches
         /\ InBatch([m \in Msgs |-> IF m \in ids THEN 0 ELSE b[m]]) \subseteq InBatch(b)
  BY DEF Batches, InBatch

\* A confirmed id is no longer presented, and no other id becomes presented.
LEMMA MarkConfirmedEffect ==
  ASSUME NEW ids, ids \subseteq Msgs, presentedGen \in [Msgs -> Nat], MarkConfirmed(ids)
  PROVE  /\ presentedGen' \in [Msgs -> Nat]
         /\ presented' = presented \ ids
         /\ confirmed' = confirmed \cup ids
  BY DEF MarkConfirmed, presented

-----------------------------------------------------------------------------
(* Type correctness *)

LEMMA InitTyped == Init => TypeOK
<1> SUFFICES ASSUME Init PROVE TypeOK
  OBVIOUS
<1>1. DSTypeOK /\ TableTypeOK
  BY DEF Init, DSInit, TableInit, DSTypeOK, TableTypeOK, LeaseStates
<1>2. lockQ \in Seq(Calls \cup {Bg})
  BY DEF Init
<1> QED
  BY <1>1, <1>2, CodexAssumption DEF Init, TypeOK, Phases, Batches, EmptyBatch, Tokens

\* The parts of TypeOK that one step may disturb, one line for each module.
LEMMA StepTyped == TypeOK /\ [Next]_vars => TypeOK'
<1> SUFFICES ASSUME TypeOK, [Next]_vars PROVE TypeOK'
  OBVIOUS
<1> USE CodexAssumption DEF TypeOK, DSTypeOK, TableTypeOK, Phases, dsVars, tableVars, memVars,
      storeVars, callVars, faultVars, histVars
<1>1. ASSUME NEW m \in Msgs, Send(m) PROVE TypeOK'
  BY <1>1 DEF Send, Insert
<1>2. ASSUME NEW m \in Msgs, LeaseExpires(m) PROVE TypeOK'
  BY <1>2 DEF LeaseExpires, Expire, LeaseStates
<1>3. ASSUME NEW c \in Calls, NEW h \in Chats, Arrive(c, h) PROVE TypeOK'
  BY <1>3 DEF Arrive, Move, newArrival
<1>4. ASSUME NEW c \in Calls, EnterLock(c) PROVE TypeOK'
  BY <1>4 DEF EnterLock, Move
<1>5. ASSUME NEW c \in Calls, AcquireGeneral(c) PROVE TypeOK'
  BY <1>5 DEF AcquireGeneral, Move
<1>6. ASSUME NEW c \in Calls, AcquireChat(c) PROVE TypeOK'
  <2> DEFINE ms == IF known THEN Leasable(MailOf(hint[c])) ELSE {}
  <2>1. ms \subseteq Msgs
    BY LeasableIsQueued
  <2>2. Leased(ms) \in Batches /\ (Lease(ms) => TableTypeOK')
    BY <2>1, LeasedIsBatch
  <2>3. TableTypeOK'
    BY <1>6, <2>2 DEF AcquireChat
  <2>4. inbox' \in Batches /\ oldInbox' \in Batches /\ migrating' \in BOOLEAN /\ pendingAcks' \subseteq Tokens
    BY <1>6, <2>2, ApplyLeasedEffect DEF AcquireChat
  <2>5. pc' \in [Calls -> Phases] /\ key' \in [Calls -> Chats \cup {NoKey, Unreadable}]
    BY <1>6 DEF AcquireChat, Move
  <2> QED
    BY <1>6, <2>3, <2>4, <2>5 DEF AcquireChat
<1>7. ASSUME NEW c \in Calls, Confirm(c) PROVE TypeOK'
  <2> DEFINE ids == Confirming(c)
  <2>1. ids \subseteq Msgs
    BY DEF Confirming, Confirmable, presented
  <2> HIDE DEF ids
  <2>2. pendingAcks' \subseteq pendingAcks \cup {<<m, inbox[m]>> : m \in {k \in ids : inbox[k] # 0}}
    BY <1>7, EnqueueAcksBound DEF Confirm, ids
  <2>3. pendingAcks' \subseteq Tokens
    BY <2>1, <2>2 DEF Tokens, Batches
  <2>4. inbox' \in Batches
    <3>1. inbox' = [m \in Msgs |-> IF m \in ids THEN 0 ELSE inbox[m]] \/ inbox' = inbox
      BY <1>7 DEF Confirm, ids
    <3>2. [m \in Msgs |-> IF m \in ids THEN 0 ELSE inbox[m]] \in Batches
      BY RemovedIsBatch
    <3> QED
      BY <3>1, <3>2
  <2>5. DSTypeOK'
    <3>1. \/ MarkConfirmed(ids) /\ UNCHANGED <<drawnByCall, drawn, generation>>
          \/ UNCHANGED dsVars
      BY <1>7 DEF Confirm, ids
    <3>2. CASE MarkConfirmed(ids) /\ UNCHANGED <<drawnByCall, drawn, generation>>
      <4>1. presentedGen' \in [Msgs -> Nat] /\ confirmed' = confirmed \cup ids
        BY <3>2, <2>1, MarkConfirmedEffect
      <4> QED
        BY <3>2, <4>1, <2>1
    <3>3. CASE UNCHANGED dsVars
      BY <3>3
    <3> QED
      BY <3>1, <3>2, <3>3
  <2> QED
    BY <1>7, <2>3, <2>4, <2>5 DEF Confirm, Move
<1>8. ASSUME NEW c \in Calls, Flush(c) PROVE TypeOK'
  <2>1. TableTypeOK'
    BY <1>8 DEF Flush, Ack, Honoured, LeaseStates
  <2> QED
    BY <1>8, <2>1 DEF Flush, Move
<1>9. ASSUME NEW c \in Calls, InlinePoll(c) PROVE TypeOK'
  <2> DEFINE ms == IF known THEN Leasable(MailOf(General)) ELSE {}
  <2>1. ms \subseteq Msgs
    BY LeasableIsQueued
  <2>2. Leased(ms) \in Batches /\ (Lease(ms) => TableTypeOK')
    BY <2>1, LeasedIsBatch
  <2>3. TableTypeOK'
    BY <1>9, <2>2 DEF InlinePoll, PollHere
  <2>4. inbox' \in Batches /\ oldInbox' \in Batches /\ migrating' \in BOOLEAN /\ pendingAcks' \subseteq Tokens
    BY <1>9, <2>2, ApplyLeasedEffect DEF InlinePoll, PollHere
  <2> QED
    BY <1>9, <2>3, <2>4 DEF InlinePoll, Move
<1>10. ASSUME NEW c \in Calls, DrawFresh(c) PROVE TypeOK'
  BY <1>10 DEF DrawFresh, Draw, DrawnBy, Fresh, PruneConfirmed, HoldsLock, Move
<1>11. ASSUME NEW c \in Calls, Reply(c) PROVE TypeOK'
  BY <1>11 DEF Reply, Promote, Forget, Move
<1>12. ASSUME NEW c \in Calls, Abort(c) PROVE TypeOK'
  BY <1>12 DEF Abort, Rollback, Forget, Move
<1>13. ASSUME NEW p \in Calls \cup {Bg}, NEW scope, Fetch(p, scope)
       PROVE  TableTypeOK' /\ batch' \in [Calls \cup {Bg} -> Batches] /\ lockQ' \in Seq(Calls \cup {Bg})
  <2> DEFINE ms == IF known THEN Leasable(scope) ELSE {}
  <2>1. ms \subseteq Msgs
    BY LeasableIsQueued
  <2>2. Leased(ms) \in Batches /\ (Lease(ms) => TableTypeOK')
    BY <2>1, LeasedIsBatch
  <2> QED
    BY <1>13, <2>2 DEF Fetch
<1>14. ASSUME NEW p \in Calls \cup {Bg}, Apply(p)
       PROVE  /\ batch' \in [Calls \cup {Bg} -> Batches] /\ lockQ' \in Seq(Calls \cup {Bg})
              /\ pendingAcks' \subseteq Tokens
              /\ inbox' \in Batches /\ oldInbox' \in Batches /\ migrating' \in BOOLEAN
  <2>1. batch[p] \in Batches /\ EmptyBatch \in Batches
    BY DEF Batches, EmptyBatch
  <2>2. inbox' \in Batches /\ oldInbox' \in Batches /\ migrating' \in BOOLEAN /\ pendingAcks' \subseteq Tokens
    BY <1>14, <2>1, ApplyLeasedEffect DEF Apply
  <2> QED
    BY <1>14, <2>1, <2>2 DEF Apply, HoldsLock
<1>15. ASSUME NEW c \in Calls, HookFetch(c) PROVE TypeOK'
  BY <1>15, <1>13 DEF HookFetch, Move
<1>16. ASSUME NEW c \in Calls, HookApply(c) PROVE TypeOK'
  BY <1>16, <1>14 DEF HookApply, Move, Apply
<1>17. ASSUME BgFetch PROVE TypeOK'
  BY <1>17, <1>13 DEF BgFetch
<1>18. ASSUME BgFetchLost PROVE TypeOK'
  BY <1>18, LeasableIsQueued, LeasedIsBatch DEF BgFetchLost
<1>19. ASSUME BgApply PROVE TypeOK'
  BY <1>19, <1>14 DEF BgApply, Apply
<1>20. ASSUME Crash PROVE TypeOK'
  <2>1. DSTypeOK'
    BY <1>20 DEF Crash, DSReset
  <2>2. crashes' = crashes + 1 /\ up' = FALSE
    BY <1>20 DEF Crash
  <2>4. crashes' \in Nat
    BY <2>2
  <2>5. up' \in BOOLEAN
    BY <2>2
  <2>3. /\ batch' \in [Calls \cup {Bg} -> Batches] /\ oldInbox' \in Batches
        /\ lockQ' \in Seq(Calls \cup {Bg}) /\ pc' \in [Calls -> Phases]
    BY <1>20 DEF Crash, Batches, EmptyBatch
  <2> QED
    BY <1>20, <2>1, <2>3, <2>4, <2>5 DEF Crash
<1>21. ASSUME Restart PROVE TypeOK'
  BY <1>21 DEF Restart, ClearLeases, LeaseStates
<1>22. ASSUME Evict PROVE TypeOK'
  <2>1. evictions' = evictions + 1 /\ known' = FALSE
    BY <1>22 DEF Evict
  <2>2. evictions' \in Nat
    BY <2>1
  <2>3. known' \in BOOLEAN
    BY <2>1
  <2> QED
    BY <1>22, <2>2, <2>3 DEF Evict
<1>23. ASSUME Rejoin PROVE TypeOK'
  BY <1>23 DEF Rejoin, ClearLeases, LeaseStates, Batches, EmptyBatch
<1>24. ASSUME Migrate PROVE TypeOK'
  BY <1>24 DEF Migrate, Batches, EmptyBatch
<1>25. CASE UNCHANGED vars
  BY <1>25 DEF vars
<1> QED
  BY <1>1, <1>2, <1>3, <1>4, <1>5, <1>6, <1>7, <1>8, <1>9, <1>10, <1>11, <1>12, <1>15, <1>16,
     <1>17, <1>18, <1>19, <1>20, <1>21, <1>22, <1>23, <1>24, <1>25
  DEF Next, Internal, CallStep

\* Every variable keeps its type, for any number of messages, calls and faults.
THEOREM TypeCorrect == Spec => []TypeOK
<1>1. Init => TypeOK
  BY InitTyped
<1>2. TypeOK /\ [Next]_vars => TypeOK'
  BY StepTyped
<1> QED
  BY <1>1, <1>2, PTL DEF Spec

-----------------------------------------------------------------------------
(* The inductive invariant *)

\* An id gets past the drawn set only through a response that was built, and a
\* token gets on the ack list, and a row acked, only for such an id.
Evidence ==
  /\ presented \subseteq built
  /\ confirmed \subseteq built
  /\ \A t \in pendingAcks : t[1] \in built
  /\ acked \subseteq built

\* The process holds only rows that the broker has.
HoldsQueued ==
  /\ InBatch(inbox) \subseteq queued /\ InBatch(oldInbox) \subseteq queued
  /\ \A p \in Calls \cup {Bg} : InBatch(batch[p]) \subseteq queued
  /\ drawn \subseteq queued /\ built \subseteq queued

\* The barrier of a call is the one taken at request entry.
BarrierAtEntry == arrivalGen = entryGen

IInv == TypeOK /\ Evidence /\ DealtOnce /\ HoldsQueued /\ BarrierAtEntry

LEMMA InitSafe == Init => IInv
<1> SUFFICES ASSUME Init PROVE IInv
  OBVIOUS
<1>1. TypeOK
  BY InitTyped
<1>2. Evidence
  BY DEF Init, DSInit, TableInit, Evidence, presented
<1>3. DealtOnce
  BY DEF Init, DSInit, DealtOnce, DrawnBy, presented
<1>4. HoldsQueued
  BY DEF Init, DSInit, TableInit, HoldsQueued, InBatch, EmptyBatch
<1>5. BarrierAtEntry
  BY DEF Init, BarrierAtEntry
<1> QED
  BY <1>1, <1>2, <1>3, <1>4, <1>5 DEF IInv

LEMMA StepKeepsBarrier == IInv /\ [Next]_vars => BarrierAtEntry'
<1> SUFFICES ASSUME IInv, [Next]_vars PROVE BarrierAtEntry'
  OBVIOUS
<1> USE DEF IInv, BarrierAtEntry
<1>1. ASSUME NEW c \in Calls, NEW h \in Chats, Arrive(c, h) PROVE BarrierAtEntry'
  BY <1>1 DEF Arrive, newArrival
<1>2. ASSUME NEW c \in Calls, DrawFresh(c) PROVE BarrierAtEntry'
  BY <1>2 DEF DrawFresh
<1>3. ASSUME Crash PROVE BarrierAtEntry'
  BY <1>3 DEF Crash
<1>4. ASSUME NEW c \in Calls,
             \/ HookFetch(c) \/ EnterLock(c) \/ HookApply(c) \/ AcquireGeneral(c) \/ AcquireChat(c)
             \/ Confirm(c) \/ Flush(c) \/ InlinePoll(c) \/ Abort(c) \/ Reply(c)
      PROVE  BarrierAtEntry'
  BY <1>4 DEF HookFetch, EnterLock, HookApply, Apply, AcquireGeneral, AcquireChat, Confirm, Flush,
     InlinePoll, Abort, Reply, histVars, memVars
<1>5. ASSUME NEW m \in Msgs, Send(m) \/ LeaseExpires(m) PROVE BarrierAtEntry'
  BY <1>5 DEF Send, LeaseExpires, histVars, memVars
<1>6. CASE BgFetch \/ BgFetchLost \/ BgApply \/ Restart \/ Evict \/ Rejoin \/ Migrate
  BY <1>6 DEF BgFetch, BgFetchLost, BgApply, Apply, Restart, Evict, Rejoin, Migrate, histVars, memVars
<1>7. CASE UNCHANGED vars
  BY <1>7 DEF vars, histVars, memVars
<1> QED
  BY <1>1, <1>2, <1>3, <1>4, <1>5, <1>6, <1>7 DEF Next, Internal, CallStep

LEMMA StepKeepsEvidence == IInv /\ [Next]_vars => Evidence'
<1> SUFFICES ASSUME IInv, [Next]_vars PROVE Evidence'
  OBVIOUS
<1> USE DEF IInv
<1>1. ASSUME UNCHANGED <<presentedGen, confirmed, pendingAcks, acked, built>> PROVE Evidence'
  BY <1>1 DEF Evidence, presented
<1>2. ASSUME NEW b \in Batches, ApplyLeased(b), UNCHANGED <<presentedGen, confirmed, acked, built>>
      PROVE  Evidence'
  <2>1. pendingAcks' \subseteq pendingAcks \cup {<<m, b[m]>> : m \in confirmed}
    BY <1>2, ApplyLeasedEffect
  <2>2. \A t \in pendingAcks' : t[1] \in built
    BY <2>1 DEF Evidence
  <2> QED
    BY <1>2, <2>2 DEF Evidence, presented
<1>3. ASSUME NEW c \in Calls, AcquireChat(c) PROVE Evidence'
  <2> DEFINE ms == IF known THEN Leasable(MailOf(hint[c])) ELSE {}
  <2>1. Leased(ms) \in Batches
    BY LeasableIsQueued, LeasedIsBatch DEF TypeOK, TableTypeOK
  <2>2. UNCHANGED <<presentedGen, confirmed, acked, built>>
    BY <1>3 DEF AcquireChat, Lease, dsVars, tableVars, histVars
  <2>3. UNCHANGED pendingAcks \/ ApplyLeased(Leased(ms))
    BY <1>3 DEF AcquireChat
  <2> QED
    BY <1>1, <1>2, <2>1, <2>2, <2>3
<1>4. ASSUME NEW c \in Calls, InlinePoll(c) PROVE Evidence'
  <2> DEFINE ms == IF known THEN Leasable(MailOf(General)) ELSE {}
  <2>1. Leased(ms) \in Batches
    BY LeasableIsQueued, LeasedIsBatch DEF TypeOK, TableTypeOK
  <2>2. UNCHANGED <<presentedGen, confirmed, acked, built>>
    BY <1>4 DEF InlinePoll, PollHere, Lease, dsVars, tableVars, histVars
  <2>3. UNCHANGED pendingAcks \/ ApplyLeased(Leased(ms))
    BY <1>4 DEF InlinePoll, PollHere
  <2> QED
    BY <1>1, <1>2, <2>1, <2>2, <2>3
<1>5. ASSUME NEW p \in Calls \cup {Bg}, Apply(p), UNCHANGED <<presentedGen, confirmed, built>>
      PROVE  Evidence'
  <2>1. batch[p] \in Batches
    BY DEF TypeOK
  <2> QED
    BY <1>5, <1>2, <2>1 DEF Apply, tableVars
<1>6. ASSUME NEW c \in Calls, HookApply(c) PROVE Evidence'
  BY <1>6, <1>5 DEF HookApply, dsVars, histVars
<1>7. CASE BgApply
  BY <1>7, <1>5 DEF BgApply, dsVars, histVars
<1>8. ASSUME NEW c \in Calls, Confirm(c) PROVE Evidence'
  <2> DEFINE ids == Confirming(c)
  <2>1. ids \subseteq presented
    BY DEF Confirming, Confirmable
  <2>2. UNCHANGED <<acked, built>>
    BY <1>8 DEF Confirm, tableVars, histVars
  <2>3. CASE UNCHANGED <<pendingAcks, dsVars>>
    BY <2>2, <2>3, <1>1 DEF dsVars
  <2>4. CASE /\ EnqueueAcks({<<m, inbox[m]>> : m \in {k \in ids : inbox[k] # 0}})
             /\ MarkConfirmed(ids)
    <3> HIDE DEF ids
    <3>1. pendingAcks' \subseteq pendingAcks \cup {<<m, inbox[m]>> : m \in {k \in ids : inbox[k] # 0}}
      BY <2>4, EnqueueAcksBound
    <3>2. \A t \in pendingAcks' : t[1] \in built
      BY <2>1, <3>1 DEF Evidence
    <3>3. ids \subseteq Msgs
      BY <2>1 DEF presented
    <3>4. presented' = presented \ ids /\ confirmed' = confirmed \cup ids
      BY <2>4, <3>3, MarkConfirmedEffect DEF TypeOK, DSTypeOK
    <3> QED
      BY <2>1, <2>2, <3>2, <3>4 DEF Evidence
  <2> QED
    BY <1>8, <2>3, <2>4 DEF Confirm
<1>9. ASSUME NEW c \in Calls, Flush(c) PROVE Evidence'
  <2>1. UNCHANGED <<presentedGen, confirmed, built>> /\ pendingAcks' \subseteq pendingAcks
    BY <1>9 DEF Flush, dsVars, histVars
  <2>2. acked' \subseteq acked \cup {t[1] : t \in pendingAcks}
    <3>1. \A m \in Msgs : Honoured(m, pendingAcks) => m \in {t[1] : t \in pendingAcks}
      BY DEF Honoured
    <3>2. acked' = acked \/ Ack(pendingAcks)
      BY <1>9 DEF Flush, tableVars
    <3> QED
      BY <3>1, <3>2 DEF Ack
  <2> QED
    BY <2>1, <2>2 DEF Evidence, presented
<1>10. ASSUME NEW c \in Calls, DrawFresh(c) PROVE Evidence'
  BY <1>10 DEF DrawFresh, PruneConfirmed, Evidence, presented, tableVars
<1>11. ASSUME NEW c \in Calls, Reply(c) PROVE Evidence'
  <2>1. UNCHANGED <<confirmed, pendingAcks, acked>> /\ built' = built \cup drawnByCall[c]
    BY <1>11 DEF Reply, Promote, tableVars, memVars
  <2>2. presented' \subseteq presented \cup drawnByCall[c]
    BY <1>11 DEF Reply, Promote, presented
  <2> QED
    BY <2>1, <2>2 DEF Evidence
<1>12. ASSUME NEW c \in Calls,
              \/ HookFetch(c) \/ EnterLock(c) \/ AcquireGeneral(c) \/ Abort(c)
              \/ \E h \in Chats : Arrive(c, h)
       PROVE  UNCHANGED <<presentedGen, confirmed, pendingAcks, acked, built>>
  BY <1>12 DEF HookFetch, Fetch, Lease, EnterLock, AcquireGeneral, Abort, Rollback, Arrive, dsVars, tableVars,
     memVars, histVars
<1>13. ASSUME NEW m \in Msgs, Send(m) \/ LeaseExpires(m)
       PROVE  UNCHANGED <<presentedGen, confirmed, pendingAcks, acked, built>>
  BY <1>13 DEF Send, Insert, LeaseExpires, Expire, dsVars, memVars, histVars
<1>14. ASSUME BgFetch \/ BgFetchLost \/ Restart \/ Evict \/ Rejoin \/ Migrate
       PROVE  UNCHANGED <<presentedGen, confirmed, pendingAcks, acked, built>>
  BY <1>14 DEF BgFetch, Fetch, BgFetchLost, Lease, Restart, ClearLeases, Evict, Rejoin, Migrate, dsVars,
     tableVars, memVars, histVars
<1>15. CASE Crash
  BY <1>15 DEF Crash, DSReset, Evidence, presented, tableVars
<1>16. CASE UNCHANGED vars
  BY <1>16, <1>1 DEF vars, dsVars, tableVars, memVars, histVars
<1> QED
  BY <1>1, <1>3, <1>4, <1>6, <1>7, <1>8, <1>9, <1>10, <1>11, <1>12, <1>13, <1>14, <1>15, <1>16
  DEF Next, Internal, CallStep

\* A call that ends takes its draws out of the drawn set, and no others.
LEMMA DrawsLeave ==
  ASSUME DealtOnce, drawn \subseteq Msgs, NEW c \in Calls,
         \A d \in Calls : DrawnBy(d)' = IF d = c THEN {} ELSE DrawnBy(d),
         drawn' = drawn \ DrawnBy(c),
         presented' \subseteq presented \cup DrawnBy(c),
         confirmed' = confirmed
  PROVE  DealtOnce'
<1>1. \A m : m \in drawn <=> \E d \in Calls : m \in DrawnBy(d)
  BY DEF DealtOnce
<1>2. \A m \in DrawnBy(c) : \A d \in Calls : m \in DrawnBy(d) => d = c
  <2>1. DrawnBy(c) \subseteq Msgs
    BY <1>1
  <2> QED
    BY <2>1 DEF DealtOnce
<1>3. \A m : m \in drawn' <=> \E d \in Calls : m \in DrawnBy(d)'
  BY <1>1, <1>2
<1>4. drawn' = UNION {DrawnBy(d)' : d \in Calls}
  BY <1>3
<1>5. \A m \in Msgs : \A d, e \in Calls : m \in DrawnBy(d)' /\ m \in DrawnBy(e)' => d = e
  BY DEF DealtOnce
<1>6. drawn' \cap (presented' \cup confirmed') = {}
  BY DEF DealtOnce
<1> QED
  BY <1>4, <1>5, <1>6 DEF DealtOnce

LEMMA StepKeepsDealtOnce == IInv /\ [Next]_vars => DealtOnce'
<1> SUFFICES ASSUME IInv, [Next]_vars PROVE DealtOnce'
  OBVIOUS
<1> USE DEF IInv
<1>1. ASSUME UNCHANGED dsVars PROVE DealtOnce'
  BY <1>1 DEF dsVars, DealtOnce, DrawnBy, presented
<1>2. ASSUME NEW c \in Calls, Confirm(c) PROVE DealtOnce'
  <2> DEFINE ids == Confirming(c)
  <2>1. ids \subseteq presented /\ ids \subseteq Msgs
    BY DEF Confirming, Confirmable, presented
  <2>2. CASE MarkConfirmed(ids) /\ UNCHANGED <<drawnByCall, drawn, generation>>
    <3> HIDE DEF ids
    <3>1. presented' = presented \ ids /\ confirmed' = confirmed \cup ids
      BY <2>1, <2>2, MarkConfirmedEffect DEF TypeOK, DSTypeOK
    <3> QED
      BY <2>1, <2>2, <3>1 DEF DealtOnce, DrawnBy
  <2> QED
    BY <1>1, <1>2, <2>2 DEF Confirm
<1>3. ASSUME NEW c \in Calls, DrawFresh(c) PROVE DealtOnce'
  <2>1. \A d \in Calls : DrawnBy(d)' = IF d = c THEN DrawnBy(c) \cup Fresh(c) ELSE DrawnBy(d)
    BY <1>3 DEF DrawFresh, Draw, DrawnBy
  <2>2. drawn' = drawn \cup Fresh(c) /\ presented' = presented /\ confirmed' \subseteq confirmed
    BY <1>3 DEF DrawFresh, Draw, PruneConfirmed, presented
  <2>3. Fresh(c) \cap (drawn \cup presented \cup confirmed) = {}
    BY DEF Fresh, IsBlocked
  <2> QED
    BY <2>1, <2>2, <2>3 DEF DealtOnce
<1>4. ASSUME NEW c \in Calls, Forget(c), c \in DOMAIN drawnByCall
      PROVE  \A d \in Calls : DrawnBy(d)' = IF d = c THEN {} ELSE DrawnBy(d)
  BY <1>4 DEF Forget, DrawnBy
<1>5. ASSUME NEW c \in Calls, Reply(c) PROVE DealtOnce'
  <2>1. \A d \in Calls : DrawnBy(d)' = IF d = c THEN {} ELSE DrawnBy(d)
    BY <1>5, <1>4 DEF Reply, Promote
  <2>2. drawn' = drawn \ DrawnBy(c) /\ confirmed' = confirmed
    BY <1>5 DEF Reply, Promote, DrawnBy
  <2>3. presented' \subseteq presented \cup DrawnBy(c)
    BY <1>5 DEF Reply, Promote, presented, DrawnBy
  <2> QED
    BY <2>1, <2>2, <2>3, DrawsLeave DEF TypeOK, DSTypeOK
<1>6. ASSUME NEW c \in Calls, Abort(c) PROVE DealtOnce'
  <2>1. \A d \in Calls : DrawnBy(d)' = IF d = c THEN {} ELSE DrawnBy(d)
    BY <1>6, <1>4 DEF Abort, Rollback
  <2>2. drawn' = drawn \ DrawnBy(c) /\ confirmed' = confirmed /\ presented' = presented
    BY <1>6 DEF Abort, Rollback, DrawnBy, presented
  <2> QED
    BY <2>1, <2>2, DrawsLeave DEF TypeOK, DSTypeOK
<1>7. CASE Crash
  BY <1>7 DEF Crash, DSReset, DealtOnce, DrawnBy, presented
<1>8. ASSUME NEW c \in Calls,
             \/ HookFetch(c) \/ EnterLock(c) \/ HookApply(c) \/ AcquireGeneral(c) \/ AcquireChat(c)
             \/ Flush(c) \/ InlinePoll(c) \/ \E h \in Chats : Arrive(c, h)
      PROVE  UNCHANGED dsVars
  BY <1>8 DEF HookFetch, EnterLock, HookApply, AcquireGeneral, AcquireChat, Flush, InlinePoll, Arrive
<1>9. ASSUME NEW m \in Msgs, Send(m) \/ LeaseExpires(m) PROVE UNCHANGED dsVars
  BY <1>9 DEF Send, LeaseExpires
<1>10. ASSUME BgFetch \/ BgFetchLost \/ BgApply \/ Restart \/ Evict \/ Rejoin \/ Migrate
       PROVE  UNCHANGED dsVars
  BY <1>10 DEF BgFetch, BgFetchLost, BgApply, Restart, Evict, Rejoin, Migrate
<1>11. CASE UNCHANGED vars
  BY <1>11, <1>1 DEF vars
<1> QED
  BY <1>1, <1>2, <1>3, <1>5, <1>6, <1>7, <1>8, <1>9, <1>10, <1>11 DEF Next, Internal, CallStep

LEMMA StepKeepsHeld == IInv /\ [Next]_vars => HoldsQueued'
<1> SUFFICES ASSUME IInv, [Next]_vars PROVE HoldsQueued'
  OBVIOUS
<1> USE DEF IInv
<1> DEFINE heldVars == <<queued, inbox, oldInbox, batch, drawn, built>>
<1>1. ASSUME UNCHANGED heldVars PROVE HoldsQueued'
  BY <1>1 DEF HoldsQueued, InBatch
<1>2. ASSUME NEW b \in Batches, ApplyLeased(b), InBatch(b) \subseteq queued,
             UNCHANGED <<queued, batch, drawn, built>>
      PROVE  HoldsQueued'
  <2>1. /\ InBatch(inbox') \subseteq InBatch(inbox) \cup InBatch(b)
        /\ oldInbox' = oldInbox
    BY <1>2, ApplyLeasedEffect
  <2>2. InBatch(inbox)' = InBatch(inbox') /\ InBatch(oldInbox)' = InBatch(oldInbox)
        /\ \A p \in Calls \cup {Bg} : InBatch(batch[p])' = InBatch(batch[p])
    BY <1>2, <2>1 DEF InBatch
  <2> QED
    BY <1>2, <2>1, <2>2 DEF HoldsQueued
<1>3. ASSUME NEW scope
      PROVE  LET ms == IF known THEN Leasable(scope) ELSE {}
             IN Leased(ms) \in Batches /\ InBatch(Leased(ms)) \subseteq queued
  BY LeasableIsQueued, LeasedIsBatch DEF TypeOK, TableTypeOK
<1>4. ASSUME NEW c \in Calls, AcquireChat(c) PROVE HoldsQueued'
  <2>1. UNCHANGED <<queued, batch, drawn, built>>
    BY <1>4 DEF AcquireChat, Lease, dsVars, tableVars, histVars
  <2>2. \/ UNCHANGED storeVars
        \/ ApplyLeased(Leased(IF known THEN Leasable(MailOf(hint[c])) ELSE {}))
    BY <1>4 DEF AcquireChat
  <2> QED
    BY <1>1, <1>2, <1>3, <2>1, <2>2 DEF storeVars
<1>5. ASSUME NEW c \in Calls, InlinePoll(c) PROVE HoldsQueued'
  <2>1. UNCHANGED <<queued, batch, drawn, built>>
    BY <1>5 DEF InlinePoll, PollHere, Lease, dsVars, tableVars, histVars
  <2>2. \/ UNCHANGED storeVars
        \/ ApplyLeased(Leased(IF known THEN Leasable(MailOf(General)) ELSE {}))
    BY <1>5 DEF InlinePoll, PollHere
  <2> QED
    BY <1>1, <1>2, <1>3, <2>1, <2>2 DEF storeVars
<1>6. ASSUME NEW p \in Calls \cup {Bg}, NEW scope, Fetch(p, scope),
             UNCHANGED <<inbox, oldInbox, drawn, built>>
      PROVE  HoldsQueued'
  <2> DEFINE ms == IF known THEN Leasable(scope) ELSE {}
  <2>1. InBatch(Leased(ms)) \subseteq queued
    BY <1>3
  <2> HIDE DEF ms
  <2>2. queued' = queued /\ batch' = [batch EXCEPT ![p] = Leased(ms)]
    BY <1>6 DEF Fetch, Lease, ms
  <2> QED
    BY <1>6, <2>1, <2>2 DEF HoldsQueued, InBatch, TypeOK
<1>7. ASSUME NEW p \in Calls \cup {Bg}, Apply(p), UNCHANGED <<drawn, built>> PROVE HoldsQueued'
  <2>1. batch[p] \in Batches /\ InBatch(batch[p]) \subseteq queued
    BY DEF TypeOK, HoldsQueued
  <2>2. /\ InBatch(inbox') \subseteq InBatch(inbox) \cup InBatch(batch[p])
        /\ oldInbox' = oldInbox
    BY <1>7, <2>1, ApplyLeasedEffect DEF Apply
  <2>3. queued' = queued /\ batch' = [batch EXCEPT ![p] = EmptyBatch]
    BY <1>7 DEF Apply, tableVars
  <2>4. \A q \in Calls \cup {Bg} : InBatch(batch'[q]) \subseteq queued
    BY <2>3 DEF HoldsQueued, TypeOK, InBatch, EmptyBatch
  <2> QED
    BY <1>7, <2>1, <2>2, <2>3, <2>4 DEF HoldsQueued, InBatch
<1>8. ASSUME NEW c \in Calls, HookFetch(c) PROVE HoldsQueued'
  BY <1>8, <1>6 DEF HookFetch, dsVars, storeVars, histVars
<1>9. ASSUME NEW c \in Calls, HookApply(c) PROVE HoldsQueued'
  BY <1>9, <1>7 DEF HookApply, dsVars, histVars
<1>10. CASE BgFetch
  BY <1>10, <1>6 DEF BgFetch, dsVars, storeVars, histVars
<1>11. CASE BgApply
  BY <1>11, <1>7 DEF BgApply, dsVars, histVars
<1>12. ASSUME NEW c \in Calls, Confirm(c) PROVE HoldsQueued'
  <2>1. UNCHANGED <<queued, oldInbox, batch, drawn, built>>
    BY <1>12 DEF Confirm, dsVars, tableVars, histVars
  <2> DEFINE ids == Confirming(c)
  <2>2. inbox' = inbox \/ inbox' = [m \in Msgs |-> IF m \in ids THEN 0 ELSE inbox[m]]
    BY <1>12 DEF Confirm
  <2> HIDE DEF ids
  <2>3. InBatch(inbox') \subseteq InBatch(inbox)
    BY <2>2 DEF InBatch
  <2> QED
    BY <2>1, <2>3 DEF HoldsQueued, InBatch
<1>13. ASSUME NEW c \in Calls, DrawFresh(c) PROVE HoldsQueued'
  <2>1. UNCHANGED <<queued, inbox, oldInbox, batch, built>> /\ drawn' = drawn \cup Fresh(c)
    BY <1>13 DEF DrawFresh, Draw, tableVars, storeVars
  <2>2. Fresh(c) \subseteq InBatch(inbox)
    BY DEF Fresh, InBatch
  <2> QED
    BY <2>1, <2>2 DEF HoldsQueued, InBatch
<1>14. ASSUME NEW c \in Calls, Reply(c) PROVE HoldsQueued'
  <2>1. UNCHANGED <<queued, inbox, oldInbox, batch>>
    BY <1>14 DEF Reply, tableVars, memVars, storeVars
  <2>2. drawnByCall[c] \subseteq drawn
    BY <1>14 DEF Reply, Promote, DealtOnce, DrawnBy
  <2>3. drawn' \subseteq drawn /\ built' = built \cup drawnByCall[c]
    BY <1>14 DEF Reply, Promote
  <2> QED
    BY <2>1, <2>2, <2>3 DEF HoldsQueued, InBatch
<1>15. ASSUME NEW c \in Calls, Abort(c) PROVE HoldsQueued'
  BY <1>15 DEF Abort, Rollback, HoldsQueued, InBatch, tableVars, memVars, storeVars, histVars
<1>16. ASSUME NEW m \in Msgs, Send(m) PROVE HoldsQueued'
  BY <1>16 DEF Send, Insert, HoldsQueued, InBatch, dsVars, memVars, storeVars, histVars
<1>17. CASE Crash
  BY <1>17 DEF Crash, DSReset, HoldsQueued, InBatch, EmptyBatch, tableVars
<1>18. CASE Rejoin
  BY <1>18 DEF Rejoin, ClearLeases, HoldsQueued, InBatch, EmptyBatch, dsVars, memVars, histVars
<1>19. CASE Migrate
  BY <1>19 DEF Migrate, HoldsQueued, InBatch, EmptyBatch, dsVars, tableVars, memVars, histVars
<1>20. ASSUME NEW c \in Calls,
              \/ EnterLock(c) \/ AcquireGeneral(c) \/ Flush(c) \/ \E h \in Chats : Arrive(c, h)
       PROVE  UNCHANGED heldVars
  BY <1>20 DEF EnterLock, AcquireGeneral, Flush, Ack, Arrive, dsVars, tableVars, memVars, storeVars, histVars
<1>21. ASSUME NEW m \in Msgs, LeaseExpires(m) PROVE UNCHANGED heldVars
  BY <1>21 DEF LeaseExpires, Expire, dsVars, memVars, storeVars, histVars
<1>22. ASSUME BgFetchLost \/ Restart \/ Evict PROVE UNCHANGED heldVars
  BY <1>22 DEF BgFetchLost, Lease, Restart, ClearLeases, Evict, dsVars, tableVars, memVars, storeVars, histVars
<1>23. CASE UNCHANGED vars
  BY <1>23, <1>1 DEF vars, dsVars, tableVars, memVars, storeVars, histVars
<1> QED
  BY <1>1, <1>4, <1>5, <1>8, <1>9, <1>10, <1>11, <1>12, <1>13, <1>14, <1>15, <1>16, <1>17, <1>18,
     <1>19, <1>20, <1>21, <1>22, <1>23 DEF Next, Internal, CallStep

\* The invariant holds in every reachable state.
THEOREM Safety == Spec => []IInv
<1>1. Init => IInv
  BY InitSafe
<1>2. IInv /\ [Next]_vars => IInv'
  BY StepTyped, StepKeepsEvidence, StepKeepsDealtOnce, StepKeepsHeld, StepKeepsBarrier DEF IInv
<1> QED
  BY <1>1, <1>2, PTL DEF Spec

-----------------------------------------------------------------------------
(* What the invariant gives *)

\* The broker acks a row only after its message was in a fully built response.
THEOREM AckIsHonest == Spec => []AckedOnlyAfterBuilt
<1>1. IInv => AckedOnlyAfterBuilt
  BY DEF IInv, Evidence, AckedOnlyAfterBuilt
<1> QED
  BY <1>1, Safety, PTL

\* No message is dealt to two calls at a time, or while it is presented or confirmed.
THEOREM NoDoubleDeal == Spec => []DealtOnce
<1>1. IInv => DealtOnce
  BY DEF IInv
<1> QED
  BY <1>1, Safety, PTL

\* A message the model was not offered is blocked only while it is in the
\* response of a call in flight.
THEOREM NothingStranded == Spec => []UnofferedIsDealable
<1>1. IInv => UnofferedIsDealable
  BY DEF IInv, Evidence, DealtOnce, UnofferedIsDealable, IsBlocked
<1> QED
  BY <1>1, Safety, PTL

\* An id enters the confirmed set only by STEP 1a of a call that may confirm it.
LEMMA ConfirmsByStep ==
  ASSUME IInv, [Next]_vars, NEW c \in Calls, NEW m \in Msgs, Confirms(c, m)
  PROVE  Confirm(c) /\ m \in Confirming(c)
<1>1. Confirm(c)
  <2> USE DEF Confirms, IInv, TypeOK, Phases
  <2>1. pc[c] = "confirm" /\ pc'[c] = "flush"
    OBVIOUS
  <2>2. ASSUME NEW d \in Calls, CallStep(d) PROVE Confirm(c)
    BY <2>1, <2>2 DEF CallStep, EnterLock, HookApply, AcquireGeneral, AcquireChat, Confirm, Flush,
       InlinePoll, DrawFresh, Abort, Move
  <2>3. ASSUME NEW d \in Calls, HookFetch(d) \/ Reply(d) \/ \E h \in Chats : Arrive(d, h) PROVE FALSE
    BY <2>1, <2>3 DEF HookFetch, Reply, Arrive, Move
  <2>4. ASSUME NEW k \in Msgs, Send(k) \/ LeaseExpires(k) PROVE FALSE
    BY <2>1, <2>4 DEF Send, LeaseExpires
  <2>5. ASSUME BgFetch \/ BgFetchLost \/ BgApply \/ Crash \/ Restart \/ Evict \/ Rejoin \/ Migrate
        PROVE  FALSE
    BY <2>1, <2>5 DEF BgFetch, BgFetchLost, BgApply, Crash, Restart, Evict, Rejoin, Migrate
  <2>6. CASE UNCHANGED vars
    BY <2>1, <2>6 DEF vars
  <2> QED
    BY <2>2, <2>3, <2>4, <2>5, <2>6 DEF Next, Internal
<1>2. m \in Confirming(c)
  BY <1>1 DEF Confirm, MarkConfirmed, Confirms, dsVars
<1> QED
  BY <1>1, <1>2

\* A call confirms no presentation that was promoted after it came in.
THEOREM ArrivalCausality == Spec => ConfirmsOnlyEarlierResponses
<1> DEFINE Early == \A c \in Calls, m \in Msgs : Confirms(c, m) => presentedGen[m] <= entryGen[c]
<1>1. IInv /\ [Next]_vars => Early
  <2> SUFFICES ASSUME IInv, [Next]_vars, NEW c \in Calls, NEW m \in Msgs, Confirms(c, m)
               PROVE  presentedGen[m] <= entryGen[c]
    OBVIOUS
  <2>1. presentedGen[m] <= arrivalGen[c]
    BY ConfirmsByStep DEF Confirming, Confirmable
  <2> QED
    BY <2>1 DEF IInv, BarrierAtEntry
<1> QED
  BY <1>1, Safety, PTL DEF Spec, ConfirmsOnlyEarlierResponses

-----------------------------------------------------------------------------
(* The unread store, as long as the broker has not evicted the row *)

\* Until it is confirmed, a message that was dealt out stays in the store, so
\* that STEP 1a finds its chat and its token there; then it is gone for good.
UnreadUntilConfirmed ==
  evictions = 0 =>
    /\ known = TRUE /\ migrating = FALSE
    /\ \A m \in drawn \cup presented : inbox[m] # 0
    /\ ConfirmedLeavesInbox

\* In a partitioned profile, STEP 0 gave a call that confirms a mailbox, or no
\* mailbox to read.
KeyAcquired ==
  Partitioned => \A c \in Calls : pc[c] = "confirm" => key[c] \in Chats \cup {Unreadable}

\* applyLeasedToQueue takes no row out of the store and puts no confirmed one in.
LEMMA ApplyLeasedKeeps ==
  ASSUME TypeOK, NEW b \in Batches, ApplyLeased(b), NEW m \in Msgs
  PROVE  /\ inbox[m] # 0 => inbox'[m] # 0
         /\ m \in confirmed => inbox'[m] = inbox[m]
  BY DEF ApplyLeased, InBatch

LEMMA StepKeepsKey == IInv /\ KeyAcquired /\ [Next]_vars => KeyAcquired'
<1> SUFFICES ASSUME IInv, KeyAcquired, [Next]_vars, Partitioned, NEW d \in Calls, pc'[d] = "confirm"
             PROVE  key'[d] \in Chats \cup {Unreadable}
  BY DEF KeyAcquired
<1> USE DEF IInv, TypeOK, Phases
<1>1. ASSUME UNCHANGED <<pc, key>> PROVE key'[d] \in Chats \cup {Unreadable}
  BY <1>1 DEF KeyAcquired
<1>2. ASSUME NEW c \in Calls, AcquireGeneral(c) PROVE key'[d] \in Chats \cup {Unreadable}
  BY <1>2, CodexAssumption DEF AcquireGeneral, Move, KeyAcquired
<1>3. ASSUME NEW c \in Calls, AcquireChat(c) PROVE key'[d] \in Chats \cup {Unreadable}
  BY <1>3 DEF AcquireChat, Move, KeyAcquired
<1>4. ASSUME NEW c \in Calls,
             \/ HookFetch(c) \/ EnterLock(c) \/ HookApply(c) \/ Confirm(c) \/ Flush(c) \/ InlinePoll(c)
             \/ Abort(c) \/ Reply(c) \/ \E h \in Chats : Arrive(c, h)
      PROVE  key'[d] \in Chats \cup {Unreadable}
  BY <1>4 DEF HookFetch, EnterLock, HookApply, Apply, Confirm, Flush, InlinePoll, Abort, Reply, Arrive,
     Move, memVars, KeyAcquired
<1>5. ASSUME NEW c \in Calls, DrawFresh(c) PROVE key'[d] \in Chats \cup {Unreadable}
  BY <1>5 DEF DrawFresh, Move, KeyAcquired
<1>6. CASE Crash
  BY <1>6 DEF Crash
<1>7. ASSUME NEW m \in Msgs, Send(m) \/ LeaseExpires(m) PROVE UNCHANGED <<pc, key>>
  BY <1>7 DEF Send, LeaseExpires, memVars
<1>8. ASSUME BgFetch \/ BgFetchLost \/ BgApply \/ Restart \/ Evict \/ Rejoin \/ Migrate
      PROVE  UNCHANGED <<pc, key>>
  BY <1>8 DEF BgFetch, BgFetchLost, BgApply, Apply, Restart, Evict, Rejoin, Migrate, memVars
<1>9. CASE UNCHANGED vars
  BY <1>9, <1>1 DEF vars, memVars
<1> QED
  BY <1>1, <1>2, <1>3, <1>4, <1>5, <1>6, <1>7, <1>8, <1>9 DEF Next, Internal, CallStep

LEMMA StepKeepsUnread == IInv /\ UnreadUntilConfirmed /\ [Next]_vars => UnreadUntilConfirmed'
<1> SUFFICES ASSUME IInv, UnreadUntilConfirmed, [Next]_vars, evictions' = 0
             PROVE  /\ known' = TRUE /\ migrating' = FALSE
                    /\ \A m \in drawn' \cup presented' : inbox'[m] # 0
                    /\ \A m \in confirmed' : inbox'[m] = 0
  BY DEF UnreadUntilConfirmed, ConfirmedLeavesInbox
<1> DEFINE Stored == /\ \A m \in drawn' \cup presented' : inbox'[m] # 0
                     /\ \A m \in confirmed' : inbox'[m] = 0
<1>1. evictions = 0
  <2>1. evictions' = evictions \/ evictions' = evictions + 1
    BY DEF Next, Internal, CallStep, HookFetch, EnterLock, HookApply, AcquireGeneral, AcquireChat, Confirm,
       Flush, InlinePoll, DrawFresh, Abort, Reply, Arrive, Send, LeaseExpires, BgFetch, BgFetchLost, BgApply,
       Crash, Restart, Evict, Rejoin, Migrate, vars, faultVars
  <2> QED
    BY <2>1 DEF IInv, TypeOK
<1>2. /\ known = TRUE /\ migrating = FALSE
      /\ \A m \in drawn \cup presented : inbox[m] # 0
      /\ \A m \in confirmed : inbox[m] = 0
  BY <1>1 DEF UnreadUntilConfirmed, ConfirmedLeavesInbox
<1>3. inbox \in Batches /\ drawn \subseteq Msgs /\ confirmed \subseteq Msgs /\ presented \subseteq Msgs
  BY DEF IInv, TypeOK, DSTypeOK, presented
<1>4. ~Rejoin /\ ~Migrate /\ ~Evict
  <2>1. ~Rejoin /\ ~Migrate
    BY <1>2 DEF Rejoin, Migrate
  <2>2. ~Evict
    BY <1>1 DEF Evict
  <2> QED
    BY <2>1, <2>2
<1>5. known' = TRUE
  BY <1>2, <1>4 DEF Next, Internal, CallStep, HookFetch, EnterLock, HookApply, AcquireGeneral, AcquireChat,
     Confirm, Flush, InlinePoll, DrawFresh, Abort, Reply, Arrive, Send, LeaseExpires, BgFetch, BgFetchLost,
     BgApply, Crash, Restart, vars, faultVars
<1>6. migrating' = FALSE
  BY <1>2, <1>4 DEF Next, Internal, CallStep, HookFetch, EnterLock, HookApply, AcquireGeneral, AcquireChat,
     Confirm, Flush, InlinePoll, DrawFresh, Abort, Reply, Arrive, Send, LeaseExpires, BgFetch, BgFetchLost,
     BgApply, Crash, Restart, vars, storeVars, PollHere, ApplyLeased, Apply
<1>7. ASSUME UNCHANGED <<inbox, drawn, presentedGen, confirmed>> PROVE Stored
  BY <1>2, <1>7 DEF presented
<1>8. ASSUME NEW b \in Batches, ApplyLeased(b), UNCHANGED dsVars PROVE Stored
  <2>1. drawn' = drawn /\ presented' = presented /\ confirmed' = confirmed
    BY <1>8 DEF dsVars, presented
  <2>2. \A m \in Msgs : (inbox[m] # 0 => inbox'[m] # 0) /\ (m \in confirmed => inbox'[m] = inbox[m])
    BY <1>8, ApplyLeasedKeeps DEF IInv
  <2> QED
    BY <1>2, <1>3, <2>1, <2>2
<1>9. ASSUME NEW c \in Calls, AcquireChat(c) PROVE Stored
  <2> DEFINE ms == IF known THEN Leasable(MailOf(hint[c])) ELSE {}
  <2>1. Leased(ms) \in Batches
    BY LeasableIsQueued, LeasedIsBatch DEF IInv, TypeOK, TableTypeOK
  <2>2. UNCHANGED dsVars /\ (UNCHANGED storeVars \/ ApplyLeased(Leased(ms)))
    BY <1>9 DEF AcquireChat
  <2> QED
    BY <2>1, <2>2, <1>7, <1>8 DEF dsVars, storeVars
<1>10. ASSUME NEW c \in Calls, InlinePoll(c) PROVE Stored
  <2> DEFINE ms == IF known THEN Leasable(MailOf(General)) ELSE {}
  <2>1. Leased(ms) \in Batches
    BY LeasableIsQueued, LeasedIsBatch DEF IInv, TypeOK, TableTypeOK
  <2>2. UNCHANGED dsVars /\ (UNCHANGED storeVars \/ ApplyLeased(Leased(ms)))
    BY <1>10 DEF InlinePoll, PollHere
  <2> QED
    BY <2>1, <2>2, <1>7, <1>8 DEF dsVars, storeVars
<1>11. ASSUME NEW p \in Calls \cup {Bg}, Apply(p), UNCHANGED dsVars PROVE Stored
  BY <1>11, <1>8 DEF Apply, IInv, TypeOK
<1>12. ASSUME NEW c \in Calls, Confirm(c) PROVE Stored
  <2> DEFINE ids == Confirming(c)
  <2>1. ids \subseteq presented
    BY DEF Confirming, Confirmable
  <2> HIDE DEF ids
  <2>2. CASE UNCHANGED <<inbox, pendingAcks, dsVars>>
    BY <2>2, <1>7 DEF dsVars
  <2>3. CASE /\ inbox' = [m \in Msgs |-> IF m \in ids THEN 0 ELSE inbox[m]]
             /\ MarkConfirmed(ids) /\ drawn' = drawn
    <3>1. presented' = presented \ ids /\ confirmed' = confirmed \cup ids
      BY <2>1, <2>3, <1>3, MarkConfirmedEffect DEF IInv, TypeOK, DSTypeOK
    <3>2. ids \cap drawn = {}
      BY <2>1 DEF IInv, DealtOnce
    <3> QED
      BY <1>2, <1>3, <2>1, <2>3, <3>1, <3>2
  <2> QED
    BY <1>12, <2>2, <2>3 DEF Confirm, ids
<1>13. ASSUME NEW c \in Calls, DrawFresh(c) PROVE Stored
  <2>1. /\ inbox' = inbox /\ drawn' = drawn \cup Fresh(c) /\ presented' = presented
        /\ confirmed' \subseteq confirmed
    BY <1>13 DEF DrawFresh, Draw, PruneConfirmed, presented, storeVars
  <2>2. \A m \in Fresh(c) : inbox[m] # 0
    BY DEF Fresh
  <2> QED
    BY <1>2, <2>1, <2>2
<1>14. ASSUME NEW c \in Calls, Reply(c) PROVE Stored
  <2>1. inbox' = inbox /\ confirmed' = confirmed /\ drawn' \subseteq drawn
    BY <1>14 DEF Reply, Promote, storeVars
  <2>2. presented' \subseteq presented \cup drawnByCall[c]
    BY <1>14 DEF Reply, Promote, presented
  <2>3. drawnByCall[c] \subseteq drawn
    BY <1>14 DEF Reply, Promote, IInv, DealtOnce, DrawnBy
  <2> QED
    BY <1>2, <2>1, <2>2, <2>3
<1>15. ASSUME NEW c \in Calls, Abort(c) PROVE Stored
  <2>1. inbox' = inbox /\ confirmed' = confirmed /\ presented' = presented /\ drawn' \subseteq drawn
    BY <1>15 DEF Abort, Rollback, storeVars, presented
  <2> QED
    BY <1>2, <2>1
<1>16. ASSUME Crash PROVE Stored
  BY <1>16 DEF Crash, DSReset, presented
<1>17. ASSUME NEW c \in Calls, HookApply(c) PROVE Stored
  BY <1>17, <1>11 DEF HookApply
<1>18. ASSUME BgApply PROVE Stored
  BY <1>18, <1>11 DEF BgApply
<1>19. ASSUME NEW c \in Calls,
              \/ HookFetch(c) \/ EnterLock(c) \/ AcquireGeneral(c) \/ Flush(c) \/ \E h \in Chats : Arrive(c, h)
       PROVE  UNCHANGED <<inbox, drawn, presentedGen, confirmed>>
  BY <1>19 DEF HookFetch, EnterLock, AcquireGeneral, Flush, Arrive, dsVars, storeVars
<1>20. ASSUME NEW m \in Msgs, Send(m) \/ LeaseExpires(m) PROVE UNCHANGED <<inbox, drawn, presentedGen, confirmed>>
  BY <1>20 DEF Send, LeaseExpires, dsVars, storeVars
<1>21. ASSUME BgFetch \/ BgFetchLost \/ Restart PROVE UNCHANGED <<inbox, drawn, presentedGen, confirmed>>
  BY <1>21 DEF BgFetch, BgFetchLost, Restart, dsVars, storeVars
<1>22. ASSUME UNCHANGED vars PROVE UNCHANGED <<inbox, drawn, presentedGen, confirmed>>
  BY <1>22 DEF vars, dsVars, storeVars
<1>23. Stored
  BY <1>4, <1>7, <1>9, <1>10, <1>12, <1>13, <1>14, <1>15, <1>16, <1>17, <1>18, <1>19, <1>20, <1>21, <1>22
  DEF Next, Internal, CallStep
<1> QED
  BY <1>5, <1>6, <1>23

LEMMA UnreadSafe == Spec => [](UnreadUntilConfirmed /\ KeyAcquired)
<1>1. Init => UnreadUntilConfirmed /\ KeyAcquired
  <2> SUFFICES ASSUME Init PROVE UnreadUntilConfirmed /\ KeyAcquired
    OBVIOUS
  <2>1. known = TRUE
    BY DEF Init
  <2>2. migrating = FALSE
    BY DEF Init
  <2>3. drawn \cup presented = {} /\ confirmed = {}
    BY DEF Init, DSInit, presented
  <2>4. KeyAcquired
    BY DEF Init, KeyAcquired
  <2> QED
    BY <2>1, <2>2, <2>3, <2>4 DEF UnreadUntilConfirmed, ConfirmedLeavesInbox
<1>2. IInv /\ UnreadUntilConfirmed /\ KeyAcquired /\ [Next]_vars => (UnreadUntilConfirmed /\ KeyAcquired)'
  BY StepKeepsUnread, StepKeepsKey
<1> QED
  BY <1>1, <1>2, Safety, PTL DEF Spec

\* Up to the first eviction of the row, a confirmed message stays out of the
\* unread store, whatever is fetched before the confirm and applied after it.
THEOREM ConfirmedIsRead == Spec => [](evictions = 0 => ConfirmedLeavesInbox)
<1>1. UnreadUntilConfirmed => (evictions = 0 => ConfirmedLeavesInbox)
  BY DEF UnreadUntilConfirmed
<1> QED
  BY <1>1, UnreadSafe, PTL

LEMMA NeverEvicted ==
  ASSUME MaxEvictions = 0
  PROVE  Spec => [](evictions = 0)
<1>1. Init => evictions = 0
  BY DEF Init
<1>2. IInv /\ evictions = 0 /\ [Next]_vars => evictions' = 0
  <2>1. evictions = 0 => ~Evict
    BY DEF Evict
  <2> QED
    BY <2>1 DEF Next, Internal, CallStep, HookFetch, EnterLock, HookApply, AcquireGeneral, AcquireChat, Confirm,
       Flush, InlinePoll, DrawFresh, Abort, Reply, Arrive, Send, LeaseExpires, BgFetch, BgFetchLost, BgApply,
       Crash, Restart, Rejoin, Migrate, vars, faultVars
<1>3. (evictions = 0)' <=> evictions' = 0
  OBVIOUS
<1> QED
  BY <1>1, <1>2, <1>3, Safety, PTL DEF Spec

\* While the broker keeps the row, a call that reads a mailbox confirms mail of
\* that mailbox only: after an eviction the store of the new identity is empty
\* until it is migrated, and a mailbox that is not found there counts as general.
THEOREM OwnChat ==
  ASSUME MaxEvictions = 0
  PROVE  Spec => ConfirmsOwnChat
<1> DEFINE Own == \A c \in Calls, m \in Msgs :
                    Confirms(c, m) /\ key[c] # Unreadable /\ Partitioned => ChatOf[m] = key[c]
<1>1. IInv /\ UnreadUntilConfirmed /\ KeyAcquired /\ evictions = 0 /\ [Next]_vars => Own
  <2> SUFFICES ASSUME IInv, UnreadUntilConfirmed, KeyAcquired, evictions = 0, [Next]_vars,
                      NEW c \in Calls, NEW m \in Msgs, Confirms(c, m), key[c] # Unreadable, Partitioned
               PROVE  ChatOf[m] = key[c]
    OBVIOUS
  <2>1. m \in Confirming(c)
    BY ConfirmsByStep
  <2>2. key[c] \in Chats
    BY DEF KeyAcquired, Confirms
  <2>3. inbox[m] # 0
    BY <2>1 DEF Confirming, Confirmable, UnreadUntilConfirmed
  <2> QED
    BY <2>1, <2>2, <2>3 DEF Confirming
<1> QED
  BY <1>1, Safety, UnreadSafe, NeverEvicted, PTL DEF Spec, ConfirmsOwnChat

-----------------------------------------------------------------------------
(* What a process remembers *)

\* The ids in play are no further apart than SEEN_WATERMARK_SLACK, so that none
\* is forgotten.
SlackCovers == \A k, m \in Msgs : k <= m + Slack

\* Within one process a confirmed message is not dealt again, evictions and
\* rejoins of its row included.
THEOREM ConfirmedForGood ==
  ASSUME SlackCovers
  PROVE  Spec => ConfirmedStaysConfirmed
<1> DEFINE Kept == \A m \in confirmed : up' => m \in confirmed' /\ m \notin drawn'
<1>1. IInv /\ IInv' /\ [Next]_vars => Kept
  <2> SUFFICES ASSUME IInv, IInv', [Next]_vars, NEW m \in confirmed, up' PROVE m \in confirmed' /\ m \notin drawn'
    OBVIOUS
  <2>1. ASSUME NEW c \in Calls, Confirm(c) PROVE m \in confirmed'
    BY <2>1 DEF Confirm, MarkConfirmed, dsVars
  <2>2. ASSUME NEW c \in Calls, DrawFresh(c) PROVE m \in confirmed'
    <3>1. confirmed \subseteq Msgs
      BY DEF IInv, TypeOK, DSTypeOK
    <3>2. ~ \E top \in confirmed : m + Slack < top
      BY <3>1, MsgsAssumption, CodexAssumption DEF SlackCovers
    <3> QED
      BY <2>2, <3>2 DEF DrawFresh, PruneConfirmed
  <2>3. ASSUME NEW c \in Calls,
               \/ HookFetch(c) \/ EnterLock(c) \/ HookApply(c) \/ AcquireGeneral(c) \/ AcquireChat(c)
               \/ Flush(c) \/ InlinePoll(c) \/ Abort(c) \/ Reply(c) \/ \E h \in Chats : Arrive(c, h)
        PROVE  confirmed' = confirmed
    BY <2>3 DEF HookFetch, EnterLock, HookApply, AcquireGeneral, AcquireChat, Flush, InlinePoll, Abort, Rollback,
       Reply, Promote, Arrive, dsVars
  <2>4. ASSUME NEW k \in Msgs, Send(k) \/ LeaseExpires(k) PROVE confirmed' = confirmed
    BY <2>4 DEF Send, LeaseExpires, dsVars
  <2>5. ASSUME BgFetch \/ BgFetchLost \/ BgApply \/ Restart \/ Evict \/ Rejoin \/ Migrate
        PROVE  confirmed' = confirmed
    BY <2>5 DEF BgFetch, BgFetchLost, BgApply, Restart, Evict, Rejoin, Migrate, dsVars
  <2>6. ~Crash
    BY DEF Crash
  <2>7. CASE UNCHANGED vars
    BY <2>7 DEF vars, dsVars, IInv, DealtOnce
  <2>8. m \in confirmed'
    BY <2>1, <2>2, <2>3, <2>4, <2>5, <2>6, <2>7 DEF Next, Internal, CallStep
  <2> QED
    BY <2>8 DEF IInv, DealtOnce
<1> QED
  BY <1>1, Safety, PTL DEF Spec, ConfirmedStaysConfirmed

-----------------------------------------------------------------------------
(* Refinement *)

LEMMA InitRefines == Init => C!Init
  BY DEF Init, DSInit, TableInit, C!Init

LEMMA StepRefines == IInv /\ IInv' /\ [Next]_vars => [C!Next]_C!custodyVars
<1> SUFFICES ASSUME IInv, IInv', [Next]_vars PROVE [C!Next]_C!custodyVars
  OBVIOUS
<1> USE DEF C!custodyVars
<1>1. ASSUME NEW m \in Msgs, Send(m) PROVE C!Accept(m)
  BY <1>1 DEF Send, Insert, histVars, C!Accept
<1>2. ASSUME NEW c \in Calls, Reply(c) PROVE C!Offer(drawnByCall[c])
  <2>1. drawnByCall[c] \subseteq queued
    BY <1>2 DEF Reply, Promote, IInv, DealtOnce, DrawnBy, HoldsQueued
  <2> QED
    BY <1>2, <2>1 DEF Reply, tableVars, C!Offer
<1>3. ASSUME NEW c \in Calls, Flush(c) PROVE C!Close(acked')
  <2>1. UNCHANGED <<queued, built>> /\ acked \subseteq acked'
    BY <1>3 DEF Flush, Ack, tableVars, histVars
  <2> QED
    BY <2>1 DEF IInv, Evidence, C!Close
<1>4. ASSUME NEW c \in Calls,
             \/ HookFetch(c) \/ EnterLock(c) \/ HookApply(c) \/ AcquireGeneral(c) \/ AcquireChat(c)
             \/ Confirm(c) \/ InlinePoll(c) \/ DrawFresh(c) \/ Abort(c) \/ \E h \in Chats : Arrive(c, h)
      PROVE  UNCHANGED <<queued, built, acked>>
  BY <1>4 DEF HookFetch, Fetch, EnterLock, HookApply, Apply, AcquireGeneral, AcquireChat, Confirm, InlinePoll,
     PollHere, DrawFresh, Abort, Arrive, Lease, tableVars, histVars
<1>5. ASSUME NEW m \in Msgs, LeaseExpires(m) PROVE UNCHANGED <<queued, built, acked>>
  BY <1>5 DEF LeaseExpires, Expire, histVars
<1>6. ASSUME BgFetch \/ BgFetchLost \/ BgApply \/ Crash \/ Restart \/ Evict \/ Rejoin \/ Migrate
      PROVE  UNCHANGED <<queued, built, acked>>
  BY <1>6 DEF BgFetch, Fetch, BgFetchLost, BgApply, Apply, Lease, Crash, Restart, ClearLeases, Evict, Rejoin,
     Migrate, tableVars, histVars
<1>7. CASE UNCHANGED vars
  BY <1>7 DEF vars, tableVars, histVars
<1>8. \A ms \in SUBSET Msgs : C!Offer(ms) \/ C!Close(ms) => C!Next
  BY DEF C!Next
<1>9. acked' \in SUBSET Msgs /\ \A c \in Calls : Reply(c) => drawnByCall[c] \in SUBSET Msgs
  BY DEF IInv, TypeOK, TableTypeOK, DSTypeOK, Reply, Promote
<1> QED
  BY <1>1, <1>2, <1>3, <1>4, <1>5, <1>6, <1>7, <1>8, <1>9 DEF Next, Internal, CallStep, C!Next

\* The process, the broker rows and the faults between them implement custody.
THEOREM Refinement == Spec => KeepsCustody
<1>1. Init => C!Init
  BY InitRefines
<1>2. IInv /\ IInv' /\ [Next]_vars => [C!Next]_C!custodyVars
  BY StepRefines
<1> QED
  BY <1>1, <1>2, Safety, PTL DEF Spec, KeepsCustody, C!Spec
=============================================================================
