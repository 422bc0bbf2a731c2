------------------------- MODULE ClaudeDeliveryProofs -------------------------
(***************************************************************************)
(* Proofs about ClaudeDelivery, for any number of messages, calls, rejoins *)
(* and faults.  Custody holds for a session whose rejoins get new ids; the *)
(* run same_id shows what happens otherwise.                               *)
(***************************************************************************)
EXTENDS ClaudeDelivery, FiniteSetTheorems, WellFoundedInduction, TLAPS

\* A push that is under way has a row.
PushesARow == ppc = "push" => pushing \in Msgs

\* A waker that still has something to announce has not failed too often.
WakerGivesUp == (mode = "socket" => failures < MaxFailures) /\ (mode = "channel" => pending = {})

TypeInv ==
  /\ TypeOK
  /\ store.id \in Ids
  /\ PushesARow
  /\ WakerGivesUp

\* Each inbox object has in memory what its file has, and the two objects have
\* two files.
InboxesInSync ==
  /\ store.id = store.no /\ store.id \in Ids /\ file[store.id] = store.mem
  /\ prev.mem # {} => prev.id \in Ids /\ prev.id < store.id /\ file[prev.id] = prev.mem

\* A message that the session stands for is in a file, or was read.
Kept(m) == m \in read \/ \E i \in Ids : m \in file[i]

PromisesKept == \A m \in acked \cup seen \cup {t[1] : t \in toAck} : Kept(m)

\* A presented message was shown by a full response, at the latest by the one that
\* presented it.
ShownFirst ==
  \A m \in Msgs :
    /\ shownAt[m] <= generation
    /\ presentedGen[m] # 0 => m \in read \/ (shownAt[m] # 0 /\ shownAt[m] <= presentedGen[m])

\* A call has ids in hand only while it removes them.
OnlyConfirming == \A c \in Calls : cpc[c] # "confirm" => ids[c] = {}

\* What a call is about to remove was shown before that call arrived.
CallsAreEvidence ==
  \A c \in Calls : \A m \in ids[c] : m \in read \/ (shownAt[m] # 0 /\ shownAt[m] <= arrival[c])

\* The old inbox is emptied only of what the new one has, or what was read.
CarriedIsSafe == rpc = "drop" => prev.mem \subseteq store.mem \cup read

IInv ==
  /\ TypeInv
  /\ OnlyConfirming
  /\ InboxesInSync
  /\ PromisesKept
  /\ ShownFirst
  /\ CallsAreEvidence
  /\ CarriedIsSafe

-----------------------------------------------------------------------------
(* Lemmas about sets and about the operators of the model *)

LEMMA LeastElement ==
  ASSUME NEW S, S \subseteq Nat, S # {} PROVE \E m \in S : \A k \in S : m <= k
  <1> DEFINE R == {ss \in Nat \X Nat : ss[1] < ss[2]}
  <1>1. IsWellFoundedOn(R, Nat)
    BY NatLessThanWellFounded DEF OpToRel
  <1>2. \A k, m \in Nat : <<k, m>> \in R <=> k < m
    OBVIOUS
  <1> HIDE DEF R
  <1>3. PICK m \in S : \A k \in S : ~(<<k, m>> \in R)
    BY <1>1, WFMin
  <1>4. ASSUME NEW k \in S PROVE m <= k
    <2>1. k \in Nat /\ m \in Nat /\ ~(<<k, m>> \in R)
      BY <1>3
    <2>2. ~(k < m)
      BY <1>2, <2>1
    <2>3. QED
      BY <2>1, <2>2
  <1>5. QED
    BY <1>4

\* The poll takes the rows of a batch one by one, the oldest first.
LEMMA RowIsInBatch ==
  ASSUME InBatch(batch) # {} PROVE Row \in InBatch(batch) /\ Row \in Msgs
  <1>1. InBatch(batch) \subseteq Msgs /\ InBatch(batch) \subseteq Nat
    BY MsgsAssumption DEF InBatch
  <1>2. \E m \in InBatch(batch) : \A k \in InBatch(batch) : m <= k
    BY <1>1, LeastElement
  <1>3. Row \in InBatch(batch)
    BY <1>2, Zenon DEF Row
  <1>4. QED
    BY <1>1, <1>3

\* The table operations keep the types of the table.
LEMMA LeaseType ==
  ASSUME TableTypeOK, NEW ms, Lease(ms) PROVE TableTypeOK'
  BY DEF TableTypeOK, Lease, LeaseStates

LEMMA AckType ==
  ASSUME TableTypeOK, NEW tokens, Ack(tokens) PROVE TableTypeOK'
  BY DEF TableTypeOK, Ack, LeaseStates, Honoured

LEMMA ClearType ==
  ASSUME TableTypeOK, NEW ms, ClearLeases(ms) PROVE TableTypeOK'
  BY DEF TableTypeOK, ClearLeases, LeaseStates

LEMMA FaultType == ASSUME faults \in 0 .. MaxFaults, Fault PROVE faults' \in 0 .. MaxFaults
  BY ClaudeAssumption DEF Fault

\* The operations on an inbox keep the types of the store.
StoreTypeOK == file \in [Ids -> SUBSET Msgs] /\ store \in Inbox /\ prev \in Inbox

LEMMA StoreOpTypes ==
  ASSUME StoreTypeOK, NEW ms \in SUBSET Msgs,
         (Queue(ms) /\ UNCHANGED prev) \/ RemoveCurrent(ms) \/ RemovePrevious(ms)
  PROVE  StoreTypeOK'
  <1>1. CASE Queue(ms) /\ UNCHANGED prev
    BY <1>1 DEF Queue, StoreTypeOK, Inbox
  <1>2. CASE RemoveCurrent(ms)
    BY <1>2 DEF RemoveCurrent, StoreTypeOK, Inbox
  <1>3. CASE RemovePrevious(ms)
    BY <1>3 DEF RemovePrevious, StoreTypeOK, Inbox
  <1>4. QED
    BY <1>1, <1>2, <1>3

LEMMA ReturnsType ==
  ASSUME cpc \in [Calls -> {Idle, "confirm", "check", "build"}], arrival \in [Calls -> Nat],
         known \in [Calls -> SUBSET Msgs], NEW c \in Calls, Returns(c)
  PROVE  /\ cpc' \in [Calls -> {Idle, "confirm", "check", "build"}] /\ arrival' \in [Calls -> Nat]
         /\ known' \in [Calls -> SUBSET Msgs]
  BY DEF Returns

LEMMA RecordType ==
  ASSUME ring \in Seq(Msgs), Len(ring) <= RecentMax, NEW m \in Msgs, Record(m)
  PROVE  ring' \in Seq(Msgs) /\ Len(ring') <= RecentMax
  <1> DEFINE r == Append(ring, m)
  <1>1. r \in Seq(Msgs) /\ Len(r) = Len(ring) + 1 /\ Len(ring) \in Nat
    OBVIOUS
  <1>2. Tail(r) \in Seq(Msgs) /\ Len(Tail(r)) = Len(ring)
    BY <1>1
  <1>3. QED
    BY <1>1, <1>2, ClaudeAssumption DEF Record

-----------------------------------------------------------------------------
(* Types *)

LEMMA InitTypeOK == Init => TypeOK
  <1> SUFFICES ASSUME Init PROVE TypeOK
    OBVIOUS
  <1>1. TableTypeOK
    BY DEF Init, TableInit, TableTypeOK, LeaseStates
  <1>2. QED
    BY <1>1, ClaudeAssumption DEF Init, TypeOK, Inbox, NoInbox, NoNumber, NoMessages, EmptyBatch, Batches, Idle

LEMMA StepTypeOK == TypeInv /\ [Next]_vars => TypeOK'
  <1> SUFFICES ASSUME TypeOK, store.id \in Ids, PushesARow, WakerGivesUp, [Next]_vars PROVE TypeOK'
    BY DEF TypeInv
  <1> USE DEF storeVars, pollVars, wakeVars, dsVars, callVars, histVars, tableVars, Idle
  <1>0. StoreTypeOK /\ TableTypeOK /\ faults \in 0 .. MaxFaults /\ ring \in Seq(Msgs) /\ Len(ring) <= RecentMax
    BY DEF TypeOK, StoreTypeOK
  <1>1. CASE Poll
    <2>1. TableTypeOK'
      BY <1>0, <1>1, LeaseType DEF Poll
    <2>2. Leased(Leasable(Msgs)) \in Batches
      BY <1>0 DEF Leased, Batches, TableTypeOK
    <2>3. batch' \in Batches /\ ppc' \in {Idle, "rows", "push", "flush"} /\ faults' \in 0 .. MaxFaults
      BY <1>0, <1>1, <2>2, FaultType DEF Poll, TypeOK
    <2>4. QED
      BY <1>1, <2>1, <2>3 DEF Poll, TypeOK
  <1>2. CASE SeenRow
    <2>1. Row \in Msgs /\ batch' \in Batches /\ Token(Row) \in Tokens
      BY <1>2, RowIsInBatch DEF SeenRow, TypeOK, Take, Batches, Token, Tokens
    <2>2. QED
      BY <1>2, <2>1 DEF SeenRow, TypeOK, TableTypeOK
  <1>3. CASE StoreRow
    <2>1. Row \in Msgs /\ batch' \in Batches /\ Token(Row) \in Tokens
      BY <1>3, RowIsInBatch DEF StoreRow, TypeOK, Take, Batches, Token, Tokens
    <2>2. StoreTypeOK'
      BY <1>0, <1>3, <2>1, StoreOpTypes DEF StoreRow, StoreTypeOK
    <2>3. /\ ring' \in Seq(Msgs) /\ Len(ring') <= RecentMax /\ faults' \in 0 .. MaxFaults
          /\ seen' \subseteq Msgs /\ toAck' \subseteq Tokens /\ pending' \subseteq Msgs
          /\ pushing' \in Msgs \cup {0} /\ ppc' \in {Idle, "rows", "push", "flush"}
      BY <1>0, <1>3, <2>1, RecordType, FaultType DEF StoreRow, TypeOK
    <2>4. QED
      BY <1>3, <2>1, <2>2, <2>3 DEF StoreRow, TypeOK, StoreTypeOK, TableTypeOK
  <1>4. CASE Push
    <2>1. ring' \in Seq(Msgs) /\ Len(ring') <= RecentMax /\ faults' \in 0 .. MaxFaults
      BY <1>0, <1>4, RecordType, FaultType DEF Push, PushesARow
    <2>2. QED
      BY <1>4, <2>1 DEF Push, TypeOK, TableTypeOK
  <1>5. CASE AckRows
    <2>1. TableTypeOK' /\ faults' \in 0 .. MaxFaults
      BY <1>0, <1>5, AckType, FaultType DEF AckRows, TableTypeOK
    <2>2. QED
      BY <1>5, <2>1 DEF AckRows, TypeOK
  <1>6. CASE Flush
    <2>1. faults' \in 0 .. MaxFaults
      BY <1>0, <1>6, FaultType DEF Flush
    <2>2. pending \subseteq Msgs /\ announced \subseteq Msgs /\ mode \in WakeModes
          /\ failures \in 0 .. MaxFailures /\ Named \subseteq pending
      BY DEF TypeOK, Named
    <2>3. pending' \subseteq Msgs /\ announced' \subseteq Msgs /\ mode' \in WakeModes
      BY <1>6, <2>2 DEF Flush, WakeModes
    <2>4. failures' \in 0 .. MaxFailures
      <3>1. pending # {} => failures + 1 \in 0 .. MaxFailures
        BY <2>2, ClaudeAssumption DEF WakerGivesUp, WakeModes
      <3>2. QED
        BY <1>6, <2>2, <3>1, ClaudeAssumption DEF Flush
    <2>5. QED
      BY <1>6, <2>1, <2>3, <2>4 DEF Flush, TypeOK, TableTypeOK
  <1>7. ASSUME NEW c \in Calls, NEW next \in {Idle, "check"}, Arrive(c, next) PROVE TypeOK'
    <2>1. Confirms \subseteq Msgs /\ DS!newArrival \in Nat /\ store.no \in Ids \cup {0}
      BY DEF Confirms, DS!Confirmable, DS!presented, DS!newArrival, TypeOK, Inbox
    <2>2. QED
      BY <1>7, <2>1 DEF Arrive, TypeOK, TableTypeOK
  <1>8. ASSUME NEW c \in Calls, NEW next \in {Idle, "check"}, Confirm(c, next) PROVE TypeOK'
    <2>1. ids[c] \in SUBSET Msgs
      BY DEF TypeOK
    <2>2. StoreTypeOK' /\ faults' \in 0 .. MaxFaults
      BY <1>0, <1>8, <2>1, StoreOpTypes, FaultType DEF Confirm, StoreTypeOK
    <2>3. presentedGen' \in [Msgs -> Nat] /\ confirmed' \subseteq Msgs /\ generation' \in Nat
      <3>1. presentedGen \in [Msgs -> Nat] /\ confirmed \subseteq Msgs /\ generation \in Nat
        BY DEF TypeOK
      <3>2. CASE DS!MarkConfirmed(ids[c]) /\ UNCHANGED generation
        BY <2>1, <3>1, <3>2 DEF DS!MarkConfirmed
      <3>3. CASE UNCHANGED dsVars
        BY <3>1, <3>3
      <3>4. QED
        BY <1>8, <3>2, <3>3, Zenon DEF Confirm
    <2>4. read' \subseteq Msgs /\ shownAt' \in [Msgs -> Nat]
      <3>1. read \subseteq Msgs /\ shownAt \in [Msgs -> Nat]
        BY DEF TypeOK
      <3>2. {m \in ids[c] : shownAt[m] # 0 /\ shownAt[m] <= arrival[c]} \subseteq Msgs
        BY <2>1
      <3>3. QED
        BY <1>8, <3>1, <3>2 DEF Confirm
    <2>5. /\ cpc' \in [Calls -> {Idle, "confirm", "check", "build"}] /\ arrival' \in [Calls -> Nat]
          /\ known' \in [Calls -> SUBSET Msgs]
      BY <1>8, ReturnsType DEF Confirm, TypeOK
    <2>6. ids' \in [Calls -> SUBSET Msgs] /\ into' \in [Calls -> Ids \cup {0}]
      BY <1>8 DEF Confirm, TypeOK
    <2>7. QED
      BY <1>8, <2>2, <2>3, <2>4, <2>5, <2>6 DEF Confirm, TypeOK, StoreTypeOK, TableTypeOK
  <1>9. ASSUME NEW c \in Calls, Check(c) PROVE TypeOK'
    <2>1. Recent \subseteq Msgs
      BY <1>0 DEF Recent, RingIds
    <2>2. QED
      BY <1>9, <2>1 DEF Check, TypeOK, TableTypeOK
  <1>10. ASSUME NEW c \in Calls, Build(c) PROVE TypeOK'
    <2>1. presentedGen' \in [Msgs -> Nat] /\ confirmed' \subseteq Msgs /\ generation' \in Nat
          /\ shownAt' \in [Msgs -> Nat] /\ faults' \in 0 .. MaxFaults
      <3>1. /\ presentedGen \in [Msgs -> Nat] /\ confirmed \subseteq Msgs /\ generation \in Nat
            /\ shownAt \in [Msgs -> Nat]
        BY DEF TypeOK
      <3>2. CASE UNCHANGED <<presentedGen, confirmed, generation, shownAt>> /\ (UNCHANGED faults \/ Fault)
        BY <1>0, <3>1, <3>2, FaultType
      <3>3. CASE /\ generation' = generation + 1 /\ UNCHANGED <<confirmed, faults>>
                 /\ presentedGen' = [m \in Msgs |-> IF m \in Fresh THEN generation' ELSE presentedGen[m]]
                 /\ shownAt' = [m \in Msgs |-> IF m \in Shown(c) \ read /\ shownAt[m] = 0
                                               THEN generation' ELSE shownAt[m]]
        BY <1>0, <3>1, <3>3
      <3>4. QED
        BY <1>10, <3>2, <3>3, Zenon DEF Build, Aborted
    <2>2. /\ cpc' \in [Calls -> {Idle, "confirm", "check", "build"}] /\ arrival' \in [Calls -> Nat]
          /\ known' \in [Calls -> SUBSET Msgs] /\ recent' \in [Calls -> SUBSET Msgs]
      BY <1>10, ReturnsType DEF Build, TypeOK
    <2>3. QED
      BY <1>10, <2>1, <2>2 DEF Build, TypeOK, TableTypeOK
  <1>11. CASE Rejoin
    <2>1. TableTypeOK'
      BY <1>0, <1>11, ClearType DEF Rejoin
    <2>2. store' \in Inbox
      <3>1. PICK i \in {store.no + 1} \cup (IF SameId THEN {store.id} ELSE {}) :
              store' = [no |-> store.no + 1, id |-> i, mem |-> Loaded(i)]
        BY <1>11 DEF Rejoin
      <3>2. store.no + 1 \in Ids /\ store.id \in Ids /\ file \in [Ids -> SUBSET Msgs]
        BY <1>11 DEF Rejoin, TypeOK
      <3>3. i \in Ids
        BY <3>1, <3>2
      <3>4. QED
        BY <3>1, <3>2, <3>3 DEF Inbox, Loaded
    <2>3. QED
      BY <1>11, <2>1, <2>2 DEF Rejoin, TypeOK
  <1>12. CASE Carry
    <2>1. prev.mem \in SUBSET Msgs
      BY DEF TypeOK, Inbox
    <2>2. StoreTypeOK' /\ faults' \in 0 .. MaxFaults
      BY <1>0, <1>12, <2>1, StoreOpTypes, FaultType DEF Carry, StoreTypeOK
    <2>3. QED
      BY <1>12, <2>2 DEF Carry, TypeOK, StoreTypeOK, TableTypeOK
  <1>13. CASE Drop
    <2>1. prev.mem \in SUBSET Msgs
      BY DEF TypeOK, Inbox
    <2>2. StoreTypeOK' /\ faults' \in 0 .. MaxFaults
      BY <1>0, <1>13, <2>1, StoreOpTypes, FaultType DEF Drop, StoreTypeOK
    <2>3. QED
      BY <1>13, <2>2 DEF Drop, TypeOK, StoreTypeOK, TableTypeOK
  <1>14. CASE Restart
    <2>1. TableTypeOK' /\ faults' \in 0 .. MaxFaults
      BY <1>0, <1>14, ClearType, FaultType DEF Restart
    <2>2. store' \in Inbox /\ prev' \in Inbox
      <3>1. store.no \in Ids \cup {0} /\ store.id \in Ids /\ file[store.id] \in SUBSET Msgs
        BY DEF TypeOK, Inbox
      <3>2. store' = [no |-> store.no, id |-> store.id, mem |-> file[store.id]] /\ prev' = NoInbox
        BY <1>14 DEF Restart, Loaded, TypeOK, Inbox
      <3>3. QED
        BY <3>1, <3>2 DEF Inbox, NoInbox
    <2>3. QED
      BY <1>14, <2>1, <2>2, ClaudeAssumption
         DEF Restart, TypeOK, NoNumber, NoMessages, EmptyBatch, Batches
  <1>15. ASSUME NEW m \in Msgs, Arrives(m) PROVE TypeOK'
    BY <1>15 DEF Arrives, Insert, TypeOK, TableTypeOK
  <1>16. ASSUME NEW m \in Msgs, Lapses(m) PROVE TypeOK'
    BY <1>16 DEF Lapses, Expire, TypeOK, TableTypeOK, LeaseStates
  <1>17. CASE UNCHANGED vars
    BY <1>17 DEF vars, TypeOK, TableTypeOK
  <1>18. QED
    BY <1>1, <1>2, <1>3, <1>4, <1>5, <1>6, <1>7, <1>8, <1>9, <1>10, <1>11, <1>12, <1>13, <1>14, <1>15,
       <1>16, <1>17 DEF Next

\* The parts of the waker and of the push.
LEMMA WakerStep == TypeInv /\ [Next]_vars => PushesARow' /\ WakerGivesUp'
  <1> SUFFICES ASSUME TypeInv, [Next]_vars PROVE PushesARow' /\ WakerGivesUp'
    OBVIOUS
  <1> USE DEF PushesARow, WakerGivesUp, pollVars, wakeVars, Idle
  <1>0. PushesARow /\ WakerGivesUp /\ failures \in Nat /\ mode \in WakeModes
        /\ MaxFailures \in Nat /\ 0 < MaxFailures
    BY ClaudeAssumption DEF TypeInv, TypeOK
  <1>1. ASSUME UNCHANGED <<ppc, pushing, mode, pending, failures>> PROVE PushesARow' /\ WakerGivesUp'
    BY <1>0, <1>1
  <1>2. CASE Poll
    BY <1>0, <1>2 DEF Poll
  <1>3. CASE SeenRow
    BY <1>1, <1>3 DEF SeenRow
  <1>4. CASE StoreRow
    BY <1>0, <1>4, RowIsInBatch DEF StoreRow, WakeModes
  <1>5. CASE Push \/ AckRows
    BY <1>0, <1>5 DEF Push, AckRows
  <1>6. CASE Flush
    <2>1. PushesARow'
      BY <1>6 DEF Flush
    <2>2. CASE pending = {} /\ UNCHANGED <<wakeVars, faults>>
      BY <1>0, <2>1, <2>2
    <2>3. CASE failures' = 0 /\ pending' = pending \ Named /\ UNCHANGED mode
      BY <1>0, <2>1, <2>3
    <2>4. CASE /\ failures' = failures + 1 /\ pending # {}
               /\ IF failures' = MaxFailures THEN mode' = "channel" /\ pending' = {} ELSE UNCHANGED <<mode, pending>>
      BY <1>0, <2>1, <2>4 DEF WakeModes
    <2>5. QED
      BY <1>6, <2>2, <2>3, <2>4 DEF Flush
  <1>7. CASE Restart
    BY <1>0, <1>7 DEF Restart
  <1>8. ASSUME NEW c \in Calls, NEW next \in {Idle, "check"}, Arrive(c, next) \/ Confirm(c, next)
        PROVE  UNCHANGED <<ppc, pushing, mode, pending, failures>>
    BY <1>8 DEF Arrive, Confirm
  <1>9. ASSUME NEW c \in Calls, Check(c) \/ Build(c)
        PROVE  UNCHANGED <<ppc, pushing, mode, pending, failures>>
    BY <1>9 DEF Check, Build
  <1>10. CASE Rejoin \/ Carry \/ Drop
    BY <1>1, <1>10 DEF Rejoin, Carry, Drop
  <1>11. ASSUME NEW m \in Msgs, Arrives(m) \/ Lapses(m)
         PROVE  UNCHANGED <<ppc, pushing, mode, pending, failures>>
    BY <1>11 DEF Arrives, Lapses
  <1>12. CASE UNCHANGED vars
    BY <1>1, <1>12 DEF vars
  <1>13. QED
    BY <1>1, <1>2, <1>3, <1>4, <1>5, <1>6, <1>7, <1>8, <1>9, <1>10, <1>11, <1>12 DEF Next

LEMMA StoreIdStep == TypeInv /\ [Next]_vars => store'.id \in Ids
  <1> SUFFICES ASSUME TypeInv, [Next]_vars PROVE store'.id \in Ids
    OBVIOUS
  <1> USE DEF storeVars
  <1>0. store \in Inbox /\ store.id \in Ids
    BY DEF TypeInv, TypeOK
  <1>1. ASSUME UNCHANGED store PROVE store'.id \in Ids
    BY <1>0, <1>1
  <1>2. ASSUME NEW ms, Queue(ms) \/ RemoveCurrent(ms) \/ RemovePrevious(ms) PROVE store'.id \in Ids
    BY <1>0, <1>2 DEF Queue, RemoveCurrent, RemovePrevious, Inbox
  <1>3. CASE StoreRow
    BY <1>1, <1>2, <1>3 DEF StoreRow
  <1>4. ASSUME NEW c \in Calls, NEW next \in {Idle, "check"}, Arrive(c, next) \/ Confirm(c, next)
        PROVE  store'.id \in Ids
    BY <1>1, <1>2, <1>4 DEF Arrive, Confirm
  <1>5. CASE Rejoin
    <2>1. PICK i \in {store.no + 1} \cup (IF SameId THEN {store.id} ELSE {}) :
            store' = [no |-> store.no + 1, id |-> i, mem |-> Loaded(i)]
      BY <1>5 DEF Rejoin
    <2>2. store.no + 1 \in Ids
      BY <1>5 DEF Rejoin
    <2>3. QED
      BY <1>0, <2>1, <2>2
  <1>6. CASE Carry
    BY <1>1, <1>2, <1>6 DEF Carry
  <1>7. CASE Drop
    BY <1>1, <1>2, <1>7 DEF Drop
  <1>8. CASE Restart
    BY <1>0, <1>8 DEF Restart, Inbox
  <1>9. CASE Poll \/ SeenRow \/ Push \/ AckRows \/ Flush
    BY <1>1, <1>9 DEF Poll, SeenRow, Push, AckRows, Flush
  <1>10. ASSUME NEW c \in Calls, Check(c) \/ Build(c) PROVE UNCHANGED store
    BY <1>10 DEF Check, Build
  <1>11. ASSUME NEW m \in Msgs, Arrives(m) \/ Lapses(m) PROVE UNCHANGED store
    BY <1>11 DEF Arrives, Lapses
  <1>12. CASE UNCHANGED vars
    BY <1>1, <1>12 DEF vars
  <1>13. QED
    BY <1>1, <1>3, <1>4, <1>5, <1>6, <1>7, <1>8, <1>9, <1>10, <1>11, <1>12 DEF Next

LEMMA InitTypeInv == Init => TypeInv
  <1> SUFFICES ASSUME Init PROVE TypeInv
    OBVIOUS
  <1>1. store.id \in Ids /\ PushesARow /\ WakerGivesUp
    BY ClaudeAssumption DEF Init, PushesARow, WakerGivesUp, WakeModes, Idle
  <1>2. QED
    BY <1>1, InitTypeOK DEF TypeInv

LEMMA StepTypeInv == TypeInv /\ [Next]_vars => TypeInv'
  BY StepTypeOK, WakerStep, StoreIdStep DEF TypeInv

\* Types, with what they need: the id of the inbox in use, a push only of a row that
\* was stored, and a session that gave up waking has nothing waiting.
THEOREM TypesHold == Spec => []TypeInv
  <1>1. Init => TypeInv
    BY InitTypeInv
  <1>2. TypeInv /\ [Next]_vars => TypeInv'
    BY StepTypeInv
  <1>3. QED
    BY <1>1, <1>2, PTL DEF Spec

\* Every variable keeps its type.
THEOREM TypeCorrect == Spec => []TypeOK
  <1>1. TypeInv => TypeOK
    BY DEF TypeInv
  <1>2. QED
    BY <1>1, TypesHold, PTL

-----------------------------------------------------------------------------
(* The inboxes *)

\* The files lose no more than ms.
FilesLoseOnly(ms) == \A i \in Ids : file[i] \ ms \subseteq file'[i]

LEMMA TwoFiles ==
  ASSUME InboxesInSync, prev.mem # {}
  PROVE  prev.id \in Ids /\ prev.id # store.id /\ file[prev.id] = prev.mem
  <1>1. prev.id \in Ids /\ store.id \in Ids /\ prev.id < store.id /\ file[prev.id] = prev.mem
    BY DEF InboxesInSync
  <1>2. prev.id \in Nat /\ store.id \in Nat
    BY <1>1, ClaudeAssumption
  <1>3. QED
    BY <1>1, <1>2

LEMMA QueueKeeps ==
  ASSUME StoreTypeOK, InboxesInSync, NEW ms \in SUBSET Msgs, Queue(ms), UNCHANGED prev
  PROVE  /\ InboxesInSync' /\ FilesLoseOnly({})
         /\ store'.mem = store.mem \cup ms /\ store'.id = store.id /\ store'.no = store.no
         /\ ms \subseteq file'[store.id]
  BY ClaudeAssumption DEF StoreTypeOK, InboxesInSync, Queue, Inbox, FilesLoseOnly

LEMMA RemoveCurrentKeeps ==
  ASSUME StoreTypeOK, InboxesInSync, NEW ms \in SUBSET Msgs, RemoveCurrent(ms)
  PROVE  /\ InboxesInSync' /\ FilesLoseOnly(ms)
         /\ store'.mem = store.mem \ ms /\ store'.id = store.id /\ UNCHANGED prev
  <1>1. /\ store'.mem = store.mem \ ms /\ store'.id = store.id /\ store'.no = store.no /\ UNCHANGED prev
    BY DEF RemoveCurrent, StoreTypeOK, Inbox
  <1>2. CASE store.mem \cap ms = {}
    <2>1. file' = file /\ store.mem \ ms = store.mem
      BY <1>2 DEF RemoveCurrent
    <2>2. QED
      BY <1>1, <2>1 DEF InboxesInSync, FilesLoseOnly
  <1>3. CASE store.mem \cap ms # {}
    <2>1. file' = [file EXCEPT ![store.id] = store.mem \ ms]
      BY <1>3 DEF RemoveCurrent
    <2>2. QED
      BY <1>1, <2>1, TwoFiles DEF StoreTypeOK, InboxesInSync, FilesLoseOnly
  <1>4. QED
    BY <1>2, <1>3

LEMMA RemovePreviousKeeps ==
  ASSUME StoreTypeOK, InboxesInSync, NEW ms \in SUBSET Msgs, RemovePrevious(ms)
  PROVE  /\ InboxesInSync' /\ FilesLoseOnly(ms)
         /\ prev'.mem = prev.mem \ ms /\ file'[store.id] = store.mem /\ UNCHANGED store
  <1>1. prev'.mem = prev.mem \ ms /\ prev'.id = prev.id /\ prev'.no = prev.no /\ UNCHANGED store
    BY DEF RemovePrevious, StoreTypeOK, Inbox
  <1>2. CASE prev.mem \cap ms = {}
    <2>1. file' = file /\ prev.mem \ ms = prev.mem
      BY <1>2 DEF RemovePrevious
    <2>2. QED
      BY <1>1, <2>1 DEF InboxesInSync, FilesLoseOnly
  <1>3. CASE prev.mem \cap ms # {}
    <2>1. file' = [file EXCEPT ![prev.id] = prev.mem \ ms]
      BY <1>3 DEF RemovePrevious
    <2>2. prev.id \in Ids /\ prev.id # store.id /\ file[prev.id] = prev.mem
      BY <1>3, TwoFiles
    <2>3. QED
      BY <1>1, <2>1, <2>2 DEF StoreTypeOK, InboxesInSync, FilesLoseOnly
  <1>4. QED
    BY <1>2, <1>3

LEMMA KeptStays ==
  ASSUME NEW ms, FilesLoseOnly(ms), ms \subseteq read', read \subseteq read'
  PROVE  \A m : Kept(m) => Kept(m)'
  BY DEF FilesLoseOnly, Kept

-----------------------------------------------------------------------------
(* The inductive invariant *)

LEMMA InitIInv == Init => IInv
  <1> SUFFICES ASSUME Init PROVE IInv
    OBVIOUS
  <1>1. TypeInv
    BY InitTypeInv
  <1>2. OnlyConfirming
    BY DEF Init, OnlyConfirming, NoMessages
  <1>3. InboxesInSync
    BY ClaudeAssumption DEF Init, InboxesInSync, NoInbox
  <1>4. PromisesKept
    BY DEF Init, TableInit, PromisesKept
  <1>5. ShownFirst /\ CallsAreEvidence /\ CarriedIsSafe
    BY DEF Init, ShownFirst, CallsAreEvidence, CarriedIsSafe, NoNumber, NoMessages
  <1>6. QED
    BY <1>1, <1>2, <1>3, <1>4, <1>5 DEF IInv

\* The parts of custody.
CustodyOK == InboxesInSync /\ PromisesKept /\ ShownFirst /\ CallsAreEvidence /\ CarriedIsSafe

\* A step that writes no inbox, and neither shows nor confirms anything.
LEMMA QuietStep ==
  ASSUME CustodyOK,
         UNCHANGED <<file, store, prev, rpc, presentedGen, generation, ids, arrival, shownAt, read>>,
         acked' \cup seen' \cup {t[1] : t \in toAck'} \subseteq acked \cup seen \cup {t[1] : t \in toAck}
  PROVE  CustodyOK'
  BY DEF CustodyOK, InboxesInSync, PromisesKept, ShownFirst, CallsAreEvidence, CarriedIsSafe, Kept

\* Only tokens of the client close mail.
LEMMA AckFacts ==
  ASSUME NEW tokens, Ack(tokens) PROVE acked' \subseteq acked \cup {t[1] : t \in tokens}
  BY DEF Ack, Honoured

LEMMA ConfirmCustody ==
  ASSUME IInv, NEW c \in Calls, NEW next \in {Idle, "check"}, Confirm(c, next) PROVE CustodyOK'
  <1>0. /\ StoreTypeOK /\ InboxesInSync /\ ids[c] \in SUBSET Msgs /\ generation \in Nat
        /\ shownAt \in [Msgs -> Nat] /\ presentedGen \in [Msgs -> Nat] /\ ids \in [Calls -> SUBSET Msgs]
        /\ arrival \in [Calls -> Nat]
    BY DEF IInv, TypeInv, TypeOK, StoreTypeOK
  <1>1. /\ UNCHANGED <<acked, seen, toAck, rpc, generation>>
        /\ ids' = [ids EXCEPT ![c] = {}]
        /\ \A d \in Calls : d # c => arrival'[d] = arrival[d]
    BY <1>0 DEF Confirm, tableVars, pollVars, Returns, dsVars
  <1>2. CASE UNCHANGED <<storeVars, dsVars, histVars>>
    <2>1. InboxesInSync' /\ PromisesKept' /\ ShownFirst' /\ CarriedIsSafe'
      BY <1>1, <1>2 DEF IInv, InboxesInSync, PromisesKept, ShownFirst, CarriedIsSafe, Kept,
                        storeVars, dsVars, histVars
    <2>2. CallsAreEvidence'
      BY <1>0, <1>1, <1>2 DEF IInv, CallsAreEvidence, histVars
    <2>3. QED
      BY <2>1, <2>2 DEF CustodyOK
  <1> DEFINE now == {m \in ids[c] : shownAt[m] # 0 /\ shownAt[m] <= arrival[c]}
  <1>3. CASE /\ IF into[c] = store.no THEN RemoveCurrent(ids[c]) ELSE RemovePrevious(ids[c])
             /\ presentedGen' = [m \in Msgs |-> IF m \in ids[c] THEN 0 ELSE presentedGen[m]]
             /\ read' = read \cup now
             /\ shownAt' = [m \in Msgs |-> IF m \in now THEN 0 ELSE shownAt[m]]
    <2>1. ids[c] \subseteq read' /\ read \subseteq read'
      BY <1>3 DEF IInv, CallsAreEvidence
    <2>2. InboxesInSync' /\ FilesLoseOnly(ids[c])
      BY <1>0, <1>3, RemoveCurrentKeeps, RemovePreviousKeeps
    <2>3. PromisesKept'
      BY <1>1, <2>1, <2>2, KeptStays DEF IInv, PromisesKept
    <2>4. ShownFirst'
      <3> SUFFICES ASSUME NEW m \in Msgs
                   PROVE  /\ shownAt'[m] <= generation
                          /\ presentedGen'[m] # 0 =>
                               m \in read' \/ (shownAt'[m] # 0 /\ shownAt'[m] <= presentedGen'[m])
        BY <1>1 DEF ShownFirst
      <3>1. CASE m \in now
        BY <1>0, <1>3, <3>1
      <3>2. CASE m \notin now
        <4>1. shownAt'[m] = shownAt[m] /\ (presentedGen'[m] = 0 \/ presentedGen'[m] = presentedGen[m])
          BY <1>3, <3>2
        <4>2. QED
          BY <4>1, <2>1 DEF IInv, ShownFirst
      <3>3. QED
        BY <3>1, <3>2
    <2>5. CallsAreEvidence'
      <3> SUFFICES ASSUME NEW d \in Calls, NEW m \in ids'[d], m \notin read'
                   PROVE  shownAt'[m] # 0 /\ shownAt'[m] <= arrival'[d]
        BY DEF CallsAreEvidence
      <3>1. d # c /\ ids'[d] = ids[d] /\ arrival'[d] = arrival[d]
        BY <1>0, <1>1
      <3>2. m \in Msgs /\ m \notin now /\ m \notin read
        BY <1>0, <1>3, <3>1
      <3>3. QED
        BY <1>3, <3>1, <3>2 DEF IInv, CallsAreEvidence
    <2>6. CarriedIsSafe'
      <3>1. prev'.mem \subseteq prev.mem /\ store.mem \ ids[c] \subseteq store'.mem
        BY <1>0, <1>3, RemoveCurrentKeeps, RemovePreviousKeeps
      <3>2. QED
        BY <1>1, <2>1, <3>1 DEF IInv, CarriedIsSafe
    <2>7. QED
      BY <2>2, <2>3, <2>4, <2>5, <2>6 DEF CustodyOK
  <1>4. QED
    BY <1>2, <1>3 DEF Confirm, DS!MarkConfirmed

LEMMA BuildCustody ==
  ASSUME IInv, NEW c \in Calls, Build(c), ids[c] = {} PROVE CustodyOK'
  <1>0. /\ generation \in Nat /\ shownAt \in [Msgs -> Nat] /\ presentedGen \in [Msgs -> Nat]
        /\ ids \in [Calls -> SUBSET Msgs] /\ arrival \in [Calls -> Nat] /\ CustodyOK
    BY DEF IInv, TypeInv, TypeOK, CustodyOK
  <1>1. /\ UNCHANGED <<storeVars, acked, seen, toAck, rpc, ids, read>>
        /\ \A d \in Calls : d # c => arrival'[d] = arrival[d]
    BY <1>0 DEF Build, Returns, tableVars, pollVars
  <1>2. InboxesInSync' /\ PromisesKept' /\ CarriedIsSafe'
    BY <1>0, <1>1 DEF CustodyOK, InboxesInSync, PromisesKept, CarriedIsSafe, Kept, storeVars
  <1>3. CASE UNCHANGED <<dsVars, shownAt>>
    BY <1>0, <1>1, <1>2, <1>3 DEF CustodyOK, ShownFirst, CallsAreEvidence, dsVars
  <1>4. CASE /\ generation' = generation + 1
             /\ presentedGen' = [m \in Msgs |-> IF m \in Fresh THEN generation' ELSE presentedGen[m]]
             /\ shownAt' = [m \in Msgs |-> IF m \in Shown(c) \ read /\ shownAt[m] = 0
                                           THEN generation' ELSE shownAt[m]]
    <2>1. ShownFirst'
      <3> SUFFICES ASSUME NEW m \in Msgs
                   PROVE  /\ shownAt'[m] <= generation + 1
                          /\ presentedGen'[m] # 0 =>
                               m \in read \/ (shownAt'[m] # 0 /\ shownAt'[m] <= presentedGen'[m])
        BY <1>1, <1>4 DEF ShownFirst
      <3>1. shownAt[m] <= generation /\ shownAt[m] \in Nat /\ presentedGen[m] \in Nat
        BY <1>0 DEF CustodyOK, ShownFirst
      <3>2. CASE m \in Fresh
        BY <1>0, <1>4, <3>1, <3>2 DEF Shown
      <3>3. CASE m \notin Fresh
        <4>1. presentedGen'[m] = presentedGen[m]
          BY <1>4, <3>3
        <4>2. shownAt'[m] <= generation + 1 /\ (m \in read \/ shownAt[m] # 0 => m \in read \/ shownAt'[m] = shownAt[m])
          BY <1>0, <1>4, <3>1
        <4>3. QED
          BY <1>0, <4>1, <4>2 DEF CustodyOK, ShownFirst
      <3>4. QED
        BY <3>2, <3>3
    <2>2. CallsAreEvidence'
      <3> SUFFICES ASSUME NEW d \in Calls, NEW m \in ids[d], m \notin read
                   PROVE  shownAt'[m] # 0 /\ shownAt'[m] <= arrival'[d]
        BY <1>1 DEF CallsAreEvidence
      <3>1. d # c /\ m \in Msgs /\ shownAt[m] # 0 /\ shownAt[m] <= arrival[d]
        BY <1>0 DEF CustodyOK, CallsAreEvidence
      <3>2. QED
        BY <1>1, <1>4, <3>1
    <2>3. QED
      BY <1>2, <2>1, <2>2 DEF CustodyOK
  <1>5. QED
    BY <1>3, <1>4 DEF Build, Aborted

LEMMA CallStep == IInv /\ [Next]_vars => OnlyConfirming'
  <1> SUFFICES ASSUME IInv, [Next]_vars PROVE OnlyConfirming'
    OBVIOUS
  <1> USE DEF OnlyConfirming, callVars, Idle
  <1>0. OnlyConfirming /\ cpc \in [Calls -> {Idle, "confirm", "check", "build"}]
        /\ ids \in [Calls -> SUBSET Msgs]
    BY DEF IInv, TypeInv, TypeOK
  <1>1. ASSUME UNCHANGED <<cpc, ids>> PROVE OnlyConfirming'
    BY <1>0, <1>1
  <1>2. ASSUME NEW c \in Calls, NEW next \in {Idle, "check"}, Arrive(c, next) PROVE OnlyConfirming'
    BY <1>0, <1>2 DEF Arrive
  <1>3. ASSUME NEW c \in Calls, NEW next \in {Idle, "check"}, Confirm(c, next) PROVE OnlyConfirming'
    BY <1>0, <1>3 DEF Confirm, Returns
  <1>4. ASSUME NEW c \in Calls, Check(c) PROVE OnlyConfirming'
    BY <1>0, <1>4 DEF Check
  <1>5. ASSUME NEW c \in Calls, Build(c) PROVE OnlyConfirming'
    BY <1>0, <1>5 DEF Build, Returns
  <1>6. CASE Restart
    BY <1>6 DEF Restart, NoMessages
  <1>7. CASE Poll \/ SeenRow \/ StoreRow \/ Push \/ AckRows \/ Flush
    BY <1>1, <1>7 DEF Poll, SeenRow, StoreRow, Push, AckRows, Flush
  <1>8. CASE Rejoin \/ Carry \/ Drop
    BY <1>1, <1>8 DEF Rejoin, Carry, Drop
  <1>9. ASSUME NEW m \in Msgs, Arrives(m) \/ Lapses(m) PROVE UNCHANGED <<cpc, ids>>
    BY <1>9 DEF Arrives, Lapses
  <1>10. CASE UNCHANGED vars
    BY <1>1, <1>10 DEF vars
  <1>11. QED
    BY <1>1, <1>2, <1>3, <1>4, <1>5, <1>6, <1>7, <1>8, <1>9, <1>10 DEF Next

LEMMA CustodyStep == ~SameId /\ IInv /\ [Next]_vars => CustodyOK'
  <1> SUFFICES ASSUME ~SameId, IInv, [Next]_vars PROVE CustodyOK'
    OBVIOUS
  <1> USE DEF storeVars, pollVars, wakeVars, dsVars, callVars, histVars, tableVars, Idle
  <1>0. StoreTypeOK /\ InboxesInSync /\ CustodyOK
    BY DEF IInv, TypeInv, TypeOK, StoreTypeOK, CustodyOK
  <1>1. CASE Poll
    BY <1>0, <1>1, QuietStep DEF Poll, Lease
  <1>2. CASE SeenRow
    <2>1. UNCHANGED <<acked, seen>> /\ toAck' = toAck \cup {Token(Row)} /\ Token(Row)[1] \in seen
      BY <1>2 DEF SeenRow, Token
    <2>2. QED
      BY <1>0, <1>2, <2>1, QuietStep DEF SeenRow
  <1>3. CASE StoreRow
    <2>1. CASE /\ Queue({Row}) /\ UNCHANGED prev
               /\ seen' = seen \cup {Row} /\ toAck' = toAck \cup {Token(Row)}
      <3>1. Row \in Msgs
        BY <1>3, RowIsInBatch DEF StoreRow
      <3>2. /\ InboxesInSync' /\ FilesLoseOnly({}) /\ store'.mem = store.mem \cup {Row}
            /\ Row \in file'[store.id] /\ store.id \in Ids
        BY <1>0, <2>1, <3>1, QueueKeeps DEF InboxesInSync
      <3>3. UNCHANGED <<acked, read, rpc, presentedGen, generation, ids, arrival, shownAt, prev>>
        BY <1>3, <2>1 DEF StoreRow
      <3>4. PromisesKept'
        <4>1. \A m : Kept(m) => Kept(m)'
          BY <3>2, <3>3, KeptStays
        <4>2. PICK row : row = Row
          OBVIOUS
        <4>3. Kept(row)'
          BY <3>2, <4>2 DEF Kept
        <4>4. acked' = acked /\ seen' = seen \cup {row} /\ \A t \in toAck' : t \in toAck \/ t[1] = row
          BY <2>1, <3>3, <4>2 DEF Token
        <4>5. QED
          BY <1>0, <4>1, <4>3, <4>4 DEF CustodyOK, PromisesKept
      <3>5. ShownFirst' /\ CallsAreEvidence' /\ CarriedIsSafe'
        BY <1>0, <3>2, <3>3 DEF CustodyOK, ShownFirst, CallsAreEvidence, CarriedIsSafe
      <3>6. QED
        BY <3>2, <3>4, <3>5 DEF CustodyOK
    <2>2. CASE UNCHANGED <<storeVars, seen, toAck>>
      BY <1>0, <1>3, <2>2, QuietStep DEF StoreRow
    <2>3. QED
      BY <1>3, <2>1, <2>2 DEF StoreRow
  <1>4. CASE Push
    BY <1>0, <1>4, QuietStep DEF Push
  <1>5. CASE AckRows
    <2>1. acked' \subseteq acked \cup {t[1] : t \in toAck} /\ seen' \subseteq seen /\ toAck' = {}
      BY <1>5, AckFacts DEF AckRows
    <2>2. QED
      BY <1>0, <1>5, <2>1, QuietStep DEF AckRows
  <1>6. CASE Flush
    BY <1>0, <1>6, QuietStep DEF Flush
  <1>7. ASSUME NEW c \in Calls, NEW next \in {Idle, "check"}, Arrive(c, next) PROVE CustodyOK'
    <2>1. /\ ids' = [ids EXCEPT ![c] = Confirms] /\ arrival' = [arrival EXCEPT ![c] = generation]
          /\ UNCHANGED <<tableVars, storeVars, pollVars, rpc, dsVars, histVars>>
          /\ ids \in [Calls -> SUBSET Msgs] /\ arrival \in [Calls -> Nat]
          /\ shownAt \in [Msgs -> Nat] /\ presentedGen \in [Msgs -> Nat] /\ generation \in Nat
      BY <1>7 DEF Arrive, DS!newArrival, IInv, TypeInv, TypeOK
    <2>2. InboxesInSync' /\ PromisesKept' /\ ShownFirst' /\ CarriedIsSafe'
      BY <1>0, <2>1 DEF CustodyOK, InboxesInSync, PromisesKept, ShownFirst, CarriedIsSafe, Kept
    <2>3. ASSUME NEW m \in Confirms PROVE m \in read \/ (shownAt[m] # 0 /\ shownAt[m] <= generation)
      <3>1. m \in Msgs /\ presentedGen[m] # 0
        BY <2>3 DEF Confirms, DS!Confirmable, DS!presented
      <3>2. QED
        BY <1>0, <3>1 DEF CustodyOK, ShownFirst
    <2>4. CallsAreEvidence'
      BY <1>0, <2>1, <2>3 DEF CustodyOK, CallsAreEvidence
    <2>5. QED
      BY <2>2, <2>4 DEF CustodyOK
  <1>8. ASSUME NEW c \in Calls, NEW next \in {Idle, "check"}, Confirm(c, next) PROVE CustodyOK'
    BY <1>8, ConfirmCustody
  <1>9. ASSUME NEW c \in Calls, Check(c) PROVE CustodyOK'
    BY <1>0, <1>9, QuietStep DEF Check
  <1>10. ASSUME NEW c \in Calls, Build(c) PROVE CustodyOK'
    <2>1. ids[c] = {}
      BY <1>10 DEF Build, IInv, OnlyConfirming
    <2>2. QED
      BY <1>10, <2>1, BuildCustody
  <1>11. CASE Rejoin
    <2>1. /\ store' = [no |-> store.no + 1, id |-> store.no + 1, mem |-> file[store.no + 1]]
          /\ store.no + 1 \in Ids /\ prev' = store /\ rpc' # "drop" /\ UNCHANGED file
      BY <1>11 DEF Rejoin, Loaded
    <2>2. InboxesInSync'
      <3>1. store'.no = store.no + 1 /\ store'.id = store.no + 1 /\ store'.mem = file[store.no + 1]
        BY <2>1
      <3>2. store.id = store.no /\ store.id \in Ids /\ store.id \in Nat /\ file[store.id] = store.mem
        BY <1>0, ClaudeAssumption DEF InboxesInSync
      <3>3. store.id < store.no + 1
        BY <3>2
      <3>4. QED
        BY <2>1, <3>1, <3>2, <3>3 DEF InboxesInSync
    <2>3. UNCHANGED <<acked, seen, toAck, read, presentedGen, generation, ids, arrival, shownAt>>
      BY <1>11 DEF Rejoin, ClearLeases
    <2>4. PromisesKept' /\ ShownFirst' /\ CallsAreEvidence' /\ CarriedIsSafe'
      BY <1>0, <2>1, <2>3 DEF CustodyOK, PromisesKept, ShownFirst, CallsAreEvidence, CarriedIsSafe, Kept
    <2>5. QED
      BY <2>2, <2>4 DEF CustodyOK
  <1>12. CASE Carry
    <2>1. UNCHANGED <<acked, seen, toAck, read, presentedGen, generation, ids, arrival, shownAt, prev>>
      BY <1>12 DEF Carry
    <2>2. CASE Queue(prev.mem)
      <3>1. prev.mem \in SUBSET Msgs
        BY <1>0 DEF StoreTypeOK, Inbox
      <3>2. InboxesInSync' /\ FilesLoseOnly({}) /\ store'.mem = store.mem \cup prev.mem
        BY <1>0, <2>1, <2>2, <3>1, QueueKeeps
      <3>3. PromisesKept'
        BY <1>0, <2>1, <3>2, KeptStays DEF CustodyOK, PromisesKept
      <3>4. ShownFirst' /\ CallsAreEvidence' /\ CarriedIsSafe'
        BY <1>0, <2>1, <3>2 DEF CustodyOK, ShownFirst, CallsAreEvidence, CarriedIsSafe
      <3>5. QED
        BY <3>2, <3>3, <3>4 DEF CustodyOK
    <2>3. CASE rpc' = "none" /\ UNCHANGED <<store, file>>
      BY <1>0, <2>1, <2>3 DEF CustodyOK, InboxesInSync, PromisesKept, ShownFirst, CallsAreEvidence,
                              CarriedIsSafe, Kept
    <2>4. QED
      BY <1>12, <2>2, <2>3 DEF Carry
  <1>13. CASE Drop
    <2>1. /\ UNCHANGED <<acked, seen, toAck, read, presentedGen, generation, ids, arrival, shownAt>>
          /\ rpc' = "none" /\ prev.mem \subseteq store.mem \cup read
      BY <1>0, <1>13 DEF Drop, CustodyOK, CarriedIsSafe
    <2>2. CASE RemovePrevious(prev.mem)
      <3>1. prev.mem \in SUBSET Msgs
        BY <1>0 DEF StoreTypeOK, Inbox
      <3>2. InboxesInSync' /\ FilesLoseOnly(prev.mem) /\ file'[store.id] = store.mem /\ store.id \in Ids
        BY <1>0, <2>2, <3>1, RemovePreviousKeeps DEF InboxesInSync
      <3>3. \A m : Kept(m) => Kept(m)'
        BY <2>1, <3>2 DEF Kept, FilesLoseOnly
      <3>4. PromisesKept' /\ ShownFirst' /\ CallsAreEvidence' /\ CarriedIsSafe'
        BY <1>0, <2>1, <3>3 DEF CustodyOK, PromisesKept, ShownFirst, CallsAreEvidence, CarriedIsSafe
      <3>5. QED
        BY <3>2, <3>4 DEF CustodyOK
    <2>3. CASE UNCHANGED storeVars
      BY <1>0, <2>1, <2>3 DEF CustodyOK, InboxesInSync, PromisesKept, ShownFirst, CallsAreEvidence,
                              CarriedIsSafe, Kept
    <2>4. QED
      BY <1>13, <2>2, <2>3 DEF Drop
  <1>14. CASE Restart
    <2>1. /\ store' = [store EXCEPT !.mem = file[store.id]] /\ prev' = NoInbox /\ rpc' = "none"
          /\ seen' = {} /\ toAck' = {} /\ UNCHANGED <<acked, file, read>>
          /\ presentedGen' = NoNumber /\ shownAt' = NoNumber /\ generation' = 0 /\ ids' = NoMessages
      BY <1>14 DEF Restart, ClearLeases, Loaded
    <2>2. InboxesInSync'
      <3>1. store'.mem = file[store.id] /\ store'.id = store.id /\ store'.no = store.no /\ prev'.mem = {}
        BY <1>0, <2>1 DEF StoreTypeOK, Inbox, NoInbox
      <3>2. QED
        BY <1>0, <2>1, <3>1 DEF InboxesInSync
    <2>3. PromisesKept'
      BY <1>0, <2>1 DEF CustodyOK, PromisesKept, Kept
    <2>4. ShownFirst' /\ CallsAreEvidence' /\ CarriedIsSafe'
      BY <2>1 DEF ShownFirst, CallsAreEvidence, CarriedIsSafe, NoNumber, NoMessages
    <2>5. QED
      BY <2>2, <2>3, <2>4 DEF CustodyOK
  <1>15. ASSUME NEW m \in Msgs, Arrives(m) PROVE CustodyOK'
    BY <1>0, <1>15, QuietStep DEF Arrives, Insert
  <1>16. ASSUME NEW m \in Msgs, Lapses(m) PROVE CustodyOK'
    BY <1>0, <1>16, QuietStep DEF Lapses, Expire
  <1>17. CASE UNCHANGED vars
    BY <1>0, <1>17, QuietStep DEF vars
  <1>18. QED
    BY <1>1, <1>2, <1>3, <1>4, <1>5, <1>6, <1>7, <1>8, <1>9, <1>10, <1>11, <1>12, <1>13, <1>14, <1>15,
       <1>16, <1>17 DEF Next

LEMMA StepIInv == ~SameId /\ IInv /\ [Next]_vars => IInv'
  <1> SUFFICES ASSUME ~SameId, IInv, [Next]_vars PROVE IInv'
    OBVIOUS
  <1>1. TypeInv'
    BY StepTypeInv DEF IInv
  <1>2. QED
    BY <1>1, CallStep, CustodyStep DEF IInv, CustodyOK

\* The inductive invariant of the delivery to a Claude session.
THEOREM Safety == ASSUME ~SameId PROVE Spec => []IInv
  <1>1. Init => IInv
    BY InitIInv
  <1>2. IInv /\ [Next]_vars => IInv'
    BY StepIInv
  <1>3. QED
    BY <1>1, <1>2, PTL DEF Spec

\* Mail that the broker counts as delivered is in an inbox file of the session, or was
\* read: in a session whose rejoins never get the id back that they had.
THEOREM Custody == ASSUME ~SameId PROVE Spec => []KeepsCustody
  <1>1. IInv => KeepsCustody
    BY DEF IInv, PromisesKept, Kept, KeepsCustody
  <1>2. QED
    BY <1>1, Safety, PTL

-----------------------------------------------------------------------------
(* Wakes *)

\* Pending mail is a finite set, so that the notice names its oldest entries.
WakesInv == IsFiniteSet(pending) /\ WakesWhatItStores

\* formatWakeText lists every message that the waker then drops from its queue.
LEMMA NoticeNamesAll ==
  ASSUME IsFiniteSet(pending), NEW m \in Named
  PROVE  Cardinality({k \in Named : k < m}) < WakeBatch
  <1>1. /\ m \in pending /\ Cardinality({k \in pending : k < m}) < WakeBatch
        /\ {k \in Named : k < m} \in SUBSET {k \in pending : k < m}
        /\ {k \in pending : k < m} \in SUBSET pending
    BY DEF Named
  <1>2. IsFiniteSet({k \in pending : k < m})
    BY <1>1, FS_Subset
  <1>3. /\ Cardinality({k \in Named : k < m}) <= Cardinality({k \in pending : k < m})
        /\ IsFiniteSet({k \in Named : k < m})
    BY <1>1, <1>2, FS_Subset
  <1>4. /\ Cardinality({k \in Named : k < m}) \in Nat
        /\ Cardinality({k \in pending : k < m}) \in Nat
    BY <1>2, <1>3, FS_CardinalityType
  <1>5. QED
    BY <1>1, <1>3, <1>4, ClaudeAssumption

LEMMA WakesStep == WakesInv /\ [Next]_vars => WakesInv'
  <1> SUFFICES ASSUME WakesInv, [Next]_vars PROVE WakesInv'
    OBVIOUS
  <1> USE DEF WakesInv, WakesWhatItStores, pollVars, wakeVars
  <1>1. ASSUME UNCHANGED <<mode, pending, announced>>, seen' \subseteq seen PROVE WakesInv'
    BY <1>1
  <1>2. CASE StoreRow
    <2>1. IsFiniteSet(pending')
      BY <1>2, FS_AddElement DEF StoreRow
    <2>2. UNCHANGED <<mode, announced>>
          /\ (seen' = seen \/ (seen' = seen \cup {Row} /\ (mode = "socket" => pending' = pending \cup {Row})))
          /\ pending \subseteq pending'
      BY <1>2 DEF StoreRow
    <2>3. QED
      BY <2>1, <2>2
  <1>3. CASE AckRows
    BY <1>1, <1>3 DEF AckRows
  <1>4. CASE Flush
    <2>1. CASE pending' = pending \ Named /\ UNCHANGED mode
               /\ announced' = announced \cup {m \in Named : Cardinality({k \in Named : k < m}) < WakeBatch}
      <3>1. Named \subseteq announced'
        BY <2>1, NoticeNamesAll
      <3>2. IsFiniteSet(pending')
        BY <2>1, FS_Subset
      <3>3. UNCHANGED seen
        BY <1>4 DEF Flush
      <3>4. QED
        BY <2>1, <3>1, <3>2, <3>3
    <2>2. CASE /\ UNCHANGED announced
               /\ (mode' = "channel" /\ pending' = {}) \/ UNCHANGED <<mode, pending>>
      <3>1. IsFiniteSet(pending') /\ UNCHANGED seen
        BY <1>4, <2>2, FS_EmptySet DEF Flush
      <3>2. QED
        BY <2>2, <3>1
    <2>3. QED
      BY <1>4, <2>1, <2>2, Zenon DEF Flush
  <1>5. CASE Restart
    BY <1>5, FS_EmptySet DEF Restart
  <1>6. CASE Poll \/ SeenRow \/ Push \/ Rejoin \/ Carry \/ Drop
    BY <1>1, <1>6 DEF Poll, SeenRow, Push, Rejoin, Carry, Drop
  <1>7. ASSUME NEW c \in Calls, NEW next \in {Idle, "check"}, Arrive(c, next) \/ Confirm(c, next)
        PROVE  UNCHANGED <<mode, pending, announced, seen>>
    BY <1>7 DEF Arrive, Confirm
  <1>8. ASSUME NEW c \in Calls, Check(c) \/ Build(c) PROVE UNCHANGED <<mode, pending, announced, seen>>
    BY <1>8 DEF Check, Build
  <1>9. ASSUME NEW m \in Msgs, Arrives(m) \/ Lapses(m) PROVE UNCHANGED <<mode, pending, announced, seen>>
    BY <1>9 DEF Arrives, Lapses
  <1>10. CASE UNCHANGED vars
    BY <1>1, <1>10 DEF vars
  <1>11. QED
    BY <1>1, <1>2, <1>3, <1>4, <1>5, <1>6, <1>7, <1>8, <1>9, <1>10 DEF Next

\* A session that wakes itself announces everything it stored, whatever the size of
\* the notices and however often they fail.
THEOREM WakesAll == Spec => []WakesWhatItStores
  <1>1. Init => WakesInv
    BY FS_EmptySet DEF Init, WakesInv, WakesWhatItStores
  <1>2. WakesInv /\ [Next]_vars => WakesInv'
    BY WakesStep
  <1>3. WakesInv => WakesWhatItStores
    BY DEF WakesInv
  <1>4. QED
    BY <1>1, <1>2, <1>3, PTL DEF Spec

-----------------------------------------------------------------------------
(* What a call was told before it arrived *)

\* The messages in play are so few that the confirmed ids are never pruned.
SlackCovers == \A k, m \in Msgs : k <= m + Slack

\* A call remembers only what is still confirmed, and reads the ring without it.
KnownStays ==
  \A c \in Calls : known[c] \subseteq confirmed /\ (cpc[c] = "build" => recent[c] \cap known[c] = {})

LEMMA KnownStep == SlackCovers /\ TypeInv /\ KnownStays /\ [Next]_vars => KnownStays'
  <1> SUFFICES ASSUME SlackCovers, TypeInv, KnownStays, [Next]_vars PROVE KnownStays'
    OBVIOUS
  <1> USE DEF dsVars, callVars, Idle
  <1>0. /\ confirmed \subseteq Msgs /\ cpc \in [Calls -> {Idle, "confirm", "check", "build"}]
        /\ known \in [Calls -> SUBSET Msgs] /\ recent \in [Calls -> SUBSET Msgs]
    BY DEF TypeInv, TypeOK
  <1>1. ASSUME UNCHANGED <<cpc, known, recent>>, confirmed \subseteq confirmed' PROVE KnownStays'
    BY <1>1 DEF KnownStays
  <1>2. CASE AckRows
    BY <1>0, <1>1, <1>2 DEF AckRows, SlackCovers
  <1>3. ASSUME NEW c \in Calls, NEW next \in {Idle, "check"}, Arrive(c, next) PROVE KnownStays'
    BY <1>0, <1>3 DEF Arrive, KnownStays
  <1>4. ASSUME NEW c \in Calls, NEW next \in {Idle, "check"}, Confirm(c, next) PROVE KnownStays'
    <2>1. confirmed \subseteq confirmed' /\ UNCHANGED recent
      BY <1>4, Zenon DEF Confirm, DS!MarkConfirmed
    <2>2. /\ cpc' = [cpc EXCEPT ![c] = next] /\ next # "build"
          /\ known' = known \/ known' = [known EXCEPT ![c] = {}]
      BY <1>4 DEF Confirm, Returns
    <2>3. QED
      BY <1>0, <2>1, <2>2 DEF KnownStays
  <1>5. ASSUME NEW c \in Calls, Check(c) PROVE KnownStays'
    <2>1. Recent \cap confirmed = {}
      BY DEF Recent
    <2>2. cpc' = [cpc EXCEPT ![c] = "build"] /\ recent' = [recent EXCEPT ![c] = Recent]
          /\ UNCHANGED <<known, confirmed>>
      BY <1>5 DEF Check
    <2>3. QED
      BY <1>0, <2>1, <2>2 DEF KnownStays
  <1>6. ASSUME NEW c \in Calls, Build(c) PROVE KnownStays'
    <2>1. /\ cpc' = [cpc EXCEPT ![c] = Idle] /\ recent' = [recent EXCEPT ![c] = {}]
          /\ known' = [known EXCEPT ![c] = {}]
      BY <1>6 DEF Build, Returns
    <2>2. UNCHANGED confirmed
      BY <1>6, Zenon DEF Build, Aborted
    <2>3. QED
      BY <1>0, <2>1, <2>2 DEF KnownStays
  <1>7. CASE Restart
    BY <1>7 DEF Restart, KnownStays, NoMessages
  <1>8. CASE Poll \/ SeenRow \/ StoreRow \/ Push \/ Flush
    BY <1>1, <1>8 DEF Poll, SeenRow, StoreRow, Push, Flush
  <1>9. CASE Rejoin \/ Carry \/ Drop
    BY <1>1, <1>9 DEF Rejoin, Carry, Drop
  <1>10. ASSUME NEW m \in Msgs, Arrives(m) \/ Lapses(m) PROVE UNCHANGED <<cpc, known, recent, confirmed>>
    BY <1>10 DEF Arrives, Lapses
  <1>11. CASE UNCHANGED vars
    BY <1>1, <1>11 DEF vars
  <1>12. QED
    BY <1>1, <1>2, <1>3, <1>4, <1>5, <1>6, <1>7, <1>8, <1>9, <1>10, <1>11 DEF Next

\* A response of check_messages has nothing that was confirmed when the call arrived,
\* as long as the ids in play are not further apart than SEEN_WATERMARK_SLACK.
THEOREM ShownOnce == ASSUME SlackCovers PROVE Spec => NotShownAgain
  <1>1. Init => KnownStays
    BY DEF Init, KnownStays, NoMessages
  <1>2. TypeInv /\ KnownStays /\ [Next]_vars => KnownStays'
    BY KnownStep
  <1>3. KnownStays =>
          [\A c \in Calls : cpc[c] = "build" /\ cpc'[c] = Idle /\ generation' = generation + 1
                            => Shown(c) \cap known[c] = {}]_vars
    <2> SUFFICES ASSUME KnownStays, NEW c \in Calls, cpc[c] = "build" PROVE Shown(c) \cap known[c] = {}
      OBVIOUS
    <2>1. Fresh \cap confirmed = {}
      BY DEF Fresh, DS!IsBlocked
    <2>2. QED
      BY <2>1 DEF KnownStays, Shown
  <1>4. QED
    BY <1>1, <1>2, <1>3, TypesHold, PTL DEF Spec, NotShownAgain
===============================================================================
