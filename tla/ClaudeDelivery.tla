---------------------------- MODULE ClaudeDelivery ----------------------------
(***************************************************************************)
(* Delivery in the MCP server of a Claude Code session.  A poll loop       *)
(* stores each leased message, announces it (inbox socket or channel) and  *)
(* acks it; check_messages shows a ring of recent messages and the durable *)
(* unread ones; a later call removes from the store what an earlier        *)
(* response had shown.  A heartbeat that is told of an eviction moves the  *)
(* session, and its mail, to a new peer id while polls and calls go on.    *)
(* Drawing and promoting happen in one step here, so of DeliveryState the  *)
(* drawn set is always empty.                                              *)
(***************************************************************************)
EXTENDS LeaseTable, Sequences

CONSTANTS
  Calls,        \* slots of tool calls in flight
  Slack,        \* SEEN_WATERMARK_SLACK
  RecentMax,    \* RECENT_MAX, also standing for RECENT_TTL_MS
  MaxFailures,  \* failed announcements before the waker gives up
  WakeBatch,    \* most messages that one notice names
  SameId,       \* a rejoin may reclaim the row, and so the id, that the session had
  Ids,          \* bound: peer ids, 1 .. n
  MaxBuilds,    \* bound: responses of check_messages
  MaxFaults     \* bound: failed writes, pushes, notices and acks, aborted calls, deaths

ASSUME ClaudeAssumption ==
  /\ MaxFailures \in Nat \ {0} /\ WakeBatch \in Nat \ {0} /\ SameId \in BOOLEAN
  /\ Slack \in Nat /\ RecentMax \in Nat /\ MaxBuilds \in Nat /\ MaxFaults \in Nat
  /\ Ids \subseteq Nat \ {0} /\ 1 \in Ids

VARIABLES
  file,      \* inbox file of each peer id
  store, prev,  \* inbox objects, current and before: number, peer id, unread in memory
  ppc, batch, toAck, pushing,  \* the poll: step, rows left, tokens to ack, channel push
  seen,      \* ids that this process stored
  ring,      \* recent-delivered ring, oldest first
  mode,      \* socket: wakes itself, its marker stands; channel: neither
  pending, failures,  \* of the SocketWaker
  rpc,       \* rejoin: none, carry, drop
  presentedGen, confirmed, generation,  \* DeliveryState
  cpc, arrival, ids, into, recent,  \* a call: step, snapshot, ids to confirm and
                                    \* in which inbox object, ring as it read it
  holder,    \* checkMessagesLock
  faults,
  \* history
  shownAt,   \* number of this process's first full response that showed the message, until it is read
  read,      \* confirmed by a call that arrived after a full response had shown it
  announced, \* named in a notice of this process
  known      \* what was confirmed when a call arrived

storeVars == <<file, store, prev>>
pollVars == <<ppc, batch, toAck, pushing, seen>>
wakeVars == <<mode, pending, failures, announced>>
dsVars == <<presentedGen, confirmed, generation>>
callVars == <<cpc, arrival, ids, into, recent, holder, known>>
histVars == <<shownAt, read>>
vars == <<tableVars, storeVars, pollVars, ring, wakeVars, rpc, dsVars, callVars, faults, histVars>>

DS == INSTANCE DeliveryState
      WITH drawnByCall <- [c \in {} |-> {}], drawn <- {}

\* The environment chooses; "none" acts as "channel" does.
WakeModes == {"socket", "channel"}

Inbox == [no : Ids \cup {0}, id : Ids \cup {0}, mem : SUBSET Msgs]
Idle == "idle"

TypeOK ==
  /\ TableTypeOK
  /\ file \in [Ids -> SUBSET Msgs] /\ store \in Inbox /\ prev \in Inbox
  /\ ppc \in {Idle, "rows", "push", "flush"} /\ batch \in Batches
  /\ toAck \subseteq Tokens /\ pushing \in Msgs \cup {0} /\ seen \subseteq Msgs
  /\ ring \in Seq(Msgs) /\ Len(ring) <= RecentMax
  /\ mode \in WakeModes /\ pending \subseteq Msgs /\ failures \in 0 .. MaxFailures
  /\ rpc \in {"none", "carry", "drop"}
  /\ presentedGen \in [Msgs -> Nat] /\ confirmed \subseteq Msgs /\ generation \in Nat
  /\ cpc \in [Calls -> {Idle, "confirm", "check", "build"}]
  /\ arrival \in [Calls -> Nat] /\ ids \in [Calls -> SUBSET Msgs]
  /\ into \in [Calls -> Ids \cup {0}] /\ recent \in [Calls -> SUBSET Msgs]
  /\ holder \in SUBSET Calls /\ faults \in 0 .. MaxFaults
  /\ shownAt \in [Msgs -> Nat] /\ read \subseteq Msgs /\ announced \subseteq Msgs /\ known \in [Calls -> SUBSET Msgs]

NoInbox == [no |-> 0, id |-> 0, mem |-> {}]
NoMessages == [c \in Calls |-> {}]
NoNumber == [m \in Msgs |-> 0]

Init ==
  /\ TableInit /\ file = [i \in Ids |-> {}] /\ store = [no |-> 1, id |-> 1, mem |-> {}]
  /\ faults = 0 /\ read = {}
  /\ prev = NoInbox
  /\ ppc = Idle /\ batch = EmptyBatch /\ toAck = {} /\ pushing = 0 /\ seen = {}
  /\ ring = <<>> /\ mode \in WakeModes /\ pending = {} /\ failures = 0 /\ announced = {}
  /\ rpc = "none"
  /\ presentedGen = NoNumber /\ confirmed = {} /\ generation = 0
  /\ cpc = [c \in Calls |-> Idle] /\ arrival = [c \in Calls |-> 0]
  /\ ids = NoMessages /\ into = [c \in Calls |-> 0]
  /\ recent = NoMessages /\ holder = {} /\ known = NoMessages
  /\ shownAt = NoNumber

Fault == faults < MaxFaults /\ faults' = faults + 1

-----------------------------------------------------------------------------
(* The durable inbox: each operation writes the file, then the memory *)

\* readStateFromDisk: an absent file is an empty inbox.
Loaded(i) == file[i]

Queue(ms) ==
  /\ store' = [store EXCEPT !.mem = @ \cup ms]
  /\ file' = [file EXCEPT ![store.id] = store.mem \cup ms]

\* A removal that drops nothing writes nothing.
RemoveCurrent(ms) ==
  /\ store' = [store EXCEPT !.mem = @ \ ms]
  /\ file' = IF store.mem \cap ms = {} THEN file ELSE [file EXCEPT ![store.id] = store.mem \ ms]
  /\ UNCHANGED prev

RemovePrevious(ms) ==
  /\ prev' = [prev EXCEPT !.mem = @ \ ms]
  /\ file' = IF prev.mem \cap ms = {} THEN file ELSE [file EXCEPT ![prev.id] = prev.mem \ ms]
  /\ UNCHANGED store

-----------------------------------------------------------------------------
(* The poll loop, one cycle at a time; one that finds nothing to do is left out *)

Poll ==
  /\ ppc = Idle
  /\ LET ms == Leasable(Msgs) IN
       /\ ms \cup pending # {}
       /\ Lease(ms)
       /\ \/ batch' = Leased(ms) /\ ppc' = "rows" /\ UNCHANGED faults
          \/ ms # {} /\ Fault /\ ppc' = "flush" /\ UNCHANGED batch
  /\ UNCHANGED <<storeVars, toAck, pushing, seen, ring, wakeVars, rpc, dsVars, callVars, histVars>>

Row == CHOOSE m \in InBatch(batch) : \A k \in InBatch(batch) : m <= k
Take(m) == batch' = [batch EXCEPT ![m] = 0]
Token(m) == <<m, batch[m]>>

\* A row that comes again after a lost ack is only acked.
SeenRow ==
  /\ ppc = "rows" /\ InBatch(batch) # {} /\ Row \in seen
  /\ toAck' = toAck \cup {Token(Row)} /\ Take(Row)
  /\ UNCHANGED <<tableVars, storeVars, ppc, pushing, seen, ring, wakeVars, rpc, dsVars, callVars,
                 faults, histVars>>

Record(m) ==
  ring' = LET r == Append(ring, m) IN IF Len(r) > RecentMax THEN Tail(r) ELSE r

\* Durable first; then the message is acked whatever becomes of its push.  A
\* write that fails leaves the row to its lease.
StoreRow ==
  /\ ppc = "rows" /\ InBatch(batch) # {} /\ Row \notin seen
  /\ Take(Row)
  /\ \/ /\ Queue({Row}) /\ UNCHANGED <<prev, faults>>
        /\ seen' = seen \cup {Row} /\ toAck' = toAck \cup {Token(Row)}
        /\ IF mode = "socket"
           THEN /\ pending' = pending \cup {Row} /\ Record(Row)
                /\ UNCHANGED <<ppc, pushing>>
           ELSE pushing' = Row /\ ppc' = "push" /\ UNCHANGED <<pending, ring>>
     \/ Fault /\ UNCHANGED <<storeVars, seen, toAck, pending, ring, ppc, pushing>>
  /\ UNCHANGED <<tableVars, mode, failures, announced, rpc, dsVars, callVars, histVars>>

Push ==
  /\ ppc = "push" /\ ppc' = "rows" /\ pushing' = 0
  /\ \/ Record(pushing) /\ UNCHANGED faults
     \/ Fault /\ UNCHANGED ring
  /\ UNCHANGED <<tableVars, storeVars, batch, toAck, seen, wakeVars, rpc, dsVars, callVars, histVars>>

\* After the loop: bound both id sets, then one ack request, which may be lost.
AckRows ==
  /\ ppc = "rows" /\ InBatch(batch) = {}
  /\ seen' = {m \in seen : \A k \in seen : k <= m + Slack}
  /\ confirmed' = {m \in confirmed : \A k \in confirmed : k <= m + Slack}
  /\ \/ Ack(toAck) /\ UNCHANGED faults
     \/ toAck # {} /\ Fault /\ UNCHANGED tableVars
  /\ toAck' = {} /\ ppc' = "flush"
  /\ UNCHANGED <<storeVars, batch, pushing, ring, wakeVars, rpc, presentedGen, generation, callVars, histVars>>

\* Mutant of Named: the notice is taken to name everything that is pending.
NamedAll == pending
Named == {m \in pending : Cardinality({k \in pending : k < m}) < WakeBatch}

\* flushWaker: after too many failures the marker goes and the hook takes over.
Flush ==
  /\ ppc = "flush" /\ ppc' = Idle
  /\ \/ /\ pending = {} /\ UNCHANGED <<wakeVars, faults>>
     \/ /\ pending # {}
        /\ pending' = pending \ Named /\ failures' = 0
        /\ announced' = announced \cup {m \in Named : Cardinality({k \in Named : k < m}) < WakeBatch}
        /\ UNCHANGED <<mode, faults>>
     \/ /\ pending # {} /\ Fault /\ UNCHANGED announced
        /\ failures' = failures + 1
        /\ IF failures' = MaxFailures
           THEN mode' = "channel" /\ pending' = {}
           ELSE UNCHANGED <<mode, pending>>
  /\ UNCHANGED <<tableVars, storeVars, batch, toAck, pushing, seen, ring, rpc, dsVars, callVars, histVars>>

-----------------------------------------------------------------------------
(* Tool calls *)

Confirms == DS!Confirmable(DS!newArrival)

Returns(c) ==
  /\ cpc' = [cpc EXCEPT ![c] = Idle]
  /\ arrival' = [arrival EXCEPT ![c] = 0] /\ known' = [known EXCEPT ![c] = {}]

\* The handler's entry: the snapshot, and the removal it sends to the inbox of now.
Arrive(c, next) ==
  /\ cpc[c] = Idle /\ generation < MaxBuilds
  /\ Confirms # {} \/ next # Idle
  /\ arrival' = [arrival EXCEPT ![c] = DS!newArrival]
  /\ known' = [known EXCEPT ![c] = confirmed]
  /\ ids' = [ids EXCEPT ![c] = Confirms]
  /\ into' = [into EXCEPT ![c] = IF Confirms # {} THEN store.no ELSE 0]
  /\ cpc' = [cpc EXCEPT ![c] = IF Confirms # {} THEN "confirm" ELSE next]
  /\ UNCHANGED <<tableVars, storeVars, pollVars, ring, wakeVars, rpc, dsVars, recent, holder, faults, histVars>>

\* removeByIds, then markConfirmed; a failure leaves both to the next call.
Confirm(c, next) ==
  /\ cpc[c] = "confirm"
  /\ \/ /\ IF into[c] = store.no THEN RemoveCurrent(ids[c]) ELSE RemovePrevious(ids[c])
        /\ DS!MarkConfirmed(ids[c]) /\ UNCHANGED <<generation, faults>>
        /\ LET now == {m \in ids[c] : shownAt[m] # 0 /\ shownAt[m] <= arrival[c]}
           IN read' = read \cup now /\ shownAt' = [m \in Msgs |-> IF m \in now THEN 0 ELSE shownAt[m]]
     \/ Fault /\ UNCHANGED <<storeVars, dsVars, histVars>>
  /\ ids' = [ids EXCEPT ![c] = {}] /\ into' = [into EXCEPT ![c] = 0]
  /\ IF next = Idle THEN Returns(c) ELSE cpc' = [cpc EXCEPT ![c] = next] /\ UNCHANGED <<arrival, known>>
  /\ UNCHANGED <<tableVars, pollVars, ring, wakeVars, rpc, recent, holder>>

RingIds == {ring[i] : i \in DOMAIN ring}

\* Mutant of Recent: entries that a call has confirmed are shown for as long as the ring has them.
RecentAll == RingIds
Recent == {m \in RingIds : m \notin confirmed}

\* check_messages under its lock: the ring, then the store, then the response.
Check(c) ==
  /\ cpc[c] = "check" /\ holder = {}
  /\ holder' = {c} /\ recent' = [recent EXCEPT ![c] = Recent]
  /\ cpc' = [cpc EXCEPT ![c] = "build"]
  /\ UNCHANGED <<tableVars, storeVars, pollVars, ring, wakeVars, rpc, dsVars, arrival, ids, into, known,
                 faults, histVars>>

Fresh == {m \in store.mem : ~DS!IsBlocked(m)}
Shown(c) == recent[c] \cup Fresh

\* Mutant of Aborted: the draws of an aborted call are promoted all the same.
AbortedPromotes ==
  /\ generation' = generation + 1 /\ UNCHANGED <<confirmed, shownAt>>
  /\ presentedGen' = [m \in Msgs |-> IF m \in Fresh THEN generation' ELSE presentedGen[m]]
Aborted == UNCHANGED <<dsVars, shownAt>>

Build(c) ==
  /\ cpc[c] = "build"
  /\ IF Shown(c) = {} THEN UNCHANGED <<dsVars, shownAt, faults>>
     ELSE \/ /\ generation' = generation + 1
             /\ presentedGen' = [m \in Msgs |-> IF m \in Fresh THEN generation' ELSE presentedGen[m]]
             /\ shownAt' = [m \in Msgs |-> IF m \in Shown(c) \ read /\ shownAt[m] = 0
                                           THEN generation' ELSE shownAt[m]]
             /\ UNCHANGED <<confirmed, faults>>
          \/ Fault /\ Aborted
  /\ holder' = {} /\ recent' = [recent EXCEPT ![c] = {}] /\ Returns(c)
  /\ UNCHANGED <<tableVars, storeVars, pollVars, ring, wakeVars, rpc, ids, into, read>>

-----------------------------------------------------------------------------
(* Rejoin, restart and the broker *)

\* The heartbeat learned that the row is gone.  A new row has a new id; a row
\* that another session reclaimed by name, and left, is reclaimed with its id
\* (bound: the removals of one inbox are over before the next rejoin but one).
Rejoin ==
  /\ rpc = "none" /\ store.no + 1 \in Ids
  /\ \A c \in Calls : cpc[c] = "confirm" => into[c] = store.no
  /\ \E i \in {store.no + 1} \cup (IF SameId THEN {store.id} ELSE {}) :
       store' = [no |-> store.no + 1, id |-> i, mem |-> Loaded(i)]
  /\ prev' = store /\ rpc' = (IF store.mem = {} THEN "none" ELSE "carry") /\ ClearLeases(queued)
  /\ UNCHANGED <<file, pollVars, ring, wakeVars, dsVars, callVars, faults, histVars>>

\* The old inbox, once the removals queued on it are done, is copied into the
\* new one, then emptied; either may fail.
Carry ==
  /\ rpc = "carry" /\ \A c \in Calls : cpc[c] = "confirm" => into[c] = store.no
  /\ \/ Queue(prev.mem) /\ rpc' = "drop" /\ UNCHANGED faults
     \/ Fault /\ rpc' = "none" /\ UNCHANGED <<store, file>>
  /\ UNCHANGED <<tableVars, prev, pollVars, ring, wakeVars, dsVars, callVars, histVars>>

Drop ==
  /\ rpc = "drop" /\ rpc' = "none"
  /\ \/ RemovePrevious(prev.mem) /\ UNCHANGED faults
     \/ Fault /\ UNCHANGED storeVars
  /\ UNCHANGED <<tableVars, pollVars, ring, wakeVars, dsVars, callVars, histVars>>

\* The process is killed; the next one reclaims the row by its durable name.
Restart ==
  /\ Fault
  /\ store' = [store EXCEPT !.mem = Loaded(store.id)] /\ prev' = NoInbox
  /\ ppc' = Idle /\ batch' = EmptyBatch /\ toAck' = {} /\ pushing' = 0 /\ seen' = {}
  /\ ring' = <<>> /\ mode' \in WakeModes /\ pending' = {} /\ failures' = 0 /\ announced' = {}
  /\ rpc' = "none"
  /\ presentedGen' = NoNumber /\ confirmed' = {} /\ generation' = 0
  /\ cpc' = [c \in Calls |-> Idle] /\ arrival' = [c \in Calls |-> 0]
  /\ ids' = NoMessages /\ into' = [c \in Calls |-> 0]
  /\ recent' = NoMessages /\ holder' = {} /\ known' = NoMessages
  /\ shownAt' = NoNumber
  /\ ClearLeases(queued)
  /\ UNCHANGED <<file, read>>

Arrives(m) ==
  /\ Insert(m)
  /\ UNCHANGED <<storeVars, pollVars, ring, wakeVars, rpc, dsVars, callVars, faults, histVars>>

Lapses(m) ==
  /\ Expire(m)
  /\ UNCHANGED <<storeVars, pollVars, ring, wakeVars, rpc, dsVars, callVars, faults, histVars>>

Next ==
  \/ Poll \/ SeenRow \/ StoreRow \/ Push \/ AckRows \/ Flush
  \/ \E c \in Calls, next \in {Idle, "check"} : Arrive(c, next) \/ Confirm(c, next)
  \/ \E c \in Calls : Check(c) \/ Build(c)
  \/ Rejoin \/ Carry \/ Drop \/ Restart
  \/ \E m \in Msgs : Arrives(m) \/ Lapses(m)

Spec == Init /\ [][Next]_vars

-----------------------------------------------------------------------------
(* Properties *)

\* A message that the broker counts as delivered is in an inbox file, or a full
\* response showed it and a later call came in: no failed write, push or ack, no
\* aborted call, kill or rejoin loses it (the comment "The durable copy exists -
\* the message can no longer be lost, so ack").
KeepsCustody == \A m \in acked : m \in read \/ \E i \in Ids : m \in file[i]

\* What was confirmed when a check_messages arrived is not in its response, although
\* the ring still has it and a failed ack may have the broker offer it again.
NotShownAgain ==
  [][\A c \in Calls : cpc[c] = "build" /\ cpc'[c] = Idle /\ generation' = generation + 1
                      => Shown(c) \cap known[c] = {}]_vars

\* While the session wakes itself, and the rewake hook therefore stands down, every
\* message that this process stored was named in a notice or waits for one.
WakesWhatItStores == mode = "socket" => seen \subseteq pending \cup announced
===============================================================================
