------------------------------ MODULE Federation ------------------------------
(***************************************************************************)
(* shared/federation.ts: the broker of one machine sends messages to the   *)
(* brokers of others.  A send is resolved (for a bare name with a          *)
(* directory lookup over the network) and queued in a durable outbox; a    *)
(* worker relays the due rows, one round at a time; the destination        *)
(* inserts the message and records a receipt in one transaction; the       *)
(* origin settles the row, with a notice to the sender if the message was  *)
(* rejected or delivered with a warning, or retries after a delay.         *)
(* Requests and answers are lost or late and both brokers restart; a       *)
(* destination may be older than the origin and upgraded at a restart.     *)
(***************************************************************************)
EXTENDS Naturals, FiniteSets

CONSTANTS
  Sends,        \* send requests; each one that is queued gets a message_uid of its own
  Hosts,        \* remote machines
  HostOf,       \* the machine that has the addressed peer
  Explicit,     \* sends to name@host; the others name a bare peer
  NewKind,      \* sends whose sender has a peer type that an old broker does not know
  MaxBatch,     \* LIMIT of tick()
  Reachable,    \* machines that answer some of the requests of a row that is retried forever
  MaxRestarts   \* bound: restarts of brokers

ASSUME FederationAssumption ==
  /\ IsFiniteSet(Sends)
  /\ HostOf \in [Sends -> Hosts]
  /\ Explicit \subseteq Sends
  /\ NewKind \subseteq Sends
  /\ Reachable \subseteq Hosts
  /\ MaxBatch \in Nat \ {0}
  /\ MaxRestarts \in Nat

VARIABLES
  \* the origin
  authed,    \* the senders' session tokens are current
  local,     \* a peer with the bare name of a send is registered at the origin
  call,      \* the send request: "new", "asking" the directory, or its answer
  rowId,     \* federation_outbox.id, 0 for no row
  outbox,    \* federation_outbox.status
  due,       \* next_attempt has passed
  relay,     \* relay() of a row: "idle", "asked", the answer it got, or "failed"
  notices,   \* system messages in the sender's mailbox
  \* the network
  late,      \* a relay request that the origin has given up may still reach the destination
  \* the destinations
  old,       \* the broker is older than the origin
  receipt,   \* federation_receipts.response
  mail,      \* number of rows inserted for a message
  restarts

originVars == <<authed, local, call, rowId, outbox, due, relay, notices>>
destVars == <<old, receipt, mail>>
vars == <<originVars, late, destVars, restarts>>

Answers == {"queued", "local", "refused", "unresolved", "lost"}
Verdicts == {"ok", "warned", "rejected"}   \* ok, ok with a notice, not ok
Inserting == {"ok", "warned"}

TypeOK ==
  /\ authed \in BOOLEAN
  /\ local \in [Sends -> BOOLEAN]
  /\ call \in [Sends -> {"new", "asking"} \cup Answers]
  /\ rowId \in [Sends -> Nat]
  /\ outbox \in [Sends -> {"none", "pending", "delivered", "bounced"}]
  /\ due \in [Sends -> BOOLEAN]
  /\ relay \in [Sends -> {"idle", "asked", "refused", "failed"} \cup Verdicts]
  /\ notices \in [Sends -> SUBSET {"notice", "bounce"}]
  /\ late \in [Sends -> BOOLEAN]
  /\ old \in [Hosts -> BOOLEAN]
  /\ receipt \in [Sends -> {"none"} \cup Verdicts]
  /\ mail \in [Sends -> Nat]
  /\ restarts \in 0 .. MaxRestarts

Init ==
  /\ authed = TRUE
  /\ local \in {f \in [Sends -> BOOLEAN] : \A u \in Explicit : ~f[u]}
  /\ call = [u \in Sends |-> "new"]
  /\ rowId = [u \in Sends |-> 0]
  /\ outbox = [u \in Sends |-> "none"]
  /\ due = [u \in Sends |-> FALSE]
  /\ relay = [u \in Sends |-> "idle"]
  /\ notices = [u \in Sends |-> {}]
  /\ late = [u \in Sends |-> FALSE]
  /\ old \in [Hosts -> BOOLEAN]
  /\ receipt = [u \in Sends |-> "none"]
  /\ mail = [u \in Sends |-> 0]
  /\ restarts = 0

-----------------------------------------------------------------------------
(* Sending *)

Answer(u, a) ==
  /\ call' = [call EXCEPT ![u] = a]
  /\ UNCHANGED <<rowId, outbox, due>>

\* enqueue: the row is written in the transaction that authenticated the sender.
Enqueue(u) ==
  /\ call' = [call EXCEPT ![u] = "queued"]
  /\ rowId' = [rowId EXCEPT ![u] = Cardinality({v \in Sends : rowId[v] # 0}) + 1]
  /\ outbox' = [outbox EXCEPT ![u] = "pending"]
  /\ due' = [due EXCEPT ![u] = TRUE]

\* sendLocal: authenticate, then resolve; a local peer wins over remote ones.
SendLocal(u, remoteStep) ==
  \/ ~authed /\ Answer(u, "refused")
  \/ authed /\ u \notin Explicit /\ local[u] /\ Answer(u, "local")
  \/ authed /\ (u \in Explicit \/ ~local[u]) /\ remoteStep

Send(u) ==
  /\ call[u] = "new"
  /\ SendLocal(u, IF u \in Explicit THEN Enqueue(u) ELSE Answer(u, "asking"))
  /\ UNCHANGED <<authed, local, relay, notices, late, destVars, restarts>>

\* Mutant of DirectoryAnswers: the answer is used without a second look at the origin.
DirectoryAnswersUnchecked(u) ==
  /\ call[u] = "asking"
  /\ Answer(u, "unresolved") \/ Enqueue(u)
  /\ UNCHANGED <<authed, local, relay, notices, late, destVars, restarts>>

\* What directory() finds at the other machines under a bare name; one that does
\* not answer in time, or answers nonsense, is unreachable.
Found == {"nobody", "one peer", "several", "unreachable"}

\* The send fails unless exactly one peer was found at machines that all
\* answered; then everything is checked again, and the message queued.
DirectoryAnswers(u) ==
  /\ call[u] = "asking"
  /\ \E found \in Found :
       \/ found # "one peer" /\ Answer(u, "unresolved")
       \/ found = "one peer" /\ SendLocal(u, Enqueue(u))
  /\ UNCHANGED <<authed, local, relay, notices, late, destVars, restarts>>

\* The session of the senders is replaced or goes stale.
SessionEnds ==
  /\ authed
  /\ authed' = FALSE
  /\ UNCHANGED <<local, call, rowId, outbox, due, relay, notices, late, destVars, restarts>>

\* A local peer takes or gives up the bare name while a lookup is under way.
LocalPeerChanges(u) ==
  /\ call[u] = "asking"
  /\ local' = [local EXCEPT ![u] = ~@]
  /\ UNCHANGED <<authed, call, rowId, outbox, due, relay, notices, late, destVars, restarts>>

-----------------------------------------------------------------------------
(* The worker *)

Running == \E u \in Sends : relay[u] # "idle"

Due == {u \in Sends : outbox[u] = "pending" /\ due[u]}

\* The rows of one round: ORDER BY id LIMIT.
Round == {u \in Due : Cardinality({v \in Due : rowId[v] < rowId[u]}) < MaxBatch}

Tick ==
  /\ ~Running
  /\ Round # {}
  /\ relay' = [u \in Sends |-> IF u \in Round THEN "asked" ELSE relay[u]]
  /\ UNCHANGED <<authed, local, call, rowId, outbox, due, notices, late, destVars, restarts>>

\* The request fails, or the origin stops waiting for it and the destination
\* may still get it.
Lose(u) ==
  /\ relay[u] = "asked"
  /\ relay' = [relay EXCEPT ![u] = "failed"]
  /\ late' \in {late, [late EXCEPT ![u] = TRUE]}
  /\ UNCHANGED <<authed, local, call, rowId, outbox, due, notices, destVars, restarts>>

BackOff(u) ==
  /\ relay' = [relay EXCEPT ![u] = "idle"]
  /\ due' = [due EXCEPT ![u] = FALSE]
  /\ UNCHANGED <<outbox, notices>>

\* Mutant of Retry: a failed relay never finishes its round.
RetryUnfinished(u) ==
  /\ relay[u] = "failed"
  /\ due' = [due EXCEPT ![u] = FALSE]
  /\ UNCHANGED <<authed, local, call, rowId, outbox, relay, notices, late, destVars, restarts>>

Retry(u) ==
  /\ relay[u] = "failed"
  /\ BackOff(u)
  /\ UNCHANGED <<authed, local, call, rowId, late, destVars, restarts>>

BackOffEnds(u) ==
  /\ outbox[u] = "pending" /\ ~due[u]
  /\ due' = [due EXCEPT ![u] = TRUE]
  /\ UNCHANGED <<authed, local, call, rowId, outbox, relay, notices, late, destVars, restarts>>

\* complete(): notice and status change in one transaction.
Settle(u) ==
  /\ outbox[u] = "pending"
  /\ outbox' = [outbox EXCEPT ![u] = IF relay[u] \in Inserting THEN "delivered" ELSE "bounced"]
  /\ notices' = [notices EXCEPT ![u] =
       @ \cup (CASE relay[u] = "ok" -> {} [] relay[u] = "warned" -> {"notice"} [] OTHER -> {"bounce"})]

\* Mutant of Complete: the notice is written, and the status only in a later step that may fail.
CompleteUnatomic(u) ==
  /\ relay[u] \in Verdicts \cup {"refused"}
  /\ \/ Settle(u) /\ relay' = [relay EXCEPT ![u] = "idle"] /\ UNCHANGED due
     \/ /\ notices' = [notices EXCEPT ![u] = @ \cup {"bounce"}]
        /\ relay' = [relay EXCEPT ![u] = "idle"] /\ due' = [due EXCEPT ![u] = FALSE]
        /\ UNCHANGED outbox
  /\ UNCHANGED <<authed, local, call, rowId, late, destVars, restarts>>

\* The answer is taken; if the transaction fails the row is retried.
Complete(u) ==
  /\ relay[u] \in Verdicts \cup {"refused"}
  /\ \/ Settle(u) /\ relay' = [relay EXCEPT ![u] = "idle"] /\ UNCHANGED due
     \/ BackOff(u)
  /\ UNCHANGED <<authed, local, call, rowId, late, destVars, restarts>>

-----------------------------------------------------------------------------
(* The destinations *)

\* deliverRelayed: the address is resolved among the local peers only; a message
\* that is delivered, with a notice or without, is one new row, any other none.
Deliver(u, v) == mail' = [mail EXCEPT ![u] = IF v \in Inserting THEN @ + 1 ELSE @]

\* Mutant of Receive: only deliveries leave a receipt.
ReceiveForgetsRejection(u, v) ==
  \/ receipt[u] = v /\ UNCHANGED <<receipt, mail>>
  \/ receipt[u] = "none" /\ v = "rejected" /\ UNCHANGED <<receipt, mail>>
  \/ /\ receipt[u] = "none" /\ v \in Inserting
     /\ receipt' = [receipt EXCEPT ![u] = v]
     /\ Deliver(u, v)

\* receive(): a known message_uid gets its recorded response; a new one is
\* delivered or rejected by the local rules, and the outcome recorded with it.
Receive(u, v) ==
  \/ receipt[u] = v /\ UNCHANGED <<receipt, mail>>
  \/ /\ receipt[u] = "none"
     /\ Deliver(u, v)
     /\ receipt' = [receipt EXCEPT ![u] = v]

\* envelopeFrom rejects an unknown peer type before receive() is reached.
Refuses(u) == old[HostOf[u]] /\ u \in NewKind

\* A relay request is handled and its answer reaches the origin.
Handle(u) ==
  /\ relay[u] = "asked"
  /\ \/ Refuses(u) /\ relay' = [relay EXCEPT ![u] = "refused"] /\ UNCHANGED <<receipt, mail>>
     \/ ~Refuses(u) /\ \E v \in Verdicts : Receive(u, v) /\ relay' = [relay EXCEPT ![u] = v]
  /\ UNCHANGED <<authed, local, call, rowId, outbox, due, notices, late, old, restarts>>

\* A relay request is handled after the origin has given it up; another one may
\* be on its way.
HandleLate(u) ==
  /\ late[u]
  /\ late' \in {late, [late EXCEPT ![u] = FALSE]}
  /\ \/ Refuses(u) /\ UNCHANGED <<receipt, mail>>
     \/ ~Refuses(u) /\ \E v \in Verdicts : Receive(u, v)
  /\ UNCHANGED <<originVars, old, restarts>>

\* The answer of a handled request is lost.
LoseAnswer(u) ==
  /\ relay[u] \in Verdicts \cup {"refused"}
  /\ relay' = [relay EXCEPT ![u] = "failed"]
  /\ UNCHANGED <<authed, local, call, rowId, outbox, due, notices, late, destVars, restarts>>

\* A destination restarts, as an upgraded broker or not: requests to it are cut.
DestinationRestarts(h) ==
  /\ restarts < MaxRestarts
  /\ restarts' = restarts + 1
  /\ old' \in {old, [old EXCEPT ![h] = FALSE]}
  /\ late' = [u \in Sends |-> late[u] /\ HostOf[u] # h]
  /\ relay' = [u \in Sends |-> IF relay[u] = "asked" /\ HostOf[u] = h THEN "failed" ELSE relay[u]]
  /\ UNCHANGED <<authed, local, call, rowId, outbox, due, notices, receipt, mail>>

\* The origin restarts: lookups and relays in progress are gone, the tables stay.
OriginRestarts ==
  /\ restarts < MaxRestarts
  /\ restarts' = restarts + 1
  /\ call' = [u \in Sends |-> IF call[u] = "asking" THEN "lost" ELSE call[u]]
  /\ late' \in [Sends -> BOOLEAN]
  /\ \A u \in Sends : late'[u] # late[u] => relay[u] = "asked" /\ late'[u]
  /\ relay' = [u \in Sends |-> "idle"]
  /\ UNCHANGED <<authed, local, rowId, outbox, due, notices, destVars>>

Next ==
  \/ \E u \in Sends :
       \/ Send(u) \/ DirectoryAnswers(u) \/ LocalPeerChanges(u)
       \/ Lose(u) \/ Retry(u) \/ BackOffEnds(u) \/ Complete(u)
       \/ Handle(u) \/ HandleLate(u) \/ LoseAnswer(u)
  \/ \E h \in Hosts : DestinationRestarts(h)
  \/ SessionEnds \/ Tick \/ OriginRestarts

Spec == Init /\ [][Next]_vars

\* The worker's timer keeps firing and its steps are taken; a row to a reachable
\* machine that is retried again and again gets an answer and is settled at some time.
Fairness ==
  /\ WF_vars(Tick)
  /\ \A u \in Sends :
       /\ WF_vars(Lose(u)) /\ WF_vars(Retry(u)) /\ WF_vars(BackOffEnds(u)) /\ WF_vars(Complete(u))
       /\ HostOf[u] \in Reachable =>
            SF_vars(Handle(u)) /\ SF_vars(Complete(u) /\ outbox'[u] # "pending")

-----------------------------------------------------------------------------
(* Properties *)

\* The destination inserts a message at most once, however often it is relayed
\* and whichever answers are lost.
InsertedAtMostOnce == \A u \in Sends : mail[u] <= 1

\* The sender is told what happened: one bounce for a bounced message, one
\* warning for one delivered with a warning, and nothing else.
NoticeMatchesOutcome ==
  \A u \in Sends :
    notices[u] = CASE outbox[u] = "bounced" -> {"bounce"}
                   [] outbox[u] = "delivered" /\ receipt[u] = "warned" -> {"notice"}
                   [] OTHER -> {}

\* A message leaves the machine only for a sender whose session is current when
\* it is queued and, sent to a bare name, only while no local peer has the name,
\* also when both held before the directory lookup and changed during it.
QueuedOnlyWhenRemote ==
  [][\A u \in Sends : outbox[u] = "none" /\ outbox'[u] # "none"
       => authed /\ (u \in Explicit \/ ~local[u])]_vars

RC == INSTANCE RelayContract WITH
        accepted <- {u \in Sends : outbox[u] # "none"},
        copies <- mail,
        outcome <- [u \in Sends |-> IF outbox[u] \in {"delivered", "bounced"} THEN outbox[u] ELSE "open"]

\* Federation implements the contract: delivered means inserted once, bounced
\* means never inserted, and a settled message stays as it is.
KeepsContract == RC!Spec

\* Every message queued for a reachable machine is settled in the end, also while
\* others to a dead machine are retried forever and every round waits for them.
EverySendSettles ==
  \A u \in Sends :
    HostOf[u] \in Reachable =>
      (outbox[u] = "pending") ~> (outbox[u] \in {"delivered", "bounced"})
===============================================================================
