------------------------------ MODULE LeaseTable ------------------------------
(***************************************************************************)
(* The rows of the broker's messages table: broker.ts leases a row to a    *)
(* poll under a fresh token, re-offers it when the lease has expired, and  *)
(* marks it acked only for the token of a lease that is still live.  Each  *)
(* SQL transaction is one operator.  A lease token is <<m, n>>: the n-th   *)
(* lease of row m (the code draws a random UUID, so tokens never repeat).  *)
(***************************************************************************)
EXTENDS Naturals, FiniteSets, Messages

CONSTANTS
  MaxBatch,    \* MAX_POLL_BATCH
  MaxLeases    \* bound: how often one row can be leased

ASSUME LeaseAssumption ==
  /\ MaxBatch \in Nat \ {0}
  /\ MaxLeases \in Nat

VARIABLES
  queued,      \* rows that were inserted
  acked,       \* rows with acked = 1
  leaseNo,     \* number of leases given on a row: its newest token is <<m, leaseNo[m]>>
  lease        \* "none": no token on the row; "live"; "expired": lease_expires_at has passed

tableVars == <<queued, acked, leaseNo, lease>>

LeaseStates == {"none", "live", "expired"}
Tokens == Msgs \X Nat

TableTypeOK ==
  /\ queued \subseteq Msgs
  /\ acked \subseteq queued
  /\ leaseNo \in [Msgs -> Nat]
  /\ lease \in [Msgs -> LeaseStates]

TableInit ==
  /\ queued = {}
  /\ acked = {}
  /\ leaseNo = [m \in Msgs |-> 0]
  /\ lease = [m \in Msgs |-> "none"]

\* A batch of leased rows in the hands of a client: for each row the number of
\* the token it came with, 0 for a row that is not in the batch.
Batches == [Msgs -> Nat]
EmptyBatch == [m \in Msgs |-> 0]
InBatch(b) == {m \in Msgs : b[m] # 0}

\* sendMessage / deliverRelayed: AUTOINCREMENT gives ids in insertion order.
Insert(m) ==
  /\ m \notin queued
  /\ \A k \in Msgs : k < m => k \in queued
  /\ queued' = queued \cup {m}
  /\ UNCHANGED <<acked, leaseNo, lease>>

\* pollMessagesInner: the oldest unacked rows of `scope` with no live lease.
Leasable(scope) ==
  LET free == {m \in (scope \cap queued) \ acked : lease[m] # "live" /\ leaseNo[m] < MaxLeases}
  IN {m \in free : Cardinality({k \in free : k < m}) < MaxBatch}

Leased(ms) == [m \in Msgs |-> IF m \in ms THEN leaseNo[m] + 1 ELSE 0]

Lease(ms) ==
  /\ leaseNo' = [m \in Msgs |-> IF m \in ms THEN leaseNo[m] + 1 ELSE leaseNo[m]]
  /\ lease' = [m \in Msgs |-> IF m \in ms THEN "live" ELSE lease[m]]
  /\ UNCHANGED <<queued, acked>>

\* Mutant of Honoured: the tokens are not compared with the row.
HonouredByMailbox(m, tokens) == m \in queued \ acked /\ lease[m] = "live" /\ tokens # {}

Honoured(m, tokens) ==
  /\ m \in queued \ acked
  /\ lease[m] = "live"
  /\ <<m, leaseNo[m]>> \in tokens

\* ackMessagesInner: one UPDATE over all the submitted tokens.
Ack(tokens) ==
  LET hit == {m \in Msgs : Honoured(m, tokens)}
  IN /\ acked' = acked \cup hit
     /\ lease' = [m \in Msgs |-> IF m \in hit THEN "none" ELSE lease[m]]
     /\ UNCHANGED <<queued, leaseNo>>

\* LEASE_DURATION_MS has passed on a row.
Expire(m) ==
  /\ lease[m] = "live"
  /\ lease' = [lease EXCEPT ![m] = "expired"]
  /\ UNCHANGED <<queued, acked, leaseNo>>

\* A reclaim (registerPeerInner) or a re-point (repointOrphanedMail) clears
\* the leases of the unacked rows of a mailbox.
ClearLeases(ms) ==
  /\ lease' = [m \in Msgs |-> IF m \in ms \ acked THEN "none" ELSE lease[m]]
  /\ UNCHANGED <<queued, acked, leaseNo>>
=============================================================================
