------------------------------- MODULE Custody -------------------------------
(***************************************************************************)
(* What the delivery pipeline promises about one mailbox: honest           *)
(* at-least-once delivery (docs/delivery-contract.md).  A message that the *)
(* broker accepted stays in custody, may be put into any number of         *)
(* responses, and is closed only after it was put into at least one        *)
(* response that was fully built.  Nothing else ends custody.              *)
(***************************************************************************)
CONSTANT Msgs

VARIABLES
  accepted,   \* messages the broker has queued for the mailbox
  offered,    \* messages that were in a response that was fully built
  closed      \* messages the broker will not offer again

custodyVars == <<accepted, offered, closed>>

Init ==
  /\ accepted = {}
  /\ offered = {}
  /\ closed = {}

Accept(m) ==
  /\ m \notin accepted
  /\ accepted' = accepted \cup {m}
  /\ UNCHANGED <<offered, closed>>

\* One response carries any number of messages, again or for the first time.
Offer(ms) ==
  /\ ms \subseteq accepted
  /\ offered' = offered \cup ms
  /\ UNCHANGED <<accepted, closed>>

\* One acknowledgement closes any number of messages that were offered.
Close(ms) ==
  /\ ms \subseteq offered
  /\ closed' = closed \cup ms
  /\ UNCHANGED <<accepted, offered>>

Next ==
  \/ \E m \in Msgs : Accept(m)
  \/ \E ms \in SUBSET Msgs : Offer(ms) \/ Close(ms)

Spec == Init /\ [][Next]_custodyVars
=============================================================================
