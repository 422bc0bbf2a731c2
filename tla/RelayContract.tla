---------------------------- MODULE RelayContract ----------------------------
(***************************************************************************)
(* What federation promises about the messages that one machine relays to  *)
(* others (docs/components/federation.md): an accepted message is inserted *)
(* at its destination at most once, and settled at its origin at most      *)
(* once: as delivered only after it was inserted, as bounced only if it    *)
(* never will be.                                                          *)
(***************************************************************************)
EXTENDS Naturals

CONSTANT Sends

VARIABLES
  accepted,   \* messages the origin has queued
  copies,     \* rows inserted at the destination
  outcome     \* what the origin's outbox says

contractVars == <<accepted, copies, outcome>>

Init ==
  /\ accepted = {}
  /\ copies = [u \in Sends |-> 0]
  /\ outcome = [u \in Sends |-> "open"]

Accept(u) ==
  /\ accepted' = accepted \cup {u}
  /\ UNCHANGED <<copies, outcome>>

Insert(u) ==
  /\ u \in accepted
  /\ copies[u] = 0
  /\ outcome[u] = "open"
  /\ copies' = [copies EXCEPT ![u] = 1]
  /\ UNCHANGED <<accepted, outcome>>

Settle(u, o) ==
  /\ u \in accepted
  /\ outcome[u] = "open"
  /\ copies[u] = IF o = "delivered" THEN 1 ELSE 0
  /\ outcome' = [outcome EXCEPT ![u] = o]
  /\ UNCHANGED <<accepted, copies>>

Next ==
  \E u \in Sends :
    \/ Accept(u)
    \/ Insert(u)
    \/ \E o \in {"delivered", "bounced"} : Settle(u, o)

Spec == Init /\ [][Next]_contractVars
==============================================================================
