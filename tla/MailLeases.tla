----------------------------- MODULE MailLeases -----------------------------
(***************************************************************************)
(* What the broker promises about leases, for all its mailboxes: a message *)
(* is in the hands of at most one reader, it can be taken away from the    *)
(* reader at any time, and only the reader that has it can close it.       *)
(***************************************************************************)
CONSTANTS Msgs, Readers, Nobody

VARIABLES
  holder,   \* who has leased a message, or Nobody
  closer    \* who closed it, or Nobody

leaseVars == <<holder, closer>>

Init ==
  /\ holder = [m \in Msgs |-> Nobody]
  /\ closer = [m \in Msgs |-> Nobody]

\* One poll leases any number of messages that nobody has.
Take(ms, r) ==
  /\ \A m \in ms : holder[m] = Nobody /\ closer[m] = Nobody
  /\ holder' = [m \in Msgs |-> IF m \in ms THEN r ELSE holder[m]]
  /\ UNCHANGED closer

\* Leases end by time, or because the mailbox gets a new reader.
Revoke(ms) ==
  /\ holder' = [m \in Msgs |-> IF m \in ms THEN Nobody ELSE holder[m]]
  /\ UNCHANGED closer

\* One acknowledgement closes any number of messages the reader has.
Close(ms, r) ==
  /\ \A m \in ms : holder[m] = r
  /\ holder' = [m \in Msgs |-> IF m \in ms THEN Nobody ELSE holder[m]]
  /\ closer' = [m \in Msgs |-> IF m \in ms THEN r ELSE closer[m]]

Next ==
  \E ms \in SUBSET Msgs :
    Revoke(ms) \/ \E r \in Readers : Take(ms, r) \/ Close(ms, r)

Spec == Init /\ [][Next]_leaseVars
=============================================================================
