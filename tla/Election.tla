------------------------------- MODULE Election -------------------------------
(***************************************************************************)
(* What an advisory lock over process lifetime promises: at any time at    *)
(* most one live process has been told that it is the owner.               *)
(***************************************************************************)
CONSTANT Procs

VARIABLE holders   \* live processes that were told they own the lock

Init == holders = {}

Win(p) ==
  /\ holders = {}
  /\ holders' = {p}

\* The owner releases the lock or dies.
Leave(p) ==
  /\ p \in holders
  /\ holders' = holders \ {p}

Next == \E p \in Procs : Win(p) \/ Leave(p)

Spec == Init /\ [][Next]_holders
===============================================================================
