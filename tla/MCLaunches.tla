------------------------------ MODULE MCLaunches ------------------------------
(***************************************************************************)
(* The bookkeeping of managed sessions, for TLC: the registry of wakeable  *)
(* Codex sessions (WakeRegistry) and the claims and saved sessions of      *)
(* Droid launchers (DroidSession).  They use different files and share no  *)
(* state, so a behaviour runs one of them and the other stays as it was.   *)
(***************************************************************************)
EXTENDS WakeRegistry

CONSTANTS
  Launchers, DroidPeers, DroidFaults   \* Launchers, Peers and MaxFaults of DroidSession

ASSUME DroidAssumption == 0 \notin Launchers /\ 0 \notin DroidPeers /\ DroidFaults \in Nat

VARIABLES
  books,   \* which bookkeeping this behaviour is about
  launcher, claim, binding, ulock, engine, mcp, owner, record, issued, lapses   \* of DroidSession

TwoChildren == {"c1", "c2"}
OneChat == {"d1"}
OneTool == {"w1"}
AllProcs == {"c1", "c2", "d1", "w1"}
TwoLaunchers == 1 .. 2
ThreePeers == 1 .. 3
TwoPeers == 1 .. 2

Droid == INSTANCE DroidSession
  WITH Peers <- DroidPeers, MaxFaults <- DroidFaults, registered <- issued, faults <- lapses

droidVars == <<launcher, claim, binding, ulock, engine, mcp, owner, record, issued, lapses>>

BothInit ==
  /\ Init /\ Droid!Init
  /\ books \in {"registry", "droid"}

BothNext ==
  \/ books = "registry" /\ Next /\ UNCHANGED <<books, droidVars>>
  \/ books = "droid" /\ Droid!Next /\ UNCHANGED <<books, vars>>

BothSpec == BothInit /\ [][BothNext]_<<vars, droidVars, books>>

\* See DroidSession: no Factory session is loaded by the engines of two launchers.
OneEngine == Droid!OneEngine

\* See DroidSession: the claim and the saved session name the peer that the child is.
ClaimNamesPeer == Droid!ClaimNamesPeer
===============================================================================
