------------------------------ MODULE MCRelays -------------------------------
(***************************************************************************)
(* The two relays, that between the brokers of two machines (Federation)   *)
(* and that between a Droid's terminal UI and its daemon (DroidRelay), for *)
(* TLC.  They share no state, so a run is about one of them and the other  *)
(* stays as it was.  Federation: an explicit send, of a kind that an old   *)
(* broker refuses, to a machine that may never answer, and a send by bare  *)
(* name to a machine that does.                                            *)
(***************************************************************************)
EXTENDS Federation, TLC

CONSTANTS
  Between,   \* the relay that a run is about: that between "machines", or "droid"
  u1, u2, h1, h2,
  Mails, Humans, Schedule, MaxFaults   \* of DroidRelay

VARIABLES
  droid,     \* the variable relay of DroidRelay
  toDaemon, toRelay, engine, typed, unread, sent, controller, poll, told, wokenFor,
  cancelled, overtaken, faults   \* of DroidRelay

\* Wakes go by the request 0, and the retry schedule has a length.
ASSUME DroidAssumption == Schedule \in Nat /\ 0 \notin Humans

TwoSends == {u1, u2}
TwoHosts == {h1, h2}
ToTwoHosts == [u \in Sends |-> IF u = u1 THEN h1 ELSE h2]
OneSend == {u1}
SecondHost == {h2}
Two == 1 .. 2

Droid == INSTANCE DroidRelay WITH relay <- droid

droidVars == <<droid, toDaemon, toRelay, engine, typed, unread, sent, controller, poll, told, wokenFor,
               cancelled, overtaken, faults>>

BothInit ==
  /\ Init /\ Droid!Init
  /\ Between = "droid" => (\A u \in Sends : ~local[u]) /\ (\A h \in Hosts : ~old[h])

BothNext ==
  \/ Between = "machines" /\ Next /\ UNCHANGED droidVars
  \/ Between = "droid" /\ Droid!Next /\ UNCHANGED vars

BothSpec == BothInit /\ [][BothNext]_<<vars, droidVars>>

FairMachines == BothSpec /\ Fairness
FairDroid == BothSpec /\ Droid!Fairness

\* See DroidRelay: the relay counts every prompt of the person that the engine
\* holds or that is on its way there.
HumanTurnsTracked == Droid!HumanTurnsTracked

\* See DroidRelay: a cancelled wake is not sent again for the same unread set.
CancelSticks == Droid!CancelSticks

\* See DroidRelay: unread mail is read, or a wake is sent for it.
MailIsWoken == Droid!MailIsWoken
===============================================================================
