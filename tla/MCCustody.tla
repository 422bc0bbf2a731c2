------------------------------ MODULE MCCustody ------------------------------
(***************************************************************************)
(* The two wakes that keep custody of a prompt in a ledger, for TLC: that  *)
(* of an OpenClaw agent (OpenClaw) and that of a Hermes chat               *)
(* (HermesChatWake).  They use different ledgers and hosts and share no    *)
(* state, so a behaviour runs one of them and the other stays as it was.   *)
(***************************************************************************)
EXTENDS OpenClaw, TLC

CONSTANTS
  p1, p2, c1, c2, k1, k2, k3,
  ChatMails, Launches, Wakes, MaxStarts, Hosts, Ladder, ChatFaults, ForeignWork   \* of HermesChatWake

VARIABLES
  surface,   \* which wake this behaviour is about
  sent, got, chatLedger, chatLock, client, dpc, dmax, dl, wake, evidence, ppc, pmax, pno,
  host, up, open, chatFaults, touched   \* of HermesChatWake

\* Mail, launches and wakes have numbers that grow from 1, and host 1 is the first.
ASSUME ChatAssumption ==
  /\ ChatMails \subseteq Nat \ {0} /\ Launches \subseteq Nat \ {0} /\ Wakes \subseteq Nat \ {0}
  /\ Hosts \subseteq Nat \ {0} /\ 1 \in Hosts /\ Ladder \in Nat /\ ChatFaults \in Nat

TwoProcs == {p1, p2}
TwoChildren == {c1, c2}
ThreeCalls == {k1, k2, k3}
CallsOfChildren == [k \in Calls |-> IF k = k3 THEN c2 ELSE c1]
OneChildEach == [c \in Children |-> IF c = c1 THEN 1 ELSE 2]
Interchangeable == Permutations(Procs) \cup Permutations({k1, k2})
Two == 1 .. 2

Chat == INSTANCE HermesChatWake
  WITH Mails <- ChatMails, MaxFaults <- ChatFaults,
       ledger <- chatLedger, lock <- chatLock, faults <- chatFaults

chatVars == <<sent, got, chatLedger, chatLock, client, dpc, dmax, dl, wake, evidence, ppc, pmax,
              pno, host, up, open, chatFaults, touched>>

BothInit ==
  /\ Init /\ Chat!Init
  /\ surface \in {"wake", "gate", "hermes"}
  /\ surface = "hermes" => binding = NoBinding
  /\ surface = "wake" => binding # NoBinding

BothNext ==
  \/ surface # "hermes" /\ Next /\ UNCHANGED <<surface, chatVars>>
  \/ surface = "hermes" /\ Chat!Next /\ UNCHANGED <<surface, vars>>

BothSpec == BothInit /\ [][BothNext]_<<vars, chatVars, surface>>

-----------------------------------------------------------------------------
Busy == {k \in Calls : cpc[k] # "idle"}
Starting ==
  \/ \E c \in Children : reg[c] \in {"proven", "registering", "read", "write"}
  \/ \E k \in Busy : cpc[k] # "await"

\* The two halves of OpenClaw are explored one after the other.  "wake": an agent that
\* was bound, with one child and one call at a time, which starts while no pass runs;
\* every fault of a pass.  "gate": every child and call, at any moment of a pass, but
\* no mail, binds only, and no fault but a child's death and heartbeats that stop.
Halves ==
  /\ surface = "wake" =>
       /\ Cardinality(Busy) <= 1 /\ \A k \in Busy : ChildOf[k] = c1
       /\ Starting => \A p \in Procs : ~Custody(p)
       /\ stale => switch = "killed"
  /\ surface = "gate" =>
       /\ switch = "on" /\ lock # Orphan /\ ~halted /\ excused = {} /\ arrived = 0
       /\ \A s \in Subs : ledger[s].state # "cleared"
       /\ \A p \in Procs : Custody(p) => kind[p] = "bind"

\* Once an operator stepped in, the properties of a chat say nothing more: what
\* follows is left out, but for the end of a cancellation.
UntilOperator == touched => chatLedger.state = "cancelled"

-----------------------------------------------------------------------------
\* See HermesChatWake: no mail has two wakes in flight at once.
OneWakePerMail == Chat!OneWakePerMail

\* See HermesChatWake: mail counts as handled only after a turn.
HandledAfterATurn == Chat!HandledAfterATurn

\* See HermesChatWake: a prompt in the host keeps its attempt open in the ledger.
OpenWhileInHost == Chat!OpenWhileInHost
===============================================================================
