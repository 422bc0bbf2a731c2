---------------------------- MODULE LedgerWakeProofs ----------------------------
(***************************************************************************)
(* Proofs about the two wakes that keep their prompts in a ledger: that of *)
(* an OpenClaw agent, for any number of processes, children, calls,        *)
(* submissions, messages, sessions and faults; and that of a Hermes chat,  *)
(* for any number of mails, clients, desktop wakes, hosts and faults.      *)
(***************************************************************************)
EXTENDS MCCustody, FiniteSetTheorems, SequenceTheorems, TLAPS

\* The ledger lock is the right to a pass, and the pass knows what is open: nothing
\* before it writes its intent, only that intent until it has the answer.
LedgerGuarded ==
  \A p \in Procs :
    /\ pc[p] # "idle" => lock = p
    /\ pc[p] \in {"inbox", "describe"} => OpenSubs = {} /\ kind[p] # "status"
    /\ pc[p] \in {"send", "ack"} => Mine(p) \in Subs /\ OpenSubs = {Mine(p)}
    /\ pc[p] = "send" => Mine(p) \notin inFlight /\ gw[Mine(p)].state = "none"

OneOpen == \A s, u \in OpenSubs : s = u

\* What the Gateway has or may still get is in the ledger; it has a receipt for one
\* session, and none before the request was processed.
HeldInLedger ==
  \A s \in Ids :
    /\ s \in inFlight => gw[s].state = "none"
    /\ gw[s].state = "none" => gw[s].session = 0
    /\ gw[s].session <= session
    /\ Reached(s) => s \in Subs
    /\ s \in inFlight \/ gw[s].state = "pending" => ledger[s].state \in Open \cup {"cleared", "pruned"}

\* The ledger names an unread set once, and the set a pass is about to wake not yet.
SignaturesDiffer ==
  /\ excused \subseteq Subs
  /\ \A s \in Subs : s \notin excused => ledger[s].sig = woke[s]
  /\ \A s, u \in Subs : ledger[s].sig = ledger[u].sig /\ ledger[s].sig # {} => s = u
  /\ \A p \in Procs :
       /\ pc[p] \in {"idle", "read", "receipts", "inbox"} => sig[p] = {}
       /\ pc[p] = "describe" /\ sig[p] # {} => \A s \in Subs : ledger[s].sig # sig[p]

\* The tokens of submissions that are still vouched for are read in the order of the
\* submissions: one is sent after the one before was read, or taken back.
Withdrawn == {"cancelled", "cleared", "pruned"}
TokensInOrder ==
  /\ \A s \in Subs :
       /\ ledger[s].session <= session
       /\ gw[s].state # "none" => ledger[s].session <= gw[s].session
       /\ ledger[s].state = "consumed" => gw[s].state = "consumed"
  /\ \A s, u \in Subs : s < u /\ ledger[s].state \notin Withdrawn
       => gw[s].state = "consumed" /\ gw[s].session <= ledger[u].session
  /\ \A s \in Ids : gw[s].state = "consumed" => gw[s].session \in proven

\* A binding of thread t by submission s: that thread has read the token before any
\* later submission was sent.  Submission 0 stands for a binding made before.
Shown(t, s) ==
  IF s = 0 THEN t \in {0, 1} /\ (t = 1 => 1 \in proven)
  ELSE /\ s \in Subs /\ gw[s].state = "consumed" /\ gw[s].session = t
       /\ \A u \in Subs : s < u => t <= ledger[u].session

\* The bindings that are on disk, that a call has decided and that an owner has read.
BindingsShown ==
  /\ Shown(binding.thread, binding.proof)
  /\ \A k \in Calls : cpc[k] = "rebind" => view[k].thread = ThreadOf[ChildOf[k]] /\ Shown(view[k].thread, view[k].proof)
  /\ \A c \in Children : reg[c] = "write" => Shown(ThreadOf[c], copy[c])

AtClaim(k) == cpc[k] \in {"claim", "recheck"}

OwnersProven ==
  /\ \A k \in Calls : AtClaim(k) => ThreadOf[ChildOf[k]] \in proven
  /\ \A c \in Children : IsMain(c) \/ c \in {claim, row} => ThreadOf[c] \in proven

\* While no binding went back: the thread of a child that passed the gate is bound or
\* lies before the bound one, and only in the second case is the claim ever lost.
Keeps(c) == ThreadOf[c] <= binding.thread /\ (claim = c \/ ThreadOf[c] # binding.thread)
ClaimKept ==
  ~movedBack =>
    /\ \A k \in Calls : /\ AtClaim(k) => ThreadOf[ChildOf[k]] <= binding.thread
                        /\ cpc[k] = "recheck" => Keeps(ChildOf[k])
    /\ \A c \in Children : IsMain(c) => Keeps(c)

GateInv == BindingsShown /\ OwnersProven /\ ClaimKept

LedgerInv == LedgerGuarded /\ OneOpen /\ HeldInLedger /\ SignaturesDiffer

IInv == TypeOK /\ LedgerInv /\ TokensInOrder /\ GateInv

-----------------------------------------------------------------------------
(* Lemmas about the ledger *)

States == Open \cup Terminal \cup {"pruned"}

LedgerTypeOK == ledger \in Seq(Submission) /\ Len(ledger) <= MaxSubs

LEMMA Entries ==
  ASSUME LedgerTypeOK
  PROVE  /\ Len(ledger) \in Nat /\ Subs \subseteq Ids /\ Subs = DOMAIN ledger
         /\ ledger = [s \in Subs |-> ledger[s]]
         /\ \A s \in Subs : /\ ledger[s] \in Submission
                            /\ ledger[s].state \in States /\ ledger[s].sig \in SUBSET Mails
                            /\ ledger[s].session \in Threads
  <1>1. Len(ledger) \in Nat /\ ledger \in [Subs -> Submission]
    BY LenProperties DEF LedgerTypeOK, Subs
  <1>2. Subs \subseteq Ids
    BY <1>1, OpenClawAssumption DEF LedgerTypeOK, Subs, Ids
  <1>3. ASSUME NEW s \in Subs
        PROVE  /\ ledger[s] \in Submission
               /\ ledger[s].state \in States /\ ledger[s].sig \in SUBSET Mails
               /\ ledger[s].session \in Threads
    <2>1. ledger[s] \in Submission
      BY <1>1
    <2>2. QED
      BY <2>1 DEF Submission, States
  <1>4. QED
    BY <1>1, <1>2, <1>3

\* An entry of the ledger is replaced.
LEMMA ReplacedEntry ==
  ASSUME LedgerTypeOK, NEW s \in Subs, NEW r \in Submission, ledger' = [ledger EXCEPT ![s] = r]
  PROVE  /\ LedgerTypeOK' /\ Subs' = Subs
         /\ ledger'[s] = r /\ \A u \in Subs \ {s} : ledger'[u] = ledger[u]
  BY ExceptSeq DEF LedgerTypeOK, Subs

LEMMA SetState ==
  ASSUME LedgerTypeOK, NEW s \in Subs, NEW st \in States, Set(s, st)
  PROVE  /\ LedgerTypeOK' /\ Subs' = Subs
         /\ \A u \in Subs : /\ ledger'[u].state = IF u = s THEN st ELSE ledger[u].state
                            /\ ledger'[u].sig = ledger[u].sig
                            /\ ledger'[u].session = ledger[u].session
  <1> DEFINE r == [ledger[s] EXCEPT !.state = st]
  <1>1. r \in Submission /\ r.state = st /\ r.sig = ledger[s].sig /\ r.session = ledger[s].session
    BY Entries DEF Submission, States
  <1>2. ledger' = [ledger EXCEPT ![s] = r]
    BY DEF Set
  <1> HIDE DEF r
  <1>3. /\ LedgerTypeOK' /\ Subs' = Subs
        /\ ledger'[s] = r /\ \A u \in Subs \ {s} : ledger'[u] = ledger[u]
    BY <1>1, <1>2, ReplacedEntry
  <1>4. QED
    BY <1>1, <1>3

\* Rearm and Prune release the signature of an entry.
LEMMA ReleaseSig ==
  ASSUME LedgerTypeOK, NEW s \in Subs,
         \/ ledger' = [ledger EXCEPT ![s].sig = {}]
         \/ ledger' = [ledger EXCEPT ![s].state = "pruned", ![s].sig = {}]
  PROVE  /\ LedgerTypeOK' /\ Subs' = Subs
         /\ \A u \in Subs \ {s} : ledger'[u] = ledger[u]
         /\ ledger'[s].sig = {} /\ ledger'[s].session = ledger[s].session
         /\ ledger'[s].state \in {ledger[s].state, "pruned"}
  <1>1. CASE ledger' = [ledger EXCEPT ![s].sig = {}]
    <2> DEFINE r == [ledger[s] EXCEPT !.sig = {}]
    <2>1. r \in Submission /\ r.state = ledger[s].state /\ r.sig = {} /\ r.session = ledger[s].session
      BY Entries DEF Submission
    <2>2. ledger' = [ledger EXCEPT ![s] = r]
      BY <1>1
    <2> HIDE DEF r
    <2>3. /\ LedgerTypeOK' /\ Subs' = Subs
          /\ ledger'[s] = r /\ \A u \in Subs \ {s} : ledger'[u] = ledger[u]
      BY <2>1, <2>2, ReplacedEntry
    <2>4. QED
      BY <2>1, <2>3
  <1>2. CASE ledger' = [ledger EXCEPT ![s].state = "pruned", ![s].sig = {}]
    <2> DEFINE r == [ledger[s] EXCEPT !.state = "pruned", !.sig = {}]
    <2>1. r \in Submission /\ r.state = "pruned" /\ r.sig = {} /\ r.session = ledger[s].session
      BY Entries DEF Submission
    <2>2. ledger' = [ledger EXCEPT ![s] = r]
      BY <1>2, Entries
    <2> HIDE DEF r
    <2>3. /\ LedgerTypeOK' /\ Subs' = Subs
          /\ ledger'[s] = r /\ \A u \in Subs \ {s} : ledger'[u] = ledger[u]
      BY <2>1, <2>2, ReplacedEntry
    <2>4. QED
      BY <2>1, <2>3
  <1>3. QED
    BY <1>1, <1>2

\* Reconciliation changes states only, and settles an entry only for a receipt.
LEMMA ReconciledStates ==
  ASSUME TypeOK, HeldInLedger, TokensInOrder, NEW s \in Subs, NEW d \in 0 .. MaxSessions
  PROVE  /\ Reconciled(s, d) \in States
         /\ Reconciled(s, d) \in Open => ledger[s].state \in Open
         /\ Reconciled(s, d) \notin Open =>
              Reconciled(s, d) = ledger[s].state \/ gw[s].state \in {"consumed", "cancelled"}
         /\ Reconciled(s, d) = "consumed" => ledger[s].state = "consumed" \/ gw[s].state = "consumed"
         /\ ledger[s].state \notin Open => Reconciled(s, d) = ledger[s].state
  <1>1. /\ s \in Ids /\ ledger[s].state \in States /\ ledger[s].session \in Threads
        /\ gw[s].state \in {"none", "pending", "cancelled", "consumed"} /\ session \in Nat
        /\ ledger[s].session <= session
    BY Entries, OpenClawAssumption DEF TypeOK, LedgerTypeOK, TokensInOrder
  <1>2. CASE ledger[s].state \notin Open
    BY <1>1, <1>2 DEF Reconciled
  <1>3. CASE ledger[s].state \in Open /\ (ledger[s].session # d \/ gw[s].session # session)
    BY <1>1, <1>3 DEF Reconciled, Open, States
  <1>4. CASE ledger[s].state \in Open /\ ledger[s].session = d /\ gw[s].session = session
    <2>1. gw[s].state # "none"
      BY <1>1, <1>4 DEF HeldInLedger, Threads
    <2>2. QED
      BY <1>1, <1>4, <2>1 DEF Reconciled, Open, Terminal, States
  <1>5. QED
    BY <1>2, <1>3, <1>4

LEMMA ReconciledLedger ==
  ASSUME TypeOK, HeldInLedger, TokensInOrder, NEW d \in 0 .. MaxSessions,
         ledger' = [s \in Subs |-> [ledger[s] EXCEPT !.state = Reconciled(s, d)]]
  PROVE  /\ LedgerTypeOK' /\ Subs' = Subs
         /\ \A u \in Subs : /\ ledger'[u].state = Reconciled(u, d)
                            /\ ledger'[u].sig = ledger[u].sig
                            /\ ledger'[u].session = ledger[u].session
  <1> DEFINE r(s) == [ledger[s] EXCEPT !.state = Reconciled(s, d)]
  <1>1. ASSUME NEW s \in Subs
        PROVE  /\ r(s) \in Submission /\ r(s).state = Reconciled(s, d)
               /\ r(s).sig = ledger[s].sig /\ r(s).session = ledger[s].session
    <2>1. ledger[s] \in Submission /\ Reconciled(s, d) \in States
      BY Entries, ReconciledStates DEF TypeOK, LedgerTypeOK
    <2>2. QED
      BY <2>1 DEF Submission, States
  <1>2. Len(ledger) \in Nat /\ Len(ledger) <= MaxSubs
    BY Entries DEF TypeOK, LedgerTypeOK
  <1>3. ledger' = [s \in 1 .. Len(ledger) |-> r(s)]
    BY DEF Subs
  <1> HIDE DEF r
  <1>4. ledger' \in Seq(Submission) /\ Len(ledger') = Len(ledger)
    BY <1>1, <1>2, <1>3 DEF Subs
  <1>5. QED
    BY <1>1, <1>2, <1>3, <1>4 DEF LedgerTypeOK, Subs

LEMMA AppendedEntry ==
  ASSUME LedgerTypeOK, Len(ledger) < MaxSubs, NEW r \in Submission, ledger' = Append(ledger, r)
  PROVE  /\ LedgerTypeOK' /\ Len(ledger') = Len(ledger) + 1
         /\ Subs' = Subs \cup {Len(ledger) + 1} /\ Len(ledger) + 1 \in Ids \ Subs
         /\ \A u \in Subs : ledger'[u] = ledger[u]
         /\ ledger'[Len(ledger) + 1] = r
  <1>1. Len(ledger) \in Nat /\ MaxSubs \in Nat
    BY Entries, OpenClawAssumption
  <1>2. ledger' \in Seq(Submission) /\ Len(ledger') = Len(ledger) + 1
    BY DEF LedgerTypeOK
  <1>3. \A u \in Subs : ledger'[u] = ledger[u]
    BY <1>1 DEF LedgerTypeOK, Subs
  <1>4. ledger'[Len(ledger) + 1] = r
    BY <1>1 DEF LedgerTypeOK
  <1>5. QED
    BY <1>1, <1>2, <1>3, <1>4 DEF LedgerTypeOK, Subs, Ids

-----------------------------------------------------------------------------
(* Types *)

PassTypeOK ==
  /\ LedgerTypeOK
  /\ halted \in BOOLEAN /\ lock \in Procs \cup {Free, Orphan} /\ switch \in {"on", "off", "killed"}
  /\ pc \in [Procs -> {"idle", "read", "receipts", "inbox", "describe", "send", "ack"}]
  /\ kind \in [Procs -> {"wake", "bind", "status"}]
  /\ sig \in [Procs -> SUBSET Mails] /\ seen \in [Procs -> 0 .. MaxSessions]
  /\ inFlight \subseteq Ids
  /\ faults \in 0 .. MaxFaults
  /\ woke \in [Ids -> SUBSET Mails] /\ excused \subseteq Ids

HostTypeOK ==
  /\ session \in 0 .. MaxSessions
  /\ gw \in [Ids -> [state : {"none", "pending", "cancelled", "consumed"}, session : 0 .. MaxSessions]]
  /\ unread \subseteq Mails /\ arrived \in 0 .. MaxMail /\ proven \subseteq Threads

ChildTypeOK ==
  /\ binding \in Bindings /\ claim \in Children \cup {Free} /\ row \in Children \cup {Free}
  /\ reg \in [Children -> {"none", "proven", "registering", "read", "write", "registered", "second",
                           "leaving", "dead"}]
  /\ copy \in [Children -> 0 .. MaxSubs]
  /\ cpc \in [Calls -> {"idle", "rebind", "claim", "recheck", "await"}]
  /\ view \in [Calls -> Bindings]
  /\ stale \in BOOLEAN /\ movedBack \in BOOLEAN

LEMMA TypeParts == TypeOK <=> PassTypeOK /\ HostTypeOK /\ ChildTypeOK
  BY DEF TypeOK, PassTypeOK, LedgerTypeOK, HostTypeOK, ChildTypeOK

LEMMA TypePartsNext == ASSUME PassTypeOK', HostTypeOK', ChildTypeOK' PROVE TypeOK'
  BY DEF TypeOK, PassTypeOK, LedgerTypeOK, HostTypeOK, ChildTypeOK

LEMMA Bounds == MaxSubs \in Nat /\ MaxMail \in Nat /\ MaxSessions \in Nat /\ MaxSessions > 0 /\ MaxFaults \in Nat
  BY OpenClawAssumption

LEMMA InitTypeOK == Init => TypeOK
  <1> SUFFICES ASSUME Init PROVE TypeOK
    OBVIOUS
  <1>1. NoBinding \in Bindings /\ [thread |-> 1, proof |-> 0, peer |-> TRUE] \in Bindings
    BY Bounds DEF Bindings, NoBinding
  <1>2. binding \in Bindings /\ session \in {0, 1}
    BY <1>1 DEF Init
  <1>3. LedgerTypeOK
    BY Bounds DEF Init, LedgerTypeOK
  <1>4. PassTypeOK
    <2>1. halted \in BOOLEAN
      BY Zenon DEF Init
    <2>2. QED
      BY <1>3, <2>1, Bounds DEF Init, PassTypeOK
  <1>5. HostTypeOK
    <2>1. proven \subseteq Threads
      BY Bounds DEF Init, NoBinding, Threads
    <2>2. QED
      BY <1>2, <2>1, Bounds DEF Init, HostTypeOK
  <1>6. ChildTypeOK
    <2>1. stale \in BOOLEAN /\ movedBack \in BOOLEAN
      BY Zenon DEF Init
    <2>2. QED
      BY <1>1, <1>2, <2>1, Bounds DEF Init, ChildTypeOK
  <1>7. QED
    BY <1>4, <1>5, <1>6, TypeParts

LEMMA FaultType == ASSUME faults \in 0 .. MaxFaults, Fault PROVE faults' \in 0 .. MaxFaults
  BY Bounds DEF Fault

\* A pass moves on or ends, and sets nothing but what is listed here.
LEMMA PassMoves ==
  ASSUME TypeOK, NEW p \in Procs,
         Leave(p) \/ (\E to \in {"read", "inbox", "describe", "send", "ack"} : Step(p, to)),
         LedgerTypeOK', halted' \in BOOLEAN, faults' \in 0 .. MaxFaults, inFlight' \subseteq Ids,
         woke' \in [Ids -> SUBSET Mails],
         UNCHANGED <<switch, binding, claim, session, gw, mailVars, childVars, excused, gateHist>>
  PROVE  TypeOK'
  <1> USE DEF mailVars, childVars, rowVars, callVars, gateHist
  <1>1. PassTypeOK /\ HostTypeOK /\ ChildTypeOK
    BY TypeParts
  <1>2. HostTypeOK' /\ ChildTypeOK'
    BY <1>1 DEF HostTypeOK, ChildTypeOK
  <1>3. CASE Leave(p)
    BY <1>1, <1>2, <1>3, Bounds, TypePartsNext DEF PassTypeOK, Leave, Forget
  <1>4. CASE \E to \in {"read", "inbox", "describe", "send", "ack"} : Step(p, to)
    BY <1>1, <1>2, <1>4, TypePartsNext DEF PassTypeOK, Step
  <1>5. QED
    BY <1>3, <1>4

LEMMA PassStepTypes ==
  ASSUME TypeOK, HeldInLedger, LedgerGuarded, TokensInOrder, NEW p \in Procs, PassStep(p)
  PROVE  TypeOK'
  <1> USE DEF gwVars, mailVars, childVars, rowVars, callVars, histVars, wakeHist, gateHist
  <1>0. PassTypeOK /\ HostTypeOK /\ ChildTypeOK /\ LedgerTypeOK
    BY TypeParts DEF PassTypeOK
  <1>1. CASE Reconcile(p) \/ Describe(p)
    <2>1. /\ pc' \in [Procs -> {"idle", "read", "receipts", "inbox", "describe", "send", "ack"}]
          /\ sig' \in [Procs -> SUBSET Mails] /\ seen' \in [Procs -> 0 .. MaxSessions]
          /\ kind' \in [Procs -> {"wake", "bind", "status"}] /\ lock' \in Procs \cup {Free, Orphan}
      BY <1>0, <1>1, Bounds DEF Reconcile, Describe, Leave, Forget, PassTypeOK, HostTypeOK
    <2>2. LedgerTypeOK'
      BY <1>0, <1>1, ReconciledLedger DEF Reconcile, Describe, LedgerTypeOK, PassTypeOK
    <2>3. PassTypeOK' /\ HostTypeOK' /\ ChildTypeOK'
      BY <1>0, <1>1, <2>1, <2>2 DEF Reconcile, Describe, PassTypeOK, HostTypeOK, ChildTypeOK
    <2>4. QED
      BY <2>3, TypePartsNext
  <1>2. CASE Proceed(p)
    <2>1. Leave(p) \/ Step(p, "describe") \/ Step(p, "inbox")
      BY <1>2 DEF Proceed
    <2>2. QED
      BY <1>0, <1>2, <2>1, PassMoves DEF Proceed, PassTypeOK, LedgerTypeOK
  <1>3. CASE ReadInbox(p)
    <2>1. CASE Leave(p)
      BY <1>0, <1>3, <2>1, PassMoves DEF ReadInbox, PassTypeOK, LedgerTypeOK
    <2>2. CASE ~Leave(p)
      <3>1. /\ sig' = [sig EXCEPT ![p] = unread] /\ pc' = [pc EXCEPT ![p] = "describe"]
            /\ UNCHANGED <<seen, kind, lock>>
        BY <1>3, <2>2 DEF ReadInbox
      <3>2. PassTypeOK'
        BY <1>0, <1>3, <3>1 DEF ReadInbox, PassTypeOK, LedgerTypeOK, HostTypeOK
      <3>3. HostTypeOK' /\ ChildTypeOK'
        BY <1>0, <1>3 DEF ReadInbox, HostTypeOK, ChildTypeOK
      <3>4. QED
        BY <3>2, <3>3, TypePartsNext
    <2>3. QED
      BY <2>1, <2>2
  <1>4. CASE WriteIntent(p)
    <2>1. CASE Leave(p) /\ UNCHANGED <<ledger, woke>>
      BY <1>0, <1>4, <2>1, PassMoves DEF WriteIntent, PassTypeOK, LedgerTypeOK
    <2>2. CASE ~(Leave(p) /\ UNCHANGED <<ledger, woke>>)
      <3> DEFINE r == [kind |-> kind[p], sig |-> sig[p], session |-> session, state |-> "intent"]
      <3>1. /\ ledger' = Append(ledger, r) /\ woke' = [woke EXCEPT ![Len(ledger) + 1] = sig[p]]
            /\ Step(p, "send") /\ Len(ledger) < MaxSubs /\ session # 0
        BY <1>4, <2>2 DEF WriteIntent
      <3>2. kind[p] \in {"wake", "bind"} /\ sig[p] \in SUBSET Mails /\ session \in Threads
        BY <1>0, <1>4, <3>1 DEF WriteIntent, LedgerGuarded, PassTypeOK, HostTypeOK, Threads
      <3>3. r \in Submission
        BY <3>2 DEF Submission, Open
      <3> HIDE DEF r
      <3>4. LedgerTypeOK' /\ Len(ledger) + 1 \in Ids
        BY <1>0, <3>1, <3>3, AppendedEntry
      <3>5. woke' \in [Ids -> SUBSET Mails]
        BY <1>0, <3>1, <3>2, <3>4 DEF PassTypeOK
      <3>6. QED
        BY <1>0, <1>4, <3>1, <3>4, <3>5, PassMoves DEF WriteIntent, PassTypeOK
    <2>3. QED
      BY <2>1, <2>2
  <1>5. CASE Send(p)
    <2>1. Mine(p) \in Subs /\ Mine(p) \in Ids
      BY <1>0, <1>5, Entries DEF Send, LedgerGuarded
    <2>2. CASE ~Allowed(kind[p])
      <3>1. LedgerTypeOK'
        BY <1>0, <1>5, <2>1, <2>2, SetState DEF Send, States, Terminal
      <3>2. QED
        BY <1>0, <1>5, <2>2, <3>1, PassMoves DEF Send, PassTypeOK
    <2>3. CASE Allowed(kind[p])
      BY <1>0, <1>5, <2>1, <2>3, PassMoves DEF Send, PassTypeOK, LedgerTypeOK
    <2>4. QED
      BY <2>2, <2>3
  <1>6. CASE Acknowledge(p)
    <2>1. Mine(p) \in Subs
      BY <1>6 DEF Acknowledge, LedgerGuarded
    <2>2. \E st \in {"accepted", "unknown"} : Set(Mine(p), st)
      BY <1>6 DEF Acknowledge
    <2>3. LedgerTypeOK'
      BY <1>0, <2>1, <2>2, SetState DEF States, Open
    <2>4. (halted' = TRUE /\ Fault) \/ UNCHANGED <<halted, faults>>
      BY <1>6, Zenon DEF Acknowledge
    <2>5. halted' \in BOOLEAN /\ faults' \in 0 .. MaxFaults
      BY <1>0, <2>4, FaultType DEF PassTypeOK
    <2>6. QED
      BY <1>0, <1>6, <2>3, <2>5, PassMoves DEF Acknowledge, PassTypeOK
  <1>7. QED
    BY <1>1, <1>2, <1>3, <1>4, <1>5, <1>6 DEF PassStep

\* What the operator, the Gateway and the retention do keeps the types.
LEMMA OutsideTypes ==
  ASSUME TypeOK, HeldInLedger, TokensInOrder,
         \/ \E p \in Procs : PassDies(p) \/ RunWakePass(p) \/ Bind(p) \/ ReconcileAgent(p)
         \/ ClearDeadLock \/ ClearHalt \/ NewSession \/ MailArrives \/ RowGoesStale
         \/ \E to \in {"on", "off", "killed"} : Flip(to)
         \/ \E s \in Subs : Clear(s) \/ Rearm(s) \/ Prune(s)
         \/ \E s \in Ids : GatewayAccepts(s) \/ \E st \in {"cancelled", "consumed"} : GatewaySettles(s, st)
  PROVE  TypeOK'
  <1> USE DEF diskVars, passVars, gwVars, mailVars, childVars, rowVars, callVars, histVars, wakeHist, gateHist
  <1>0. PassTypeOK /\ HostTypeOK /\ ChildTypeOK /\ LedgerTypeOK /\ faults \in 0 .. MaxFaults
    BY TypeParts DEF PassTypeOK
  <1>1. ASSUME NEW p \in Procs, PassDies(p) PROVE TypeOK'
    <2>1. PassTypeOK' /\ HostTypeOK' /\ ChildTypeOK'
      BY <1>0, <1>1, FaultType, Bounds DEF PassDies, Forget, PassTypeOK, LedgerTypeOK, HostTypeOK, ChildTypeOK
    <2>2. QED
      BY <2>1, TypePartsNext
  <1>2. ASSUME NEW p \in Procs, RunWakePass(p) \/ Bind(p) \/ ReconcileAgent(p) PROVE TypeOK'
    <2>1. PICK k \in {"wake", "bind", "status"} : Begin(p, k)
      BY <1>2 DEF RunWakePass, Bind, ReconcileAgent
    <2>2. PassTypeOK' /\ HostTypeOK' /\ ChildTypeOK'
      BY <1>0, <2>1 DEF Begin, AcquireLock, PassTypeOK, LedgerTypeOK, HostTypeOK, ChildTypeOK
    <2>3. QED
      BY <2>2, TypePartsNext
  <1>3. CASE ClearDeadLock \/ MailArrives \/ NewSession
    <2>1. PassTypeOK' /\ ChildTypeOK'
      BY <1>0, <1>3 DEF ClearDeadLock, MailArrives, NewSession, PassTypeOK, LedgerTypeOK, ChildTypeOK
    <2>2. CASE ClearDeadLock
      BY <1>0, <2>1, <2>2, TypePartsNext DEF ClearDeadLock, HostTypeOK
    <2>3. CASE MailArrives
      <3>1. arrived + 1 \in Mails /\ arrived + 1 \in 0 .. MaxMail
        BY <1>0, <2>3, Bounds DEF MailArrives, HostTypeOK, Mails
      <3>2. QED
        BY <1>0, <2>1, <2>3, <3>1, TypePartsNext DEF MailArrives, HostTypeOK
    <2>4. CASE NewSession
      <3>1. session + 1 \in 0 .. MaxSessions
        BY <1>0, <2>4, Bounds DEF NewSession, HostTypeOK
      <3>2. QED
        BY <1>0, <2>1, <2>4, <3>1, TypePartsNext DEF NewSession, HostTypeOK
    <2>5. QED
      BY <1>3, <2>2, <2>3, <2>4
  <1>4. CASE ClearHalt
    <2>1. halted' \in BOOLEAN
      BY <1>4, Zenon DEF ClearHalt
    <2>2. PassTypeOK' /\ HostTypeOK' /\ ChildTypeOK'
      BY <1>0, <1>4, <2>1 DEF ClearHalt, PassTypeOK, LedgerTypeOK, HostTypeOK, ChildTypeOK
    <2>3. QED
      BY <2>2, TypePartsNext
  <1>5. ASSUME NEW to \in {"on", "off", "killed"}, Flip(to) PROVE TypeOK'
    <2>1. PassTypeOK' /\ HostTypeOK' /\ ChildTypeOK'
      BY <1>0, <1>5, FaultType DEF Flip, PassTypeOK, LedgerTypeOK, HostTypeOK, ChildTypeOK
    <2>2. QED
      BY <2>1, TypePartsNext
  <1>6. ASSUME NEW s \in Subs, Clear(s) \/ Rearm(s) \/ Prune(s) PROVE TypeOK'
    <2>1. LedgerTypeOK' /\ s \in Ids
      BY <1>0, <1>6, Entries, SetState, ReleaseSig DEF Clear, Rearm, Prune, States, Terminal
    <2>2. PassTypeOK' /\ HostTypeOK' /\ ChildTypeOK'
      BY <1>0, <1>6, <2>1, FaultType DEF Clear, Rearm, Prune, PassTypeOK, HostTypeOK, ChildTypeOK
    <2>3. QED
      BY <2>2, TypePartsNext
  <1>7. ASSUME NEW s \in Ids, GatewayAccepts(s) PROVE TypeOK'
    <2>1. gw' = gw \/ gw' = [gw EXCEPT ![s] = [state |-> "pending", session |-> session]]
      BY <1>7 DEF GatewayAccepts
    <2>2. PassTypeOK' /\ ChildTypeOK'
      BY <1>0, <1>7 DEF GatewayAccepts, PassTypeOK, LedgerTypeOK, ChildTypeOK
    <2>3. HostTypeOK'
      BY <1>0, <1>7, <2>1 DEF GatewayAccepts, HostTypeOK
    <2>4. QED
      BY <2>2, <2>3, TypePartsNext
  <1>8. ASSUME NEW s \in Ids, NEW st \in {"cancelled", "consumed"}, GatewaySettles(s, st) PROVE TypeOK'
    <2>1. gw[s].state = "pending" /\ gw[s].session = session /\ gw' = [gw EXCEPT ![s].state = st]
          /\ proven' \subseteq proven \cup {session}
      BY <1>8 DEF GatewaySettles
    <2>2. session \in Threads
      <3>1. s \in Subs
        BY <2>1 DEF HeldInLedger, Reached
      <3>2. ledger[s].session \in Threads /\ ledger[s].session <= session
        BY <1>0, <2>1, <3>1, Entries DEF TokensInOrder
      <3>3. QED
        BY <1>0, <3>2, Bounds DEF HostTypeOK, Threads
    <2>3. HostTypeOK'
      BY <1>0, <1>8, <2>1, <2>2 DEF GatewaySettles, HostTypeOK
    <2>4. PassTypeOK' /\ ChildTypeOK'
      BY <1>0, <1>8 DEF GatewaySettles, PassTypeOK, LedgerTypeOK, ChildTypeOK
    <2>5. QED
      BY <2>3, <2>4, TypePartsNext
  <1>9. CASE RowGoesStale
    <2>1. faults' \in 0 .. MaxFaults
      BY <1>0, <1>9, FaultType DEF RowGoesStale
    <2>2. PassTypeOK' /\ HostTypeOK' /\ ChildTypeOK'
      BY <1>0, <1>9, <2>1 DEF RowGoesStale, PassTypeOK, LedgerTypeOK, HostTypeOK, ChildTypeOK
    <2>3. QED
      BY <2>2, TypePartsNext
  <1>10. QED
    BY <1>1, <1>2, <1>3, <1>4, <1>5, <1>6, <1>7, <1>8, <1>9

LEMMA CleanupTypes ==
  ASSUME ChildTypeOK, NEW c \in Children, NEW to \in {"leaving", "dead"}, Cleanup(c, to)
  PROVE  ChildTypeOK'
  <1>1. NoBinding \in Bindings /\ 0 \in 0 .. MaxSubs
    BY Bounds DEF NoBinding, Bindings
  <1>2. QED
    <2>1. row' \in Children \cup {Free}
      BY DEF Cleanup, ChildTypeOK, rowVars
    <2>2. stale' \in BOOLEAN
      BY Zenon DEF Cleanup, ChildTypeOK, rowVars
    <2>3. movedBack' = movedBack
      BY DEF Cleanup, histVars, gateHist
    <2>4. QED
      BY <1>1, <2>1, <2>2, <2>3 DEF Cleanup, Released, ChildTypeOK

LEMMA ChildTypes ==
  ASSUME TypeOK, \/ \E k \in Calls : Admit(k) \/ CallStep(k)
                 \/ \E c \in Children : ChildStep(c) \/ StepDown(c) \/ Exit(c) \/ ChildDies(c) \/ Respawn(c)
  PROVE  TypeOK'
  <1> USE DEF diskVars, passVars, gwVars, mailVars, rowVars, callVars, histVars, wakeHist, gateHist
  <1>0. PassTypeOK /\ HostTypeOK /\ ChildTypeOK /\ LedgerTypeOK /\ faults \in 0 .. MaxFaults
        /\ NoBinding \in Bindings /\ 0 \in 0 .. MaxSubs
    BY TypeParts, Bounds DEF PassTypeOK, NoBinding, Bindings
  <1>1. ASSUME NEW k \in Calls, Admit(k) PROVE TypeOK'
    <2>1. ASSUME NEW s \in Proofs(ChildOf[k])
          PROVE  [thread |-> ThreadOf[ChildOf[k]], proof |-> s, peer |-> binding.peer] \in Bindings
      <3>1. s \in 0 .. MaxSubs
        BY <1>0, <2>1, Entries, Bounds DEF Proofs, Ids
      <3>2. ThreadOf[ChildOf[k]] \in 0 .. MaxSessions
        BY OpenClawAssumption, Bounds
      <3>3. QED
        BY <1>0, <3>1, <3>2 DEF ChildTypeOK, Bindings
    <2>2. view' = view \/ \E s \in Proofs(ChildOf[k]) :
             view' = [view EXCEPT ![k] = [thread |-> ThreadOf[ChildOf[k]], proof |-> s, peer |-> binding.peer]]
      BY <1>1, Zenon DEF Admit
    <2>3. view' \in [Calls -> Bindings]
      BY <1>0, <2>1, <2>2 DEF ChildTypeOK
    <2>4. PassTypeOK' /\ HostTypeOK' /\ ChildTypeOK'
      BY <1>0, <1>1, <2>3 DEF Admit, PassTypeOK, LedgerTypeOK, HostTypeOK, ChildTypeOK
    <2>5. QED
      BY <2>4, TypePartsNext
  <1>2. ASSUME NEW k \in Calls, CallStep(k) PROVE TypeOK'
    <2>1. ChildOf[k] \in Children
      BY OpenClawAssumption
    <2>2. PassTypeOK'
      BY <1>0, <1>2 DEF CallStep, Rebind, TakeClaim, Recheck, Await, PassTypeOK, LedgerTypeOK
    <2>3. HostTypeOK'
      BY <1>0, <1>2 DEF CallStep, Rebind, TakeClaim, Recheck, Await, HostTypeOK
    <2>4. CASE Rebind(k)
      <3>1. movedBack' \in BOOLEAN
        BY <2>4, Zenon DEF Rebind, Write
      <3>2. QED
        BY <1>0, <2>2, <2>3, <2>4, <3>1, TypePartsNext DEF Rebind, Write, ChildTypeOK
    <2>5. CASE TakeClaim(k)
      BY <1>0, <2>1, <2>2, <2>3, <2>5, TypePartsNext DEF TakeClaim, ChildTypeOK
    <2>6. CASE Recheck(k)
      <3>1. /\ claim' \in Children \cup {Free} /\ cpc' \in [Calls -> {"idle", "rebind", "claim", "recheck", "await"}]
            /\ reg' \in [Children -> {"none", "proven", "registering", "read", "write", "registered", "second",
                                     "leaving", "dead"}]
        BY <1>0, <2>1, <2>6 DEF Recheck, Released, ChildTypeOK
      <3>2. QED
        BY <1>0, <2>2, <2>3, <2>6, <3>1, TypePartsNext DEF Recheck, ChildTypeOK
    <2>7. CASE Await(k)
      BY <1>0, <2>1, <2>2, <2>3, <2>7, TypePartsNext DEF Await, ChildTypeOK
    <2>8. QED
      BY <1>2, <2>4, <2>5, <2>6, <2>7 DEF CallStep
  <1>3. ASSUME NEW c \in Children, Register(c) \/ ReadBinding(c) \/ AddPeer(c) \/ Heartbeat(c) \/ Respawn(c)
        PROVE  TypeOK'
    <2>1. binding.proof \in 0 .. MaxSubs /\ [thread |-> ThreadOf[c], proof |-> copy[c], peer |-> TRUE] \in Bindings
      <3>1. ThreadOf[c] \in 0 .. MaxSessions
        BY OpenClawAssumption, Bounds
      <3>2. QED
        BY <1>0, <3>1 DEF ChildTypeOK, Bindings
    <2>2. PassTypeOK' /\ HostTypeOK'
      BY <1>0, <1>3 DEF Register, ReadBinding, AddPeer, Heartbeat, Respawn, PassTypeOK, LedgerTypeOK, HostTypeOK
    <2>3. stale' \in BOOLEAN /\ movedBack' \in BOOLEAN /\ row' \in Children \cup {Free}
      <3>1. CASE Register(c) \/ Heartbeat(c)
        BY <1>0, <3>1, Zenon DEF Register, Heartbeat, Reclaim, ChildTypeOK
      <3>2. CASE AddPeer(c)
        BY <1>0, <3>2, Zenon DEF AddPeer, Write, ChildTypeOK
      <3>3. CASE ReadBinding(c) \/ Respawn(c)
        BY <1>0, <3>3, Zenon DEF ReadBinding, Respawn, ChildTypeOK
      <3>4. QED
        BY <1>3, <3>1, <3>2, <3>3
    <2>4. ChildTypeOK'
      BY <1>0, <1>3, <2>1, <2>3 DEF Register, ReadBinding, AddPeer, Write, Heartbeat, Reclaim, Respawn, ChildTypeOK
    <2>5. QED
      BY <2>2, <2>4, TypePartsNext
  <1>4. ASSUME NEW c \in Children, RegisterFails(c) \/ StepDown(c) \/ Exit(c) \/ ChildDies(c) PROVE TypeOK'
    <2>1. \E to \in {"leaving", "dead"} : Cleanup(c, to)
      BY <1>4 DEF RegisterFails, StepDown, Exit, ChildDies
    <2>2. faults' \in 0 .. MaxFaults
      BY <1>0, <1>4, FaultType DEF RegisterFails, StepDown, Exit, ChildDies
    <2>3. PassTypeOK' /\ HostTypeOK'
      BY <1>0, <2>1, <2>2 DEF Cleanup, PassTypeOK, LedgerTypeOK, HostTypeOK
    <2>4. QED
      BY <1>0, <2>1, <2>3, CleanupTypes, TypePartsNext
  <1>5. QED
    BY <1>1, <1>2, <1>3, <1>4 DEF ChildStep

LEMMA StepTypeOK == ASSUME TypeOK, LedgerInv, TokensInOrder, [Next]_vars PROVE TypeOK'
  <1>1. CASE Next
    BY <1>1, PassStepTypes, OutsideTypes, ChildTypes DEF Next, LedgerInv
  <1>2. CASE UNCHANGED vars
    BY <1>2 DEF vars, diskVars, passVars, gwVars, mailVars, childVars, rowVars, callVars, histVars, wakeHist,
                gateHist, TypeOK
  <1>3. QED
    BY <1>1, <1>2

-----------------------------------------------------------------------------
(* The ledger *)

custodyVars == <<ledger, lock, pc, kind, sig, session, inFlight, gw, woke, excused>>

\* The process under the lock is alone, and without the lock nobody is in a pass.
LEMMA Alone ==
  ASSUME LedgerGuarded, NEW p \in Procs, pc[p] # "idle"
  PROVE  lock = p /\ \A q \in Procs \ {p} : pc[q] = "idle"
  BY DEF LedgerGuarded

LEMMA NobodyInside ==
  ASSUME LedgerGuarded, lock \in {Free, Orphan} PROVE \A q \in Procs : pc[q] = "idle"
  BY OpenClawAssumption DEF LedgerGuarded

LEMMA NobodyGuards == ASSUME \A q \in Procs : pc'[q] = "idle" PROVE LedgerGuarded'
  BY DEF LedgerGuarded

LEMMA Leaves ==
  ASSUME TypeOK, LedgerGuarded, NEW p \in Procs, pc[p] # "idle",
         /\ pc' = [pc EXCEPT ![p] = "idle"] /\ sig' = [sig EXCEPT ![p] = {}]
  PROVE  /\ \A q \in Procs : pc'[q] = "idle"
         /\ sig'[p] = {} /\ \A q \in Procs \ {p} : sig'[q] = sig[q] /\ pc[q] = "idle"
         /\ LedgerGuarded'
  <1>1. \A q \in Procs : pc'[q] = "idle"
    BY Alone DEF TypeOK
  <1>2. QED
    BY <1>1, Alone, NobodyGuards DEF TypeOK

\* A pass that ends leaves the rest of the invariant to what it did to the ledger.
LEMMA LeavesSignatures ==
  ASSUME TypeOK, LedgerGuarded, SignaturesDiffer, NEW p \in Procs, pc[p] # "idle",
         /\ pc' = [pc EXCEPT ![p] = "idle"] /\ sig' = [sig EXCEPT ![p] = {}],
         Subs' = Subs, \A s \in Subs : ledger'[s].sig = ledger[s].sig, UNCHANGED <<woke, excused>>
  PROVE  SignaturesDiffer'
  <1>1. /\ excused' \subseteq Subs'
        /\ \A s \in Subs' : s \notin excused' => ledger'[s].sig = woke'[s]
        /\ \A s, u \in Subs' : ledger'[s].sig = ledger'[u].sig /\ ledger'[s].sig # {} => s = u
    BY DEF SignaturesDiffer
  <1>2. \A q \in Procs : pc'[q] = "idle" /\ sig'[q] = {}
    BY Leaves DEF SignaturesDiffer
  <1>3. QED
    BY <1>1, <1>2 DEF SignaturesDiffer

LEMMA PassStepLedger ==
  ASSUME TypeOK, LedgerInv, TokensInOrder, NEW p \in Procs, PassStep(p)
  PROVE  LedgerInv'
  <1> USE DEF gwVars, mailVars, childVars, rowVars, callVars, histVars, wakeHist, gateHist
  <1>0. LedgerGuarded /\ OneOpen /\ HeldInLedger /\ SignaturesDiffer /\ LedgerTypeOK
    BY DEF LedgerInv, TypeOK, LedgerTypeOK
  <1>a. /\ \A s \in Subs : ledger[s].state \in States /\ s \in Ids
        /\ pc[p] # "idle"
    BY <1>0, Entries DEF PassStep, Describe, Reconcile, Proceed, ReadInbox, WriteIntent, Send, Acknowledge
  <1>b. lock = p /\ \A q \in Procs \ {p} : pc[q] = "idle"
    BY <1>0, <1>a, Alone
  <1>1. CASE Reconcile(p)
    <2>1. CASE Leave(p) /\ UNCHANGED ledger
      <3>1. LedgerGuarded' /\ SignaturesDiffer'
        BY <1>0, <1>1, <1>a, <2>1, Leaves, LeavesSignatures DEF Reconcile, Leave, Forget, Subs
      <3>2. OneOpen' /\ HeldInLedger'
        BY <1>0, <1>1, <2>1 DEF Reconcile, OneOpen, OpenSubs, Subs, HeldInLedger, Reached
      <3>3. QED
        BY <3>1, <3>2 DEF LedgerInv
    <2>2. CASE ~(Leave(p) /\ UNCHANGED ledger)
      <3> DEFINE now(u) == Reconciled(u, seen[p])
                 Again == pc' = [pc EXCEPT ![p] = "read"] /\ UNCHANGED <<sig, kind, lock>>
      <3>1. /\ ledger' = [s \in Subs |-> [ledger[s] EXCEPT !.state = Reconciled(s, seen[p])]]
            /\ Leave(p) \/ Again
        BY <1>1, <2>2 DEF Reconcile
      <3>a. seen[p] \in 0 .. MaxSessions
        BY DEF TypeOK
      <3>2. /\ LedgerTypeOK' /\ Subs' = Subs
            /\ \A u \in Subs : /\ ledger'[u].state = now(u)
                               /\ ledger'[u].sig = ledger[u].sig
        BY <1>0, <3>1, <3>a, ReconciledLedger
      <3>3. \A u \in Subs : /\ now(u) \in Open => ledger[u].state \in Open
                            /\ now(u) \notin Open =>
                                 now(u) = ledger[u].state \/ gw[u].state \in {"consumed", "cancelled"}
        BY <1>0, <3>a, ReconciledStates
      <3> HIDE DEF now
      <3>4. OneOpen'
        BY <1>0, <3>2, <3>3 DEF OneOpen, OpenSubs
      <3>5. HeldInLedger'
        <4>1. UNCHANGED <<session, inFlight, gw>>
          BY <1>1 DEF Reconcile
        <4>2. ASSUME NEW s \in Ids, s \in inFlight \/ gw[s].state = "pending"
              PROVE  ledger'[s].state \in Open \cup {"cleared", "pruned"}
          <5>1. s \in Subs /\ ledger[s].state \in Open \cup {"cleared", "pruned"}
                /\ gw[s].state \notin {"consumed", "cancelled"}
            BY <1>0, <4>2 DEF HeldInLedger, Reached
          <5>2. QED
            BY <3>2, <3>3, <5>1
        <4>3. QED
          BY <1>0, <3>2, <4>1, <4>2 DEF HeldInLedger, Reached
      <3>6. CASE Leave(p)
        <4>1. LedgerGuarded' /\ SignaturesDiffer'
          BY <1>0, <1>1, <1>a, <3>2, <3>6, Leaves, LeavesSignatures DEF Reconcile, Leave, Forget
        <4>2. QED
          BY <3>4, <3>5, <4>1 DEF LedgerInv
      <3>7. CASE Again
        <4>1. LedgerGuarded'
          BY <1>0, <1>a, <1>b, <3>7 DEF LedgerGuarded, TypeOK
        <4>2. pc[p] = "receipts" /\ UNCHANGED <<woke, excused>>
          BY <1>1 DEF Reconcile
        <4>3. SignaturesDiffer'
          <5>1. \A q \in Procs : sig'[q] = sig[q] /\ (q # p => pc'[q] = "idle") /\ pc'[p] = "read"
            BY <1>b, <3>7 DEF TypeOK
          <5>2. \A q \in Procs : sig[q] = {}
            BY <1>0, <1>b, <4>2 DEF SignaturesDiffer
          <5>3. /\ excused' \subseteq Subs'
                /\ \A s \in Subs' : s \notin excused' => ledger'[s].sig = woke'[s]
                /\ \A s, u \in Subs' : ledger'[s].sig = ledger'[u].sig /\ ledger'[s].sig # {} => s = u
            BY <1>0, <3>2, <4>2 DEF SignaturesDiffer
          <5>4. QED
            BY <5>1, <5>2, <5>3 DEF SignaturesDiffer
        <4>4. QED
          BY <3>4, <3>5, <4>1, <4>3 DEF LedgerInv
      <3>8. QED
        BY <3>1, <3>6, <3>7
    <2>3. QED
      BY <2>1, <2>2
  <1>2. CASE Proceed(p) \/ ReadInbox(p)
    <2>1. UNCHANGED <<ledger, session, inFlight, gw, woke, excused>>
      BY <1>2 DEF Proceed, ReadInbox
    <2>2. Subs' = Subs /\ OpenSubs' = OpenSubs /\ OneOpen' /\ HeldInLedger'
      BY <1>0, <2>1 DEF OneOpen, OpenSubs, Subs, HeldInLedger, Reached
    <2>3. CASE Leave(p)
      <3>1. LedgerGuarded' /\ SignaturesDiffer'
        BY <1>0, <1>a, <2>1, <2>2, <2>3, Leaves, LeavesSignatures DEF Leave, Forget
      <3>2. QED
        BY <2>2, <3>1 DEF LedgerInv
    <2>4. CASE Proceed(p) /\ ~Leave(p)
      <3>1. PICK to \in {"describe", "inbox"} : Step(p, to)
        BY <2>4 DEF Proceed
      <3>2. OpenSubs = {} /\ kind[p] # "status" /\ pc[p] = "read"
        BY <2>4, <3>1 DEF Proceed
      <3>3. LedgerGuarded'
        BY <1>0, <1>b, <2>2, <3>1, <3>2 DEF LedgerGuarded, Step, TypeOK
      <3>4. SignaturesDiffer'
        BY <1>0, <1>b, <2>1, <2>2, <3>1, <3>2 DEF SignaturesDiffer, Step, TypeOK
      <3>5. QED
        BY <2>2, <3>3, <3>4 DEF LedgerInv
    <2>5. CASE ReadInbox(p) /\ ~Leave(p)
      <3>1. /\ pc[p] = "inbox" /\ ~AlreadyWoken /\ UNCHANGED <<kind, lock>>
            /\ sig' = [sig EXCEPT ![p] = unread] /\ pc' = [pc EXCEPT ![p] = "describe"]
        BY <2>5 DEF ReadInbox
      <3>2. LedgerGuarded'
        BY <1>0, <1>b, <2>2, <3>1 DEF LedgerGuarded, TypeOK
      <3>3. SignaturesDiffer'
        BY <1>0, <1>b, <2>1, <2>2, <3>1 DEF SignaturesDiffer, AlreadyWoken, TypeOK
      <3>4. QED
        BY <2>2, <3>2, <3>3 DEF LedgerInv
    <2>6. QED
      BY <1>2, <2>3, <2>4, <2>5
  <1>3. CASE WriteIntent(p)
    <2>1. CASE Leave(p) /\ UNCHANGED <<ledger, woke>>
      <3>1. LedgerGuarded' /\ SignaturesDiffer'
        BY <1>0, <1>3, <1>a, <2>1, Leaves, LeavesSignatures DEF WriteIntent, Leave, Forget, Subs
      <3>2. OneOpen' /\ HeldInLedger'
        BY <1>0, <1>3, <2>1 DEF WriteIntent, OneOpen, OpenSubs, Subs, HeldInLedger, Reached
      <3>3. QED
        BY <3>1, <3>2 DEF LedgerInv
    <2>2. CASE ~(Leave(p) /\ UNCHANGED <<ledger, woke>>)
      <3> DEFINE r == [kind |-> kind[p], sig |-> sig[p], session |-> session, state |-> "intent"]
                 n == Len(ledger) + 1
      <3>1. /\ ledger' = Append(ledger, r) /\ woke' = [woke EXCEPT ![n] = sig[p]]
            /\ Step(p, "send") /\ Len(ledger) < MaxSubs /\ pc[p] = "describe" /\ session # 0
            /\ UNCHANGED <<session, inFlight, gw, excused>>
        BY <1>3, <2>2 DEF WriteIntent
      <3>2. r \in Submission /\ r.sig = sig[p] /\ r.state = "intent"
        BY <1>0, <3>1 DEF LedgerGuarded, TypeOK, Submission, Open, Threads
      <3> HIDE DEF r
      <3>3. /\ Len(ledger') = n /\ Subs' = Subs \cup {n} /\ n \in Ids \ Subs
            /\ \A u \in Subs : ledger'[u] = ledger[u]
            /\ ledger'[n] = r
        BY <1>0, <3>1, <3>2, AppendedEntry
      <3> HIDE DEF n
      <3>4. OpenSubs = {} /\ OpenSubs' = {n} /\ OneOpen'
        <4>1. OpenSubs = {}
          BY <1>0, <3>1 DEF LedgerGuarded
        <4>2. \A s \in Subs : ledger'[s].state \notin Open
          BY <3>3, <4>1 DEF OpenSubs
        <4>3. ledger'[n].state \in Open
          BY <3>2, <3>3 DEF Open
        <4>4. OpenSubs' = {n}
          BY <3>3, <4>2, <4>3 DEF OpenSubs, Open
        <4>5. QED
          BY <4>1, <4>4 DEF OneOpen
      <3>5. n \notin inFlight /\ gw[n].state = "none"
        BY <1>0, <3>3 DEF HeldInLedger, Reached
      <3>6. LedgerGuarded'
        BY <1>0, <1>b, <3>1, <3>3, <3>4, <3>5 DEF LedgerGuarded, Step, Mine, TypeOK
      <3>7. HeldInLedger'
        BY <1>0, <3>1, <3>3 DEF HeldInLedger, Reached
      <3>8. SignaturesDiffer'
        <4>1. woke'[n] = sig[p] /\ \A s \in Subs : woke'[s] = woke[s]
          BY <1>a, <3>1, <3>3 DEF TypeOK
        <4>2. \A s \in Subs : sig[p] # {} => ledger[s].sig # sig[p]
          BY <1>0, <3>1 DEF SignaturesDiffer
        <4>3. \A q \in Procs : /\ pc'[q] = IF q = p THEN "send" ELSE pc[q]
                               /\ sig'[q] = sig[q]
          BY <3>1 DEF Step, TypeOK
        <4>4. \A s \in Subs' : s \notin excused' => ledger'[s].sig = woke'[s]
          BY <1>0, <3>1, <3>2, <3>3, <4>1 DEF SignaturesDiffer
        <4>5. \A s, u \in Subs' : ledger'[s].sig = ledger'[u].sig /\ ledger'[s].sig # {} => s = u
          BY <1>0, <3>2, <3>3, <4>2 DEF SignaturesDiffer
        <4>6. QED
          BY <1>0, <1>b, <3>1, <3>3, <4>3, <4>4, <4>5 DEF SignaturesDiffer
      <3>9. QED
        BY <3>4, <3>6, <3>7, <3>8 DEF LedgerInv
    <2>3. QED
      BY <2>1, <2>2
  <1>4. CASE Send(p)
    <2>0. /\ Mine(p) \in Subs /\ OpenSubs = {Mine(p)} /\ Mine(p) \notin inFlight /\ gw[Mine(p)].state = "none"
          /\ ledger[Mine(p)].state \in Open
      BY <1>0, <1>4 DEF Send, LedgerGuarded, OpenSubs
    <2>1. CASE ~Allowed(kind[p])
      <3>1. Set(Mine(p), "cancelled") /\ Leave(p) /\ UNCHANGED <<session, inFlight, gw, woke, excused>>
        BY <1>4, <2>1 DEF Send
      <3>2. /\ Subs' = Subs
            /\ \A u \in Subs : /\ ledger'[u].state = IF u = Mine(p) THEN "cancelled" ELSE ledger[u].state
                               /\ ledger'[u].sig = ledger[u].sig
        BY <1>0, <2>0, <3>1, SetState DEF States, Terminal
      <3>3. LedgerGuarded' /\ SignaturesDiffer'
        BY <1>0, <1>a, <3>1, <3>2, Leaves, LeavesSignatures DEF Leave, Forget
      <3>4. OneOpen'
        BY <1>0, <3>2 DEF OneOpen, OpenSubs, Open
      <3>5. HeldInLedger'
        BY <1>0, <2>0, <3>1, <3>2 DEF HeldInLedger, Reached
      <3>6. QED
        BY <3>3, <3>4, <3>5 DEF LedgerInv
    <2>2. CASE Allowed(kind[p])
      <3>1. /\ inFlight' = inFlight \cup {Mine(p)} /\ Step(p, "ack")
            /\ UNCHANGED <<ledger, session, gw, woke, excused>>
        BY <1>4, <2>2 DEF Send
      <3>2. Subs' = Subs /\ OpenSubs' = OpenSubs /\ OneOpen' /\ Mine(p)' = Mine(p)
        BY <1>0, <3>1 DEF OneOpen, OpenSubs, Subs, Mine
      <3>3. LedgerGuarded'
        BY <1>0, <1>b, <2>0, <3>1, <3>2 DEF LedgerGuarded, Step, Mine, TypeOK
      <3>4. HeldInLedger'
        BY <1>0, <2>0, <3>1, <3>2 DEF HeldInLedger, Reached
      <3>5. SignaturesDiffer'
        BY <1>0, <1>b, <3>1, <3>2 DEF SignaturesDiffer, Step, TypeOK
      <3>6. QED
        BY <3>2, <3>3, <3>4, <3>5 DEF LedgerInv
    <2>3. QED
      BY <2>1, <2>2
  <1>5. CASE Acknowledge(p)
    <2>1. Mine(p) \in Subs /\ OpenSubs = {Mine(p)}
      BY <1>0, <1>5 DEF Acknowledge, LedgerGuarded
    <2>2. PICK st \in {"accepted", "unknown"} : Set(Mine(p), st)
      BY <1>5 DEF Acknowledge
    <2>3. Leave(p) /\ UNCHANGED <<session, inFlight, gw, woke, excused>>
      BY <1>5 DEF Acknowledge
    <2>4. /\ Subs' = Subs
          /\ \A u \in Subs : /\ ledger'[u].state = IF u = Mine(p) THEN st ELSE ledger[u].state
                             /\ ledger'[u].sig = ledger[u].sig
      BY <1>0, <2>1, <2>2, SetState DEF States, Open
    <2>5. LedgerGuarded' /\ SignaturesDiffer'
      BY <1>0, <1>a, <2>3, <2>4, Leaves, LeavesSignatures DEF Leave, Forget
    <2>6. OneOpen'
      BY <1>0, <2>1, <2>4 DEF OneOpen, OpenSubs, Open
    <2>7. HeldInLedger'
      BY <1>0, <2>1, <2>3, <2>4 DEF HeldInLedger, Reached, Open
    <2>8. QED
      BY <2>5, <2>6, <2>7 DEF LedgerInv
  <1>6. CASE Describe(p)
    <2>1. pc[p] = "read" /\ UNCHANGED <<ledger, session, inFlight, gw, woke, excused>>
      BY <1>6 DEF Describe
    <2>2. Subs' = Subs /\ OpenSubs' = OpenSubs /\ OneOpen' /\ HeldInLedger'
      BY <1>0, <2>1 DEF OneOpen, OpenSubs, Subs, HeldInLedger, Reached
    <2>3. CASE Leave(p)
      <3>1. LedgerGuarded' /\ SignaturesDiffer'
        BY <1>0, <1>a, <2>1, <2>2, <2>3, Leaves, LeavesSignatures DEF Leave, Forget
      <3>2. QED
        BY <2>2, <3>1 DEF LedgerInv
    <2>4. CASE pc' = [pc EXCEPT ![p] = "receipts"] /\ UNCHANGED <<sig, kind, lock>>
      <3>1. LedgerGuarded'
        BY <1>0, <1>b, <2>2, <2>4 DEF LedgerGuarded, TypeOK
      <3>2. SignaturesDiffer'
        BY <1>0, <1>b, <2>1, <2>2, <2>4 DEF SignaturesDiffer, TypeOK
      <3>3. QED
        BY <2>2, <3>1, <3>2 DEF LedgerInv
    <2>5. QED
      BY <1>6, <2>3, <2>4 DEF Describe
  <1>7. QED
    BY <1>1, <1>2, <1>3, <1>4, <1>5, <1>6 DEF PassStep

LEMMA OutsideLedger ==
  ASSUME TypeOK, LedgerInv,
         \/ \E p \in Procs : PassDies(p) \/ RunWakePass(p) \/ Bind(p) \/ ReconcileAgent(p)
         \/ ClearDeadLock \/ NewSession
         \/ \E s \in Subs : Clear(s) \/ Rearm(s) \/ Prune(s)
         \/ \E s \in Ids : GatewayAccepts(s) \/ \E st \in {"cancelled", "consumed"} : GatewaySettles(s, st)
  PROVE  LedgerInv'
  <1> USE DEF diskVars, passVars, gwVars, mailVars, childVars, rowVars, callVars, histVars, wakeHist, gateHist
  <1>0. LedgerGuarded /\ OneOpen /\ HeldInLedger /\ SignaturesDiffer /\ LedgerTypeOK
    BY DEF LedgerInv, TypeOK, LedgerTypeOK
  <1>1. ASSUME NEW p \in Procs, PassDies(p) PROVE LedgerInv'
    <2>1. LedgerGuarded' /\ SignaturesDiffer'
      BY <1>0, <1>1, Leaves, LeavesSignatures DEF PassDies, Forget, Custody, Subs
    <2>2. OneOpen' /\ HeldInLedger'
      BY <1>0, <1>1 DEF PassDies, OneOpen, OpenSubs, Subs, HeldInLedger, Reached
    <2>3. QED
      BY <2>1, <2>2 DEF LedgerInv
  <1>2. ASSUME NEW p \in Procs, RunWakePass(p) \/ Bind(p) \/ ReconcileAgent(p) PROVE LedgerInv'
    <2>1. PICK k \in {"wake", "bind", "status"} : Begin(p, k)
      BY <1>2 DEF RunWakePass, Bind, ReconcileAgent
    <2>2. \A q \in Procs : pc[q] = "idle" /\ pc'[q] \in {"idle", "read"} /\ (pc'[q] = "read" => q = p)
      BY <1>0, <2>1, NobodyInside DEF Begin, AcquireLock, TypeOK
    <2>3. LedgerGuarded'
      BY <2>1, <2>2 DEF Begin, AcquireLock, LedgerGuarded
    <2>4. OneOpen' /\ HeldInLedger'
      BY <1>0, <2>1 DEF Begin, OneOpen, OpenSubs, Subs, HeldInLedger, Reached
    <2>5. SignaturesDiffer'
      BY <1>0, <2>1, <2>2 DEF Begin, SignaturesDiffer, Subs
    <2>6. QED
      BY <2>3, <2>4, <2>5 DEF LedgerInv
  <1>3. CASE ClearDeadLock
    <2>1. LedgerGuarded'
      BY <1>0, <1>3, NobodyInside, NobodyGuards DEF ClearDeadLock
    <2>2. OneOpen' /\ HeldInLedger' /\ SignaturesDiffer'
      BY <1>0, <1>3 DEF ClearDeadLock, OneOpen, OpenSubs, Subs, HeldInLedger, Reached, SignaturesDiffer
    <2>3. QED
      BY <2>1, <2>2 DEF LedgerInv
  <1>4. CASE NewSession
    <2>1. LedgerGuarded' /\ OneOpen' /\ SignaturesDiffer'
      BY <1>0, <1>4 DEF NewSession, LedgerGuarded, OneOpen, OpenSubs, Subs, Mine, SignaturesDiffer
    <2>2. \A s \in Ids : gw[s].session \in Nat /\ session \in Nat
      BY Bounds DEF TypeOK
    <2>3. HeldInLedger'
      BY <1>0, <1>4, <2>2 DEF NewSession, HeldInLedger, Reached, Subs
    <2>4. QED
      BY <2>1, <2>3 DEF LedgerInv
  <1>5. ASSUME NEW s \in Subs, Clear(s) PROVE LedgerInv'
    <2>1. /\ Subs' = Subs
          /\ \A u \in Subs : /\ ledger'[u].state = IF u = s THEN "cleared" ELSE ledger[u].state
                             /\ ledger'[u].sig = ledger[u].sig
      BY <1>0, <1>5, SetState DEF Clear, States, Terminal
    <2>2. LedgerGuarded'
      BY <1>0, <1>5, NobodyInside, NobodyGuards DEF Clear
    <2>3. OneOpen' /\ HeldInLedger'
      BY <1>0, <1>5, <2>1 DEF Clear, OneOpen, OpenSubs, Open, HeldInLedger, Reached
    <2>4. SignaturesDiffer'
      BY <1>0, <1>5, <2>1, NobodyInside DEF Clear, SignaturesDiffer
    <2>5. QED
      BY <2>2, <2>3, <2>4 DEF LedgerInv
  <1>6. ASSUME NEW s \in Subs, Rearm(s) \/ Prune(s) PROVE LedgerInv'
    <2>1. /\ Subs' = Subs
          /\ \A u \in Subs \ {s} : ledger'[u] = ledger[u]
          /\ ledger'[s].sig = {} /\ ledger'[s].state \in {ledger[s].state, "pruned"}
      BY <1>0, <1>6, ReleaseSig DEF Rearm, Prune
    <2>2. lock = Free /\ excused' = excused \cup {s} /\ UNCHANGED <<lock, pc, kind, sig, session, inFlight, gw, woke>>
      BY <1>6 DEF Rearm, Prune
    <2>3. LedgerGuarded'
      BY <1>0, <2>2, NobodyInside, NobodyGuards
    <2>4. OneOpen' /\ HeldInLedger'
      BY <1>0, <2>1, <2>2 DEF OneOpen, OpenSubs, Open, HeldInLedger, Reached
    <2>5. SignaturesDiffer'
      BY <1>0, <2>1, <2>2, NobodyInside DEF SignaturesDiffer
    <2>6. QED
      BY <2>3, <2>4, <2>5 DEF LedgerInv
  <1>7. ASSUME NEW s \in Ids, GatewayAccepts(s) PROVE LedgerInv'
    <2>1. /\ s \in inFlight /\ inFlight' = inFlight \ {s}
          /\ gw' = gw \/ gw' = [gw EXCEPT ![s] = [state |-> "pending", session |-> session]]
          /\ UNCHANGED <<ledger, lock, pc, kind, sig, session, woke, excused>>
      BY <1>7 DEF GatewayAccepts
    <2>2. s \in Subs /\ gw[s].state = "none" /\ session \in Nat /\ Subs' = Subs /\ OpenSubs' = OpenSubs
          /\ ledger[s].state \in Open \cup {"cleared", "pruned"}
      BY <1>0, <2>1, Bounds DEF HeldInLedger, Reached, Subs, OpenSubs, TypeOK
    <2>3. \A u \in Ids : /\ gw'[u] = gw[u] \/ (u = s /\ gw'[u] = [state |-> "pending", session |-> session])
      BY <2>1 DEF TypeOK
    <2>4. LedgerGuarded'
      <3>1. ASSUME NEW p \in Procs, pc[p] = "send" PROVE Mine(p)' \notin inFlight' /\ gw'[Mine(p)'].state = "none"
        <4>1. Mine(p)' = Mine(p) /\ Mine(p) \notin inFlight /\ gw[Mine(p)].state = "none" /\ Mine(p) \in Ids
          BY <1>0, <2>1, <3>1, Entries DEF LedgerGuarded, Mine
        <4>2. QED
          BY <2>1, <2>3, <4>1
      <3>2. QED
        BY <1>0, <2>1, <2>2, <3>1 DEF LedgerGuarded, Mine
    <2>5. OneOpen' /\ SignaturesDiffer'
      BY <1>0, <2>1, <2>2 DEF OneOpen, SignaturesDiffer
    <2>6. HeldInLedger'
      BY <1>0, <2>1, <2>2, <2>3 DEF HeldInLedger, Reached
    <2>7. QED
      BY <2>4, <2>5, <2>6 DEF LedgerInv
  <1>8. ASSUME NEW s \in Ids, NEW st \in {"cancelled", "consumed"}, GatewaySettles(s, st) PROVE LedgerInv'
    <2>1. gw[s].state = "pending" /\ UNCHANGED <<ledger, lock, pc, kind, sig, session, inFlight, woke, excused>>
      BY <1>8 DEF GatewaySettles
    <2>2. Subs' = Subs /\ OpenSubs' = OpenSubs
      BY <2>1 DEF Subs, OpenSubs
    <2>3. \A u \in Ids : /\ gw'[u].session = gw[u].session
                         /\ gw'[u].state = IF u = s THEN st ELSE gw[u].state
      BY <1>8 DEF GatewaySettles, TypeOK
    <2>4. LedgerGuarded'
      <3>1. ASSUME NEW p \in Procs, pc[p] = "send" PROVE Mine(p)' \notin inFlight' /\ gw'[Mine(p)'].state = "none"
        <4>1. Mine(p)' = Mine(p) /\ Mine(p) \notin inFlight /\ gw[Mine(p)].state = "none" /\ Mine(p) \in Ids
          BY <1>0, <2>1, <3>1, Entries DEF LedgerGuarded, Mine
        <4>2. QED
          BY <2>1, <2>3, <4>1
      <3>2. QED
        BY <1>0, <2>1, <2>2, <3>1 DEF LedgerGuarded, Mine
    <2>5. OneOpen' /\ SignaturesDiffer'
      BY <1>0, <2>1, <2>2 DEF OneOpen, SignaturesDiffer
    <2>6. HeldInLedger'
      BY <1>0, <2>1, <2>2, <2>3 DEF HeldInLedger, Reached
    <2>7. QED
      BY <2>4, <2>5, <2>6 DEF LedgerInv
  <1>9. QED
    BY <1>1, <1>2, <1>3, <1>4, <1>5, <1>6, <1>7, <1>8

\* The children, the calls and the switch leave the ledger and the lock alone.
LEMMA Elsewhere ==
  ASSUME \/ ClearHalt \/ MailArrives \/ RowGoesStale
         \/ \E to \in {"on", "off", "killed"} : Flip(to)
         \/ \E k \in Calls : Admit(k) \/ CallStep(k)
         \/ \E c \in Children : ChildStep(c) \/ StepDown(c) \/ Exit(c) \/ ChildDies(c) \/ Respawn(c)
         \/ UNCHANGED vars
  PROVE  UNCHANGED custodyVars /\ UNCHANGED proven
  <1> USE DEF diskVars, passVars, gwVars, mailVars, childVars, rowVars, callVars, histVars, wakeHist, gateHist, custodyVars
  <1>1. ASSUME ClearHalt \/ MailArrives \/ RowGoesStale \/ (\E to \in {"on", "off", "killed"} : Flip(to)) \/ UNCHANGED vars
        PROVE  UNCHANGED custodyVars /\ UNCHANGED proven
    BY <1>1 DEF ClearHalt, MailArrives, RowGoesStale, Flip, vars
  <1>2. ASSUME NEW k \in Calls, Admit(k) \/ CallStep(k) PROVE UNCHANGED custodyVars /\ UNCHANGED proven
    BY <1>2 DEF Admit, CallStep, Rebind, TakeClaim, Recheck, Await
  <1>3. ASSUME NEW c \in Children, ChildStep(c) \/ StepDown(c) \/ Exit(c) \/ ChildDies(c) \/ Respawn(c)
        PROVE  UNCHANGED custodyVars /\ UNCHANGED proven
    BY <1>3 DEF ChildStep, Register, ReadBinding, AddPeer, Heartbeat, RegisterFails, StepDown, Exit, ChildDies, Cleanup,
                Respawn
  <1>4. QED
    BY <1>1, <1>2, <1>3

LEMMA StepLedgerInv == ASSUME TypeOK, LedgerInv, TokensInOrder, [Next]_vars PROVE LedgerInv'
  <1>1. CASE UNCHANGED custodyVars
    BY <1>1 DEF custodyVars, LedgerInv, LedgerGuarded, OneOpen, OpenSubs, Subs, Mine, HeldInLedger, Reached,
                SignaturesDiffer
  <1>2. CASE Next /\ ~UNCHANGED custodyVars
    BY <1>2, PassStepLedger, OutsideLedger, Elsewhere DEF Next
  <1>3. QED
    BY <1>1, <1>2, Elsewhere

-----------------------------------------------------------------------------
(* Bindings and owners *)
\* What is submitted stays, what a session has read stays read.
Evolves ==
  /\ Subs \subseteq Subs' /\ proven \subseteq proven'
  /\ \A u \in Subs : ledger'[u].session = ledger[u].session
  /\ \A u \in Subs' \ Subs : ledger'[u].session = session
  /\ \A s \in Subs : gw[s].state = "consumed" => gw'[s] = gw[s]

\* A step that only moves states of submissions, none of them back from a withdrawal
\* and none to consumed without the receipt.
LEMMA StatesMove ==
  ASSUME TokensInOrder, UNCHANGED <<session, gw, proven>>, Subs' = Subs,
         \A u \in Subs : /\ ledger'[u].session = ledger[u].session
                         /\ ledger'[u].state \notin Withdrawn => ledger[u].state \notin Withdrawn
                         /\ ledger'[u].state = "consumed" => ledger[u].state = "consumed" \/ gw[u].state = "consumed"
  PROVE  TokensInOrder' /\ Evolves
  BY DEF TokensInOrder, Evolves

LEMMA PassTokens ==
  ASSUME TypeOK, LedgerInv, TokensInOrder, NEW p \in Procs, PassStep(p)
  PROVE  TokensInOrder' /\ Evolves
  <1> USE DEF gwVars, mailVars, childVars, rowVars, callVars, histVars, wakeHist, gateHist
  <1>0. LedgerGuarded /\ OneOpen /\ HeldInLedger /\ LedgerTypeOK
    BY DEF LedgerInv, TypeOK, LedgerTypeOK
  <1>a. \A s \in Subs : ledger[s].state \in States /\ s \in Ids
    BY <1>0, Entries
  <1>u. ASSUME UNCHANGED <<ledger, session, gw, proven>> PROVE TokensInOrder' /\ Evolves
    <2>1. Subs' = Subs
      BY <1>u DEF Subs
    <2>2. QED
      BY <1>u, <2>1, StatesMove
  <1>1. CASE Reconcile(p)
    <2>1. CASE UNCHANGED ledger
      BY <1>1, <1>u, <2>1 DEF Reconcile
    <2>2. CASE ledger' = [s \in Subs |-> [ledger[s] EXCEPT !.state = Reconciled(s, seen[p])]]
      <3> DEFINE now(u) == Reconciled(u, seen[p])
      <3>1. seen[p] \in 0 .. MaxSessions
        BY DEF TypeOK
      <3>2. Subs' = Subs /\ \A u \in Subs : ledger'[u].state = now(u) /\ ledger'[u].session = ledger[u].session
        BY <1>0, <2>2, <3>1, ReconciledLedger
      <3>3. \A u \in Subs : /\ now(u) = "consumed" => ledger[u].state = "consumed" \/ gw[u].state = "consumed"
                            /\ ledger[u].state \notin Open => now(u) = ledger[u].state
        BY <1>0, <3>1, ReconciledStates
      <3>4. UNCHANGED <<session, gw, proven>>
        BY <1>1 DEF Reconcile
      <3> HIDE DEF now
      <3>5. \A u \in Subs : now(u) \notin Withdrawn => ledger[u].state \notin Withdrawn
        BY <3>3 DEF Open, Withdrawn
      <3>6. QED
        BY <3>2, <3>3, <3>4, <3>5, StatesMove
    <2>3. QED
      BY <1>1, <2>1, <2>2 DEF Reconcile
  <1>2. CASE Describe(p) \/ Proceed(p) \/ ReadInbox(p)
    BY <1>2, <1>u DEF Describe, Proceed, ReadInbox
  <1>3. CASE WriteIntent(p)
    <2>1. CASE UNCHANGED ledger
      BY <1>3, <1>u, <2>1 DEF WriteIntent
    <2>2. CASE ~UNCHANGED ledger
      <3> DEFINE r == [kind |-> kind[p], sig |-> sig[p], session |-> session, state |-> "intent"]
                 n == Len(ledger) + 1
      <3>1. /\ ledger' = Append(ledger, r) /\ Len(ledger) < MaxSubs /\ pc[p] = "describe" /\ session # 0
            /\ UNCHANGED <<session, gw, proven>>
        BY <1>3, <2>2 DEF WriteIntent
      <3>2. r \in Submission /\ r.session = session /\ r.state = "intent"
        BY <1>0, <3>1 DEF LedgerGuarded, TypeOK, Submission, Open, Threads
      <3> HIDE DEF r
      <3>3. /\ Subs' = Subs \cup {n} /\ n \in Ids \ Subs
            /\ \A u \in Subs : ledger'[u] = ledger[u]
            /\ ledger'[n] = r
        BY <1>0, <3>1, <3>2, AppendedEntry
      <3>4. \A u \in Subs : u < n
        BY <1>0, Entries DEF Subs
      <3> HIDE DEF n
      <3>5. \A s \in Subs : ledger[s].state \notin Open
        BY <1>0, <3>1 DEF LedgerGuarded, OpenSubs
      <3>6. gw[n].state = "none"
        BY <1>0, <3>3 DEF HeldInLedger, Reached
      <3>7. \A s \in Subs : ledger[s].state \notin Withdrawn => gw[s].state = "consumed" /\ gw[s].session <= session
        BY <1>0, <1>a, <3>5 DEF TokensInOrder, HeldInLedger, States, Terminal, Withdrawn
      <3>8. \A s \in Subs' : /\ ledger'[s].session <= session'
                             /\ gw'[s].state # "none" => ledger'[s].session <= gw'[s].session
                             /\ ledger'[s].state = "consumed" => gw'[s].state = "consumed"
        <4>1. session <= session
          BY Bounds DEF TypeOK
        <4>2. QED
          BY <3>1, <3>2, <3>3, <3>6, <4>1 DEF TokensInOrder
      <3>9. ASSUME NEW s \in Subs', NEW u \in Subs', s < u, ledger'[s].state \notin Withdrawn
            PROVE  gw'[s].state = "consumed" /\ gw'[s].session <= ledger'[u].session
        <4>1. s \in Subs /\ s \in Nat /\ u \in Nat /\ n \in Nat
          BY <1>a, <3>3, <3>4, <3>9, Bounds DEF Ids
        <4>2. CASE u = n
          BY <3>1, <3>2, <3>3, <3>7, <3>9, <4>1, <4>2
        <4>3. CASE u # n
          BY <3>1, <3>3, <3>9, <4>1, <4>3 DEF TokensInOrder
        <4>4. QED
          BY <4>2, <4>3
      <3>10. TokensInOrder'
        BY <3>1, <3>8, <3>9 DEF TokensInOrder
      <3>11. Evolves
        BY <3>1, <3>2, <3>3 DEF Evolves
      <3>12. QED
        BY <3>10, <3>11
    <2>3. QED
      BY <2>1, <2>2
  <1>4. CASE Send(p) \/ Acknowledge(p)
    <2>1. CASE UNCHANGED ledger
      BY <1>4, <1>u, <2>1 DEF Send, Acknowledge
    <2>2. CASE ~UNCHANGED ledger
      <3>1. PICK st \in {"cancelled", "accepted", "unknown"} : Set(Mine(p), st)
        BY <1>4, <2>2 DEF Send, Acknowledge
      <3>2. Mine(p) \in Subs /\ Mine(p) \in OpenSubs
        BY <1>0, <1>4 DEF Send, Acknowledge, LedgerGuarded
      <3>3. /\ Subs' = Subs
            /\ \A u \in Subs : /\ ledger'[u].state = IF u = Mine(p) THEN st ELSE ledger[u].state
                               /\ ledger'[u].session = ledger[u].session
        BY <1>0, <3>1, <3>2, SetState DEF States, Open, Terminal
      <3>4. UNCHANGED <<session, gw, proven>>
        BY <1>4 DEF Send, Acknowledge
      <3>5. ledger[Mine(p)].state \notin Withdrawn
        BY <3>2 DEF OpenSubs, Open, Withdrawn
      <3>6. QED
        BY <3>1, <3>3, <3>4, <3>5, StatesMove
    <2>3. QED
      BY <2>1, <2>2
  <1>5. QED
    BY <1>1, <1>2, <1>3, <1>4 DEF PassStep

LEMMA OutsideTokens ==
  ASSUME TypeOK, LedgerInv, TokensInOrder,
         \/ \E p \in Procs : PassDies(p) \/ RunWakePass(p) \/ Bind(p) \/ ReconcileAgent(p)
         \/ ClearDeadLock \/ NewSession
         \/ \E s \in Subs : Clear(s) \/ Rearm(s) \/ Prune(s)
         \/ \E s \in Ids : GatewayAccepts(s) \/ \E st \in {"cancelled", "consumed"} : GatewaySettles(s, st)
  PROVE  TokensInOrder' /\ Evolves
  <1> USE DEF diskVars, passVars, gwVars, mailVars, childVars, rowVars, callVars, histVars, wakeHist, gateHist
  <1>0. HeldInLedger /\ LedgerTypeOK
    BY DEF LedgerInv, TypeOK, LedgerTypeOK
  <1>a. \A s \in Subs : ledger[s].state \in States /\ s \in Ids /\ ledger[s].session \in Nat
    BY <1>0, Entries DEF Threads
  <1>t. session \in Nat /\ \A s \in Ids : gw[s].session \in Nat
    BY Bounds DEF TypeOK
  <1>1. CASE (\E p \in Procs : PassDies(p) \/ RunWakePass(p) \/ Bind(p) \/ ReconcileAgent(p)) \/ ClearDeadLock
    <2>1. UNCHANGED <<ledger, session, gw, proven>>
      BY <1>1 DEF PassDies, RunWakePass, Bind, ReconcileAgent, Begin, ClearDeadLock
    <2>2. Subs' = Subs
      BY <2>1 DEF Subs
    <2>3. QED
      BY <2>1, <2>2, StatesMove
  <1>2. CASE NewSession
    <2>1. session' = session + 1 /\ UNCHANGED <<ledger, gw, proven>> /\ Subs' = Subs
      BY <1>2 DEF NewSession, Subs
    <2>2. QED
      BY <1>a, <1>t, <2>1 DEF TokensInOrder, Evolves
  <1>3. ASSUME NEW s \in Subs, Clear(s) PROVE TokensInOrder' /\ Evolves
    <2>1. /\ Subs' = Subs
          /\ \A u \in Subs : /\ ledger'[u].state = IF u = s THEN "cleared" ELSE ledger[u].state
                             /\ ledger'[u].session = ledger[u].session
      BY <1>0, <1>3, SetState DEF Clear, States, Terminal
    <2>2. UNCHANGED <<session, gw, proven>>
      BY <1>3 DEF Clear
    <2>3. QED
      BY <2>1, <2>2, StatesMove DEF Withdrawn
  <1>4. ASSUME NEW s \in Subs, Rearm(s) \/ Prune(s) PROVE TokensInOrder' /\ Evolves
    <2>1. /\ Subs' = Subs
          /\ \A u \in Subs \ {s} : ledger'[u] = ledger[u]
          /\ ledger'[s].session = ledger[s].session /\ ledger'[s].state \in {ledger[s].state, "pruned"}
      BY <1>0, <1>4, ReleaseSig DEF Rearm, Prune
    <2>2. UNCHANGED <<session, gw, proven>>
      BY <1>4 DEF Rearm, Prune
    <2>3. QED
      BY <2>1, <2>2, StatesMove DEF Withdrawn
  <1>5. ASSUME NEW s \in Ids, GatewayAccepts(s) PROVE TokensInOrder' /\ Evolves
    <2>1. /\ s \in inFlight /\ UNCHANGED <<ledger, session, proven>> /\ Subs' = Subs
          /\ gw' = gw \/ gw' = [gw EXCEPT ![s] = [state |-> "pending", session |-> session]]
      BY <1>5 DEF GatewayAccepts, Subs
    <2>2. gw[s].state = "none" /\ s \in Subs
      BY <1>0, <2>1 DEF HeldInLedger, Reached
    <2>3. /\ \A u \in Ids \ {s} : gw'[u] = gw[u]
          /\ gw'[s] = gw[s] \/ (gw'[s].state = "pending" /\ gw'[s].session = session)
      BY <2>1 DEF TypeOK
    <2>4. \A u, v \in Subs : u < v /\ ledger[u].state \notin Withdrawn => u # s
      BY <2>2 DEF TokensInOrder
    <2>5. \A u \in Subs : ledger[u].state = "consumed" => u # s
      BY <2>2 DEF TokensInOrder
    <2>6. \A u, v \in Subs : u < v /\ ledger[u].state \notin Withdrawn
             => gw'[u].state = "consumed" /\ gw'[u].session <= ledger[v].session
      BY <1>a, <2>3, <2>4 DEF TokensInOrder
    <2>7. \A u \in Subs : /\ ledger[u].session <= session
                          /\ gw'[u].state # "none" => ledger[u].session <= gw'[u].session
                          /\ ledger[u].state = "consumed" => gw'[u].state = "consumed"
      BY <1>a, <2>3, <2>5 DEF TokensInOrder
    <2>8. \A u \in Ids : gw'[u].state = "consumed" => gw'[u].session \in proven
      BY <2>2, <2>3 DEF TokensInOrder
    <2>9. QED
      BY <1>a, <2>1, <2>2, <2>3, <2>6, <2>7, <2>8 DEF TokensInOrder, Evolves
  <1>6. ASSUME NEW s \in Ids, NEW st \in {"cancelled", "consumed"}, GatewaySettles(s, st)
        PROVE  TokensInOrder' /\ Evolves
    <2>1. /\ gw[s].state = "pending" /\ gw[s].session = session
          /\ UNCHANGED <<ledger, session>> /\ Subs' = Subs
          /\ proven' = (IF st = "consumed" THEN proven \cup {session} ELSE proven)
      BY <1>6 DEF GatewaySettles, Subs
    <2>2. \A u \in Ids : /\ gw'[u].session = gw[u].session
                         /\ u # s => gw'[u] = gw[u]
                         /\ gw'[u].state = IF u = s THEN st ELSE gw[u].state
      BY <1>6 DEF GatewaySettles, TypeOK
    <2>3. \A u, v \in Subs : u < v /\ ledger[u].state \notin Withdrawn => u # s
      BY <2>1 DEF TokensInOrder
    <2>4. \A u \in Subs : ledger[u].state = "consumed" => u # s
      BY <2>1 DEF TokensInOrder
    <2>5. \A u, v \in Subs : u < v /\ ledger[u].state \notin Withdrawn
             => gw'[u].state = "consumed" /\ gw'[u].session <= ledger[v].session
      BY <1>a, <2>2, <2>3 DEF TokensInOrder
    <2>6. \A u \in Subs : /\ ledger[u].session <= session
                          /\ gw'[u].state # "none" => ledger[u].session <= gw'[u].session
                          /\ ledger[u].state = "consumed" => gw'[u].state = "consumed"
      BY <1>a, <2>1, <2>2, <2>4 DEF TokensInOrder
    <2>7. \A u \in Ids : gw'[u].state = "consumed" => gw'[u].session \in proven'
      BY <2>1, <2>2 DEF TokensInOrder
    <2>8. QED
      BY <1>a, <2>1, <2>2, <2>5, <2>6, <2>7 DEF TokensInOrder, Evolves
  <1>7. QED
    BY <1>1, <1>2, <1>3, <1>4, <1>5, <1>6

LEMMA StepTokens == ASSUME TypeOK, LedgerInv, TokensInOrder, [Next]_vars PROVE TokensInOrder' /\ Evolves
  <1>1. ASSUME UNCHANGED custodyVars, UNCHANGED proven PROVE TokensInOrder' /\ Evolves
    <2>1. UNCHANGED <<ledger, session, gw, proven>> /\ Subs' = Subs
      BY <1>1 DEF custodyVars, Subs
    <2>2. QED
      BY <2>1, StatesMove
  <1>2. QED
    BY <1>1, PassTokens, OutsideTokens, Elsewhere DEF Next

\* What was shown stays shown.
LEMMA ShownStays ==
  ASSUME TypeOK, HeldInLedger, Evolves, NEW t, NEW s, Shown(t, s)
  PROVE  Shown(t, s)'
  <1>1. CASE s = 0
    BY <1>1 DEF Shown, Evolves
  <1>2. CASE s # 0
    <2>1. s \in Subs /\ gw[s].state = "consumed" /\ gw[s].session = t /\ \A u \in Subs : s < u => t <= ledger[u].session
      BY <1>2 DEF Shown
    <2>2. s \in Ids /\ t <= session
      BY <2>1, Entries DEF HeldInLedger, TypeOK, LedgerTypeOK
    <2>3. s \in Subs' /\ gw'[s] = gw[s]
      BY <2>1 DEF Evolves
    <2>4. \A u \in Subs' : s < u => t <= ledger'[u].session
      BY <2>1, <2>2 DEF Evolves
    <2>5. QED
      BY <1>2, <2>1, <2>3, <2>4 DEF Shown
  <1>3. QED
    BY <1>1, <1>2

LEMMA ShownProven ==
  ASSUME TypeOK, TokensInOrder, NEW t, NEW s, Shown(t, s), t # 0 PROVE t \in proven
  BY Entries DEF Shown, TokensInOrder, TypeOK, LedgerTypeOK

\* A binding that is not older than another is of a thread that is not earlier.
LEMMA NewerShown ==
  ASSUME TypeOK, TokensInOrder, NEW t \in Nat, NEW s \in Nat, NEW t2 \in Nat \ {0}, NEW s2 \in Nat,
         Shown(t, s), Shown(t2, s2), ~(s2 < s)
  PROVE  t <= t2
  <1>1. CASE s = 0
    BY <1>1 DEF Shown
  <1>2. CASE s # 0 /\ s = s2
    BY <1>2 DEF Shown
  <1>3. CASE s # 0 /\ s # s2
    <2>1. s < s2 /\ s2 # 0
      BY <1>3
    <2>2. t <= ledger[s2].session /\ ledger[s2].session <= t2 /\ s2 \in Subs
      BY <1>3, <2>1 DEF Shown, TokensInOrder
    <2>3. ledger[s2].session \in Nat
      BY <2>2, Entries DEF TypeOK, LedgerTypeOK, Threads
    <2>4. QED
      BY <2>2, <2>3
  <1>4. QED
    BY <1>1, <1>2, <1>3

\* The types of the gate, and how a step of a call or a child sees the ledger.
GateTypes ==
  /\ reg \in [Children -> {"none", "proven", "registering", "read", "write", "registered", "second",
                           "leaving", "dead"}]
  /\ cpc \in [Calls -> {"idle", "rebind", "claim", "recheck", "await"}]
  /\ view \in [Calls -> Bindings] /\ copy \in [Children -> 0 .. MaxSubs]
  /\ claim \in Children \cup {Free} /\ row \in Children \cup {Free} /\ binding \in Bindings

LEMMA GateFacts ==
  ASSUME TypeOK
  PROVE  /\ GateTypes /\ Free \notin Children
         /\ \A b \in Bindings : b.thread \in Nat /\ b.proof \in Nat
         /\ \A c \in Children : ThreadOf[c] \in Nat \ {0} /\ copy[c] \in Nat
         /\ \A k \in Calls : ChildOf[k] \in Children
  BY OpenClawAssumption, Bounds DEF TypeOK, GateTypes, Bindings

LEMMA GateStays ==
  ASSUME TypeOK, LedgerInv, GateInv, Evolves,
         UNCHANGED <<binding, claim, row, reg, copy, cpc, view, movedBack>>
  PROVE  GateInv'
  <1>1. \A t, s : Shown(t, s) => Shown(t, s)'
    BY ShownStays DEF LedgerInv
  <1>2. BindingsShown'
    <2>1. Shown(binding.thread, binding.proof)'
      <3>1. PICK t, s : t = binding.thread /\ s = binding.proof
        OBVIOUS
      <3>2. Shown(t, s)'
        BY <1>1, <3>1 DEF GateInv, BindingsShown
      <3>3. QED
        BY <3>1, <3>2 DEF Shown
    <2>2. ASSUME NEW k \in Calls, cpc'[k] = "rebind"
          PROVE  view'[k].thread = ThreadOf[ChildOf[k]] /\ Shown(view[k].thread, view[k].proof)'
      <3>1. PICK t, s : t = view[k].thread /\ s = view[k].proof
        OBVIOUS
      <3>2. Shown(t, s)' /\ view[k].thread = ThreadOf[ChildOf[k]]
        BY <1>1, <2>2, <3>1 DEF GateInv, BindingsShown
      <3>3. QED
        BY <3>1, <3>2 DEF Shown
    <2>3. ASSUME NEW c \in Children, reg'[c] = "write" PROVE Shown(ThreadOf[c], copy[c])'
      <3>1. PICK s : s = copy[c]
        OBVIOUS
      <3>2. Shown(ThreadOf[c], s)'
        BY <1>1, <2>3, <3>1 DEF GateInv, BindingsShown
      <3>3. QED
        BY <3>1, <3>2 DEF Shown
    <2>4. QED
      BY <2>1, <2>2, <2>3 DEF BindingsShown
  <1>3. OwnersProven'
    BY DEF GateInv, OwnersProven, AtClaim, IsMain, Up, Evolves
  <1>4. ClaimKept'
    BY DEF GateInv, ClaimKept, Keeps, AtClaim, IsMain, Up
  <1>5. QED
    BY <1>2, <1>3, <1>4 DEF GateInv

\* A binding is written, and nothing but the writer's own step changes.
LEMMA WriteKeeps ==
  ASSUME TypeOK, TokensInOrder, GateInv, NEW b \in Bindings, Shown(b.thread, b.proof), b.thread # 0,
         Write(b), UNCHANGED claim, ~movedBack'
  PROVE  /\ ~movedBack /\ binding.thread <= binding'.thread
         /\ \A c \in Children : Keeps(c) => Keeps(c)'
  <1>1. ~movedBack /\ ~(b.proof < binding.proof)
    BY Zenon DEF Write
  <1>2. /\ b.thread \in Nat \ {0} /\ b.proof \in Nat /\ binding.thread \in Nat /\ binding.proof \in Nat
        /\ binding' = b
    BY GateFacts DEF Write, GateTypes
  <1>3. binding.thread <= b.thread
    BY <1>1, <1>2, NewerShown DEF GateInv, BindingsShown
  <1>4. ASSUME NEW c \in Children, Keeps(c) PROVE Keeps(c)'
    BY <1>2, <1>3, <1>4, GateFacts DEF Keeps
  <1>5. QED
    BY <1>1, <1>2, <1>3, <1>4

\* A step of a call or a child leaves what is shown as it was.
LEMMA BindingsStay ==
  ASSUME UNCHANGED custodyVars, UNCHANGED proven,
         Shown(binding'.thread, binding'.proof),
         \A k \in Calls : cpc'[k] = "rebind" =>
           view'[k].thread = ThreadOf[ChildOf[k]] /\ Shown(view'[k].thread, view'[k].proof),
         \A c \in Children : reg'[c] = "write" => Shown(ThreadOf[c], copy'[c])
  PROVE  BindingsShown'
  <1>1. /\ Subs' = Subs /\ UNCHANGED <<ledger, gw, proven>>
    BY DEF custodyVars, Subs
  <1>2. \A t, s : Shown(t, s) => (IF s = 0 THEN t \in {0, 1} /\ (t = 1 => 1 \in proven')
                                  ELSE /\ s \in Subs' /\ gw'[s].state = "consumed" /\ gw'[s].session = t
                                       /\ \A u \in Subs' : s < u => t <= ledger'[u].session)
    BY <1>1 DEF Shown
  <1>3. QED
    BY <1>2 DEF BindingsShown, Shown

LEMMA CallGate ==
  ASSUME TypeOK, LedgerInv, TokensInOrder, GateInv, NEW k \in Calls, Admit(k) \/ CallStep(k)
  PROVE  GateInv'
  <1> USE DEF diskVars, passVars, gwVars, mailVars, rowVars, callVars, histVars, wakeHist, gateHist
  <1> DEFINE c == ChildOf[k]
  <1>0. /\ GateTypes /\ Free \notin Children /\ c \in Children
        /\ \A d \in Children : ThreadOf[d] \in Nat \ {0}
        /\ BindingsShown /\ OwnersProven /\ ClaimKept
        /\ UNCHANGED custodyVars /\ UNCHANGED proven
    BY GateFacts, Elsewhere DEF GateInv
  <1>1. CASE Admit(k)
    <2>1. /\ UNCHANGED <<binding, claim, row, reg, copy, movedBack>>
          /\ \A j \in Calls \ {k} : cpc'[j] = cpc[j] /\ view'[j] = view[j]
      BY <1>0, <1>1 DEF Admit, GateTypes
    <2>2. \/ cpc'[k] = "await"
          \/ cpc'[k] = "claim" /\ binding.thread = ThreadOf[c]
          \/ cpc'[k] = "rebind" /\ \E s \in Proofs(c) :
               view'[k] = [thread |-> ThreadOf[c], proof |-> s, peer |-> binding.peer]
      BY <1>0, <1>1 DEF Admit, GateTypes
    <2>3. ASSUME NEW s \in Proofs(c) PROVE Shown(ThreadOf[c], s)
      <3>1. /\ s \in Subs /\ gw[s].state = "consumed" /\ gw[s].session = ThreadOf[c]
            /\ ledger[s].state \notin Withdrawn /\ s # 0
        BY <2>3 DEF Proofs, Withdrawn, Subs
      <3>2. QED
        BY <3>1 DEF Shown, TokensInOrder
    <2>4. ASSUME cpc'[k] = "rebind"
          PROVE  view'[k].thread = ThreadOf[c] /\ Shown(view'[k].thread, view'[k].proof)
      <3>1. PICK s \in Proofs(c) : view'[k] = [thread |-> ThreadOf[c], proof |-> s, peer |-> binding.peer]
        BY <2>2, <2>4
      <3>2. view'[k].thread = ThreadOf[c] /\ view'[k].proof = s
        BY <3>1
      <3>3. Shown(ThreadOf[c], s)
        BY <2>3
      <3>4. QED
        BY <3>2, <3>3
    <2>5. BindingsShown'
      BY <1>0, <2>1, <2>4, BindingsStay DEF BindingsShown
    <2>6. ASSUME AtClaim(k)' PROVE ThreadOf[c] \in proven /\ ThreadOf[c] <= binding.thread /\ cpc'[k] # "recheck"
      <3>1. cpc'[k] = "claim" /\ binding.thread = ThreadOf[c]
        BY <2>2, <2>6 DEF AtClaim
      <3>2. QED
        BY <1>0, <3>1, ShownProven DEF BindingsShown
    <2>7. OwnersProven'
      BY <1>0, <2>1, <2>6 DEF OwnersProven, AtClaim, IsMain, Up
    <2>8. ClaimKept'
      BY <1>0, <2>1, <2>6 DEF ClaimKept, Keeps, AtClaim, IsMain, Up
    <2>9. QED
      BY <2>5, <2>7, <2>8 DEF GateInv
  <1>2. CASE Rebind(k)
    <2>1. /\ Write(view[k]) /\ cpc[k] = "rebind" /\ cpc'[k] = "claim"
          /\ UNCHANGED <<claim, row, reg, copy>>
          /\ \A j \in Calls \ {k} : cpc'[j] = cpc[j] /\ view'[j] = view[j]
      BY <1>0, <1>2 DEF Rebind, GateTypes
    <2>2. /\ view[k] \in Bindings /\ view[k].thread = ThreadOf[c] /\ Shown(view[k].thread, view[k].proof)
          /\ binding' = view[k]
      BY <1>0, <2>1 DEF BindingsShown, GateTypes, Write
    <2>3. BindingsShown'
      BY <1>0, <2>1, <2>2, BindingsStay DEF BindingsShown
    <2>4. OwnersProven'
      <3>1. ThreadOf[c] \in proven
        BY <1>0, <2>2, ShownProven
      <3>2. QED
        BY <1>0, <2>1, <3>1 DEF OwnersProven, AtClaim, IsMain, Up
    <2>5. ASSUME ~movedBack'
          PROVE  /\ \A j \in Calls : /\ AtClaim(j)' => ThreadOf[ChildOf[j]] <= binding'.thread
                                     /\ cpc'[j] = "recheck" => Keeps(ChildOf[j])'
                 /\ \A d \in Children : IsMain(d)' => Keeps(d)'
      <3>1. view[k].thread # 0
        BY <1>0, <2>2
      <3>2. /\ ~movedBack /\ binding.thread <= binding'.thread
            /\ \A d \in Children : Keeps(d) => Keeps(d)'
        BY <2>1, <2>2, <2>5, <3>1, WriteKeeps
      <3>3. ASSUME NEW j \in Calls, AtClaim(j)' PROVE ThreadOf[ChildOf[j]] <= binding'.thread
        <4>1. CASE j = k
          BY <1>0, <2>2, <4>1
        <4>2. CASE j # k
          <5>1. ThreadOf[ChildOf[j]] <= binding.thread
            BY <1>0, <2>1, <3>2, <3>3, <4>2 DEF ClaimKept, AtClaim
          <5>2. ThreadOf[ChildOf[j]] \in Nat /\ binding.thread \in Nat /\ binding'.thread \in Nat
            BY <1>0, <2>2, GateFacts DEF GateTypes
          <5>3. QED
            BY <3>2, <5>1, <5>2
        <4>3. QED
          BY <4>1, <4>2
      <3>4. ASSUME NEW j \in Calls, cpc'[j] = "recheck" PROVE Keeps(ChildOf[j])'
        <4>1. j # k /\ Keeps(ChildOf[j]) /\ ChildOf[j] \in Children
          BY <1>0, <2>1, <3>2, <3>4, GateFacts DEF ClaimKept
        <4>2. QED
          BY <3>2, <4>1
      <3>5. QED
        BY <1>0, <2>1, <3>2, <3>3, <3>4 DEF ClaimKept, IsMain, Up
    <2>6. ClaimKept'
      BY <2>5 DEF ClaimKept
    <2>7. QED
      BY <2>3, <2>4, <2>6 DEF GateInv
  <1>3. CASE TakeClaim(k)
    <2>1. /\ UNCHANGED <<binding, row, reg, copy, view, movedBack>> /\ cpc[k] = "claim"
          /\ \A j \in Calls \ {k} : cpc'[j] = cpc[j]
          /\ \/ claim \in {Free, c} /\ claim' = c /\ cpc'[k] = "recheck"
             \/ UNCHANGED claim /\ cpc'[k] = "idle"
      BY <1>0, <1>3 DEF TakeClaim, GateTypes
    <2>2. BindingsShown'
      BY <1>0, <2>1, BindingsStay DEF BindingsShown
    <2>3. OwnersProven'
      BY <1>0, <2>1 DEF OwnersProven, AtClaim, IsMain, Up
    <2>4. \A d \in Children : Keeps(d) => Keeps(d)'
      BY <1>0, <2>1 DEF Keeps
    <2>5. ASSUME ~movedBack, cpc'[k] = "recheck" PROVE Keeps(c)'
      BY <1>0, <2>1, <2>5 DEF ClaimKept, Keeps, AtClaim
    <2>6. ClaimKept'
      BY <1>0, <2>1, <2>4, <2>5, GateFacts DEF ClaimKept, AtClaim, IsMain, Up
    <2>7. QED
      BY <2>2, <2>3, <2>6 DEF GateInv
  <1>4. CASE Recheck(k)
    <2>1. /\ UNCHANGED <<binding, row, copy, view, movedBack>> /\ cpc[k] = "recheck"
          /\ \A j \in Calls \ {k} : cpc'[j] = cpc[j]
          /\ cpc'[k] \in {"await", "idle"}
      BY <1>0, <1>4 DEF Recheck, GateTypes
    <2>2. \A d \in Children : /\ reg'[d] = reg[d] \/ (d = c /\ reg'[d] = "proven" /\ binding.thread = ThreadOf[c])
                              /\ claim = d => claim' = d \/ (d = c /\ binding.thread # ThreadOf[c])
      BY <1>0, <1>4 DEF Recheck, Released, GateTypes
    <2>3. claim' \in {claim, Free}
      BY <1>4 DEF Recheck, Released
    <2>4. BindingsShown'
      BY <1>0, <2>1, <2>2, BindingsStay DEF BindingsShown
    <2>5. OwnersProven'
      BY <1>0, <2>1, <2>2, <2>3 DEF OwnersProven, AtClaim, IsMain, Up
    <2>6. \A d \in Children : Keeps(d) => Keeps(d)'
      BY <1>0, <2>1, <2>2 DEF Keeps
    <2>7. ClaimKept'
      BY <1>0, <2>1, <2>2, <2>6, GateFacts DEF ClaimKept, AtClaim, IsMain, Up
    <2>8. QED
      BY <2>4, <2>5, <2>7 DEF GateInv
  <1>5. CASE Await(k)
    <2>1. /\ UNCHANGED <<binding, claim, row, copy, view, movedBack>> /\ cpc[k] = "await"
          /\ \A j \in Calls \ {k} : cpc'[j] = cpc[j]
          /\ cpc'[k] \in {"await", "idle"}
          /\ \A d \in Children : reg'[d] = reg[d] \/ (reg[d] = "proven" /\ reg'[d] = "registering")
      BY <1>0, <1>5 DEF Await, GateTypes
    <2>2. BindingsShown'
      BY <1>0, <2>1, BindingsStay DEF BindingsShown
    <2>3. OwnersProven'
      BY <1>0, <2>1 DEF OwnersProven, AtClaim, IsMain, Up
    <2>4. ClaimKept'
      BY <1>0, <2>1 DEF ClaimKept, Keeps, AtClaim, IsMain, Up
    <2>5. QED
      BY <2>2, <2>3, <2>4 DEF GateInv
  <1>6. QED
    BY <1>1, <1>2, <1>3, <1>4, <1>5 DEF CallStep

LEMMA ChildGate ==
  ASSUME TypeOK, LedgerInv, TokensInOrder, GateInv, NEW c \in Children,
         ChildStep(c) \/ StepDown(c) \/ Exit(c) \/ ChildDies(c) \/ Respawn(c)
  PROVE  GateInv'
  <1> USE DEF diskVars, passVars, gwVars, mailVars, rowVars, callVars, histVars, wakeHist, gateHist
  <1>0. /\ GateTypes /\ Free \notin Children
        /\ \A d \in Children : ThreadOf[d] \in Nat \ {0}
        /\ BindingsShown /\ OwnersProven /\ ClaimKept
        /\ UNCHANGED custodyVars /\ UNCHANGED proven
    BY GateFacts, Elsewhere DEF GateInv
  <1>1. CASE Register(c) \/ Heartbeat(c) \/ ReadBinding(c) \/ Respawn(c)
    <2>1. /\ UNCHANGED <<binding, claim, cpc, view, movedBack>>
          /\ \A d \in Children \ {c} : reg'[d] = reg[d] /\ copy'[d] = copy[d]
          /\ row' = row \/ (row' = c /\ IsMain(c))
          /\ IsMain(c)' => IsMain(c)
      BY <1>0, <1>1 DEF Register, Heartbeat, ReadBinding, Respawn, Reclaim, GateTypes, IsMain, Up
    <2>2. ASSUME reg'[c] = "write" PROVE Shown(ThreadOf[c], copy'[c])
      BY <1>0, <1>1, <2>2 DEF Register, Heartbeat, ReadBinding, Respawn, GateTypes, BindingsShown
    <2>3. BindingsShown'
      BY <1>0, <2>1, <2>2, BindingsStay DEF BindingsShown
    <2>4. OwnersProven'
      BY <1>0, <2>1 DEF OwnersProven, AtClaim, IsMain, Up
    <2>5. ClaimKept'
      BY <1>0, <2>1 DEF ClaimKept, Keeps, AtClaim, IsMain, Up
    <2>6. QED
      BY <2>3, <2>4, <2>5 DEF GateInv
  <1>2. CASE AddPeer(c)
    <2> DEFINE b == [thread |-> ThreadOf[c], proof |-> copy[c], peer |-> TRUE]
    <2>1. /\ Write(b) /\ UNCHANGED <<claim, row, cpc, view>> /\ reg[c] = "write"
          /\ \A d \in Children \ {c} : reg'[d] = reg[d] /\ copy'[d] = copy[d]
          /\ reg'[c] = "registered"
      BY <1>0, <1>2 DEF AddPeer, GateTypes
    <2>2. b \in Bindings /\ b.thread = ThreadOf[c] /\ b.proof = copy[c]
      <3>1. ThreadOf[c] \in 0 .. MaxSessions
        BY OpenClawAssumption, Bounds
      <3>2. QED
        BY <1>0, <3>1 DEF GateTypes, Bindings
    <2> HIDE DEF b
    <2>3. Shown(b.thread, b.proof) /\ b.thread # 0 /\ binding' = b
      BY <1>0, <2>1, <2>2 DEF BindingsShown, Write
    <2>4. BindingsShown'
      BY <1>0, <2>1, <2>3, BindingsStay DEF BindingsShown
    <2>5. OwnersProven'
      BY <1>0, <2>1 DEF OwnersProven, AtClaim, IsMain, Up
    <2>6. ASSUME ~movedBack'
          PROVE  /\ \A j \in Calls : /\ AtClaim(j)' => ThreadOf[ChildOf[j]] <= binding'.thread
                                     /\ cpc'[j] = "recheck" => Keeps(ChildOf[j])'
                 /\ \A d \in Children : IsMain(d)' => Keeps(d)'
      <3>1. /\ ~movedBack /\ binding.thread <= binding'.thread
            /\ \A d \in Children : Keeps(d) => Keeps(d)'
        BY <2>1, <2>2, <2>3, <2>6, WriteKeeps
      <3>2. ASSUME NEW j \in Calls, AtClaim(j)' PROVE ThreadOf[ChildOf[j]] <= binding'.thread
        <4>1. ThreadOf[ChildOf[j]] <= binding.thread
          BY <1>0, <2>1, <3>1, <3>2 DEF ClaimKept, AtClaim
        <4>2. ThreadOf[ChildOf[j]] \in Nat /\ binding.thread \in Nat /\ binding'.thread \in Nat
          BY <1>0, <2>2, <2>3, GateFacts DEF GateTypes
        <4>3. QED
          BY <3>1, <4>1, <4>2
      <3>3. QED
        BY <1>0, <2>1, <3>1, <3>2, GateFacts DEF ClaimKept, IsMain, Up
    <2>7. ClaimKept'
      BY <2>6 DEF ClaimKept
    <2>8. QED
      BY <2>4, <2>5, <2>7 DEF GateInv
  <1>3. CASE RegisterFails(c) \/ StepDown(c) \/ Exit(c) \/ ChildDies(c)
    <2>1. PICK to \in {"leaving", "dead"} : Cleanup(c, to)
      BY <1>3 DEF RegisterFails, StepDown, Exit, ChildDies
    <2>2. /\ UNCHANGED <<binding, movedBack>>
          /\ \A d \in Children \ {c} : reg'[d] = reg[d] /\ copy'[d] = copy[d]
          /\ reg'[c] \in {"leaving", "dead"}
          /\ row' \in {row, Free} /\ claim' \in {claim, Free}
          /\ \A d \in Children \ {c} : claim = d => claim' = d
      BY <1>0, <2>1 DEF Cleanup, Released, GateTypes
    <2>3. \A j \in Calls : \/ ChildOf[j] = c /\ cpc'[j] = "idle"
                           \/ ChildOf[j] # c /\ cpc'[j] = cpc[j] /\ view'[j] = view[j]
      BY <2>1 DEF Cleanup
    <2>4. BindingsShown'
      BY <1>0, <2>2, <2>3, BindingsStay DEF BindingsShown
    <2>5. OwnersProven'
      BY <1>0, <2>2, <2>3 DEF OwnersProven, AtClaim, IsMain, Up
    <2>6. \A d \in Children \ {c} : Keeps(d) => Keeps(d)'
      BY <1>0, <2>2 DEF Keeps
    <2>7. ClaimKept'
      BY <1>0, <2>2, <2>3, <2>6, GateFacts DEF ClaimKept, AtClaim, IsMain, Up
    <2>8. QED
      BY <2>4, <2>5, <2>7 DEF GateInv
  <1>4. QED
    BY <1>1, <1>2, <1>3 DEF ChildStep

LEMMA StepGate == ASSUME TypeOK, LedgerInv, TokensInOrder, GateInv, [Next]_vars PROVE GateInv'
  <1> USE DEF diskVars, passVars, gwVars, mailVars, childVars, rowVars, callVars, histVars, wakeHist, gateHist
  <1> DEFINE gateVars == <<binding, claim, row, reg, copy, cpc, view, movedBack>>
  <1>1. Evolves
    BY StepTokens
  <1>2. ASSUME NEW p \in Procs, PassStep(p) \/ PassDies(p) \/ RunWakePass(p) \/ Bind(p) \/ ReconcileAgent(p)
        PROVE  UNCHANGED gateVars
    BY <1>2 DEF PassStep, Describe, Reconcile, Proceed, ReadInbox, WriteIntent, Send, Acknowledge, PassDies,
                RunWakePass, Bind, ReconcileAgent, Begin
  <1>3. ASSUME \/ ClearDeadLock \/ ClearHalt \/ NewSession \/ MailArrives \/ RowGoesStale
               \/ \E to \in {"on", "off", "killed"} : Flip(to)
               \/ \E s \in Subs : Clear(s) \/ Rearm(s) \/ Prune(s)
               \/ \E s \in Ids : GatewayAccepts(s) \/ \E st \in {"cancelled", "consumed"} : GatewaySettles(s, st)
               \/ UNCHANGED vars
        PROVE  UNCHANGED gateVars
    BY <1>3 DEF ClearDeadLock, ClearHalt, NewSession, MailArrives, RowGoesStale, Flip, Clear, Rearm, Prune,
                GatewayAccepts, GatewaySettles, vars
  <1>4. CASE UNCHANGED gateVars
    BY <1>1, <1>4, GateStays
  <1>5. QED
    BY <1>2, <1>3, <1>4, CallGate, ChildGate DEF Next

-----------------------------------------------------------------------------
(* Theorems *)

LEMMA InitIInv == Init => IInv
  <1> SUFFICES ASSUME Init PROVE IInv
    OBVIOUS
  <1>1. TypeOK
    BY InitTypeOK
  <1>2. Subs = {} /\ OpenSubs = {}
    BY DEF Init, Subs, OpenSubs
  <1>3. LedgerInv
    BY <1>2, Bounds DEF Init, LedgerInv, LedgerGuarded, OneOpen, HeldInLedger, SignaturesDiffer, Reached
  <1>4. TokensInOrder
    BY <1>2 DEF Init, TokensInOrder
  <1>5. Shown(binding.thread, binding.proof)
    BY DEF Init, NoBinding, Shown
  <1>6. GateInv
    BY <1>5, OpenClawAssumption DEF Init, GateInv, BindingsShown, OwnersProven, ClaimKept, AtClaim, IsMain
  <1>7. QED
    BY <1>1, <1>3, <1>4, <1>6 DEF IInv

\* The inductive invariant of the OpenClaw integration.
THEOREM Safety == Spec => []IInv
  <1>1. IInv /\ [Next]_vars => IInv'
    BY StepTypeOK, StepLedgerInv, StepTokens, StepGate DEF IInv
  <1>2. QED
    BY InitIInv, <1>1, PTL DEF Spec

\* Every variable keeps its type.
THEOREM TypeCorrect == Spec => []TypeOK
  <1>1. IInv => TypeOK
    BY DEF IInv
  <1>2. QED
    BY Safety, <1>1, PTL

\* One submission is open at a time, and what the Gateway has or may still get is
\* open in the ledger unless an operator or the retention took it out.
THEOREM Custodial == Spec => []KeepsCustody
  <1>1. IInv => KeepsCustody
    <2> SUFFICES ASSUME IInv PROVE KeepsCustody
      OBVIOUS
    <2>1. Cardinality(OpenSubs) <= 1
      <3>1. CASE OpenSubs = {}
        BY <3>1, FS_EmptySet
      <3>2. CASE OpenSubs # {}
        <4>1. PICK s \in OpenSubs : OpenSubs = {s}
          BY <3>2 DEF IInv, LedgerInv, OneOpen
        <4>2. Cardinality({s}) = 1
          BY FS_Singleton, Zenon
        <4>3. QED
          BY <4>1, <4>2
      <3>3. QED
        BY <3>1, <3>2
    <2>2. QED
      BY <2>1 DEF IInv, LedgerInv, HeldInLedger, KeepsCustody, Reached
  <1>2. QED
    BY Safety, <1>1, PTL

\* Two submissions for the same unread set never both reach the Gateway, unless the
\* ledger's memory of one was released on purpose.
THEOREM Woken == Spec => []WokenOnce
  <1>1. IInv => WokenOnce
    BY DEF IInv, LedgerInv, SignaturesDiffer, WokenOnce
  <1>2. QED
    BY Safety, <1>1, PTL

\* Claim, row and ownership stay with children whose thread read a token, and while
\* no binding went back, an owner that is bound holds the claim.
THEOREM ProvenOwner == Spec => []OneProvenOwner
  <1>1. IInv => OneProvenOwner
    <2> SUFFICES ASSUME IInv PROVE OneProvenOwner
      OBVIOUS
    <2>1. ASSUME NEW c \in Children, ~movedBack, IsMain(c), ~Superseded(c) PROVE claim = c
      <3>1. Keeps(c)
        BY <2>1 DEF IInv, GateInv, ClaimKept
      <3>2. binding # NoBinding
        BY <3>1, OpenClawAssumption DEF Keeps, NoBinding
      <3>3. QED
        BY <2>1, <3>1, <3>2 DEF Keeps, Superseded
    <2>2. QED
      BY <2>1 DEF IInv, GateInv, OwnersProven, OneProvenOwner
  <1>2. QED
    BY Safety, <1>1, PTL

-----------------------------------------------------------------------------
(***************************************************************************)
(* The wakes of a Hermes chat                                              *)
(***************************************************************************)

ChatLedger == Chat!HermesChatWakeLedger
ChatBusy == {"launched", "running"}

\* What an exit says of the admission of its client, and what is so before its start.
ClientFits(n) ==
  /\ client[n].out \in {"busy_desktop", "busy_turn", "not_found"} => client[n].adm = "none"
  /\ client[n].out # "none" => ~client[n].up
  /\ client[n].max = 0 => ~client[n].up /\ client[n].adm = "none" /\ client[n].out = "none" /\ ~client[n].foreign

\* The hooks write that a turn ended when it has; an attempt covers what its wake does.
WakeFits(n) ==
  /\ wake[n].max = 0 => wake[n].state = "none"
  /\ evidence[n] = "ended" => wake[n].state = "ended"
  /\ chatLedger.attempt.no = n => wake[n].max \in {0, chatLedger.attempt.max}

DriverHasMail == dpc # "idle" => dmax # 0

\* The plugin's snapshot names some mail: that of the attempt in its hands.
SnapshotsFit ==
  /\ ppc # "idle" => pmax # 0
  /\ ppc \notin {"idle", "consider"} => pno # 0
  /\ ppc = "inject" => chatLedger.attempt.no = pno /\ chatLedger.attempt.max = pmax
  /\ ppc \in {"inject", "not_submitted"} => wake[pno].state = "none" /\ wake[pno].max = 0

\* Whoever has the file's lock, or died with it, found no open attempt.
LockExcludesAttempts ==
  /\ dpc \in {"busy", "save"} <=> chatLock = "driver"
  /\ chatLock # "free" => chatLedger.attempt.no = 0
  /\ dpc \in {"busy", "save"} => dl.attempt.no = 0
  /\ dpc = "busy" => dl.state \notin ChatBusy
  /\ dpc = "save" => dl.state = "launched" /\ dl.launch # 0
  /\ chatLedger.state \in ChatBusy => chatLedger.launch # 0 /\ chatLedger.attempt.no = 0

\* A client in flight is the one the ledger waits for, or the one whose start is not
\* yet in it.
FlightIsKnown ==
  /\ dpc = "busy" => \A n \in Launches : ~Chat!InFlight(n)
  /\ dpc = "save" => \A n \in Launches : Chat!InFlight(n) => n = dl.launch
  /\ chatLock = "free" => \A n \in Launches : Chat!InFlight(n) => n = chatLedger.launch /\ chatLedger.state \in ChatBusy
  /\ chatLock = "dead" => \A n, k \in Launches : Chat!InFlight(n) /\ Chat!InFlight(k) => n = k

HostIsKnown == \A n \in Wakes : Chat!InHost(n) => chatLedger.attempt.no = n

\* Some turn ended that covers all mail up to h.
Covered(h) ==
  \/ h = 0
  \/ \E n \in Wakes : wake[n].state = "ended" /\ wake[n].max >= h
  \/ \E n \in Launches : client[n].max >= h /\ Chat!TurnShown(n)
HandledIsCovered == Covered(chatLedger.handled) /\ (dpc \in {"busy", "save"} => Covered(dl.handled))

Untouched ==
  SnapshotsFit /\ LockExcludesAttempts /\ FlightIsKnown /\ HostIsKnown /\ HandledIsCovered
  /\ \A n \in Wakes : WakeFits(n)
ChatInv ==
  /\ Chat!TypeOK /\ DriverHasMail /\ \A n \in Launches : ClientFits(n)
  /\ touched \/ Untouched

LEMMA MailNumbers == Chat!Ids \subseteq Nat /\ 0 \in Chat!Ids /\ \A a, b \in Chat!Ids : Chat!Larger(a, b) \in Chat!Ids
  BY ChatAssumption DEF Chat!Ids, Chat!Larger

LEMMA LedgerFields ==
  ASSUME NEW l \in ChatLedger
  PROVE  /\ l.state \in Chat!States /\ l.handled \in Chat!Ids /\ l.launched \in Chat!Ids /\ l.attempts \in 0 .. Ladder + 1
         /\ l.next \in {"none", "later", "due"} /\ l.launch \in Launches \cup {0} /\ l.attempt \in Chat!Attempt
         /\ l.attempt.no \in Wakes \cup {0} /\ l.attempt.max \in Chat!Ids /\ l.attempt.host \in Hosts \cup {0}
  BY DEF ChatLedger, Chat!HermesChatWakeLedger, Chat!Attempt

LEMMA LedgerUpdates ==
  ASSUME NEW l \in ChatLedger
  PROVE  /\ \A x \in Chat!States : [l EXCEPT !.state = x] \in ChatLedger
         /\ \A h \in Chat!Ids : [l EXCEPT !.handled = h] \in ChatLedger /\ [l EXCEPT !.launched = h] \in ChatLedger
         /\ \A k \in 0 .. Ladder + 1 : [l EXCEPT !.attempts = k] \in ChatLedger
         /\ \A t \in {"none", "later", "due"} : [l EXCEPT !.next = t] \in ChatLedger
         /\ \A n \in Launches \cup {0} : [l EXCEPT !.launch = n] \in ChatLedger
         /\ \A a \in Chat!Attempt : [l EXCEPT !.attempt = a] \in ChatLedger
  BY DEF ChatLedger, Chat!HermesChatWakeLedger

LEMMA AttemptUpdates ==
  /\ Chat!NoAttempt \in Chat!Attempt
  /\ \A a \in Chat!Attempt, x \in {"none", "intent", "accepted", "unknown"} : [a EXCEPT !.state = x] \in Chat!Attempt
  BY MailNumbers DEF Chat!NoAttempt, Chat!Attempt

\* How a verdict on its desktop attempt changes a ledger.
ByVerdict(l, v, r) ==
  /\ r \in ChatLedger /\ r.launch = l.launch /\ r.launched \in Chat!Ids
  /\ r.attempt.no = 0 \/ (r.attempt.no = l.attempt.no /\ r.attempt.max = l.attempt.max /\ r.attempt.host = l.attempt.host)
  /\ v # "handled" => r.attempt.no = l.attempt.no /\ r.handled = l.handled
  /\ v = "handled" => r.handled = Chat!Larger(l.handled, l.attempt.max)
  /\ v = "none" => r = l
  /\ v # "none" => r.state \in {"done", "desktop_unknown", "waiting_desktop", "cancelled"}
  /\ r.state = "cancelled" => l.state = "cancelled"

VerdictsOnWakes == {"handled", "unknown", "running", "pending", "none"}

LEMMA VerdictSteps ==
  ASSUME NEW l \in ChatLedger, NEW v \in VerdictsOnWakes
  PROVE  ByVerdict(l, v, Chat!ApplyVerdict(l, v))
  <1>0. l.handled \in Chat!Ids /\ l.attempt.max \in Chat!Ids /\ l.attempt \in Chat!Attempt /\ l.state \in Chat!States
    BY LedgerFields
  <1>1. CASE v = "handled"
    <2> DEFINE h == Chat!Larger(l.handled, l.attempt.max)
               g == Chat!Larger(l.launched, l.attempt.max)
               x == IF l.state = "cancelled" THEN "cancelled" ELSE "done"
               r1 == [l EXCEPT !.handled = h, !.launched = g]
               r == [l EXCEPT !.handled = h, !.launched = g, !.attempts = 0, !.next = "none", !.attempt = Chat!NoAttempt, !.state = x]
    <2>1. Chat!ApplyVerdict(l, v) = r
      BY <1>1 DEF Chat!ApplyVerdict, Chat!Handled, ChatLedger, Chat!HermesChatWakeLedger
    <2>2. h \in Chat!Ids /\ g \in Chat!Ids /\ x \in Chat!States /\ 0 \in 0 .. Ladder + 1
      <3>1. h \in Chat!Ids /\ g \in Chat!Ids
        BY LedgerFields, MailNumbers
      <3>2. x \in Chat!States
        BY DEF Chat!States
      <3>3. 0 \in 0 .. Ladder + 1
        BY ChatAssumption
      <3>4. QED
        BY <3>1, <3>2, <3>3
    <2>3. r \in ChatLedger /\ r.launch = l.launch /\ r.attempt = Chat!NoAttempt /\ r.handled = h /\ r.state = x
      BY <2>2, AttemptUpdates DEF ChatLedger, Chat!HermesChatWakeLedger
    <2> HIDE DEF h, g, r
    <2>4. r.attempt.no = 0 /\ r.launched \in Chat!Ids
      BY <2>3, LedgerFields DEF Chat!NoAttempt
    <2>5. QED
      BY <1>1, <2>1, <2>3, <2>4 DEF ByVerdict, h
  <1>2. CASE v = "unknown"
    <2> DEFINE x == IF l.state = "cancelled" THEN "cancelled" ELSE "desktop_unknown"
               a == [l.attempt EXCEPT !.state = "unknown"]
               r == [l EXCEPT !.attempt = a, !.state = x]
    <2>1. Chat!ApplyVerdict(l, v) = r
      BY <1>2 DEF Chat!ApplyVerdict, ChatLedger, Chat!HermesChatWakeLedger
    <2>2. a \in Chat!Attempt /\ a.no = l.attempt.no /\ a.max = l.attempt.max /\ a.host = l.attempt.host
      BY <1>0, AttemptUpdates DEF Chat!Attempt
    <2>3. x \in Chat!States
      BY DEF Chat!States
    <2> HIDE DEF a
    <2>4. r \in ChatLedger /\ r.launch = l.launch /\ r.attempt = a /\ r.handled = l.handled /\ r.state = x
      BY <2>2, <2>3 DEF ChatLedger, Chat!HermesChatWakeLedger
    <2> HIDE DEF r
    <2>5. QED
      BY <1>2, <2>1, <2>2, <2>4, LedgerFields DEF ByVerdict
  <1>3. CASE v = "none"
    BY <1>0, <1>3, LedgerFields DEF ByVerdict, Chat!ApplyVerdict
  <1>4. CASE v \in {"running", "pending"}
    <2> DEFINE x == IF l.state = "cancelled" THEN "cancelled" ELSE "waiting_desktop"
               r == [l EXCEPT !.state = x]
    <2>1. Chat!ApplyVerdict(l, v) = r
      BY <1>4 DEF Chat!ApplyVerdict
    <2>2. x \in Chat!States
      BY DEF Chat!States
    <2>3. r \in ChatLedger /\ r.launch = l.launch /\ r.attempt = l.attempt /\ r.handled = l.handled /\ r.state = x
      BY <2>2 DEF ChatLedger, Chat!HermesChatWakeLedger
    <2> HIDE DEF r
    <2>4. QED
      BY <1>4, <2>1, <2>3, LedgerFields DEF ByVerdict
  <1>5. QED
    BY <1>1, <1>2, <1>3, <1>4 DEF VerdictsOnWakes

\* How the exit, the log and the newest admission of its client settle a launch.
ByLaunch(l, past, r) ==
  /\ r \in ChatLedger /\ r.launch = l.launch /\ r.attempt = l.attempt
  /\ r.state = "cancelled" => l.state = "cancelled"
  /\ l.state \notin ChatBusy \/ l.launch = 0 => r = l
  /\ r.handled = l.handled
       \/ /\ l.launch # 0 /\ r.handled = Chat!Larger(l.handled, client[l.launch].max)
          /\ Chat!TurnShown(l.launch)
  /\ l.state \in ChatBusy /\ l.launch # 0 =>
       \/ r.state = "running"
       \/ /\ r.state \notin ChatBusy /\ (client[l.launch].up => past)
          /\ client[l.launch].adm = "pending" =>
               client[l.launch].out \in {"input_required", "done"} /\ ~client[l.launch].up

\* A launch that failed.
LEMMA FailedSteps ==
  ASSUME NEW l \in ChatLedger
  PROVE  /\ Chat!Failed(l) \in ChatLedger /\ Chat!Failed(l).launch = l.launch /\ Chat!Failed(l).attempt = l.attempt
         /\ Chat!Failed(l).handled = l.handled /\ Chat!Failed(l).state \in {"exhausted", "cooldown"}
  <1>0. l.attempts \in 0 .. Ladder + 1 /\ Ladder \in Nat
    BY LedgerFields, ChatAssumption
  <1> DEFINE n == l.attempts + 1
             up1 == [l EXCEPT !.attempts = Ladder + 1, !.next = "none", !.state = "exhausted"]
             up2 == [l EXCEPT !.attempts = n, !.next = "later", !.state = "cooldown"]
  <1>1. CASE n > Ladder
    <2>1. Chat!Failed(l) = up1
      BY <1>1 DEF Chat!Failed
    <2>2. Ladder + 1 \in 0 .. Ladder + 1 /\ "exhausted" \in Chat!States
      BY <1>0 DEF Chat!States
    <2>3. up1 \in ChatLedger /\ up1.launch = l.launch /\ up1.attempt = l.attempt /\ up1.handled = l.handled /\ up1.state = "exhausted"
      BY <2>2 DEF ChatLedger, Chat!HermesChatWakeLedger
    <2>4. QED
      BY <2>1, <2>3
  <1>2. CASE ~(n > Ladder)
    <2>1. Chat!Failed(l) = up2
      BY <1>2 DEF Chat!Failed
    <2>2. n \in 0 .. Ladder + 1 /\ "cooldown" \in Chat!States
      BY <1>0, <1>2 DEF Chat!States
    <2> HIDE DEF n
    <2>3. up2 \in ChatLedger /\ up2.launch = l.launch /\ up2.attempt = l.attempt /\ up2.handled = l.handled /\ up2.state = "cooldown"
      BY <2>2 DEF ChatLedger, Chat!HermesChatWakeLedger
    <2>4. QED
      BY <2>1, <2>3
  <1>3. QED
    BY <1>1, <1>2

LEMMA LaunchSteps ==
  ASSUME NEW l \in ChatLedger, NEW past \in BOOLEAN, client \in [Launches -> Chat!Client], \A n \in Launches : ClientFits(n)
  PROVE  ByLaunch(l, past, Chat!reconcileLedger(l, past))
  <1> DEFINE r == Chat!reconcileLedger(l, past)
             c == client[l.launch]
             out == IF c.up \/ c.out = "none" THEN "unknown" ELSE c.out
             h == Chat!Larger(l.handled, c.max)
             done == [l EXCEPT !.handled = h, !.attempts = 0, !.next = "none", !.state = "done"]
  <1>1. CASE l.state \notin ChatBusy \/ l.launch = 0
    <2>1. r = l
      BY <1>1 DEF Chat!reconcileLedger, ChatBusy
    <2>2. QED
      BY <1>1, <2>1 DEF ByLaunch
  <1>2. CASE l.state \in ChatBusy /\ l.launch # 0
    <2>0. /\ l.launch \in Launches /\ c \in Chat!Client /\ ClientFits(l.launch) /\ l.handled \in Chat!Ids /\ c.max \in Chat!Ids
          /\ c.out \in {"none", "done", "busy_desktop", "busy_turn", "input_required", "unknown", "not_found", "failed"}
          /\ c.adm \in {"none", "pending", "terminal"} /\ c.up \in BOOLEAN /\ c.foreign \in BOOLEAN
      BY <1>2, LedgerFields DEF Chat!Client
    <2>1. \A x \in Chat!States : LET u == [l EXCEPT !.state = x] IN
            u \in ChatLedger /\ u.launch = l.launch /\ u.attempt = l.attempt /\ u.handled = l.handled /\ u.state = x
      BY DEF ChatLedger, Chat!HermesChatWakeLedger
    <2>2. /\ done \in ChatLedger /\ done.launch = l.launch /\ done.attempt = l.attempt /\ done.handled = h /\ done.state = "done"
      <3>1. h \in Chat!Ids /\ 0 \in 0 .. Ladder + 1 /\ "done" \in Chat!States
        <4>1. h \in Chat!Ids
          BY <2>0, MailNumbers
        <4>2. 0 \in 0 .. Ladder + 1
          BY ChatAssumption
        <4>3. QED
          BY <4>1, <4>2 DEF Chat!States
      <3> HIDE DEF h
      <3>2. QED
        BY <3>1 DEF ChatLedger, Chat!HermesChatWakeLedger
    <2>3. LET u == [l EXCEPT !.next = "none", !.state = "input_required"] IN
            u \in ChatLedger /\ u.launch = l.launch /\ u.attempt = l.attempt /\ u.handled = l.handled /\ u.state = "input_required"
      BY DEF ChatLedger, Chat!HermesChatWakeLedger, Chat!States
    <2>4. {"running", "waiting_desktop", "waiting_turn", "not_found", "done", "input_required", "exhausted", "cooldown"} \subseteq Chat!States
      BY DEF Chat!States
    <2>5. r = IF c.up /\ ~past THEN [l EXCEPT !.state = "running"]
              ELSE CASE out \in {"unknown", "failed"} ->
                          IF c.adm = "pending" THEN [l EXCEPT !.state = "running"]
                          ELSE IF c.adm = "terminal" \/ c.foreign THEN done ELSE Chat!Failed(l)
                     [] out = "done" -> done
                     [] out = "busy_desktop" -> [l EXCEPT !.state = "waiting_desktop"]
                     [] out = "busy_turn" -> [l EXCEPT !.state = "waiting_turn"]
                     [] out = "input_required" -> [l EXCEPT !.next = "none", !.state = "input_required"]
                     [] out = "not_found" -> [l EXCEPT !.state = "not_found"]
      BY <1>2 DEF Chat!reconcileLedger, ChatBusy
    <2> HIDE DEF r, done, h
    <2>6. CASE c.up /\ ~past
      <3>1. r = [l EXCEPT !.state = "running"]
        BY <2>5, <2>6
      <3>2. QED
        BY <1>2, <2>1, <2>4, <3>1 DEF ByLaunch, ChatBusy, r
    <2>7. CASE ~(c.up /\ ~past) /\ out \in {"unknown", "failed"}
      <3>1. CASE c.adm = "pending"
        <4>1. r = [l EXCEPT !.state = "running"]
          BY <2>5, <2>7, <3>1
        <4>2. QED
          BY <1>2, <2>1, <2>4, <4>1 DEF ByLaunch, ChatBusy, r
      <3>2. CASE c.adm # "pending" /\ (c.adm = "terminal" \/ c.foreign)
        <4>1. r = done
          BY <2>5, <2>7, <3>2
        <4>2. QED
          BY <1>2, <2>2, <2>7, <3>2, <4>1 DEF ByLaunch, ChatBusy, Chat!TurnShown, r, h
      <3>3. CASE c.adm # "pending" /\ ~(c.adm = "terminal" \/ c.foreign)
        <4>1. r = Chat!Failed(l)
          BY <2>5, <2>7, <3>3
        <4>2. QED
          BY <1>2, <2>7, <3>3, <4>1, FailedSteps DEF ByLaunch, ChatBusy, r
      <3>4. QED
        BY <3>1, <3>2, <3>3
    <2>8. CASE ~(c.up /\ ~past) /\ out \notin {"unknown", "failed"}
      <3>1. ~c.up /\ c.out = out /\ c.out \in {"done", "busy_desktop", "busy_turn", "input_required", "not_found"}
        BY <2>0, <2>8
      <3>2. CASE c.out = "done"
        <4>1. r = done
          BY <2>5, <2>8, <3>1, <3>2
        <4>2. QED
          BY <1>2, <2>2, <3>1, <3>2, <4>1 DEF ByLaunch, ChatBusy, Chat!TurnShown, r, h
      <3>3. CASE c.out = "input_required"
        <4>1. r = [l EXCEPT !.next = "none", !.state = "input_required"]
          BY <2>5, <2>8, <3>1, <3>3
        <4>2. QED
          BY <1>2, <2>3, <3>1, <3>3, <4>1 DEF ByLaunch, ChatBusy, r
      <3>4. CASE c.out \in {"busy_desktop", "busy_turn", "not_found"}
        <4>1. c.adm = "none"
          BY <2>0, <3>4 DEF ClientFits
        <4>2. PICK x \in {"waiting_desktop", "waiting_turn", "not_found"} : r = [l EXCEPT !.state = x]
          BY <2>5, <2>8, <3>1, <3>4
        <4>3. QED
          BY <1>2, <2>1, <2>4, <3>1, <4>1, <4>2 DEF ByLaunch, ChatBusy, r
      <3>5. QED
        BY <3>1, <3>2, <3>3, <3>4
    <2>9. QED
      BY <2>6, <2>7, <2>8
  <1>3. QED
    BY <1>1, <1>2

LEMMA VerdictFacts ==
  ASSUME NEW a \in Chat!Attempt, evidence \in [Wakes -> {"none", "started", "ended"}], NEW v \in Chat!Verdicts(a)
  PROVE  /\ v \in VerdictsOnWakes /\ (a.no = 0 <=> v = "none")
         /\ v = "handled" => a.no \in Wakes /\ evidence[a.no] = "ended"
  <1>1. CASE a.no = 0
    BY <1>1 DEF Chat!Verdicts, VerdictsOnWakes
  <1>2. CASE a.no # 0
    <2>1. a.no \in Wakes
      BY <1>2 DEF Chat!Attempt
    <2>2. v = "unknown" \/ \E late \in BOOLEAN : v = Chat!Classify(a, late)
      BY <1>2 DEF Chat!Verdicts
    <2>3. ASSUME NEW late \in BOOLEAN
          PROVE  /\ Chat!Classify(a, late) \in {"handled", "unknown", "running", "pending"}
                 /\ Chat!Classify(a, late) = "handled" => evidence[a.no] = "ended"
      BY <2>1 DEF Chat!Classify
    <2>4. QED
      BY <1>2, <2>1, <2>2, <2>3 DEF VerdictsOnWakes
  <1>3. QED
    BY <1>1, <1>2

\* What a settlement leaves: the ledger r, and clients of which one may have been stopped.
Trims ==
  /\ client' \in [Launches -> Chat!Client]
  /\ \A n \in Launches : /\ client'[n].max = client[n].max /\ client'[n].adm = client[n].adm /\ client'[n].out = client[n].out
                         /\ client'[n].foreign = client[n].foreign /\ (client'[n].up => client[n].up)
After(r) ==
  /\ r \in ChatLedger
  /\ r.attempt.no = 0
       \/ (r.attempt.no = chatLedger.attempt.no /\ r.attempt.max = chatLedger.attempt.max /\ r.attempt.host = chatLedger.attempt.host)
  /\ r.attempt.no # chatLedger.attempt.no => evidence[chatLedger.attempt.no] = "ended"
  /\ r.state \in ChatBusy => r.launch # 0 /\ chatLedger.attempt.no = 0
  /\ \A n \in Launches : Chat!InFlight(n)' => n = r.launch /\ r.state \in ChatBusy
  /\ Covered(r.handled)

LEMMA LargerIsCovered ==
  ASSUME NEW a \in Chat!Ids, NEW b \in Chat!Ids, Covered(a), Covered(b)
  PROVE  Covered(Chat!Larger(a, b))
  BY DEF Chat!Larger

LEMMA AfterNothing ==
  ASSUME ChatInv, ~touched, chatLock = "free", client' = client
  PROVE  Trims /\ After(chatLedger)
  <1>0. Chat!TypeOK /\ LockExcludesAttempts /\ FlightIsKnown /\ HandledIsCovered /\ chatLedger \in ChatLedger
    BY DEF ChatInv, Untouched, Chat!TypeOK, ChatLedger
  <1>1. Trims
    BY <1>0 DEF Trims, Chat!TypeOK
  <1>2. chatLedger.state \in ChatBusy => chatLedger.launch # 0 /\ chatLedger.attempt.no = 0
    BY <1>0 DEF LockExcludesAttempts
  <1>3. \A n \in Launches : Chat!InFlight(n)' => n = chatLedger.launch /\ chatLedger.state \in ChatBusy
    BY <1>0 DEF FlightIsKnown, Chat!InFlight
  <1>4. QED
    BY <1>0, <1>1, <1>2, <1>3 DEF After, HandledIsCovered

LEMMA StoppingTrims ==
  ASSUME chatLedger \in ChatLedger, client \in [Launches -> Chat!Client], NEW past \in BOOLEAN,
         client' = IF Chat!Overdue(chatLedger, past) THEN [client EXCEPT ![chatLedger.launch].up = FALSE] ELSE client
  PROVE  Trims /\ \A n \in Launches : client'[n].up => ~(n = chatLedger.launch /\ Chat!Overdue(chatLedger, past))
  <1>0. chatLedger.launch \in Launches \cup {0}
    BY LedgerFields
  <1>1. CASE Chat!Overdue(chatLedger, past)
    <2>1. chatLedger.launch \in Launches /\ client' = [client EXCEPT ![chatLedger.launch].up = FALSE]
      BY <1>0, <1>1 DEF Chat!Overdue
    <2>2. [client[chatLedger.launch] EXCEPT !.up = FALSE] \in Chat!Client
      <3>1. client[chatLedger.launch] \in Chat!Client
        BY <1>0, <2>1
      <3>2. QED
        BY <3>1 DEF Chat!Client
    <2>3. client' \in [Launches -> Chat!Client]
      BY <1>0, <2>1, <2>2
    <2>4. \A n \in Launches : client'[n] = IF n = chatLedger.launch THEN [client[n] EXCEPT !.up = FALSE] ELSE client[n]
      BY <1>0, <2>1
    <2>5. \A n \in Launches : client[n] \in Chat!Client
      BY <1>0
    <2>6. ASSUME NEW n \in Launches
          PROVE  /\ client'[n].max = client[n].max /\ client'[n].adm = client[n].adm /\ client'[n].out = client[n].out
                 /\ client'[n].foreign = client[n].foreign /\ (client'[n].up => client[n].up /\ n # chatLedger.launch)
      BY <2>4, <2>5 DEF Chat!Client
    <2>7. QED
      BY <2>3, <2>6 DEF Trims
  <1>2. CASE ~Chat!Overdue(chatLedger, past)
    BY <1>0, <1>2 DEF Trims
  <1>3. QED
    BY <1>1, <1>2

LEMMA AfterLaunch ==
  ASSUME ChatInv, ~touched, chatLock = "free", NEW past \in BOOLEAN,
         client' = IF Chat!Overdue(chatLedger, past) THEN [client EXCEPT ![chatLedger.launch].up = FALSE] ELSE client
  PROVE  Trims /\ After(Chat!reconcileLedger(chatLedger, past)) /\ Chat!reconcileLedger(chatLedger, past).state # "launched"
         /\ Chat!reconcileLedger(chatLedger, past).attempt = chatLedger.attempt
  <1> DEFINE r == Chat!reconcileLedger(chatLedger, past)
  <1>0. /\ chatLedger \in ChatLedger /\ client \in [Launches -> Chat!Client] /\ \A n \in Launches : ClientFits(n)
        /\ LockExcludesAttempts /\ FlightIsKnown /\ HandledIsCovered
        /\ chatLedger.launch \in Launches \cup {0} /\ chatLedger.handled \in Chat!Ids
    BY LedgerFields DEF ChatInv, Untouched, Chat!TypeOK, ChatLedger
  <1>1. ByLaunch(chatLedger, past, r)
    BY <1>0, LaunchSteps
  <1>2. Trims /\ \A n \in Launches : client'[n].up => ~(n = chatLedger.launch /\ Chat!Overdue(chatLedger, past))
    BY <1>0, StoppingTrims
  <1> HIDE DEF r
  <1>3. ASSUME NEW n \in Launches, Chat!InFlight(n)' PROVE n = r.launch /\ r.state \in ChatBusy
    <2>1. Chat!InFlight(n)
      BY <1>2, <1>3 DEF Chat!InFlight, Trims
    <2>2. n = chatLedger.launch /\ chatLedger.state \in ChatBusy /\ chatLedger.launch # 0
      BY <1>0, <2>1 DEF FlightIsKnown, LockExcludesAttempts
    <2>3. CASE r.state = "running"
      BY <1>1, <2>2, <2>3 DEF ByLaunch, ChatBusy
    <2>4. CASE r.state # "running"
      <3>1. (client[n].up => past) /\ (client[n].adm = "pending" => client[n].out \in {"input_required", "done"} /\ ~client[n].up)
        BY <1>1, <2>2, <2>4 DEF ByLaunch
      <3>2. ~client'[n].up
        BY <1>2, <2>2, <3>1 DEF Chat!Overdue, ChatBusy, Trims
      <3>3. QED
        BY <1>2, <1>3, <3>1, <3>2 DEF Chat!InFlight, Trims
    <2>5. QED
      BY <2>3, <2>4
  <1>4. Covered(r.handled)
    <2>1. CASE r.handled = chatLedger.handled
      BY <1>0, <2>1 DEF HandledIsCovered
    <2>2. CASE /\ chatLedger.launch # 0 /\ r.handled = Chat!Larger(chatLedger.handled, client[chatLedger.launch].max)
               /\ Chat!TurnShown(chatLedger.launch)
      <3>1. chatLedger.launch \in Launches /\ client[chatLedger.launch].max \in Chat!Ids
        BY <1>0, <2>2 DEF Chat!Client
      <3>2. client[chatLedger.launch].max >= client[chatLedger.launch].max
        BY <3>1, MailNumbers
      <3>3. Covered(client[chatLedger.launch].max)
        BY <2>2, <3>1, <3>2 DEF Covered
      <3>4. Covered(chatLedger.handled)
        BY <1>0 DEF HandledIsCovered
      <3>5. QED
        BY <1>0, <2>2, <3>1, <3>3, <3>4, LargerIsCovered
    <2>3. QED
      BY <1>1, <2>1, <2>2 DEF ByLaunch
  <1>5. r.state \in ChatBusy => r.launch # 0 /\ chatLedger.attempt.no = 0
    <2>1. CASE chatLedger.state \in ChatBusy
      BY <1>0, <1>1, <2>1 DEF LockExcludesAttempts, ByLaunch
    <2>2. CASE chatLedger.state \notin ChatBusy
      BY <1>1, <2>2 DEF ByLaunch
    <2>3. QED
      BY <2>1, <2>2
  <1>6. r \in ChatLedger /\ r.attempt = chatLedger.attempt
    BY <1>1 DEF ByLaunch
  <1>7. After(r)
    BY <1>3, <1>4, <1>5, <1>6 DEF After
  <1>8. r.state # "launched"
    BY <1>0, <1>1 DEF ByLaunch, ChatBusy, LockExcludesAttempts
  <1>9. QED
    BY <1>2, <1>6, <1>7, <1>8 DEF r

LEMMA AfterVerdict ==
  ASSUME ChatInv, ~touched, NEW l \in ChatLedger, After(l), l.attempt = chatLedger.attempt, NEW v \in Chat!Verdicts(chatLedger.attempt)
  PROVE  /\ After(Chat!ApplyVerdict(l, v)) /\ Chat!ApplyVerdict(l, v).launch = l.launch
         /\ Chat!ApplyVerdict(l, v).state = "launched" => l.state = "launched"
  <1> DEFINE r == Chat!ApplyVerdict(l, v)
  <1>0. /\ chatLedger \in ChatLedger /\ evidence \in [Wakes -> {"none", "started", "ended"}] /\ wake \in [Wakes -> Chat!Wake]
        /\ \A n \in Wakes : WakeFits(n)
        /\ chatLedger.attempt \in Chat!Attempt /\ l.handled \in Chat!Ids /\ l.attempt.max \in Chat!Ids
    BY LedgerFields DEF ChatInv, Untouched, Chat!TypeOK, ChatLedger
  <1>1. /\ v \in VerdictsOnWakes /\ (chatLedger.attempt.no = 0 <=> v = "none")
        /\ v = "handled" => chatLedger.attempt.no \in Wakes /\ evidence[chatLedger.attempt.no] = "ended"
    BY <1>0, VerdictFacts
  <1>2. ByVerdict(l, v, r)
    BY <1>1, VerdictSteps
  <1> HIDE DEF r
  <1>3. Covered(r.handled)
    <2>1. CASE v # "handled"
      BY <1>2, <2>1 DEF ByVerdict, After
    <2>2. CASE v = "handled"
      <3> DEFINE n == chatLedger.attempt.no
      <3>1. n \in Wakes /\ wake[n].state = "ended" /\ wake[n].max = chatLedger.attempt.max
        BY <1>0, <1>1, <2>2 DEF WakeFits
      <3>2. wake[n].max >= chatLedger.attempt.max
        <4>1. chatLedger.attempt.max \in Nat
          BY <1>0, LedgerFields, MailNumbers
        <4>2. QED
          BY <3>1, <4>1
      <3>3. Covered(l.attempt.max)
        BY <3>1, <3>2 DEF Covered
      <3>4. Covered(l.handled) /\ r.handled = Chat!Larger(l.handled, l.attempt.max)
        BY <1>2, <2>2 DEF ByVerdict, After
      <3>5. QED
        BY <1>0, <3>3, <3>4, LargerIsCovered
    <2>3. QED
      BY <2>1, <2>2
  <1>4. CASE v = "none"
    BY <1>2, <1>4 DEF ByVerdict, r
  <1>5. CASE v # "none"
    <2>1. l.state \notin ChatBusy
      BY <1>1, <1>5 DEF After
    <2>2. r.state \notin ChatBusy
      BY <1>2, <1>5 DEF ByVerdict, ChatBusy
    <2>3. \A n \in Launches : ~Chat!InFlight(n)'
      BY <2>1 DEF After
    <2>4. r.attempt.no # chatLedger.attempt.no => evidence[chatLedger.attempt.no] = "ended"
      BY <1>1, <1>2 DEF ByVerdict
    <2>5. r \in ChatLedger /\ r.launch = l.launch
          /\ \/ r.attempt.no = 0
             \/ r.attempt.no = chatLedger.attempt.no /\ r.attempt.max = chatLedger.attempt.max /\ r.attempt.host = chatLedger.attempt.host
      BY <1>2 DEF ByVerdict
    <2>6. After(r)
      BY <1>3, <2>2, <2>3, <2>4, <2>5 DEF After
    <2>7. QED
      BY <2>2, <2>5, <2>6 DEF r, ChatBusy
  <1>6. QED
    BY <1>4, <1>5
-----------------------------------------------------------------------------
(* Every step keeps the types *)

LEMMA EmptyLedger == Chat!emptyLedger \in ChatLedger /\ Chat!emptyLedger.attempt = Chat!NoAttempt
  <1>1. 0 \in 0 .. Ladder + 1 /\ "done" \in Chat!States /\ 0 \in Chat!Ids
    BY ChatAssumption, MailNumbers DEF Chat!States
  <1>2. QED
    BY <1>1, AttemptUpdates DEF Chat!emptyLedger, ChatLedger, Chat!HermesChatWakeLedger

LEMMA VerdictsTyped ==
  ASSUME NEW a \in Chat!Attempt, evidence \in [Wakes -> {"none", "started", "ended"}], NEW v \in Chat!Verdicts(a),
         NEW l \in ChatLedger
  PROVE  Chat!ApplyVerdict(l, v) \in ChatLedger
  BY VerdictFacts, VerdictSteps DEF ByVerdict

LEMMA ResetSteps ==
  ASSUME NEW l \in ChatLedger
  PROVE  /\ Chat!Reset(l) \in ChatLedger /\ Chat!Reset(l).attempt = l.attempt /\ Chat!Reset(l).handled = l.handled
         /\ Chat!Reset(l).launch = l.launch /\ Chat!Reset(l).state \in {l.state, "done"}
  <1> DEFINE x == IF l.state \in {"exhausted", "input_required", "cooldown", "not_found"} THEN "done" ELSE l.state
             r == [l EXCEPT !.attempts = 0, !.next = "none", !.state = x]
  <1>1. Chat!Reset(l) = r
    BY DEF Chat!Reset, ChatLedger, Chat!HermesChatWakeLedger
  <1>2. x \in Chat!States /\ x \in {l.state, "done"} /\ 0 \in 0 .. Ladder + 1
    BY ChatAssumption DEF Chat!States, ChatLedger, Chat!HermesChatWakeLedger
  <1> HIDE DEF x
  <1>3. r \in ChatLedger /\ r.attempt = l.attempt /\ r.handled = l.handled /\ r.launch = l.launch /\ r.state = x
    BY <1>2 DEF ChatLedger, Chat!HermesChatWakeLedger
  <1>4. QED
    BY <1>1, <1>2, <1>3

LEMMA LedgersTyped ==
  ASSUME Chat!TypeOK, DriverHasMail, \A n \in Launches : ClientFits(n), Chat!Next
  PROVE  chatLedger' \in ChatLedger /\ dl' \in ChatLedger
  <1>0. /\ chatLedger \in ChatLedger /\ dl \in ChatLedger /\ client \in [Launches -> Chat!Client] /\ \A n \in Launches : ClientFits(n)
        /\ evidence \in [Wakes -> {"none", "started", "ended"}] /\ chatLedger.attempt \in Chat!Attempt
    BY LedgerFields DEF Chat!TypeOK, ChatLedger
  <1>1. ASSUME Chat!DriverPass PROVE chatLedger' \in ChatLedger /\ dl' \in ChatLedger
    BY <1>1, <1>0 DEF Chat!DriverPass, Chat!driverVars
  <1>2. ASSUME Chat!DriverLockedOut PROVE chatLedger' \in ChatLedger /\ dl' \in ChatLedger
    BY <1>2, <1>0, EmptyLedger DEF Chat!DriverLockedOut, Chat!DriverIdle
  <1>3. ASSUME Chat!DriverSettles PROVE chatLedger' \in ChatLedger /\ dl' \in ChatLedger
    <2>1. CASE chatLedger.state = "cancelled"
      BY <1>3, <1>0, <2>1, EmptyLedger DEF Chat!DriverSettles, Chat!DriverIdle
    <2>2. CASE chatLedger.state # "cancelled"
      <3>1. PICK past \in BOOLEAN, v \in Chat!Verdicts(chatLedger.attempt) :
              LET l1 == Chat!reconcileLedger(chatLedger, past)
                  l2 == IF l1.state = "running" THEN l1 ELSE Chat!ApplyVerdict(l1, v)
              IN chatLedger' = l2 /\ (dl' = Chat!emptyLedger \/ dl' = Chat!Reset(l2) \/ dl' = l2)
        BY <1>3, <2>2 DEF Chat!DriverSettles, Chat!DriverIdle
      <3>2. Chat!reconcileLedger(chatLedger, past) \in ChatLedger
        BY <1>0, LaunchSteps DEF ByLaunch
      <3>3. chatLedger' \in ChatLedger
        BY <1>0, <3>1, <3>2, VerdictsTyped
      <3>4. Chat!Reset(chatLedger') \in ChatLedger
        BY <3>3, ResetSteps
      <3>5. QED
        BY <3>1, <3>3, <3>4, EmptyLedger
    <2>3. QED
      BY <2>1, <2>2
  <1>4. ASSUME Chat!DriverWaits PROVE chatLedger' \in ChatLedger /\ dl' \in ChatLedger
    <2>1. PICK x \in {"waiting_desktop", "waiting_turn", "waiting_gateway", "not_found"} :
            chatLedger' = [dl EXCEPT !.state = x] /\ dl' = Chat!emptyLedger
      BY <1>4 DEF Chat!DriverWaits, Chat!Saves, Chat!Release, Chat!DriverIdle
    <2>2. x \in Chat!States
      BY DEF Chat!States
    <2>3. QED
      BY <1>0, <2>1, <2>2, LedgerUpdates, EmptyLedger
  <1>5. ASSUME Chat!launch PROVE chatLedger' \in ChatLedger /\ dl' \in ChatLedger
    <2>1. CASE chatLedger' = Chat!Failed(dl) /\ Chat!Release
      BY <1>0, <2>1, FailedSteps, EmptyLedger DEF Chat!Release, Chat!DriverIdle
    <2>2. CASE ~(chatLedger' = Chat!Failed(dl) /\ Chat!Release)
      <3>1. chatLedger' = chatLedger /\ \E n \in Launches : dl' = [dl EXCEPT !.launch = n, !.launched = dmax, !.next = "none", !.state = "launched"]
        BY <1>5, <2>2 DEF Chat!launch
      <3>2. dmax \in Chat!Ids /\ "launched" \in Chat!States
        BY DEF Chat!TypeOK, Chat!States
      <3>3. dl' \in ChatLedger
        BY <1>0, <3>1, <3>2 DEF ChatLedger, Chat!HermesChatWakeLedger
      <3>4. QED
        BY <1>0, <3>1, <3>3
    <2>3. QED
      BY <2>1, <2>2
  <1>6. ASSUME Chat!DriverSaves PROVE chatLedger' \in ChatLedger /\ dl' \in ChatLedger
    BY <1>6, <1>0, EmptyLedger DEF Chat!DriverSaves, Chat!Release, Chat!DriverIdle
  <1>7. ASSUME Chat!DriverDies PROVE chatLedger' \in ChatLedger /\ dl' \in ChatLedger
    BY <1>7, <1>0, EmptyLedger DEF Chat!DriverDies, Chat!DriverIdle
  <1>8. ASSUME Chat!CooldownEnds PROVE chatLedger' \in ChatLedger /\ dl' \in ChatLedger
    BY <1>8, <1>0, LedgerUpdates DEF Chat!CooldownEnds, Chat!driverVars
  <1>9. ASSUME Chat!reconcile PROVE chatLedger' \in ChatLedger /\ dl' \in ChatLedger
    <2>1. PICK past \in BOOLEAN, v \in Chat!Verdicts(chatLedger.attempt) :
            chatLedger' = Chat!ApplyVerdict(Chat!reconcileLedger(chatLedger, past), v)
      BY <1>9 DEF Chat!reconcile
    <2>2. Chat!reconcileLedger(chatLedger, past) \in ChatLedger
      BY <1>0, LaunchSteps DEF ByLaunch
    <2>3. QED
      BY <1>9, <1>0, <2>1, <2>2, VerdictsTyped DEF Chat!reconcile, Chat!driverVars
  <1>10. ASSUME Chat!settle_own PROVE chatLedger' \in ChatLedger /\ dl' \in ChatLedger
    BY <1>10, <1>0, VerdictsTyped DEF Chat!settle_own, Chat!driverVars
  <1>11. ASSUME Chat!tick PROVE chatLedger' \in ChatLedger /\ dl' \in ChatLedger
    BY <1>11, <1>0 DEF Chat!tick, Chat!driverVars
  <1>12. ASSUME Chat!consider PROVE chatLedger' \in ChatLedger /\ dl' \in ChatLedger
    <2>1. CASE chatLedger' = chatLedger
      BY <1>12, <1>0, <2>1 DEF Chat!consider, Chat!driverVars
    <2>2. CASE chatLedger' # chatLedger
      <3>1. PICK v \in Chat!Verdicts(chatLedger.attempt) :
              LET l == Chat!ApplyVerdict(chatLedger, v) IN
              \/ chatLedger' = l
              \/ \E n \in Wakes : chatLedger' = [l EXCEPT !.state = "waiting_desktop",
                                     !.attempt = [no |-> n, max |-> pmax, host |-> host, state |-> "intent"]]
        BY <1>12, <2>2 DEF Chat!consider
      <3> DEFINE l == Chat!ApplyVerdict(chatLedger, v)
      <3>2. l \in ChatLedger
        BY <1>0, VerdictsTyped
      <3>3. \A n \in Wakes : [no |-> n, max |-> pmax, host |-> host, state |-> "intent"] \in Chat!Attempt
        BY DEF Chat!TypeOK, Chat!Attempt
      <3>4. "waiting_desktop" \in Chat!States
        BY DEF Chat!States
      <3> HIDE DEF l
      <3>5. \A a \in Chat!Attempt : [l EXCEPT !.state = "waiting_desktop", !.attempt = a] \in ChatLedger
        BY <3>2, <3>4 DEF ChatLedger, Chat!HermesChatWakeLedger
      <3>6. chatLedger' \in ChatLedger
        BY <3>1, <3>2, <3>3, <3>5 DEF l
      <3>7. QED
        BY <1>12, <1>0, <3>6 DEF Chat!consider, Chat!driverVars
    <2>3. QED
      BY <2>1, <2>2
  <1>13. ASSUME Chat!inject PROVE chatLedger' \in ChatLedger /\ dl' \in ChatLedger
    BY <1>13, <1>0 DEF Chat!inject, Chat!driverVars
  <1>14. ASSUME Chat!record PROVE chatLedger' \in ChatLedger /\ dl' \in ChatLedger
    <2>0. dl' = dl
      BY <1>14 DEF Chat!record, Chat!driverVars
    <2>1. chatLedger' = chatLedger \/ \E a \in {[chatLedger.attempt EXCEPT !.state = "accepted"], [chatLedger.attempt EXCEPT !.state = "unknown"], Chat!NoAttempt} :
            \E x \in {chatLedger.state, "cancelled", "waiting_desktop", "desktop_unknown"} :
              chatLedger' = [chatLedger EXCEPT !.attempt = a, !.state = x]
      <3>1. CASE ppc = "accepted"
        BY <1>14, <1>0, <3>1 DEF Chat!record, Chat!Settled, ChatLedger, Chat!HermesChatWakeLedger
      <3>2. CASE ppc = "unknown"
        BY <1>14, <1>0, <3>2 DEF Chat!record, Chat!Settled, ChatLedger, Chat!HermesChatWakeLedger
      <3>3. CASE ppc \notin {"accepted", "unknown"}
        BY <1>14, <1>0, <3>3 DEF Chat!record, Chat!Settled
      <3>4. QED
        BY <3>1, <3>2, <3>3
    <2>2. \A a \in Chat!Attempt, x \in Chat!States : [chatLedger EXCEPT !.attempt = a, !.state = x] \in ChatLedger
      BY <1>0 DEF ChatLedger, Chat!HermesChatWakeLedger
    <2>3. chatLedger.attempt \in Chat!Attempt /\ chatLedger.state \in Chat!States
      BY <1>0, LedgerFields
    <2>4. {chatLedger.state, "cancelled", "waiting_desktop", "desktop_unknown"} \subseteq Chat!States
      BY <2>3 DEF Chat!States
    <2>5. {[chatLedger.attempt EXCEPT !.state = "accepted"], [chatLedger.attempt EXCEPT !.state = "unknown"], Chat!NoAttempt} \subseteq Chat!Attempt
      BY <2>3, AttemptUpdates
    <2>6. chatLedger' = chatLedger \/ \E a \in Chat!Attempt, x \in Chat!States : chatLedger' = [chatLedger EXCEPT !.attempt = a, !.state = x]
      BY <2>1, <2>4, <2>5
    <2>7. chatLedger' \in ChatLedger
      BY <1>0, <2>2, <2>6
    <2>8. QED
      BY <1>0, <2>0, <2>7
  <1>15. ASSUME NEW n \in Wakes, Chat!on_pre_llm_call(n) PROVE chatLedger' \in ChatLedger /\ dl' \in ChatLedger
    BY <1>15, <1>0 DEF Chat!on_pre_llm_call, Chat!driverVars
  <1>16. ASSUME NEW n \in Wakes, Chat!on_post_llm_call(n) PROVE chatLedger' \in ChatLedger /\ dl' \in ChatLedger
    BY <1>16, <1>0 DEF Chat!on_post_llm_call, Chat!driverVars
  <1>17. ASSUME Chat!cancel PROVE chatLedger' \in ChatLedger /\ dl' \in ChatLedger
    <2>1. "cancelled" \in Chat!States
      BY DEF Chat!States
    <2>2. QED
      BY <1>17, <1>0, <2>1, LedgerUpdates DEF Chat!cancel, Chat!driverVars
  <1>18. ASSUME Chat!uncancel PROVE chatLedger' \in ChatLedger /\ dl' \in ChatLedger
    <2>1. "done" \in Chat!States
      BY DEF Chat!States
    <2>2. QED
      BY <1>18, <1>0, <2>1, LedgerUpdates DEF Chat!uncancel, Chat!driverVars
  <1>19. ASSUME NEW n \in BOOLEAN, Chat!clearDesktop(n) PROVE chatLedger' \in ChatLedger /\ dl' \in ChatLedger
    <2> DEFINE h == Chat!Larger(chatLedger.handled, chatLedger.attempt.max)
               g == Chat!Larger(chatLedger.launched, chatLedger.attempt.max)
    <2>0. dl' = dl
      BY <1>19 DEF Chat!clearDesktop, Chat!driverVars
    <2>1. h \in Chat!Ids /\ g \in Chat!Ids
      BY <1>0, LedgerFields, MailNumbers
    <2>2. {"cancelled", "done", "waiting_desktop"} \subseteq Chat!States
      BY DEF Chat!States
    <2>3. Chat!Handled(chatLedger, chatLedger.attempt.max) \in ChatLedger
      <3>1. Chat!Handled(chatLedger, chatLedger.attempt.max) = [chatLedger EXCEPT !.handled = h, !.launched = g]
        BY <1>0 DEF Chat!Handled, ChatLedger, Chat!HermesChatWakeLedger
      <3> HIDE DEF h, g
      <3>2. QED
        BY <1>0, <2>1, <3>1 DEF ChatLedger, Chat!HermesChatWakeLedger
    <2>4. \E l \in ChatLedger : \E x \in Chat!States : chatLedger' = [l EXCEPT !.attempt = Chat!NoAttempt, !.state = x]
      <3>1. CASE n
        BY <1>19, <1>0, <2>2, <2>3, <3>1 DEF Chat!clearDesktop, Chat!Settled
      <3>2. CASE ~n
        BY <1>19, <1>0, <2>2, <3>2 DEF Chat!clearDesktop, Chat!Settled
      <3>3. QED
        BY <3>1, <3>2
    <2>5. \A l \in ChatLedger, x \in Chat!States : [l EXCEPT !.attempt = Chat!NoAttempt, !.state = x] \in ChatLedger
      BY AttemptUpdates DEF ChatLedger, Chat!HermesChatWakeLedger
    <2>6. QED
      BY <1>0, <2>0, <2>4, <2>5
  <1>20. ASSUME Chat!ClearDeadLock PROVE chatLedger' \in ChatLedger /\ dl' \in ChatLedger
    BY <1>20, <1>0 DEF Chat!ClearDeadLock, Chat!driverVars
  <1>21. ASSUME Chat!MailArrives PROVE chatLedger' \in ChatLedger /\ dl' \in ChatLedger
    BY <1>21, <1>0 DEF Chat!MailArrives, Chat!driverVars
  <1>22. ASSUME Chat!AgentReads PROVE chatLedger' \in ChatLedger /\ dl' \in ChatLedger
    BY <1>22, <1>0 DEF Chat!AgentReads, Chat!driverVars
  <1>23. ASSUME NEW n \in Launches, Chat!GatewayStep(n) PROVE chatLedger' \in ChatLedger /\ dl' \in ChatLedger
    BY <1>23, <1>0 DEF Chat!GatewayStep, Chat!driverVars
  <1>24. ASSUME NEW n \in Launches, Chat!ClientExits(n) PROVE chatLedger' \in ChatLedger /\ dl' \in ChatLedger
    BY <1>24, <1>0 DEF Chat!ClientExits, Chat!driverVars
  <1>25. ASSUME Chat!ChatOpens PROVE chatLedger' \in ChatLedger /\ dl' \in ChatLedger
    BY <1>25, <1>0 DEF Chat!ChatOpens, Chat!driverVars
  <1>26. ASSUME Chat!ChatCloses PROVE chatLedger' \in ChatLedger /\ dl' \in ChatLedger
    BY <1>26, <1>0 DEF Chat!ChatCloses, Chat!driverVars
  <1>27. ASSUME Chat!HostDies PROVE chatLedger' \in ChatLedger /\ dl' \in ChatLedger
    BY <1>27, <1>0 DEF Chat!HostDies, Chat!driverVars
  <1>28. ASSUME Chat!HostStarts PROVE chatLedger' \in ChatLedger /\ dl' \in ChatLedger
    BY <1>28, <1>0 DEF Chat!HostStarts, Chat!driverVars
  <1>29. QED
    BY <1>1, <1>2, <1>3, <1>4, <1>5, <1>6, <1>7, <1>8, <1>9, <1>10, <1>11, <1>12, <1>13, <1>14, <1>15, <1>16, <1>17, <1>18, <1>19, <1>20, <1>21, <1>22, <1>23, <1>24, <1>25, <1>26, <1>27, <1>28 DEF Chat!Next

\* The clients fit their records.
ClientsFit == client \in [Launches -> Chat!Client] /\ \A k \in Launches : ClientFits(k)

LEMMA TrimsFit == ASSUME ClientsFit, Trims PROVE ClientsFit'
  BY DEF ClientsFit, Trims, ClientFits

\* A change of one client.
LEMMA OneClient ==
  ASSUME ClientsFit, NEW n \in Launches, NEW c \in Chat!Client, client' = [client EXCEPT ![n] = c],
         c.out \in {"busy_desktop", "busy_turn", "not_found"} => c.adm = "none",
         c.out # "none" => ~c.up,
         c.max = 0 => ~c.up /\ c.adm = "none" /\ c.out = "none" /\ ~c.foreign
  PROVE  ClientsFit'
  <1>1. \A k \in Launches : client'[k] = IF k = n THEN c ELSE client[k]
    BY DEF ClientsFit
  <1>2. client' \in [Launches -> Chat!Client]
    BY DEF ClientsFit
  <1>3. QED
    BY <1>1, <1>2 DEF ClientsFit, ClientFits

LEMMA ClientFields ==
  ASSUME NEW c \in Chat!Client
  PROVE  /\ c.max \in Chat!Ids /\ c.up \in BOOLEAN /\ c.adm \in {"none", "pending", "terminal"} /\ c.foreign \in BOOLEAN
         /\ c.out \in {"none", "done", "busy_desktop", "busy_turn", "input_required", "unknown", "not_found", "failed"}
  BY DEF Chat!Client

LEMMA StepClients ==
  ASSUME Chat!TypeOK, DriverHasMail, \A n \in Launches : ClientFits(n), Chat!Next
  PROVE  ClientsFit'
  <1>0. ClientsFit /\ chatLedger \in ChatLedger
    BY DEF Chat!TypeOK, ChatLedger, ClientsFit
  <1>1. ASSUME Chat!DriverPass PROVE ClientsFit'
    BY <1>1, <1>0 DEF Chat!DriverPass, ClientsFit, ClientFits
  <1>2. ASSUME Chat!DriverLockedOut PROVE ClientsFit'
    BY <1>2, <1>0 DEF Chat!DriverLockedOut, ClientsFit, ClientFits
  <1>3. ASSUME Chat!DriverSettles PROVE ClientsFit'
    <2>1. CASE client' = client
      BY <1>0, <2>1 DEF ClientsFit, ClientFits
    <2>2. CASE client' # client
      <3>1. PICK past \in BOOLEAN :
              client' = IF Chat!Overdue(chatLedger, past) THEN [client EXCEPT ![chatLedger.launch].up = FALSE] ELSE client
        BY <1>3, <2>2 DEF Chat!DriverSettles
      <3>2. QED
        BY <1>0, <3>1, StoppingTrims, TrimsFit DEF ClientsFit
    <2>3. QED
      BY <2>1, <2>2
  <1>4. ASSUME Chat!DriverWaits PROVE ClientsFit'
    BY <1>4, <1>0 DEF Chat!DriverWaits, ClientsFit, ClientFits
  <1>5. ASSUME Chat!launch PROVE ClientsFit'
    <2>1. CASE client' = client
      BY <1>0, <2>1 DEF ClientsFit, ClientFits
    <2>2. CASE client' # client
      <3>1. PICK n \in Launches \ Chat!Spawned : client' = [client EXCEPT ![n].max = dmax, ![n].up = TRUE]
        BY <1>5, <2>2 DEF Chat!launch
      <3>2. dmax # 0 /\ dmax \in Chat!Ids
        BY <1>5 DEF Chat!launch, DriverHasMail, Chat!TypeOK
      <3>3. client[n] \in Chat!Client /\ client[n].max = 0 /\ ClientFits(n)
        BY <1>0, <3>1 DEF ClientsFit, Chat!Spawned
      <3> DEFINE c == [client[n] EXCEPT !.max = dmax, !.up = TRUE]
      <3>4. /\ c \in Chat!Client /\ c.max = dmax /\ c.out = client[n].out /\ c.adm = client[n].adm
        BY <3>2, <3>3 DEF Chat!Client
      <3>5. client' = [client EXCEPT ![n] = c]
        BY <1>0, <3>1 DEF ClientsFit
      <3> HIDE DEF c
      <3>6. client[n].out = "none" /\ c.max # 0
        BY <3>2, <3>3, <3>4 DEF ClientFits
      <3>7. QED
        BY <1>0, <3>1, <3>4, <3>5, <3>6, OneClient
    <2>3. QED
      BY <2>1, <2>2
  <1>6. ASSUME Chat!DriverSaves PROVE ClientsFit'
    BY <1>6, <1>0 DEF Chat!DriverSaves, ClientsFit, ClientFits
  <1>7. ASSUME Chat!DriverDies PROVE ClientsFit'
    BY <1>7, <1>0 DEF Chat!DriverDies, ClientsFit, ClientFits
  <1>8. ASSUME Chat!CooldownEnds PROVE ClientsFit'
    BY <1>8, <1>0 DEF Chat!CooldownEnds, ClientsFit, ClientFits
  <1>9. ASSUME Chat!reconcile PROVE ClientsFit'
    <2>1. PICK past \in BOOLEAN :
            client' = IF Chat!Overdue(chatLedger, past) THEN [client EXCEPT ![chatLedger.launch].up = FALSE] ELSE client
      BY <1>9 DEF Chat!reconcile
    <2>2. QED
      BY <1>0, <2>1, StoppingTrims, TrimsFit DEF ClientsFit
  <1>10. ASSUME Chat!settle_own PROVE ClientsFit'
    BY <1>10, <1>0 DEF Chat!settle_own, ClientsFit, ClientFits
  <1>11. ASSUME Chat!tick PROVE ClientsFit'
    BY <1>11, <1>0 DEF Chat!tick, ClientsFit, ClientFits
  <1>12. ASSUME Chat!consider PROVE ClientsFit'
    BY <1>12, <1>0 DEF Chat!consider, ClientsFit, ClientFits
  <1>13. ASSUME Chat!inject PROVE ClientsFit'
    BY <1>13, <1>0 DEF Chat!inject, ClientsFit, ClientFits
  <1>14. ASSUME Chat!record PROVE ClientsFit'
    BY <1>14, <1>0 DEF Chat!record, ClientsFit, ClientFits
  <1>15. ASSUME NEW n \in Wakes, Chat!on_pre_llm_call(n) PROVE ClientsFit'
    BY <1>15, <1>0 DEF Chat!on_pre_llm_call, ClientsFit, ClientFits
  <1>16. ASSUME NEW n \in Wakes, Chat!on_post_llm_call(n) PROVE ClientsFit'
    BY <1>16, <1>0 DEF Chat!on_post_llm_call, ClientsFit, ClientFits
  <1>17. ASSUME Chat!cancel PROVE ClientsFit'
    BY <1>17, <1>0 DEF Chat!cancel, ClientsFit, ClientFits
  <1>18. ASSUME Chat!uncancel PROVE ClientsFit'
    BY <1>18, <1>0 DEF Chat!uncancel, ClientsFit, ClientFits
  <1>19. ASSUME NEW n \in BOOLEAN, Chat!clearDesktop(n) PROVE ClientsFit'
    BY <1>19, <1>0 DEF Chat!clearDesktop, ClientsFit, ClientFits
  <1>20. ASSUME Chat!ClearDeadLock PROVE ClientsFit'
    BY <1>20, <1>0 DEF Chat!ClearDeadLock, ClientsFit, ClientFits
  <1>21. ASSUME Chat!MailArrives PROVE ClientsFit'
    BY <1>21, <1>0 DEF Chat!MailArrives, ClientsFit, ClientFits
  <1>22. ASSUME Chat!AgentReads PROVE ClientsFit'
    BY <1>22, <1>0 DEF Chat!AgentReads, ClientsFit, ClientFits
  <1>23. ASSUME NEW n \in Launches, Chat!GatewayStep(n) PROVE ClientsFit'
    <2>0. client[n] \in Chat!Client /\ ClientFits(n)
      BY <1>0 DEF ClientsFit
    <2>1. CASE client[n].up /\ client[n].adm = "none" /\ client' = [client EXCEPT ![n].adm = "pending"]
      <3> DEFINE c == [client[n] EXCEPT !.adm = "pending"]
      <3>1. c \in Chat!Client /\ c.adm = "pending" /\ c.max = client[n].max /\ c.out = client[n].out /\ c.up = client[n].up
        BY <2>0 DEF Chat!Client
      <3>2. client' = [client EXCEPT ![n] = c]
        BY <1>0, <2>1 DEF ClientsFit
      <3> HIDE DEF c
      <3>3. c.out = "none" /\ c.max # 0
        BY <2>0, <2>1, <3>1 DEF ClientFits
      <3>4. QED
        BY <1>0, <3>1, <3>2, <3>3, OneClient
    <2>2. CASE client[n].adm = "pending" /\ client' = [client EXCEPT ![n].adm = "terminal"]
      <3> DEFINE c == [client[n] EXCEPT !.adm = "terminal"]
      <3>1. c \in Chat!Client /\ c.adm = "terminal" /\ c.max = client[n].max /\ c.out = client[n].out /\ c.up = client[n].up
        BY <2>0 DEF Chat!Client
      <3>2. client' = [client EXCEPT ![n] = c]
        BY <1>0, <2>2 DEF ClientsFit
      <3> HIDE DEF c
      <3>3. c.out \notin {"busy_desktop", "busy_turn", "not_found"} /\ c.max # 0 /\ (c.out # "none" => ~c.up)
        BY <2>0, <2>2, <3>1 DEF ClientFits
      <3>4. QED
        BY <1>0, <3>1, <3>2, <3>3, OneClient
    <2>3. CASE n \in Chat!Spawned /\ client' = [client EXCEPT ![n].foreign = TRUE]
      <3> DEFINE c == [client[n] EXCEPT !.foreign = TRUE]
      <3>1. c \in Chat!Client /\ c.adm = client[n].adm /\ c.max = client[n].max /\ c.out = client[n].out /\ c.up = client[n].up
        BY <2>0 DEF Chat!Client
      <3>2. client' = [client EXCEPT ![n] = c]
        BY <1>0, <2>3 DEF ClientsFit
      <3> HIDE DEF c
      <3>3. c.max # 0
        BY <2>3, <3>1 DEF Chat!Spawned
      <3>4. QED
        BY <1>0, <2>0, <3>1, <3>2, <3>3, OneClient DEF ClientFits
    <2>4. QED
      BY <1>23, <2>1, <2>2, <2>3 DEF Chat!GatewayStep
  <1>24. ASSUME NEW n \in Launches, Chat!ClientExits(n) PROVE ClientsFit'
    <2>0. client[n] \in Chat!Client /\ ClientFits(n) /\ client[n].up /\ client[n].adm \in {"none", "pending", "terminal"}
      BY <1>24, <1>0, ClientFields DEF ClientsFit, Chat!ClientExits
    <2>1. PICK out \in {"busy_turn", "busy_desktop", "input_required", "done", "failed", "unknown", "none", "not_found"} :
            /\ client' = [client EXCEPT ![n].up = FALSE, ![n].out = out]
            /\ out \in {"busy_desktop", "busy_turn", "not_found"} => client[n].adm = "none"
      BY <1>24, <2>0 DEF Chat!ClientExits
    <2> DEFINE c == [client[n] EXCEPT !.up = FALSE, !.out = out]
    <2>2. c \in Chat!Client /\ c.adm = client[n].adm /\ c.max = client[n].max /\ c.out = out /\ ~c.up
      BY <2>0, <2>1 DEF Chat!Client
    <2>3. client' = [client EXCEPT ![n] = c]
      BY <1>0, <2>1 DEF ClientsFit
    <2> HIDE DEF c
    <2>4. c.max # 0
      BY <2>0, <2>2 DEF ClientFits
    <2>5. QED
      BY <1>0, <2>1, <2>2, <2>3, <2>4, OneClient
  <1>25. ASSUME Chat!ChatOpens PROVE ClientsFit'
    BY <1>25, <1>0 DEF Chat!ChatOpens, ClientsFit, ClientFits
  <1>26. ASSUME Chat!ChatCloses PROVE ClientsFit'
    BY <1>26, <1>0 DEF Chat!ChatCloses, ClientsFit, ClientFits
  <1>27. ASSUME Chat!HostDies PROVE ClientsFit'
    BY <1>27, <1>0 DEF Chat!HostDies, ClientsFit, ClientFits
  <1>28. ASSUME Chat!HostStarts PROVE ClientsFit'
    BY <1>28, <1>0 DEF Chat!HostStarts, ClientsFit, ClientFits
  <1>29. QED
    BY <1>1, <1>2, <1>3, <1>4, <1>5, <1>6, <1>7, <1>8, <1>9, <1>10, <1>11, <1>12, <1>13, <1>14, <1>15, <1>16, <1>17, <1>18, <1>19, <1>20, <1>21, <1>22, <1>23, <1>24, <1>25, <1>26, <1>27, <1>28 DEF Chat!Next

\* What closing a chat or the death of its host drops.
LEMMA DropsTyped ==
  ASSUME wake \in [Wakes -> Chat!Wake], NEW S \in SUBSET {"queued", "started"}
  PROVE  /\ Chat!Dropped(S) \in [Wakes -> Chat!Wake]
         /\ \A n \in Wakes : /\ Chat!Dropped(S)[n].max = wake[n].max
                              /\ Chat!Dropped(S)[n].state = IF wake[n].state \in S THEN "lost" ELSE wake[n].state
  <1>1. ASSUME NEW n \in Wakes
        PROVE  LET w == IF wake[n].state \in S THEN [wake[n] EXCEPT !.state = "lost"] ELSE wake[n] IN
               w \in Chat!Wake /\ w.max = wake[n].max /\ w.state = IF wake[n].state \in S THEN "lost" ELSE wake[n].state
    <2>1. wake[n] \in Chat!Wake
      OBVIOUS
    <2>2. QED
      BY <2>1 DEF Chat!Wake
  <1>2. QED
    BY <1>1 DEF Chat!Dropped

LEMMA WakesTyped ==
  ASSUME Chat!TypeOK, Chat!Next
  PROVE  wake' \in [Wakes -> Chat!Wake] /\ evidence' \in [Wakes -> {"none", "started", "ended"}]
  <1>0. wake \in [Wakes -> Chat!Wake] /\ evidence \in [Wakes -> {"none", "started", "ended"}]
    BY DEF Chat!TypeOK
  <1>1. ASSUME Chat!DriverPass PROVE wake' \in [Wakes -> Chat!Wake] /\ evidence' \in [Wakes -> {"none", "started", "ended"}]
    BY <1>1, <1>0 DEF Chat!DriverPass
  <1>2. ASSUME Chat!DriverLockedOut PROVE wake' \in [Wakes -> Chat!Wake] /\ evidence' \in [Wakes -> {"none", "started", "ended"}]
    BY <1>2, <1>0 DEF Chat!DriverLockedOut
  <1>3. ASSUME Chat!DriverSettles PROVE wake' \in [Wakes -> Chat!Wake] /\ evidence' \in [Wakes -> {"none", "started", "ended"}]
    BY <1>3, <1>0 DEF Chat!DriverSettles
  <1>4. ASSUME Chat!DriverWaits PROVE wake' \in [Wakes -> Chat!Wake] /\ evidence' \in [Wakes -> {"none", "started", "ended"}]
    BY <1>4, <1>0 DEF Chat!DriverWaits
  <1>5. ASSUME Chat!launch PROVE wake' \in [Wakes -> Chat!Wake] /\ evidence' \in [Wakes -> {"none", "started", "ended"}]
    BY <1>5, <1>0 DEF Chat!launch
  <1>6. ASSUME Chat!DriverSaves PROVE wake' \in [Wakes -> Chat!Wake] /\ evidence' \in [Wakes -> {"none", "started", "ended"}]
    BY <1>6, <1>0 DEF Chat!DriverSaves
  <1>7. ASSUME Chat!DriverDies PROVE wake' \in [Wakes -> Chat!Wake] /\ evidence' \in [Wakes -> {"none", "started", "ended"}]
    BY <1>7, <1>0 DEF Chat!DriverDies
  <1>8. ASSUME Chat!CooldownEnds PROVE wake' \in [Wakes -> Chat!Wake] /\ evidence' \in [Wakes -> {"none", "started", "ended"}]
    BY <1>8, <1>0 DEF Chat!CooldownEnds
  <1>9. ASSUME Chat!reconcile PROVE wake' \in [Wakes -> Chat!Wake] /\ evidence' \in [Wakes -> {"none", "started", "ended"}]
    BY <1>9, <1>0 DEF Chat!reconcile
  <1>10. ASSUME Chat!settle_own PROVE wake' \in [Wakes -> Chat!Wake] /\ evidence' \in [Wakes -> {"none", "started", "ended"}]
    BY <1>10, <1>0 DEF Chat!settle_own
  <1>11. ASSUME Chat!tick PROVE wake' \in [Wakes -> Chat!Wake] /\ evidence' \in [Wakes -> {"none", "started", "ended"}]
    BY <1>11, <1>0 DEF Chat!tick
  <1>12. ASSUME Chat!consider PROVE wake' \in [Wakes -> Chat!Wake] /\ evidence' \in [Wakes -> {"none", "started", "ended"}]
    BY <1>12, <1>0 DEF Chat!consider
  <1>13. ASSUME Chat!inject PROVE wake' \in [Wakes -> Chat!Wake] /\ evidence' \in [Wakes -> {"none", "started", "ended"}]
    <2>1. pmax \in Chat!Ids
      BY DEF Chat!TypeOK
    <2>2. [max |-> pmax, state |-> "queued"] \in Chat!Wake
      BY <2>1 DEF Chat!Wake
    <2>3. wake' = wake \/ wake' = [wake EXCEPT ![pno] = [max |-> pmax, state |-> "queued"]]
      BY <1>13 DEF Chat!inject
    <2>4. wake' \in [Wakes -> Chat!Wake]
      BY <1>0, <2>2, <2>3
    <2>5. QED
      BY <1>13, <1>0, <2>4 DEF Chat!inject
  <1>14. ASSUME Chat!record PROVE wake' \in [Wakes -> Chat!Wake] /\ evidence' \in [Wakes -> {"none", "started", "ended"}]
    BY <1>14, <1>0 DEF Chat!record
  <1>15. ASSUME NEW n \in Wakes, Chat!on_pre_llm_call(n) PROVE wake' \in [Wakes -> Chat!Wake] /\ evidence' \in [Wakes -> {"none", "started", "ended"}]
    <2>0. wake[n] \in Chat!Wake
      BY <1>0
    <2>1. wake' = [wake EXCEPT ![n].state = "started"]
      BY <1>15 DEF Chat!on_pre_llm_call
    <2>2. [wake[n] EXCEPT !.state = "started"] \in Chat!Wake
      BY <2>0 DEF Chat!Wake
    <2>3. wake' \in [Wakes -> Chat!Wake]
      BY <1>0, <2>1, <2>2
    <2>4. evidence' \in [Wakes -> {"none", "started", "ended"}]
      BY <1>15, <1>0 DEF Chat!on_pre_llm_call
    <2>5. QED
      BY <2>3, <2>4
  <1>16. ASSUME NEW n \in Wakes, Chat!on_post_llm_call(n) PROVE wake' \in [Wakes -> Chat!Wake] /\ evidence' \in [Wakes -> {"none", "started", "ended"}]
    <2>0. wake[n] \in Chat!Wake
      BY <1>0
    <2>1. wake' = [wake EXCEPT ![n].state = "ended"]
      BY <1>16 DEF Chat!on_post_llm_call
    <2>2. [wake[n] EXCEPT !.state = "ended"] \in Chat!Wake
      BY <2>0 DEF Chat!Wake
    <2>3. wake' \in [Wakes -> Chat!Wake]
      BY <1>0, <2>1, <2>2
    <2>4. evidence' \in [Wakes -> {"none", "started", "ended"}]
      BY <1>16, <1>0 DEF Chat!on_post_llm_call
    <2>5. QED
      BY <2>3, <2>4
  <1>17. ASSUME Chat!cancel PROVE wake' \in [Wakes -> Chat!Wake] /\ evidence' \in [Wakes -> {"none", "started", "ended"}]
    BY <1>17, <1>0 DEF Chat!cancel
  <1>18. ASSUME Chat!uncancel PROVE wake' \in [Wakes -> Chat!Wake] /\ evidence' \in [Wakes -> {"none", "started", "ended"}]
    BY <1>18, <1>0 DEF Chat!uncancel
  <1>19. ASSUME NEW n \in BOOLEAN, Chat!clearDesktop(n) PROVE wake' \in [Wakes -> Chat!Wake] /\ evidence' \in [Wakes -> {"none", "started", "ended"}]
    BY <1>19, <1>0 DEF Chat!clearDesktop
  <1>20. ASSUME Chat!ClearDeadLock PROVE wake' \in [Wakes -> Chat!Wake] /\ evidence' \in [Wakes -> {"none", "started", "ended"}]
    BY <1>20, <1>0 DEF Chat!ClearDeadLock
  <1>21. ASSUME Chat!MailArrives PROVE wake' \in [Wakes -> Chat!Wake] /\ evidence' \in [Wakes -> {"none", "started", "ended"}]
    BY <1>21, <1>0 DEF Chat!MailArrives
  <1>22. ASSUME Chat!AgentReads PROVE wake' \in [Wakes -> Chat!Wake] /\ evidence' \in [Wakes -> {"none", "started", "ended"}]
    BY <1>22, <1>0 DEF Chat!AgentReads
  <1>23. ASSUME NEW n \in Launches, Chat!GatewayStep(n) PROVE wake' \in [Wakes -> Chat!Wake] /\ evidence' \in [Wakes -> {"none", "started", "ended"}]
    BY <1>23, <1>0 DEF Chat!GatewayStep
  <1>24. ASSUME NEW n \in Launches, Chat!ClientExits(n) PROVE wake' \in [Wakes -> Chat!Wake] /\ evidence' \in [Wakes -> {"none", "started", "ended"}]
    BY <1>24, <1>0 DEF Chat!ClientExits
  <1>25. ASSUME Chat!ChatOpens PROVE wake' \in [Wakes -> Chat!Wake] /\ evidence' \in [Wakes -> {"none", "started", "ended"}]
    BY <1>25, <1>0 DEF Chat!ChatOpens
  <1>26. ASSUME Chat!ChatCloses PROVE wake' \in [Wakes -> Chat!Wake] /\ evidence' \in [Wakes -> {"none", "started", "ended"}]
    BY <1>26, <1>0, DropsTyped DEF Chat!ChatCloses
  <1>27. ASSUME Chat!HostDies PROVE wake' \in [Wakes -> Chat!Wake] /\ evidence' \in [Wakes -> {"none", "started", "ended"}]
    BY <1>27, <1>0, DropsTyped DEF Chat!HostDies
  <1>28. ASSUME Chat!HostStarts PROVE wake' \in [Wakes -> Chat!Wake] /\ evidence' \in [Wakes -> {"none", "started", "ended"}]
    BY <1>28, <1>0 DEF Chat!HostStarts
  <1>29. QED
    BY <1>1, <1>2, <1>3, <1>4, <1>5, <1>6, <1>7, <1>8, <1>9, <1>10, <1>11, <1>12, <1>13, <1>14, <1>15, <1>16, <1>17, <1>18, <1>19, <1>20, <1>21, <1>22, <1>23, <1>24, <1>25, <1>26, <1>27, <1>28 DEF Chat!Next

StepsTyped ==
  /\ sent \in Chat!Ids /\ got \in 0 .. sent /\ chatLock \in {"free", "driver", "dead"}
  /\ dpc \in {"idle", "wake", "busy", "save"} /\ dmax \in Chat!Ids /\ DriverHasMail
  /\ ppc \in {"idle", "consider", "inject", "accepted", "unknown", "not_submitted"}
  /\ pmax \in Chat!Ids /\ pno \in Wakes \cup {0}
  /\ host \in Hosts /\ up \in BOOLEAN /\ open \in BOOLEAN /\ (open => up)
  /\ chatFaults \in 0 .. ChatFaults /\ touched \in BOOLEAN

LEMMA StepTypes ==
  ASSUME StepsTyped, Chat!Next
  PROVE  StepsTyped'
  <1> USE ChatAssumption
  <1>1. ASSUME Chat!DriverPass PROVE StepsTyped'
    BY <1>1 DEF Chat!DriverPass, StepsTyped, DriverHasMail, Chat!mailVars, Chat!driverVars, Chat!pluginVars, Chat!hostVars, Chat!DriverIdle, Chat!PluginIdle, Chat!Release, Chat!Saves, Chat!Fault, Chat!Operator, Chat!Raised, Chat!Ids, Chat!Injected
  <1>2. ASSUME Chat!DriverLockedOut PROVE StepsTyped'
    BY <1>2 DEF Chat!DriverLockedOut, StepsTyped, DriverHasMail, Chat!mailVars, Chat!driverVars, Chat!pluginVars, Chat!hostVars, Chat!DriverIdle, Chat!PluginIdle, Chat!Release, Chat!Saves, Chat!Fault, Chat!Operator, Chat!Raised, Chat!Ids, Chat!Injected
  <1>3. ASSUME Chat!DriverSettles PROVE StepsTyped'
    BY <1>3 DEF Chat!DriverSettles, StepsTyped, DriverHasMail, Chat!mailVars, Chat!driverVars, Chat!pluginVars, Chat!hostVars, Chat!DriverIdle, Chat!PluginIdle, Chat!Release, Chat!Saves, Chat!Fault, Chat!Operator, Chat!Raised, Chat!Ids, Chat!Injected
  <1>4. ASSUME Chat!DriverWaits PROVE StepsTyped'
    BY <1>4 DEF Chat!DriverWaits, StepsTyped, DriverHasMail, Chat!mailVars, Chat!driverVars, Chat!pluginVars, Chat!hostVars, Chat!DriverIdle, Chat!PluginIdle, Chat!Release, Chat!Saves, Chat!Fault, Chat!Operator, Chat!Raised, Chat!Ids, Chat!Injected
  <1>5. ASSUME Chat!launch PROVE StepsTyped'
    <2>0. sent' = sent /\ got' = got /\ ppc' = ppc /\ pmax' = pmax /\ pno' = pno /\ host' = host /\ up' = up /\ open' = open /\ touched' = touched
      BY <1>5 DEF Chat!launch, Chat!mailVars, Chat!pluginVars, Chat!hostVars
    <2>1. CASE dpc' = "save"
      <3>1. chatLock' = chatLock /\ dmax' = dmax /\ chatFaults' = chatFaults /\ dpc = "busy"
        BY <1>5, <2>1 DEF Chat!launch, Chat!Release, Chat!DriverIdle
      <3>2. QED
        BY <2>0, <2>1, <3>1 DEF StepsTyped, DriverHasMail
    <2>2. CASE dpc' # "save"
      <3>1. chatLock' = "free" /\ dpc' = "idle" /\ dmax' = 0 /\ Chat!Fault
        BY <1>5, <2>2 DEF Chat!launch, Chat!Release, Chat!DriverIdle
      <3>2. chatFaults' \in 0 .. ChatFaults
        BY <3>1 DEF Chat!Fault, StepsTyped
      <3>3. QED
        BY <2>0, <3>1, <3>2, MailNumbers DEF StepsTyped, DriverHasMail
    <2>3. QED
      BY <2>1, <2>2
  <1>6. ASSUME Chat!DriverSaves PROVE StepsTyped'
    BY <1>6 DEF Chat!DriverSaves, StepsTyped, DriverHasMail, Chat!mailVars, Chat!driverVars, Chat!pluginVars, Chat!hostVars, Chat!DriverIdle, Chat!PluginIdle, Chat!Release, Chat!Saves, Chat!Fault, Chat!Operator, Chat!Raised, Chat!Ids, Chat!Injected
  <1>7. ASSUME Chat!DriverDies PROVE StepsTyped'
    BY <1>7 DEF Chat!DriverDies, StepsTyped, DriverHasMail, Chat!mailVars, Chat!driverVars, Chat!pluginVars, Chat!hostVars, Chat!DriverIdle, Chat!PluginIdle, Chat!Release, Chat!Saves, Chat!Fault, Chat!Operator, Chat!Raised, Chat!Ids, Chat!Injected
  <1>8. ASSUME Chat!CooldownEnds PROVE StepsTyped'
    BY <1>8 DEF Chat!CooldownEnds, StepsTyped, DriverHasMail, Chat!mailVars, Chat!driverVars, Chat!pluginVars, Chat!hostVars, Chat!DriverIdle, Chat!PluginIdle, Chat!Release, Chat!Saves, Chat!Fault, Chat!Operator, Chat!Raised, Chat!Ids, Chat!Injected
  <1>9. ASSUME Chat!reconcile PROVE StepsTyped'
    BY <1>9 DEF Chat!reconcile, StepsTyped, DriverHasMail, Chat!mailVars, Chat!driverVars, Chat!pluginVars, Chat!hostVars, Chat!DriverIdle, Chat!PluginIdle, Chat!Release, Chat!Saves, Chat!Fault, Chat!Operator, Chat!Raised, Chat!Ids, Chat!Injected
  <1>10. ASSUME Chat!settle_own PROVE StepsTyped'
    BY <1>10 DEF Chat!settle_own, StepsTyped, DriverHasMail, Chat!mailVars, Chat!driverVars, Chat!pluginVars, Chat!hostVars, Chat!DriverIdle, Chat!PluginIdle, Chat!Release, Chat!Saves, Chat!Fault, Chat!Operator, Chat!Raised, Chat!Ids, Chat!Injected
  <1>11. ASSUME Chat!tick PROVE StepsTyped'
    BY <1>11 DEF Chat!tick, StepsTyped, DriverHasMail, Chat!mailVars, Chat!driverVars, Chat!pluginVars, Chat!hostVars, Chat!DriverIdle, Chat!PluginIdle, Chat!Release, Chat!Saves, Chat!Fault, Chat!Operator, Chat!Raised, Chat!Ids, Chat!Injected
  <1>12. ASSUME Chat!consider PROVE StepsTyped'
    BY <1>12 DEF Chat!consider, StepsTyped, DriverHasMail, Chat!mailVars, Chat!driverVars, Chat!pluginVars, Chat!hostVars, Chat!DriverIdle, Chat!PluginIdle, Chat!Release, Chat!Saves, Chat!Fault, Chat!Operator, Chat!Raised, Chat!Ids, Chat!Injected
  <1>13. ASSUME Chat!inject PROVE StepsTyped'
    BY <1>13 DEF Chat!inject, StepsTyped, DriverHasMail, Chat!mailVars, Chat!driverVars, Chat!pluginVars, Chat!hostVars, Chat!DriverIdle, Chat!PluginIdle, Chat!Release, Chat!Saves, Chat!Fault, Chat!Operator, Chat!Raised, Chat!Ids, Chat!Injected
  <1>14. ASSUME Chat!record PROVE StepsTyped'
    BY <1>14 DEF Chat!record, StepsTyped, DriverHasMail, Chat!mailVars, Chat!driverVars, Chat!pluginVars, Chat!hostVars, Chat!DriverIdle, Chat!PluginIdle, Chat!Release, Chat!Saves, Chat!Fault, Chat!Operator, Chat!Raised, Chat!Ids, Chat!Injected
  <1>15. ASSUME NEW n \in Wakes, Chat!on_pre_llm_call(n) PROVE StepsTyped'
    BY <1>15 DEF Chat!on_pre_llm_call, StepsTyped, DriverHasMail, Chat!mailVars, Chat!driverVars, Chat!pluginVars, Chat!hostVars, Chat!DriverIdle, Chat!PluginIdle, Chat!Release, Chat!Saves, Chat!Fault, Chat!Operator, Chat!Raised, Chat!Ids, Chat!Injected
  <1>16. ASSUME NEW n \in Wakes, Chat!on_post_llm_call(n) PROVE StepsTyped'
    BY <1>16 DEF Chat!on_post_llm_call, StepsTyped, DriverHasMail, Chat!mailVars, Chat!driverVars, Chat!pluginVars, Chat!hostVars, Chat!DriverIdle, Chat!PluginIdle, Chat!Release, Chat!Saves, Chat!Fault, Chat!Operator, Chat!Raised, Chat!Ids, Chat!Injected
  <1>17. ASSUME Chat!cancel PROVE StepsTyped'
    BY <1>17 DEF Chat!cancel, StepsTyped, DriverHasMail, Chat!mailVars, Chat!driverVars, Chat!pluginVars, Chat!hostVars, Chat!DriverIdle, Chat!PluginIdle, Chat!Release, Chat!Saves, Chat!Fault, Chat!Operator, Chat!Raised, Chat!Ids, Chat!Injected
  <1>18. ASSUME Chat!uncancel PROVE StepsTyped'
    BY <1>18 DEF Chat!uncancel, StepsTyped, DriverHasMail, Chat!mailVars, Chat!driverVars, Chat!pluginVars, Chat!hostVars, Chat!DriverIdle, Chat!PluginIdle, Chat!Release, Chat!Saves, Chat!Fault, Chat!Operator, Chat!Raised, Chat!Ids, Chat!Injected
  <1>19. ASSUME NEW n \in BOOLEAN, Chat!clearDesktop(n) PROVE StepsTyped'
    BY <1>19 DEF Chat!clearDesktop, StepsTyped, DriverHasMail, Chat!mailVars, Chat!driverVars, Chat!pluginVars, Chat!hostVars, Chat!DriverIdle, Chat!PluginIdle, Chat!Release, Chat!Saves, Chat!Fault, Chat!Operator, Chat!Raised, Chat!Ids, Chat!Injected
  <1>20. ASSUME Chat!ClearDeadLock PROVE StepsTyped'
    BY <1>20 DEF Chat!ClearDeadLock, StepsTyped, DriverHasMail, Chat!mailVars, Chat!driverVars, Chat!pluginVars, Chat!hostVars, Chat!DriverIdle, Chat!PluginIdle, Chat!Release, Chat!Saves, Chat!Fault, Chat!Operator, Chat!Raised, Chat!Ids, Chat!Injected
  <1>21. ASSUME Chat!MailArrives PROVE StepsTyped'
    BY <1>21 DEF Chat!MailArrives, StepsTyped, DriverHasMail, Chat!mailVars, Chat!driverVars, Chat!pluginVars, Chat!hostVars, Chat!DriverIdle, Chat!PluginIdle, Chat!Release, Chat!Saves, Chat!Fault, Chat!Operator, Chat!Raised, Chat!Ids, Chat!Injected
  <1>22. ASSUME Chat!AgentReads PROVE StepsTyped'
    BY <1>22 DEF Chat!AgentReads, StepsTyped, DriverHasMail, Chat!mailVars, Chat!driverVars, Chat!pluginVars, Chat!hostVars, Chat!DriverIdle, Chat!PluginIdle, Chat!Release, Chat!Saves, Chat!Fault, Chat!Operator, Chat!Raised, Chat!Ids, Chat!Injected
  <1>23. ASSUME NEW n \in Launches, Chat!GatewayStep(n) PROVE StepsTyped'
    BY <1>23 DEF Chat!GatewayStep, StepsTyped, DriverHasMail, Chat!mailVars, Chat!driverVars, Chat!pluginVars, Chat!hostVars, Chat!DriverIdle, Chat!PluginIdle, Chat!Release, Chat!Saves, Chat!Fault, Chat!Operator, Chat!Raised, Chat!Ids, Chat!Injected
  <1>24. ASSUME NEW n \in Launches, Chat!ClientExits(n) PROVE StepsTyped'
    BY <1>24 DEF Chat!ClientExits, StepsTyped, DriverHasMail, Chat!mailVars, Chat!driverVars, Chat!pluginVars, Chat!hostVars, Chat!DriverIdle, Chat!PluginIdle, Chat!Release, Chat!Saves, Chat!Fault, Chat!Operator, Chat!Raised, Chat!Ids, Chat!Injected
  <1>25. ASSUME Chat!ChatOpens PROVE StepsTyped'
    BY <1>25 DEF Chat!ChatOpens, StepsTyped, DriverHasMail, Chat!mailVars, Chat!driverVars, Chat!pluginVars, Chat!hostVars, Chat!DriverIdle, Chat!PluginIdle, Chat!Release, Chat!Saves, Chat!Fault, Chat!Operator, Chat!Raised, Chat!Ids, Chat!Injected
  <1>26. ASSUME Chat!ChatCloses PROVE StepsTyped'
    BY <1>26 DEF Chat!ChatCloses, StepsTyped, DriverHasMail, Chat!mailVars, Chat!driverVars, Chat!pluginVars, Chat!hostVars, Chat!DriverIdle, Chat!PluginIdle, Chat!Release, Chat!Saves, Chat!Fault, Chat!Operator, Chat!Raised, Chat!Ids, Chat!Injected
  <1>27. ASSUME Chat!HostDies PROVE StepsTyped'
    <2>0. /\ sent' = sent /\ got' = got /\ ppc' = "idle" /\ pmax' = 0 /\ pno' = 0 /\ host' = host /\ up' = FALSE /\ open' = FALSE
          /\ touched' = touched /\ chatLock' = chatLock /\ dpc' = dpc /\ dmax' = dmax
      BY <1>27 DEF Chat!HostDies, Chat!mailVars, Chat!driverVars, Chat!PluginIdle
    <2>1. chatFaults' \in 0 .. ChatFaults
      BY <1>27 DEF Chat!HostDies, Chat!Fault, StepsTyped
    <2>2. QED
      BY <2>0, <2>1, MailNumbers DEF StepsTyped, DriverHasMail
  <1>28. ASSUME Chat!HostStarts PROVE StepsTyped'
    BY <1>28 DEF Chat!HostStarts, StepsTyped, DriverHasMail, Chat!mailVars, Chat!driverVars, Chat!pluginVars, Chat!hostVars, Chat!DriverIdle, Chat!PluginIdle, Chat!Release, Chat!Saves, Chat!Fault, Chat!Operator, Chat!Raised, Chat!Ids, Chat!Injected
  <1>29. QED
    BY <1>1, <1>2, <1>3, <1>4, <1>5, <1>6, <1>7, <1>8, <1>9, <1>10, <1>11, <1>12, <1>13, <1>14, <1>15, <1>16, <1>17, <1>18, <1>19, <1>20, <1>21, <1>22, <1>23, <1>24, <1>25, <1>26, <1>27, <1>28 DEF Chat!Next

LEMMA StepChatTypeOK ==
  ASSUME Chat!TypeOK, DriverHasMail, \A n \in Launches : ClientFits(n), Chat!Next
  PROVE  (Chat!TypeOK /\ DriverHasMail /\ \A n \in Launches : ClientFits(n))'
  <1>1. StepsTyped
    BY DEF Chat!TypeOK, StepsTyped
  <1>2. StepsTyped'
    BY <1>1, StepTypes
  <1>3. QED
    BY <1>2, LedgersTyped, StepClients, WakesTyped DEF Chat!TypeOK, StepsTyped, ClientsFit, ChatLedger

-----------------------------------------------------------------------------
(* What a settlement does to the ledger, and what it is for *)

LEMMA ReconcileStep ==
  ASSUME ChatInv, ~touched, Chat!reconcile
  PROVE  Trims /\ After(chatLedger') /\ chatLock = "free"
  <1>1. PICK past \in BOOLEAN, v \in Chat!Verdicts(chatLedger.attempt) :
          /\ chatLedger' = Chat!ApplyVerdict(Chat!reconcileLedger(chatLedger, past), v)
          /\ client' = IF Chat!Overdue(chatLedger, past) THEN [client EXCEPT ![chatLedger.launch].up = FALSE] ELSE client
    BY DEF Chat!reconcile
  <1>2. chatLock = "free"
    BY DEF Chat!reconcile
  <1>3. /\ Trims /\ After(Chat!reconcileLedger(chatLedger, past))
        /\ Chat!reconcileLedger(chatLedger, past).attempt = chatLedger.attempt
    BY <1>1, <1>2, AfterLaunch
  <1>4. After(Chat!ApplyVerdict(Chat!reconcileLedger(chatLedger, past), v))
    BY <1>3, AfterVerdict DEF After
  <1>5. QED
    BY <1>1, <1>2, <1>3, <1>4

LEMMA SettleOwnStep ==
  ASSUME ChatInv, ~touched, Chat!settle_own
  PROVE  Trims /\ After(chatLedger') /\ chatLock = "free"
  <1>1. chatLock = "free" /\ client' = client
    BY DEF Chat!settle_own
  <1>2. PICK v \in Chat!Verdicts(chatLedger.attempt) : chatLedger' = Chat!ApplyVerdict(chatLedger, v)
    BY DEF Chat!settle_own
  <1>3. Trims /\ After(chatLedger)
    BY <1>1, AfterNothing
  <1>4. After(Chat!ApplyVerdict(chatLedger, v))
    BY <1>3, AfterVerdict DEF After
  <1>5. QED
    BY <1>1, <1>2, <1>3, <1>4

\* The driver goes on only with a ledger that nobody owns.
GoesOn ==
  /\ dpc' = "busy" /\ chatLock' = "driver" /\ dmax' = dmax
  /\ chatLedger'.attempt.no = 0 /\ chatLedger'.state \notin ChatBusy
  /\ dl' \in ChatLedger /\ dl'.attempt = chatLedger'.attempt /\ dl'.handled = chatLedger'.handled /\ dl'.state \notin ChatBusy

LEMMA DriverSettlesStep ==
  ASSUME ChatInv, ~touched, Chat!DriverSettles
  PROVE  /\ Trims /\ After(chatLedger') /\ chatLock = "free"
         /\ GoesOn \/ (Chat!DriverIdle /\ chatLock' = chatLock)
  <1>0. chatLock = "free"
    BY DEF Chat!DriverSettles
  <1>1. CASE chatLedger.state = "cancelled"
    <2>1. chatLedger' = chatLedger /\ client' = client /\ chatLock' = chatLock /\ Chat!DriverIdle
      BY <1>1 DEF Chat!DriverSettles
    <2>2. Trims /\ After(chatLedger)
      BY <1>0, <2>1, AfterNothing
    <2>3. QED
      BY <1>0, <2>1, <2>2
  <1>2. CASE chatLedger.state # "cancelled"
    <2>1. PICK past \in BOOLEAN, v \in Chat!Verdicts(chatLedger.attempt) :
            LET l1 == Chat!reconcileLedger(chatLedger, past)
                l2 == IF l1.state = "running" THEN l1 ELSE Chat!ApplyVerdict(l1, v)
                new == dmax > l2.launched
            IN /\ chatLedger' = l2
               /\ client' = IF Chat!Overdue(chatLedger, past) THEN [client EXCEPT ![chatLedger.launch].up = FALSE] ELSE client
               /\ IF Chat!Owned(l2) \/ (~new /\ Chat!Parked(l2))
                  THEN Chat!DriverIdle /\ UNCHANGED chatLock
                  ELSE dpc' = "busy" /\ chatLock' = "driver" /\ dl' = (IF new THEN Chat!Reset(l2) ELSE l2) /\ UNCHANGED dmax
      BY <1>2 DEF Chat!DriverSettles
    <2> DEFINE l1 == Chat!reconcileLedger(chatLedger, past)
    <2>2. /\ Trims /\ After(l1) /\ l1.state # "launched" /\ l1.attempt = chatLedger.attempt
      BY <1>0, <2>1, AfterLaunch
    <2> HIDE DEF l1
    <2>3. After(Chat!ApplyVerdict(l1, v)) /\ Chat!ApplyVerdict(l1, v).state # "launched"
      BY <2>2, AfterVerdict DEF After
    <2>4. After(chatLedger') /\ chatLedger'.state # "launched" /\ chatLedger' \in ChatLedger
      BY <2>1, <2>2, <2>3 DEF l1, After
    <2>5. CASE Chat!DriverIdle /\ chatLock' = chatLock
      BY <1>0, <2>2, <2>4, <2>5
    <2>6. CASE ~(Chat!DriverIdle /\ chatLock' = chatLock)
      <3>1. /\ dpc' = "busy" /\ chatLock' = "driver" /\ dmax' = dmax /\ ~Chat!Owned(chatLedger')
            /\ dl' = Chat!Reset(chatLedger') \/ dl' = chatLedger'
        BY <2>1, <2>6
      <3>2. chatLedger'.attempt.no = 0 /\ chatLedger'.state \notin ChatBusy
        BY <2>4, <3>1 DEF Chat!Owned, ChatBusy
      <3>3. dl' \in ChatLedger /\ dl'.attempt = chatLedger'.attempt /\ dl'.handled = chatLedger'.handled /\ dl'.state \in {chatLedger'.state, "done"}
        BY <2>4, <3>1, ResetSteps
      <3>4. QED
        BY <1>0, <2>2, <2>4, <3>1, <3>2, <3>3 DEF GoesOn, ChatBusy
    <2>7. QED
      BY <2>5, <2>6
  <1>3. QED
    BY <1>1, <1>2

\* The plugin writes an intent over a ledger that nobody owns, for a wake that is new.
Intends(l, n) ==
  /\ After(l) /\ l.attempt.no = 0 /\ l.state \notin ChatBusy
  /\ n \in Wakes /\ wake[n].max = 0
  /\ chatLedger' = [l EXCEPT !.state = "waiting_desktop",
                      !.attempt = [no |-> n, max |-> pmax, host |-> host, state |-> "intent"]]
  /\ pno' = n /\ ppc' = "inject" /\ pmax' = pmax

LEMMA ConsiderStep ==
  ASSUME ChatInv, ~touched, Chat!consider
  PROVE  \/ Chat!PluginIdle /\ chatLedger' = chatLedger
         \/ Chat!PluginIdle /\ Trims /\ After(chatLedger') /\ chatLock = "free"
         \/ chatLock = "free" /\ Trims /\ \E l \in ChatLedger, n \in Wakes : Intends(l, n)
  <1>0. client' = client
    BY DEF Chat!consider
  <1>1. CASE Chat!PluginIdle /\ chatLedger' = chatLedger
    BY <1>1
  <1>2. CASE ~(Chat!PluginIdle /\ chatLedger' = chatLedger)
    <2>1. chatLock = "free"
      BY <1>2 DEF Chat!consider
    <2>2. PICK v \in Chat!Verdicts(chatLedger.attempt) :
            LET l == Chat!ApplyVerdict(chatLedger, v) IN
            IF l.attempt.no # 0 \/ Chat!Refuses(l)
            THEN chatLedger' = l /\ Chat!PluginIdle
            ELSE \E n \in Wakes \ Chat!Injected :
                   /\ chatLedger' = [l EXCEPT !.state = "waiting_desktop",
                                       !.attempt = [no |-> n, max |-> pmax, host |-> host, state |-> "intent"]]
                   /\ pno' = n /\ ppc' = "inject" /\ pmax' = pmax
      BY <1>2 DEF Chat!consider
    <2> DEFINE l == Chat!ApplyVerdict(chatLedger, v)
    <2>3. Trims /\ After(chatLedger)
      BY <1>0, <2>1, AfterNothing
    <2>4. After(l) /\ l \in ChatLedger
      BY <2>3, AfterVerdict DEF After
    <2>5. CASE chatLedger' = l /\ Chat!PluginIdle
      BY <2>1, <2>3, <2>4, <2>5
    <2>6. CASE ~(chatLedger' = l /\ Chat!PluginIdle)
      <3>1. l.attempt.no = 0 /\ ~Chat!Refuses(l)
        BY <2>2, <2>6
      <3>2. PICK n \in Wakes \ Chat!Injected :
               /\ chatLedger' = [l EXCEPT !.state = "waiting_desktop",
                                   !.attempt = [no |-> n, max |-> pmax, host |-> host, state |-> "intent"]]
               /\ pno' = n /\ ppc' = "inject" /\ pmax' = pmax
        BY <2>2, <2>6
      <3>3. wake[n].max = 0
        BY <3>2 DEF Chat!Injected
      <3>4. l.state \notin ChatBusy
        BY <3>1 DEF Chat!Refuses, ChatBusy
      <3> HIDE DEF l
      <3>5. Intends(l, n)
        BY <2>4, <3>1, <3>2, <3>3, <3>4 DEF Intends
      <3>6. QED
        BY <2>1, <2>3, <2>4, <3>2, <3>5
    <2>7. QED
      BY <2>5, <2>6
  <1>3. QED
    BY <1>1, <1>2

-----------------------------------------------------------------------------
(* What a step may do to the wakes and the clients, whoever takes it *)

WakesEvolve ==
  \A n \in Wakes :
    LET injected == ppc = "inject" /\ n = pno IN
    /\ wake[n].state = "ended" => wake'[n].state = "ended"
    /\ wake'[n].max = wake[n].max \/ (injected /\ wake'[n].max = pmax)
    /\ wake[n].state = "none" => wake'[n].state = "none" \/ (injected /\ ppc' \in {"accepted", "unknown"} /\ wake'[n].max = pmax)
    /\ wake'[n].state \in {"queued", "started"} => wake[n].state \in {"queued", "started"} \/ injected
    /\ evidence'[n] = "ended" => wake'[n].state = "ended"

ChatStep ==
  \/ Chat!DriverPass
  \/ Chat!DriverLockedOut
  \/ Chat!DriverSettles
  \/ Chat!DriverWaits
  \/ Chat!launch
  \/ Chat!DriverSaves
  \/ Chat!DriverDies
  \/ Chat!CooldownEnds
  \/ Chat!reconcile
  \/ Chat!settle_own
  \/ Chat!tick
  \/ Chat!consider
  \/ Chat!inject
  \/ Chat!record
  \/ \E n \in Wakes : Chat!on_pre_llm_call(n)
  \/ \E n \in Wakes : Chat!on_post_llm_call(n)
  \/ Chat!MailArrives
  \/ Chat!AgentReads
  \/ \E n \in Launches : Chat!GatewayStep(n)
  \/ \E n \in Launches : Chat!ClientExits(n)
  \/ Chat!ChatOpens
  \/ Chat!ChatCloses
  \/ Chat!HostDies
  \/ Chat!HostStarts

LEMMA WakesDoEvolve ==
  ASSUME ChatInv, ~touched, ChatStep
  PROVE  WakesEvolve
  <1>0. /\ wake \in [Wakes -> Chat!Wake] /\ evidence \in [Wakes -> {"none", "started", "ended"}] /\ Chat!TypeOK
        /\ \A n \in Wakes : evidence[n] = "ended" => wake[n].state = "ended"
        /\ SnapshotsFit
    BY DEF ChatInv, Untouched, Chat!TypeOK, WakeFits
  <1>1. ASSUME Chat!DriverPass PROVE WakesEvolve
    BY <1>1, <1>0 DEF Chat!DriverPass, WakesEvolve
  <1>2. ASSUME Chat!DriverLockedOut PROVE WakesEvolve
    BY <1>2, <1>0 DEF Chat!DriverLockedOut, WakesEvolve
  <1>3. ASSUME Chat!DriverSettles PROVE WakesEvolve
    BY <1>3, <1>0 DEF Chat!DriverSettles, WakesEvolve
  <1>4. ASSUME Chat!DriverWaits PROVE WakesEvolve
    BY <1>4, <1>0 DEF Chat!DriverWaits, WakesEvolve
  <1>5. ASSUME Chat!launch PROVE WakesEvolve
    BY <1>5, <1>0 DEF Chat!launch, WakesEvolve
  <1>6. ASSUME Chat!DriverSaves PROVE WakesEvolve
    BY <1>6, <1>0 DEF Chat!DriverSaves, WakesEvolve
  <1>7. ASSUME Chat!DriverDies PROVE WakesEvolve
    BY <1>7, <1>0 DEF Chat!DriverDies, WakesEvolve
  <1>8. ASSUME Chat!CooldownEnds PROVE WakesEvolve
    BY <1>8, <1>0 DEF Chat!CooldownEnds, WakesEvolve
  <1>9. ASSUME Chat!reconcile PROVE WakesEvolve
    BY <1>9, <1>0 DEF Chat!reconcile, WakesEvolve
  <1>10. ASSUME Chat!settle_own PROVE WakesEvolve
    BY <1>10, <1>0 DEF Chat!settle_own, WakesEvolve
  <1>11. ASSUME Chat!tick PROVE WakesEvolve
    BY <1>11, <1>0 DEF Chat!tick, WakesEvolve
  <1>12. ASSUME Chat!consider PROVE WakesEvolve
    BY <1>12, <1>0 DEF Chat!consider, WakesEvolve
  <1>13. ASSUME Chat!inject PROVE WakesEvolve
    <2>0. ppc = "inject" /\ evidence' = evidence
      BY <1>13 DEF Chat!inject
    <2>1. CASE wake' = wake
      BY <1>0, <2>0, <2>1 DEF WakesEvolve
    <2>2. CASE wake' # wake
      <3>1. wake' = [wake EXCEPT ![pno] = [max |-> pmax, state |-> "queued"]] /\ ppc' \in {"accepted", "unknown"}
        BY <1>13, <2>2 DEF Chat!inject, Chat!Raised
      <3>2. \A n \in Wakes : wake'[n] = IF n = pno THEN [max |-> pmax, state |-> "queued"] ELSE wake[n]
        BY <1>0, <3>1
      <3>3. wake[pno].state = "none" /\ pno \in Wakes
        BY <1>0, <2>0 DEF SnapshotsFit, Chat!TypeOK
      <3>4. QED
        BY <1>0, <2>0, <3>1, <3>2, <3>3 DEF WakesEvolve
    <2>3. QED
      BY <2>1, <2>2
  <1>14. ASSUME Chat!record PROVE WakesEvolve
    BY <1>14, <1>0 DEF Chat!record, WakesEvolve
  <1>15. ASSUME NEW n \in Wakes, Chat!on_pre_llm_call(n) PROVE WakesEvolve
    <2>1. wake[n].state = "queued" /\ wake' = [wake EXCEPT ![n].state = "started"] /\ wake[n] \in Chat!Wake
      BY <1>15, <1>0 DEF Chat!on_pre_llm_call
    <2>2. \A k \in Wakes : wake'[k].max = wake[k].max /\ wake'[k].state = IF k = n THEN "started" ELSE wake[k].state
      <3>1. \A k \in Wakes : wake[k] \in Chat!Wake /\ wake'[k] = IF k = n THEN [wake[k] EXCEPT !.state = "started"] ELSE wake[k]
        BY <1>0, <2>1
      <3>2. QED
        BY <3>1 DEF Chat!Wake
    <2>3. \A k \in Wakes : evidence'[k] = "ended" => evidence[k] = "ended" \/ FALSE
      BY <1>15, <1>0 DEF Chat!on_pre_llm_call
    <2>4. QED
      BY <1>0, <2>1, <2>2, <2>3 DEF WakesEvolve
  <1>16. ASSUME NEW n \in Wakes, Chat!on_post_llm_call(n) PROVE WakesEvolve
    <2>1. wake[n].state = "started" /\ wake' = [wake EXCEPT ![n].state = "ended"] /\ wake[n] \in Chat!Wake
      BY <1>16, <1>0 DEF Chat!on_post_llm_call
    <2>2. \A k \in Wakes : wake'[k].max = wake[k].max /\ wake'[k].state = IF k = n THEN "ended" ELSE wake[k].state
      <3>1. \A k \in Wakes : wake[k] \in Chat!Wake /\ wake'[k] = IF k = n THEN [wake[k] EXCEPT !.state = "ended"] ELSE wake[k]
        BY <1>0, <2>1
      <3>2. QED
        BY <3>1 DEF Chat!Wake
    <2>3. \A k \in Wakes : evidence'[k] = "ended" => evidence[k] = "ended" \/ (k = n)
      BY <1>16, <1>0 DEF Chat!on_post_llm_call
    <2>4. QED
      BY <1>0, <2>1, <2>2, <2>3 DEF WakesEvolve
  <1>17. ASSUME Chat!MailArrives PROVE WakesEvolve
    BY <1>17, <1>0 DEF Chat!MailArrives, WakesEvolve
  <1>18. ASSUME Chat!AgentReads PROVE WakesEvolve
    BY <1>18, <1>0 DEF Chat!AgentReads, WakesEvolve
  <1>19. ASSUME NEW n \in Launches, Chat!GatewayStep(n) PROVE WakesEvolve
    BY <1>19, <1>0 DEF Chat!GatewayStep, WakesEvolve
  <1>20. ASSUME NEW n \in Launches, Chat!ClientExits(n) PROVE WakesEvolve
    BY <1>20, <1>0 DEF Chat!ClientExits, WakesEvolve
  <1>21. ASSUME Chat!ChatOpens PROVE WakesEvolve
    BY <1>21, <1>0 DEF Chat!ChatOpens, WakesEvolve
  <1>22. ASSUME Chat!ChatCloses PROVE WakesEvolve
    <2>1. wake' = Chat!Dropped({"queued"}) /\ evidence' = evidence
      BY <1>22 DEF Chat!ChatCloses
    <2>2. \A n \in Wakes : wake'[n].max = wake[n].max /\ wake'[n].state = IF wake[n].state \in {"queued"} THEN "lost" ELSE wake[n].state
      BY <1>0, <2>1, DropsTyped
    <2>3. QED
      BY <1>0, <2>1, <2>2 DEF WakesEvolve
  <1>23. ASSUME Chat!HostDies PROVE WakesEvolve
    <2>1. wake' = Chat!Dropped({"queued", "started"}) /\ evidence' = evidence
      BY <1>23 DEF Chat!HostDies
    <2>2. \A n \in Wakes : wake'[n].max = wake[n].max /\ wake'[n].state = IF wake[n].state \in {"queued", "started"} THEN "lost" ELSE wake[n].state
      BY <1>0, <2>1, DropsTyped
    <2>3. QED
      BY <1>0, <2>1, <2>2 DEF WakesEvolve
  <1>24. ASSUME Chat!HostStarts PROVE WakesEvolve
    BY <1>24, <1>0 DEF Chat!HostStarts, WakesEvolve
  <1>25. QED
    BY <1>1, <1>2, <1>3, <1>4, <1>5, <1>6, <1>7, <1>8, <1>9, <1>10, <1>11, <1>12, <1>13, <1>14, <1>15, <1>16, <1>17, <1>18, <1>19, <1>20, <1>21, <1>22, <1>23, <1>24 DEF ChatStep

ClientsEvolve ==
  \A n \in Launches :
    /\ client[n].max # 0 => client'[n].max = client[n].max
    /\ client[n].adm = "terminal" => client'[n].adm = "terminal"
    /\ client[n].foreign => client'[n].foreign
    /\ client[n].max # 0 /\ client[n].out = "done" => client'[n].out = "done"
    /\ Chat!InFlight(n)' => Chat!InFlight(n) \/ (dpc = "busy" /\ dpc' = "save" /\ dl'.launch = n)

LEMMA TrimsEvolve == ASSUME Trims PROVE ClientsEvolve
  BY DEF Trims, ClientsEvolve, Chat!InFlight

LEMMA ClientsDoEvolve ==
  ASSUME ChatInv, ~touched, ChatStep
  PROVE  ClientsEvolve
  <1>0. client \in [Launches -> Chat!Client] /\ dl \in ChatLedger
    BY DEF ChatInv, Chat!TypeOK, ChatLedger
  <1>1. ASSUME Chat!DriverPass PROVE ClientsEvolve
    BY <1>1 DEF Chat!DriverPass, ClientsEvolve, Chat!InFlight
  <1>2. ASSUME Chat!DriverLockedOut PROVE ClientsEvolve
    BY <1>2 DEF Chat!DriverLockedOut, ClientsEvolve, Chat!InFlight
  <1>3. ASSUME Chat!DriverSettles PROVE ClientsEvolve
    BY <1>3, DriverSettlesStep, TrimsEvolve
  <1>4. ASSUME Chat!DriverWaits PROVE ClientsEvolve
    BY <1>4 DEF Chat!DriverWaits, ClientsEvolve, Chat!InFlight
  <1>5. ASSUME Chat!launch PROVE ClientsEvolve
    <2>1. CASE client' = client
      BY <2>1 DEF ClientsEvolve, Chat!InFlight
    <2>2. CASE client' # client
      <3>1. PICK n \in Launches \ Chat!Spawned : /\ client' = [client EXCEPT ![n].max = dmax, ![n].up = TRUE]
                                                /\ dl' = [dl EXCEPT !.launch = n, !.launched = dmax, !.next = "none", !.state = "launched"]
                                                /\ dpc' = "save" /\ dpc = "busy"
        BY <1>5, <2>2 DEF Chat!launch
      <3>2. dl'.launch = n
        BY <1>0, <3>1 DEF ChatLedger, Chat!HermesChatWakeLedger
      <3>3. client[n].max = 0
        BY <3>1 DEF Chat!Spawned
      <3>4. client[n] \in Chat!Client
        BY <1>0, <3>1
      <3>5. client'[n].adm = client[n].adm /\ client'[n].foreign = client[n].foreign
        BY <1>0, <3>1, <3>4 DEF Chat!Client
      <3>6. \A k \in Launches : k # n => client'[k] = client[k]
        BY <1>0, <3>1
      <3>7. QED
        BY <3>1, <3>2, <3>3, <3>5, <3>6 DEF ClientsEvolve, Chat!InFlight
    <2>3. QED
      BY <2>1, <2>2
  <1>6. ASSUME Chat!DriverSaves PROVE ClientsEvolve
    BY <1>6 DEF Chat!DriverSaves, ClientsEvolve, Chat!InFlight
  <1>7. ASSUME Chat!DriverDies PROVE ClientsEvolve
    BY <1>7 DEF Chat!DriverDies, ClientsEvolve, Chat!InFlight
  <1>8. ASSUME Chat!CooldownEnds PROVE ClientsEvolve
    BY <1>8 DEF Chat!CooldownEnds, ClientsEvolve, Chat!InFlight
  <1>9. ASSUME Chat!reconcile PROVE ClientsEvolve
    BY <1>9, ReconcileStep, TrimsEvolve
  <1>10. ASSUME Chat!settle_own PROVE ClientsEvolve
    BY <1>10 DEF Chat!settle_own, ClientsEvolve, Chat!InFlight
  <1>11. ASSUME Chat!tick PROVE ClientsEvolve
    BY <1>11 DEF Chat!tick, ClientsEvolve, Chat!InFlight
  <1>12. ASSUME Chat!consider PROVE ClientsEvolve
    BY <1>12 DEF Chat!consider, ClientsEvolve, Chat!InFlight
  <1>13. ASSUME Chat!inject PROVE ClientsEvolve
    BY <1>13 DEF Chat!inject, ClientsEvolve, Chat!InFlight
  <1>14. ASSUME Chat!record PROVE ClientsEvolve
    BY <1>14 DEF Chat!record, ClientsEvolve, Chat!InFlight
  <1>15. ASSUME NEW n \in Wakes, Chat!on_pre_llm_call(n) PROVE ClientsEvolve
    BY <1>15 DEF Chat!on_pre_llm_call, ClientsEvolve, Chat!InFlight
  <1>16. ASSUME NEW n \in Wakes, Chat!on_post_llm_call(n) PROVE ClientsEvolve
    BY <1>16 DEF Chat!on_post_llm_call, ClientsEvolve, Chat!InFlight
  <1>17. ASSUME Chat!MailArrives PROVE ClientsEvolve
    BY <1>17 DEF Chat!MailArrives, ClientsEvolve, Chat!InFlight
  <1>18. ASSUME Chat!AgentReads PROVE ClientsEvolve
    BY <1>18 DEF Chat!AgentReads, ClientsEvolve, Chat!InFlight
  <1>19. ASSUME NEW n \in Launches, Chat!GatewayStep(n) PROVE ClientsEvolve
    <2>0. client[n] \in Chat!Client
      BY <1>0
    <2>1. PICK w \in {"none", "pending", "terminal"}, f \in BOOLEAN :
            /\ client'[n].adm = w /\ client'[n].foreign = f /\ client'[n].max = client[n].max /\ client'[n].up = client[n].up
            /\ client'[n].out = client[n].out /\ (client[n].foreign => f)
            /\ client[n].adm = "terminal" => w = "terminal"
            /\ w = "pending" => client[n].up \/ client[n].adm = "pending"
      <3>1. CASE client[n].up /\ client[n].adm = "none" /\ client' = [client EXCEPT ![n].adm = "pending"]
        <4>1. client'[n] = [client[n] EXCEPT !.adm = "pending"]
          BY <1>0, <3>1
        <4>2. /\ client'[n].adm = "pending" /\ client'[n].foreign = client[n].foreign /\ client'[n].max = client[n].max
              /\ client'[n].up = client[n].up /\ client'[n].out = client[n].out
          BY <2>0, <4>1 DEF Chat!Client
        <4>3. client[n].foreign \in BOOLEAN /\ client[n].adm \in {"none", "pending", "terminal"}
          BY <2>0, ClientFields
        <4>4. QED
          BY <3>1, <4>2, <4>3
      <3>2. CASE client[n].adm = "pending" /\ client' = [client EXCEPT ![n].adm = "terminal"]
        <4>1. client'[n] = [client[n] EXCEPT !.adm = "terminal"]
          BY <1>0, <3>2
        <4>2. /\ client'[n].adm = "terminal" /\ client'[n].foreign = client[n].foreign /\ client'[n].max = client[n].max
              /\ client'[n].up = client[n].up /\ client'[n].out = client[n].out
          BY <2>0, <4>1 DEF Chat!Client
        <4>3. client[n].foreign \in BOOLEAN /\ client[n].adm \in {"none", "pending", "terminal"}
          BY <2>0, ClientFields
        <4>4. QED
          BY <3>2, <4>2, <4>3
      <3>3. CASE client' = [client EXCEPT ![n].foreign = TRUE]
        <4>1. client'[n] = [client[n] EXCEPT !.foreign = TRUE]
          BY <1>0, <3>3
        <4>2. /\ client'[n].adm = client[n].adm /\ client'[n].foreign = TRUE /\ client'[n].max = client[n].max
              /\ client'[n].up = client[n].up /\ client'[n].out = client[n].out
          BY <2>0, <4>1 DEF Chat!Client
        <4>3. client[n].foreign \in BOOLEAN /\ client[n].adm \in {"none", "pending", "terminal"}
          BY <2>0, ClientFields
        <4>4. QED
          BY <3>3, <4>2, <4>3
      <3>4. QED
        BY <1>19, <3>1, <3>2, <3>3 DEF Chat!GatewayStep
    <2>2. \A k \in Launches : k # n => client'[k] = client[k]
      BY <1>19, <1>0 DEF Chat!GatewayStep
    <2>3. QED
      BY <2>1, <2>2 DEF ClientsEvolve, Chat!InFlight
  <1>20. ASSUME NEW n \in Launches, Chat!ClientExits(n) PROVE ClientsEvolve
    <2>0. client[n] \in Chat!Client /\ client[n].up /\ client[n].out = "none"
      BY <1>20, <1>0 DEF Chat!ClientExits, ChatInv, ClientFits
    <2>1. /\ client'[n].adm = client[n].adm /\ client'[n].foreign = client[n].foreign /\ client'[n].max = client[n].max
      <3>1. PICK out : client' = [client EXCEPT ![n].up = FALSE, ![n].out = out]
        BY <1>20 DEF Chat!ClientExits
      <3>2. client'[n] = [client[n] EXCEPT !.up = FALSE, !.out = out]
        BY <1>0, <2>0, <3>1 DEF Chat!Client
      <3>3. QED
        BY <2>0, <3>2 DEF Chat!Client
    <2>2. \A k \in Launches : k # n => client'[k] = client[k]
      BY <1>20, <1>0 DEF Chat!ClientExits
    <2>3. QED
      BY <2>0, <2>1, <2>2 DEF ClientsEvolve, Chat!InFlight
  <1>21. ASSUME Chat!ChatOpens PROVE ClientsEvolve
    BY <1>21 DEF Chat!ChatOpens, ClientsEvolve, Chat!InFlight
  <1>22. ASSUME Chat!ChatCloses PROVE ClientsEvolve
    BY <1>22 DEF Chat!ChatCloses, ClientsEvolve, Chat!InFlight
  <1>23. ASSUME Chat!HostDies PROVE ClientsEvolve
    BY <1>23 DEF Chat!HostDies, ClientsEvolve, Chat!InFlight
  <1>24. ASSUME Chat!HostStarts PROVE ClientsEvolve
    BY <1>24 DEF Chat!HostStarts, ClientsEvolve, Chat!InFlight
  <1>25. QED
    BY <1>1, <1>2, <1>3, <1>4, <1>5, <1>6, <1>7, <1>8, <1>9, <1>10, <1>11, <1>12, <1>13, <1>14, <1>15, <1>16, <1>17, <1>18, <1>19, <1>20, <1>21, <1>22, <1>23, <1>24 DEF ChatStep

LEMMA CoveredStays ==
  ASSUME ChatInv, ~touched, ChatStep, NEW h \in Chat!Ids, Covered(h)
  PROVE  Covered(h)'
  <1>0. WakesEvolve /\ ClientsEvolve /\ h \in Nat /\ SnapshotsFit
    BY WakesDoEvolve, ClientsDoEvolve, MailNumbers DEF ChatInv, Untouched
  <1>1. ASSUME NEW n \in Wakes, wake[n].state = "ended", wake[n].max >= h
        PROVE  wake'[n].state = "ended" /\ wake'[n].max >= h
    <2>1. ~(ppc = "inject" /\ n = pno)
      BY <1>0, <1>1 DEF SnapshotsFit
    <2>2. QED
      BY <1>0, <1>1, <2>1 DEF WakesEvolve
  <1>2. ASSUME NEW n \in Launches, h # 0, client[n].max >= h, Chat!TurnShown(n)
        PROVE  client'[n].max >= h /\ Chat!TurnShown(n)'
    <2>1. client[n].max # 0
      BY <1>0, <1>2
    <2>2. QED
      BY <1>0, <1>2, <2>1 DEF ClientsEvolve, Chat!TurnShown
  <1>3. QED
    BY <1>1, <1>2 DEF Covered

-----------------------------------------------------------------------------
(* What the other steps do to the ledger *)

SameBut(r, l) == r.attempt = l.attempt /\ r.handled = l.handled /\ r.launch = l.launch

\* The driver writes what it has in memory, and gives up the lock.
Writes ==
  /\ dpc \in {"busy", "save"} /\ chatLock' = "free" /\ Chat!DriverIdle /\ client' = client
  /\ SameBut(chatLedger', dl)
  /\ dpc = "save" => chatLedger'.state = dl.state
  /\ dpc = "busy" => chatLedger'.state \notin ChatBusy

LEMMA DriverWaitsStep == ASSUME ChatInv, Chat!DriverWaits PROVE Writes
  <1>1. PICK x \in {"waiting_desktop", "waiting_turn", "waiting_gateway", "not_found"} : Chat!Saves(x)
    BY DEF Chat!DriverWaits
  <1>2. dl \in ChatLedger /\ dpc = "busy" /\ client' = client
    BY DEF ChatInv, Chat!TypeOK, ChatLedger, Chat!DriverWaits
  <1>3. SameBut(chatLedger', dl) /\ chatLedger'.state = x
    BY <1>1, <1>2 DEF Chat!Saves, SameBut, ChatLedger, Chat!HermesChatWakeLedger
  <1>4. QED
    BY <1>1, <1>2, <1>3 DEF Writes, Chat!Saves, Chat!Release, ChatBusy

LEMMA DriverSavesStep == ASSUME ChatInv, Chat!DriverSaves PROVE Writes
  BY DEF Chat!DriverSaves, Writes, SameBut, Chat!Release

\* The client is started before the ledger says so.
Starts ==
  /\ dpc = "busy" /\ dpc' = "save" /\ chatLedger' = chatLedger /\ chatLock' = chatLock
  /\ dl'.attempt = dl.attempt /\ dl'.handled = dl.handled /\ dl'.state = "launched" /\ dl'.launch \in Launches

LEMMA LaunchStep == ASSUME ChatInv, Chat!launch PROVE Writes \/ Starts
  <1>0. dl \in ChatLedger
    BY DEF ChatInv, Chat!TypeOK, ChatLedger
  <1>1. CASE chatLedger' = Chat!Failed(dl) /\ Chat!Release /\ client' = client
    BY <1>0, <1>1, FailedSteps DEF Chat!launch, Writes, SameBut, Chat!Release, ChatBusy
  <1>2. CASE ~(chatLedger' = Chat!Failed(dl) /\ Chat!Release /\ client' = client)
    <2>1. PICK n \in Launches : dl' = [dl EXCEPT !.launch = n, !.launched = dmax, !.next = "none", !.state = "launched"]
      BY <1>2 DEF Chat!launch
    <2>2. dl'.attempt = dl.attempt /\ dl'.handled = dl.handled /\ dl'.state = "launched" /\ dl'.launch = n
      BY <1>0, <2>1 DEF ChatLedger, Chat!HermesChatWakeLedger
    <2>3. QED
      BY <1>2, <2>2 DEF Chat!launch, Starts
  <1>3. QED
    BY <1>1, <1>2

LEMMA CooldownStep ==
  ASSUME ChatInv, Chat!CooldownEnds
  PROVE  SameBut(chatLedger', chatLedger) /\ chatLedger'.state = chatLedger.state
  BY DEF ChatInv, Chat!TypeOK, Chat!CooldownEnds, SameBut, Chat!HermesChatWakeLedger

\* The plugin writes what became of its attempt.
Records ==
  /\ chatLock = "free" /\ chatLedger.attempt.no = pno
  /\ chatLedger'.handled = chatLedger.handled /\ chatLedger'.launch = chatLedger.launch
  /\ chatLedger'.state \notin ChatBusy
  /\ \/ ppc = "not_submitted" /\ chatLedger'.attempt.no = 0
     \/ /\ chatLedger'.attempt.no = chatLedger.attempt.no /\ chatLedger'.attempt.max = chatLedger.attempt.max
        /\ chatLedger'.attempt.host = chatLedger.attempt.host

LEMMA RecordStep ==
  ASSUME ChatInv, Chat!record
  PROVE  Chat!PluginIdle /\ client' = client /\ wake' = wake /\ evidence' = evidence /\ (chatLedger' = chatLedger \/ Records)
  <1>0. chatLedger \in ChatLedger /\ chatLedger.attempt \in Chat!Attempt
    BY LedgerFields DEF ChatInv, Chat!TypeOK, ChatLedger
  <1>1. CASE chatLedger' = chatLedger
    BY <1>1 DEF Chat!record
  <1>2. CASE chatLedger' # chatLedger
    <2>0. /\ chatLock = "free" /\ chatLedger.attempt.no = pno /\ ppc \in {"accepted", "unknown", "not_submitted"}
          /\ Chat!PluginIdle /\ client' = client /\ wake' = wake /\ evidence' = evidence
      BY <1>2 DEF Chat!record
    <2>1. CASE ppc = "not_submitted"
      <3>1. PICK x \in {"cancelled", "waiting_desktop"} : chatLedger' = [chatLedger EXCEPT !.attempt = Chat!NoAttempt, !.state = x]
        BY <1>2, <2>1 DEF Chat!record, Chat!Settled
      <3>2. /\ chatLedger'.handled = chatLedger.handled /\ chatLedger'.launch = chatLedger.launch
            /\ chatLedger'.attempt = Chat!NoAttempt /\ chatLedger'.state = x
        BY <1>0, <3>1 DEF ChatLedger, Chat!HermesChatWakeLedger
      <3>3. QED
        BY <2>0, <2>1, <3>2 DEF Records, ChatBusy, Chat!NoAttempt
    <2>2. CASE ppc \in {"accepted", "unknown"}
      <3>1. PICK x \in {"cancelled", "waiting_desktop", "desktop_unknown"} :
              chatLedger' = [chatLedger EXCEPT !.attempt.state = ppc, !.state = x]
        BY <1>2, <2>2 DEF Chat!record, Chat!Settled
      <3>2. chatLedger' = [chatLedger EXCEPT !.attempt = [chatLedger.attempt EXCEPT !.state = ppc], !.state = x]
        BY <1>0, <3>1 DEF ChatLedger, Chat!HermesChatWakeLedger
      <3> DEFINE a == [chatLedger.attempt EXCEPT !.state = ppc]
      <3>3. a.no = chatLedger.attempt.no /\ a.max = chatLedger.attempt.max /\ a.host = chatLedger.attempt.host
        BY <1>0 DEF Chat!Attempt
      <3> HIDE DEF a
      <3>4. /\ chatLedger'.handled = chatLedger.handled /\ chatLedger'.launch = chatLedger.launch
            /\ chatLedger'.attempt = a /\ chatLedger'.state = x
        BY <1>0, <3>2 DEF ChatLedger, Chat!HermesChatWakeLedger, a
      <3>5. QED
        BY <2>0, <3>3, <3>4 DEF Records, ChatBusy
    <2>3. QED
      BY <2>0, <2>1, <2>2
  <1>3. QED
    BY <1>1, <1>2

LEMMA IntendFields ==
  ASSUME NEW l \in ChatLedger, NEW n \in Wakes, Intends(l, n)
  PROVE  /\ chatLedger'.attempt.no = n /\ chatLedger'.attempt.max = pmax /\ chatLedger'.handled = l.handled
         /\ chatLedger'.launch = l.launch /\ chatLedger'.state = "waiting_desktop"
  BY DEF Intends, ChatLedger, Chat!HermesChatWakeLedger

-----------------------------------------------------------------------------
(* Every step keeps the invariant *)

\* What the leaves below use of the state before the step.
Now ==
  /\ SnapshotsFit /\ LockExcludesAttempts /\ FlightIsKnown /\ HostIsKnown /\ HandledIsCovered /\ \A n \in Wakes : WakeFits(n)
  /\ WakesEvolve /\ ClientsEvolve /\ 0 \notin Wakes /\ pno \in Wakes \cup {0}
  /\ chatLedger.attempt.no \in Wakes \cup {0} /\ chatLedger.attempt.max \in Chat!Ids /\ pmax \in Chat!Ids
  /\ chatLedger.handled \in Chat!Ids /\ dl.handled \in Chat!Ids /\ Chat!Ids \subseteq Nat /\ got \in Nat
  /\ \A n \in Wakes : wake[n].max \in Chat!Ids
  /\ dpc \in {"idle", "wake", "busy", "save"} /\ chatLock \in {"free", "driver", "dead"}
  /\ ppc \in {"idle", "consider", "inject", "accepted", "unknown", "not_submitted"}

LEMMA NowFacts ==
  ASSUME ChatInv, ~touched, ChatStep
  PROVE  Now
  <1>1. chatLedger \in ChatLedger /\ dl \in ChatLedger /\ Chat!TypeOK /\ Untouched
    BY DEF ChatInv, Chat!TypeOK, ChatLedger
  <1>2. Chat!Ids \subseteq Nat /\ 0 \notin Wakes /\ got \in Nat
    BY <1>1, MailNumbers, ChatAssumption DEF Chat!TypeOK
  <1>3. \A n \in Wakes : wake[n].max \in Chat!Ids
    BY <1>1 DEF Chat!TypeOK, Chat!Wake
  <1>4. /\ chatLedger.attempt.no \in Wakes \cup {0} /\ chatLedger.attempt.max \in Chat!Ids
        /\ chatLedger.handled \in Chat!Ids /\ dl.handled \in Chat!Ids
    BY <1>1, LedgerFields
  <1>5. QED
    BY <1>1, <1>2, <1>3, <1>4, WakesDoEvolve, ClientsDoEvolve DEF Chat!TypeOK, Untouched, Now

LEMMA StepSnapshots ==
  ASSUME ChatInv, ~touched, ChatStep
  PROVE  SnapshotsFit'
  <1>0. /\ SnapshotsFit /\ LockExcludesAttempts /\ FlightIsKnown /\ HostIsKnown /\ HandledIsCovered /\ \A n \in Wakes : WakeFits(n)
        /\ WakesEvolve /\ ClientsEvolve /\ 0 \notin Wakes /\ pno \in Wakes \cup {0}
        /\ chatLedger.attempt.no \in Wakes \cup {0} /\ chatLedger.attempt.max \in Chat!Ids /\ pmax \in Chat!Ids
        /\ chatLedger.handled \in Chat!Ids /\ dl.handled \in Chat!Ids /\ Chat!Ids \subseteq Nat /\ got \in Nat
        /\ \A n \in Wakes : wake[n].max \in Chat!Ids
        /\ dpc \in {"idle", "wake", "busy", "save"} /\ chatLock \in {"free", "driver", "dead"}
        /\ ppc \in {"idle", "consider", "inject", "accepted", "unknown", "not_submitted"}
    BY NowFacts DEF Now
  <1>1. ASSUME Chat!DriverPass PROVE SnapshotsFit'
    BY <1>1, <1>0 DEF Chat!DriverPass, Chat!mailVars, Chat!driverVars, Chat!pluginVars, Chat!hostVars, Chat!DriverIdle, Chat!PluginIdle, Chat!Release, Chat!Raised, SnapshotsFit
  <1>2. ASSUME Chat!DriverLockedOut PROVE SnapshotsFit'
    BY <1>2, <1>0 DEF Chat!DriverLockedOut, Chat!mailVars, Chat!driverVars, Chat!pluginVars, Chat!hostVars, Chat!DriverIdle, Chat!PluginIdle, Chat!Release, Chat!Raised, SnapshotsFit
  <1>3. ASSUME Chat!DriverSettles PROVE SnapshotsFit'
    <2>1. After(chatLedger') /\ chatLock = "free"
      BY <1>3, DriverSettlesStep
    <2>2. ppc = "inject" => chatLedger'.attempt.no = chatLedger.attempt.no /\ chatLedger'.attempt.max = chatLedger.attempt.max
      BY <1>0, <2>1 DEF After, SnapshotsFit, WakeFits
    <2>3. ppc' = ppc /\ pmax' = pmax /\ pno' = pno /\ wake' = wake
      BY <1>3 DEF Chat!DriverSettles, Chat!pluginVars
    <2>4. QED
      BY <1>0, <2>2, <2>3 DEF SnapshotsFit
  <1>4. ASSUME Chat!DriverWaits PROVE SnapshotsFit'
    <2>1. Writes
      BY <1>4, DriverWaitsStep
    <2>2. ppc' = ppc /\ pmax' = pmax /\ pno' = pno /\ wake' = wake
      BY <1>4 DEF Chat!DriverWaits, Chat!pluginVars
    <2>3. ppc # "inject"
      BY <1>0, <2>1 DEF SnapshotsFit, LockExcludesAttempts, Writes, Starts
    <2>4. QED
      BY <1>0, <2>2, <2>3 DEF SnapshotsFit
  <1>5. ASSUME Chat!launch PROVE SnapshotsFit'
    <2>1. Writes \/ Starts
      BY <1>5, LaunchStep
    <2>2. ppc' = ppc /\ pmax' = pmax /\ pno' = pno /\ wake' = wake
      BY <1>5 DEF Chat!launch, Chat!pluginVars
    <2>3. ppc # "inject"
      BY <1>0, <2>1 DEF SnapshotsFit, LockExcludesAttempts, Writes, Starts
    <2>4. QED
      BY <1>0, <2>2, <2>3 DEF SnapshotsFit
  <1>6. ASSUME Chat!DriverSaves PROVE SnapshotsFit'
    <2>1. Writes
      BY <1>6, DriverSavesStep
    <2>2. ppc' = ppc /\ pmax' = pmax /\ pno' = pno /\ wake' = wake
      BY <1>6 DEF Chat!DriverSaves, Chat!pluginVars
    <2>3. ppc # "inject"
      BY <1>0, <2>1 DEF SnapshotsFit, LockExcludesAttempts, Writes, Starts
    <2>4. QED
      BY <1>0, <2>2, <2>3 DEF SnapshotsFit
  <1>7. ASSUME Chat!DriverDies PROVE SnapshotsFit'
    BY <1>7, <1>0 DEF Chat!DriverDies, Chat!mailVars, Chat!driverVars, Chat!pluginVars, Chat!hostVars, Chat!DriverIdle, Chat!PluginIdle, Chat!Release, Chat!Raised, SnapshotsFit
  <1>8. ASSUME Chat!CooldownEnds PROVE SnapshotsFit'
    BY <1>8, <1>0, CooldownStep DEF Chat!CooldownEnds, Chat!pluginVars, SnapshotsFit, SameBut
  <1>9. ASSUME Chat!reconcile PROVE SnapshotsFit'
    <2>1. After(chatLedger') /\ chatLock = "free"
      BY <1>9, ReconcileStep
    <2>2. ppc = "inject" => chatLedger'.attempt.no = chatLedger.attempt.no /\ chatLedger'.attempt.max = chatLedger.attempt.max
      BY <1>0, <2>1 DEF After, SnapshotsFit, WakeFits
    <2>3. ppc' = ppc /\ pmax' = pmax /\ pno' = pno /\ wake' = wake
      BY <1>9 DEF Chat!reconcile, Chat!pluginVars
    <2>4. QED
      BY <1>0, <2>2, <2>3 DEF SnapshotsFit
  <1>10. ASSUME Chat!settle_own PROVE SnapshotsFit'
    <2>1. After(chatLedger') /\ chatLock = "free"
      BY <1>10, SettleOwnStep
    <2>2. ppc = "inject" => chatLedger'.attempt.no = chatLedger.attempt.no /\ chatLedger'.attempt.max = chatLedger.attempt.max
      BY <1>0, <2>1 DEF After, SnapshotsFit, WakeFits
    <2>3. ppc' = ppc /\ pmax' = pmax /\ pno' = pno /\ wake' = wake
      BY <1>10 DEF Chat!settle_own, Chat!pluginVars
    <2>4. QED
      BY <1>0, <2>2, <2>3 DEF SnapshotsFit
  <1>11. ASSUME Chat!tick PROVE SnapshotsFit'
    BY <1>11, <1>0 DEF Chat!tick, SnapshotsFit
  <1>12. ASSUME Chat!consider PROVE SnapshotsFit'
    <2>0. wake' = wake
      BY <1>12 DEF Chat!consider
    <2>1. CASE Chat!PluginIdle
      BY <2>1 DEF Chat!PluginIdle, SnapshotsFit
    <2>2. CASE ~Chat!PluginIdle
      <3>1. PICK l \in ChatLedger, n \in Wakes : Intends(l, n)
        BY <1>12, <2>2, ConsiderStep
      <3>2. chatLedger'.attempt.no = n /\ chatLedger'.attempt.max = pmax /\ pno' = n /\ pmax' = pmax /\ wake[n].max = 0 /\ ppc = "consider"
        BY <1>12, <3>1, IntendFields DEF Intends, Chat!consider
      <3>3. QED
        BY <1>0, <2>0, <3>1, <3>2 DEF SnapshotsFit, WakeFits, Intends
    <2>3. QED
      BY <2>1, <2>2
  <1>13. ASSUME Chat!inject PROVE SnapshotsFit'
    <2>1. ppc = "inject" /\ chatLedger' = chatLedger /\ pmax' = pmax /\ pno' = pno /\ ppc' \in {"not_submitted", "accepted", "unknown"}
      BY <1>13 DEF Chat!inject, Chat!Raised
    <2>2. ppc' = "not_submitted" => wake' = wake
      BY <1>13 DEF Chat!inject, Chat!Raised
    <2>3. QED
      BY <1>0, <2>1, <2>2 DEF SnapshotsFit
  <1>14. ASSUME Chat!record PROVE SnapshotsFit'
    BY <1>14, RecordStep DEF Chat!PluginIdle, SnapshotsFit
  <1>15. ASSUME NEW n \in Wakes, Chat!on_pre_llm_call(n) PROVE SnapshotsFit'
    <2>1. chatLedger' = chatLedger /\ ppc' = ppc /\ pmax' = pmax /\ pno' = pno
      BY <1>15 DEF Chat!on_pre_llm_call, Chat!pluginVars
    <2>2. ppc \in {"inject", "not_submitted"} => wake'[pno].state = "none" /\ wake'[pno].max = 0
      <3>1. CASE ppc \in {"inject", "not_submitted"}
        <4>1. pno \in Wakes /\ wake[pno].state = "none" /\ wake[pno].max = 0
          BY <1>0, <3>1 DEF SnapshotsFit
        <4>2. wake'[pno] = wake[pno]
          BY <1>15, <4>1 DEF Chat!on_pre_llm_call, ChatInv, Chat!TypeOK
        <4>3. QED
          BY <4>1, <4>2
      <3>2. QED
        BY <3>1
    <2>3. QED
      BY <1>0, <2>1, <2>2 DEF SnapshotsFit
  <1>16. ASSUME NEW n \in Wakes, Chat!on_post_llm_call(n) PROVE SnapshotsFit'
    <2>1. chatLedger' = chatLedger /\ ppc' = ppc /\ pmax' = pmax /\ pno' = pno
      BY <1>16 DEF Chat!on_post_llm_call, Chat!pluginVars
    <2>2. ppc \in {"inject", "not_submitted"} => wake'[pno].state = "none" /\ wake'[pno].max = 0
      <3>1. CASE ppc \in {"inject", "not_submitted"}
        <4>1. pno \in Wakes /\ wake[pno].state = "none" /\ wake[pno].max = 0
          BY <1>0, <3>1 DEF SnapshotsFit
        <4>2. wake'[pno] = wake[pno]
          BY <1>16, <4>1 DEF Chat!on_post_llm_call, ChatInv, Chat!TypeOK
        <4>3. QED
          BY <4>1, <4>2
      <3>2. QED
        BY <3>1
    <2>3. QED
      BY <1>0, <2>1, <2>2 DEF SnapshotsFit
  <1>17. ASSUME Chat!MailArrives PROVE SnapshotsFit'
    BY <1>17, <1>0 DEF Chat!MailArrives, Chat!mailVars, Chat!driverVars, Chat!pluginVars, Chat!hostVars, Chat!DriverIdle, Chat!PluginIdle, Chat!Release, Chat!Raised, SnapshotsFit
  <1>18. ASSUME Chat!AgentReads PROVE SnapshotsFit'
    BY <1>18, <1>0 DEF Chat!AgentReads, Chat!mailVars, Chat!driverVars, Chat!pluginVars, Chat!hostVars, Chat!DriverIdle, Chat!PluginIdle, Chat!Release, Chat!Raised, SnapshotsFit
  <1>19. ASSUME NEW n \in Launches, Chat!GatewayStep(n) PROVE SnapshotsFit'
    BY <1>19, <1>0 DEF Chat!GatewayStep, Chat!mailVars, Chat!driverVars, Chat!pluginVars, Chat!hostVars, Chat!DriverIdle, Chat!PluginIdle, Chat!Release, Chat!Raised, SnapshotsFit
  <1>20. ASSUME NEW n \in Launches, Chat!ClientExits(n) PROVE SnapshotsFit'
    BY <1>20, <1>0 DEF Chat!ClientExits, Chat!mailVars, Chat!driverVars, Chat!pluginVars, Chat!hostVars, Chat!DriverIdle, Chat!PluginIdle, Chat!Release, Chat!Raised, SnapshotsFit
  <1>21. ASSUME Chat!ChatOpens PROVE SnapshotsFit'
    BY <1>21, <1>0 DEF Chat!ChatOpens, Chat!mailVars, Chat!driverVars, Chat!pluginVars, Chat!hostVars, Chat!DriverIdle, Chat!PluginIdle, Chat!Release, Chat!Raised, SnapshotsFit
  <1>22. ASSUME Chat!ChatCloses PROVE SnapshotsFit'
    <2>1. chatLedger' = chatLedger /\ ppc' = ppc /\ pmax' = pmax /\ pno' = pno
      BY <1>22 DEF Chat!ChatCloses, Chat!pluginVars
    <2>2. ppc \in {"inject", "not_submitted"} => wake'[pno].state = "none" /\ wake'[pno].max = 0
      <3>1. CASE ppc \in {"inject", "not_submitted"}
        <4>1. pno \in Wakes /\ wake[pno].state = "none" /\ wake[pno].max = 0
          BY <1>0, <3>1 DEF SnapshotsFit
        <4>2. wake'[pno].state = "none" /\ wake'[pno].max = wake[pno].max
          BY <1>22, <4>1, DropsTyped DEF Chat!ChatCloses, ChatInv, Chat!TypeOK
        <4>3. QED
          BY <4>1, <4>2
      <3>2. QED
        BY <3>1
    <2>3. QED
      BY <1>0, <2>1, <2>2 DEF SnapshotsFit
  <1>23. ASSUME Chat!HostDies PROVE SnapshotsFit'
    BY <1>23 DEF Chat!HostDies, Chat!PluginIdle, SnapshotsFit
  <1>24. ASSUME Chat!HostStarts PROVE SnapshotsFit'
    BY <1>24, <1>0 DEF Chat!HostStarts, Chat!mailVars, Chat!driverVars, Chat!pluginVars, Chat!hostVars, Chat!DriverIdle, Chat!PluginIdle, Chat!Release, Chat!Raised, SnapshotsFit
  <1>25. QED
    BY <1>1, <1>2, <1>3, <1>4, <1>5, <1>6, <1>7, <1>8, <1>9, <1>10, <1>11, <1>12, <1>13, <1>14, <1>15, <1>16, <1>17, <1>18, <1>19, <1>20, <1>21, <1>22, <1>23, <1>24 DEF ChatStep

LEMMA StepLock ==
  ASSUME ChatInv, ~touched, ChatStep
  PROVE  LockExcludesAttempts'
  <1>0. /\ SnapshotsFit /\ LockExcludesAttempts /\ FlightIsKnown /\ HostIsKnown /\ HandledIsCovered /\ \A n \in Wakes : WakeFits(n)
        /\ WakesEvolve /\ ClientsEvolve /\ 0 \notin Wakes /\ pno \in Wakes \cup {0}
        /\ chatLedger.attempt.no \in Wakes \cup {0} /\ chatLedger.attempt.max \in Chat!Ids /\ pmax \in Chat!Ids
        /\ chatLedger.handled \in Chat!Ids /\ dl.handled \in Chat!Ids /\ Chat!Ids \subseteq Nat /\ got \in Nat
        /\ \A n \in Wakes : wake[n].max \in Chat!Ids
        /\ dpc \in {"idle", "wake", "busy", "save"} /\ chatLock \in {"free", "driver", "dead"}
        /\ ppc \in {"idle", "consider", "inject", "accepted", "unknown", "not_submitted"}
    BY NowFacts DEF Now
  <1>1. ASSUME Chat!DriverPass PROVE LockExcludesAttempts'
    BY <1>1, <1>0 DEF Chat!DriverPass, Chat!mailVars, Chat!driverVars, Chat!pluginVars, Chat!hostVars, Chat!DriverIdle, Chat!PluginIdle, Chat!Release, Chat!Raised, LockExcludesAttempts, SnapshotsFit, ChatBusy
  <1>2. ASSUME Chat!DriverLockedOut PROVE LockExcludesAttempts'
    BY <1>2, <1>0 DEF Chat!DriverLockedOut, Chat!mailVars, Chat!driverVars, Chat!pluginVars, Chat!hostVars, Chat!DriverIdle, Chat!PluginIdle, Chat!Release, Chat!Raised, LockExcludesAttempts, SnapshotsFit, ChatBusy
  <1>3. ASSUME Chat!DriverSettles PROVE LockExcludesAttempts'
    <2>1. After(chatLedger') /\ chatLock = "free" /\ (GoesOn \/ (Chat!DriverIdle /\ chatLock' = chatLock))
      BY <1>3, DriverSettlesStep
    <2>2. CASE GoesOn
      BY <2>1, <2>2 DEF GoesOn, LockExcludesAttempts
    <2>3. CASE Chat!DriverIdle /\ chatLock' = chatLock
      BY <1>0, <2>1, <2>3 DEF After, LockExcludesAttempts, Chat!DriverIdle
    <2>4. QED
      BY <2>1, <2>2, <2>3
  <1>4. ASSUME Chat!DriverWaits PROVE LockExcludesAttempts'
    <2>1. Writes
      BY <1>4, DriverWaitsStep
    <2>2. CASE Writes
      BY <1>0, <2>2 DEF Writes, SameBut, LockExcludesAttempts, Chat!DriverIdle, ChatBusy
    <2>3. CASE Starts
      BY <1>0, <2>3, ChatAssumption DEF Starts, LockExcludesAttempts
    <2>4. QED
      BY <2>1, <2>2, <2>3
  <1>5. ASSUME Chat!launch PROVE LockExcludesAttempts'
    <2>1. Writes \/ Starts
      BY <1>5, LaunchStep
    <2>2. CASE Writes
      BY <1>0, <2>2 DEF Writes, SameBut, LockExcludesAttempts, Chat!DriverIdle, ChatBusy
    <2>3. CASE Starts
      BY <1>0, <2>3, ChatAssumption DEF Starts, LockExcludesAttempts
    <2>4. QED
      BY <2>1, <2>2, <2>3
  <1>6. ASSUME Chat!DriverSaves PROVE LockExcludesAttempts'
    <2>1. Writes
      BY <1>6, DriverSavesStep
    <2>2. CASE Writes
      BY <1>0, <2>2 DEF Writes, SameBut, LockExcludesAttempts, Chat!DriverIdle, ChatBusy
    <2>3. CASE Starts
      BY <1>0, <2>3, ChatAssumption DEF Starts, LockExcludesAttempts
    <2>4. QED
      BY <2>1, <2>2, <2>3
  <1>7. ASSUME Chat!DriverDies PROVE LockExcludesAttempts'
    BY <1>7, <1>0 DEF Chat!DriverDies, Chat!mailVars, Chat!driverVars, Chat!pluginVars, Chat!hostVars, Chat!DriverIdle, Chat!PluginIdle, Chat!Release, Chat!Raised, LockExcludesAttempts, SnapshotsFit, ChatBusy
  <1>8. ASSUME Chat!CooldownEnds PROVE LockExcludesAttempts'
    BY <1>8, <1>0, CooldownStep DEF Chat!CooldownEnds, Chat!driverVars, LockExcludesAttempts, SameBut
  <1>9. ASSUME Chat!reconcile PROVE LockExcludesAttempts'
    <2>1. After(chatLedger') /\ chatLock = "free" /\ dpc' = dpc /\ dl' = dl /\ chatLock' = chatLock
      BY <1>9, ReconcileStep DEF Chat!reconcile, Chat!driverVars
    <2>2. QED
      BY <1>0, <2>1 DEF After, LockExcludesAttempts
  <1>10. ASSUME Chat!settle_own PROVE LockExcludesAttempts'
    <2>1. After(chatLedger') /\ chatLock = "free" /\ dpc' = dpc /\ dl' = dl /\ chatLock' = chatLock
      BY <1>10, SettleOwnStep DEF Chat!settle_own, Chat!driverVars
    <2>2. QED
      BY <1>0, <2>1 DEF After, LockExcludesAttempts
  <1>11. ASSUME Chat!tick PROVE LockExcludesAttempts'
    BY <1>11, <1>0 DEF Chat!tick, Chat!mailVars, Chat!driverVars, Chat!pluginVars, Chat!hostVars, Chat!DriverIdle, Chat!PluginIdle, Chat!Release, Chat!Raised, LockExcludesAttempts, SnapshotsFit, ChatBusy
  <1>12. ASSUME Chat!consider PROVE LockExcludesAttempts'
    <2>1. dpc' = dpc /\ dl' = dl /\ chatLock' = chatLock
      BY <1>12 DEF Chat!consider, Chat!driverVars
    <2>2. CASE chatLedger' = chatLedger
      BY <1>0, <2>1, <2>2 DEF LockExcludesAttempts
    <2>3. CASE After(chatLedger') /\ chatLock = "free"
      BY <1>0, <2>1, <2>3 DEF After, LockExcludesAttempts
    <2>4. CASE chatLock = "free" /\ \E l \in ChatLedger, n \in Wakes : Intends(l, n)
      <3>1. chatLedger'.state = "waiting_desktop"
        BY <2>4, IntendFields
      <3>2. QED
        BY <1>0, <2>1, <2>4, <3>1 DEF LockExcludesAttempts, ChatBusy
    <2>5. QED
      BY <1>12, <2>2, <2>3, <2>4, ConsiderStep
  <1>13. ASSUME Chat!inject PROVE LockExcludesAttempts'
    BY <1>13, <1>0 DEF Chat!inject, Chat!mailVars, Chat!driverVars, Chat!pluginVars, Chat!hostVars, Chat!DriverIdle, Chat!PluginIdle, Chat!Release, Chat!Raised, LockExcludesAttempts, SnapshotsFit, ChatBusy
  <1>14. ASSUME Chat!record PROVE LockExcludesAttempts'
    <2>1. chatLedger' = chatLedger \/ Records
      BY <1>14, RecordStep
    <2>2. dpc' = dpc /\ dl' = dl /\ chatLock' = chatLock
      BY <1>14 DEF Chat!record, Chat!driverVars
    <2>3. QED
      BY <1>0, <2>1, <2>2 DEF Records, LockExcludesAttempts
  <1>15. ASSUME NEW n \in Wakes, Chat!on_pre_llm_call(n) PROVE LockExcludesAttempts'
    BY <1>15, <1>0 DEF Chat!on_pre_llm_call, Chat!mailVars, Chat!driverVars, Chat!pluginVars, Chat!hostVars, Chat!DriverIdle, Chat!PluginIdle, Chat!Release, Chat!Raised, LockExcludesAttempts, SnapshotsFit, ChatBusy
  <1>16. ASSUME NEW n \in Wakes, Chat!on_post_llm_call(n) PROVE LockExcludesAttempts'
    BY <1>16, <1>0 DEF Chat!on_post_llm_call, Chat!mailVars, Chat!driverVars, Chat!pluginVars, Chat!hostVars, Chat!DriverIdle, Chat!PluginIdle, Chat!Release, Chat!Raised, LockExcludesAttempts, SnapshotsFit, ChatBusy
  <1>17. ASSUME Chat!MailArrives PROVE LockExcludesAttempts'
    BY <1>17, <1>0 DEF Chat!MailArrives, Chat!mailVars, Chat!driverVars, Chat!pluginVars, Chat!hostVars, Chat!DriverIdle, Chat!PluginIdle, Chat!Release, Chat!Raised, LockExcludesAttempts, SnapshotsFit, ChatBusy
  <1>18. ASSUME Chat!AgentReads PROVE LockExcludesAttempts'
    BY <1>18, <1>0 DEF Chat!AgentReads, Chat!mailVars, Chat!driverVars, Chat!pluginVars, Chat!hostVars, Chat!DriverIdle, Chat!PluginIdle, Chat!Release, Chat!Raised, LockExcludesAttempts, SnapshotsFit, ChatBusy
  <1>19. ASSUME NEW n \in Launches, Chat!GatewayStep(n) PROVE LockExcludesAttempts'
    BY <1>19, <1>0 DEF Chat!GatewayStep, Chat!mailVars, Chat!driverVars, Chat!pluginVars, Chat!hostVars, Chat!DriverIdle, Chat!PluginIdle, Chat!Release, Chat!Raised, LockExcludesAttempts, SnapshotsFit, ChatBusy
  <1>20. ASSUME NEW n \in Launches, Chat!ClientExits(n) PROVE LockExcludesAttempts'
    BY <1>20, <1>0 DEF Chat!ClientExits, Chat!mailVars, Chat!driverVars, Chat!pluginVars, Chat!hostVars, Chat!DriverIdle, Chat!PluginIdle, Chat!Release, Chat!Raised, LockExcludesAttempts, SnapshotsFit, ChatBusy
  <1>21. ASSUME Chat!ChatOpens PROVE LockExcludesAttempts'
    BY <1>21, <1>0 DEF Chat!ChatOpens, Chat!mailVars, Chat!driverVars, Chat!pluginVars, Chat!hostVars, Chat!DriverIdle, Chat!PluginIdle, Chat!Release, Chat!Raised, LockExcludesAttempts, SnapshotsFit, ChatBusy
  <1>22. ASSUME Chat!ChatCloses PROVE LockExcludesAttempts'
    BY <1>22, <1>0 DEF Chat!ChatCloses, Chat!mailVars, Chat!driverVars, Chat!pluginVars, Chat!hostVars, Chat!DriverIdle, Chat!PluginIdle, Chat!Release, Chat!Raised, LockExcludesAttempts, SnapshotsFit, ChatBusy
  <1>23. ASSUME Chat!HostDies PROVE LockExcludesAttempts'
    BY <1>23, <1>0 DEF Chat!HostDies, Chat!mailVars, Chat!driverVars, Chat!pluginVars, Chat!hostVars, Chat!DriverIdle, Chat!PluginIdle, Chat!Release, Chat!Raised, LockExcludesAttempts, SnapshotsFit, ChatBusy
  <1>24. ASSUME Chat!HostStarts PROVE LockExcludesAttempts'
    BY <1>24, <1>0 DEF Chat!HostStarts, Chat!mailVars, Chat!driverVars, Chat!pluginVars, Chat!hostVars, Chat!DriverIdle, Chat!PluginIdle, Chat!Release, Chat!Raised, LockExcludesAttempts, SnapshotsFit, ChatBusy
  <1>25. QED
    BY <1>1, <1>2, <1>3, <1>4, <1>5, <1>6, <1>7, <1>8, <1>9, <1>10, <1>11, <1>12, <1>13, <1>14, <1>15, <1>16, <1>17, <1>18, <1>19, <1>20, <1>21, <1>22, <1>23, <1>24 DEF ChatStep

LEMMA StepFlight ==
  ASSUME ChatInv, ~touched, ChatStep
  PROVE  FlightIsKnown'
  <1>0. /\ SnapshotsFit /\ LockExcludesAttempts /\ FlightIsKnown /\ HostIsKnown /\ HandledIsCovered /\ \A n \in Wakes : WakeFits(n)
        /\ WakesEvolve /\ ClientsEvolve /\ 0 \notin Wakes /\ pno \in Wakes \cup {0}
        /\ chatLedger.attempt.no \in Wakes \cup {0} /\ chatLedger.attempt.max \in Chat!Ids /\ pmax \in Chat!Ids
        /\ chatLedger.handled \in Chat!Ids /\ dl.handled \in Chat!Ids /\ Chat!Ids \subseteq Nat /\ got \in Nat
        /\ \A n \in Wakes : wake[n].max \in Chat!Ids
        /\ dpc \in {"idle", "wake", "busy", "save"} /\ chatLock \in {"free", "driver", "dead"}
        /\ ppc \in {"idle", "consider", "inject", "accepted", "unknown", "not_submitted"}
    BY NowFacts DEF Now
  <1>1. ASSUME Chat!DriverPass PROVE FlightIsKnown'
    BY <1>1, <1>0 DEF Chat!DriverPass, Chat!mailVars, Chat!driverVars, Chat!pluginVars, Chat!hostVars, Chat!DriverIdle, Chat!PluginIdle, Chat!Release, Chat!Raised, FlightIsKnown, ClientsEvolve
  <1>2. ASSUME Chat!DriverLockedOut PROVE FlightIsKnown'
    BY <1>2, <1>0 DEF Chat!DriverLockedOut, Chat!mailVars, Chat!driverVars, Chat!pluginVars, Chat!hostVars, Chat!DriverIdle, Chat!PluginIdle, Chat!Release, Chat!Raised, FlightIsKnown, ClientsEvolve
  <1>3. ASSUME Chat!DriverSettles PROVE FlightIsKnown'
    <2>1. After(chatLedger') /\ chatLock = "free" /\ (GoesOn \/ (Chat!DriverIdle /\ chatLock' = chatLock))
      BY <1>3, DriverSettlesStep
    <2>2. CASE GoesOn
      BY <2>1, <2>2 DEF GoesOn, After, FlightIsKnown
    <2>3. CASE Chat!DriverIdle /\ chatLock' = chatLock
      BY <2>1, <2>3 DEF After, FlightIsKnown, Chat!DriverIdle
    <2>4. QED
      BY <2>1, <2>2, <2>3
  <1>4. ASSUME Chat!DriverWaits PROVE FlightIsKnown'
    <2>1. Writes
      BY <1>4, DriverWaitsStep
    <2>2. CASE Writes
      <3>1. dpc' = "idle" /\ chatLock' = "free" /\ \A n \in Launches : Chat!InFlight(n)' <=> Chat!InFlight(n)
        BY <2>2 DEF Writes, Chat!DriverIdle, Chat!InFlight
      <3>2. CASE dpc = "busy"
        BY <1>0, <3>1, <3>2 DEF FlightIsKnown
      <3>3. CASE dpc = "save"
        BY <1>0, <2>2, <3>1, <3>3 DEF FlightIsKnown, LockExcludesAttempts, Writes, SameBut, ChatBusy
      <3>4. QED
        BY <2>2, <3>2, <3>3 DEF Writes
    <2>3. CASE Starts
      BY <1>0, <2>3 DEF Starts, FlightIsKnown, LockExcludesAttempts, ClientsEvolve
    <2>4. QED
      BY <2>1, <2>2, <2>3
  <1>5. ASSUME Chat!launch PROVE FlightIsKnown'
    <2>1. Writes \/ Starts
      BY <1>5, LaunchStep
    <2>2. CASE Writes
      <3>1. dpc' = "idle" /\ chatLock' = "free" /\ \A n \in Launches : Chat!InFlight(n)' <=> Chat!InFlight(n)
        BY <2>2 DEF Writes, Chat!DriverIdle, Chat!InFlight
      <3>2. CASE dpc = "busy"
        BY <1>0, <3>1, <3>2 DEF FlightIsKnown
      <3>3. CASE dpc = "save"
        BY <1>0, <2>2, <3>1, <3>3 DEF FlightIsKnown, LockExcludesAttempts, Writes, SameBut, ChatBusy
      <3>4. QED
        BY <2>2, <3>2, <3>3 DEF Writes
    <2>3. CASE Starts
      BY <1>0, <2>3 DEF Starts, FlightIsKnown, LockExcludesAttempts, ClientsEvolve
    <2>4. QED
      BY <2>1, <2>2, <2>3
  <1>6. ASSUME Chat!DriverSaves PROVE FlightIsKnown'
    <2>1. Writes
      BY <1>6, DriverSavesStep
    <2>2. CASE Writes
      <3>1. dpc' = "idle" /\ chatLock' = "free" /\ \A n \in Launches : Chat!InFlight(n)' <=> Chat!InFlight(n)
        BY <2>2 DEF Writes, Chat!DriverIdle, Chat!InFlight
      <3>2. CASE dpc = "busy"
        BY <1>0, <3>1, <3>2 DEF FlightIsKnown
      <3>3. CASE dpc = "save"
        BY <1>0, <2>2, <3>1, <3>3 DEF FlightIsKnown, LockExcludesAttempts, Writes, SameBut, ChatBusy
      <3>4. QED
        BY <2>2, <3>2, <3>3 DEF Writes
    <2>3. CASE Starts
      BY <1>0, <2>3 DEF Starts, FlightIsKnown, LockExcludesAttempts, ClientsEvolve
    <2>4. QED
      BY <2>1, <2>2, <2>3
  <1>7. ASSUME Chat!DriverDies PROVE FlightIsKnown'
    <2>1. /\ chatLedger' = chatLedger /\ dpc' = "idle" /\ chatLock' = (IF chatLock = "driver" THEN "dead" ELSE chatLock)
          /\ \A n \in Launches : Chat!InFlight(n)' <=> Chat!InFlight(n)
      BY <1>7 DEF Chat!DriverDies, Chat!DriverIdle, Chat!InFlight
    <2>2. QED
      BY <1>0, <2>1 DEF FlightIsKnown, LockExcludesAttempts
  <1>8. ASSUME Chat!CooldownEnds PROVE FlightIsKnown'
    <2>1. dpc' = dpc /\ dl' = dl /\ chatLock' = chatLock
      BY <1>8 DEF Chat!CooldownEnds, Chat!driverVars
    <2>2. QED
      BY <1>8, <1>0, <2>1, CooldownStep DEF FlightIsKnown, SameBut, ClientsEvolve
  <1>9. ASSUME Chat!reconcile PROVE FlightIsKnown'
    <2>1. After(chatLedger') /\ chatLock = "free" /\ dpc' = dpc /\ chatLock' = chatLock /\ dpc \notin {"busy", "save"}
      BY <1>9, <1>0, ReconcileStep DEF Chat!reconcile, Chat!driverVars, LockExcludesAttempts
    <2>2. QED
      BY <2>1 DEF After, FlightIsKnown
  <1>10. ASSUME Chat!settle_own PROVE FlightIsKnown'
    <2>1. After(chatLedger') /\ chatLock = "free" /\ dpc' = dpc /\ chatLock' = chatLock /\ dpc \notin {"busy", "save"}
      BY <1>10, <1>0, SettleOwnStep DEF Chat!settle_own, Chat!driverVars, LockExcludesAttempts
    <2>2. QED
      BY <2>1 DEF After, FlightIsKnown
  <1>11. ASSUME Chat!tick PROVE FlightIsKnown'
    BY <1>11, <1>0 DEF Chat!tick, Chat!mailVars, Chat!driverVars, Chat!pluginVars, Chat!hostVars, Chat!DriverIdle, Chat!PluginIdle, Chat!Release, Chat!Raised, FlightIsKnown, ClientsEvolve
  <1>12. ASSUME Chat!consider PROVE FlightIsKnown'
    <2>0. dpc' = dpc /\ dl' = dl /\ chatLock' = chatLock /\ client' = client
      BY <1>12 DEF Chat!consider, Chat!driverVars
    <2>1. \A n \in Launches : Chat!InFlight(n)' <=> Chat!InFlight(n)
      BY <2>0 DEF Chat!InFlight
    <2>2. CASE chatLedger' = chatLedger
      BY <1>0, <2>0, <2>1, <2>2 DEF FlightIsKnown
    <2>3. CASE After(chatLedger') /\ chatLock = "free"
      BY <1>0, <2>0, <2>3 DEF After, FlightIsKnown, LockExcludesAttempts
    <2>4. CASE chatLock = "free" /\ \E l \in ChatLedger, n \in Wakes : Intends(l, n)
      BY <2>4 DEF After, FlightIsKnown, Intends
    <2>5. QED
      BY <1>12, <2>2, <2>3, <2>4, ConsiderStep
  <1>13. ASSUME Chat!inject PROVE FlightIsKnown'
    BY <1>13, <1>0 DEF Chat!inject, Chat!mailVars, Chat!driverVars, Chat!pluginVars, Chat!hostVars, Chat!DriverIdle, Chat!PluginIdle, Chat!Release, Chat!Raised, FlightIsKnown, ClientsEvolve
  <1>14. ASSUME Chat!record PROVE FlightIsKnown'
    <2>0. dpc' = dpc /\ dl' = dl /\ chatLock' = chatLock
      BY <1>14 DEF Chat!record, Chat!driverVars
    <2>1. \A n \in Launches : Chat!InFlight(n)' <=> Chat!InFlight(n)
      BY <1>14, RecordStep DEF Chat!InFlight
    <2>2. CASE chatLedger' = chatLedger
      BY <1>0, <2>0, <2>1, <2>2 DEF FlightIsKnown
    <2>3. CASE Records /\ ppc # "idle"
      <3>1. pno # 0
        BY <1>14, <1>0 DEF Chat!record, SnapshotsFit
      <3>2. \A n \in Launches : ~Chat!InFlight(n)
        BY <1>0, <2>3, <3>1 DEF FlightIsKnown, LockExcludesAttempts, Records
      <3>3. QED
        BY <2>1, <3>2 DEF FlightIsKnown
    <2>4. QED
      BY <1>14, <2>2, <2>3, RecordStep DEF Chat!record
  <1>15. ASSUME NEW n \in Wakes, Chat!on_pre_llm_call(n) PROVE FlightIsKnown'
    BY <1>15, <1>0 DEF Chat!on_pre_llm_call, Chat!mailVars, Chat!driverVars, Chat!pluginVars, Chat!hostVars, Chat!DriverIdle, Chat!PluginIdle, Chat!Release, Chat!Raised, FlightIsKnown, ClientsEvolve
  <1>16. ASSUME NEW n \in Wakes, Chat!on_post_llm_call(n) PROVE FlightIsKnown'
    BY <1>16, <1>0 DEF Chat!on_post_llm_call, Chat!mailVars, Chat!driverVars, Chat!pluginVars, Chat!hostVars, Chat!DriverIdle, Chat!PluginIdle, Chat!Release, Chat!Raised, FlightIsKnown, ClientsEvolve
  <1>17. ASSUME Chat!MailArrives PROVE FlightIsKnown'
    BY <1>17, <1>0 DEF Chat!MailArrives, Chat!mailVars, Chat!driverVars, Chat!pluginVars, Chat!hostVars, Chat!DriverIdle, Chat!PluginIdle, Chat!Release, Chat!Raised, FlightIsKnown, ClientsEvolve
  <1>18. ASSUME Chat!AgentReads PROVE FlightIsKnown'
    BY <1>18, <1>0 DEF Chat!AgentReads, Chat!mailVars, Chat!driverVars, Chat!pluginVars, Chat!hostVars, Chat!DriverIdle, Chat!PluginIdle, Chat!Release, Chat!Raised, FlightIsKnown, ClientsEvolve
  <1>19. ASSUME NEW n \in Launches, Chat!GatewayStep(n) PROVE FlightIsKnown'
    BY <1>19, <1>0 DEF Chat!GatewayStep, Chat!mailVars, Chat!driverVars, Chat!pluginVars, Chat!hostVars, Chat!DriverIdle, Chat!PluginIdle, Chat!Release, Chat!Raised, FlightIsKnown, ClientsEvolve
  <1>20. ASSUME NEW n \in Launches, Chat!ClientExits(n) PROVE FlightIsKnown'
    BY <1>20, <1>0 DEF Chat!ClientExits, Chat!mailVars, Chat!driverVars, Chat!pluginVars, Chat!hostVars, Chat!DriverIdle, Chat!PluginIdle, Chat!Release, Chat!Raised, FlightIsKnown, ClientsEvolve
  <1>21. ASSUME Chat!ChatOpens PROVE FlightIsKnown'
    BY <1>21, <1>0 DEF Chat!ChatOpens, Chat!mailVars, Chat!driverVars, Chat!pluginVars, Chat!hostVars, Chat!DriverIdle, Chat!PluginIdle, Chat!Release, Chat!Raised, FlightIsKnown, ClientsEvolve
  <1>22. ASSUME Chat!ChatCloses PROVE FlightIsKnown'
    BY <1>22, <1>0 DEF Chat!ChatCloses, Chat!mailVars, Chat!driverVars, Chat!pluginVars, Chat!hostVars, Chat!DriverIdle, Chat!PluginIdle, Chat!Release, Chat!Raised, FlightIsKnown, ClientsEvolve
  <1>23. ASSUME Chat!HostDies PROVE FlightIsKnown'
    BY <1>23, <1>0 DEF Chat!HostDies, Chat!mailVars, Chat!driverVars, Chat!pluginVars, Chat!hostVars, Chat!DriverIdle, Chat!PluginIdle, Chat!Release, Chat!Raised, FlightIsKnown, ClientsEvolve
  <1>24. ASSUME Chat!HostStarts PROVE FlightIsKnown'
    BY <1>24, <1>0 DEF Chat!HostStarts, Chat!mailVars, Chat!driverVars, Chat!pluginVars, Chat!hostVars, Chat!DriverIdle, Chat!PluginIdle, Chat!Release, Chat!Raised, FlightIsKnown, ClientsEvolve
  <1>25. QED
    BY <1>1, <1>2, <1>3, <1>4, <1>5, <1>6, <1>7, <1>8, <1>9, <1>10, <1>11, <1>12, <1>13, <1>14, <1>15, <1>16, <1>17, <1>18, <1>19, <1>20, <1>21, <1>22, <1>23, <1>24 DEF ChatStep

\* No step but an intent gives the open attempt another number, and it closes only
\* when its turn ended or its wake never was.
AttemptStays ==
  /\ chatLedger'.attempt.no \in {0, chatLedger.attempt.no}
  /\ chatLedger'.attempt.no # 0 => chatLedger'.attempt.max = chatLedger.attempt.max
  /\ \A n \in Wakes : chatLedger.attempt.no = n /\ chatLedger'.attempt.no # n => wake[n].state \in {"ended", "none"} /\ ppc # "inject"

LEMMA KnownAfter ==
  ASSUME ChatInv, ~touched, ChatStep, AttemptStays
  PROVE  (HostIsKnown /\ \A k \in Wakes : WakeFits(k))'
  <1>0. /\ SnapshotsFit /\ LockExcludesAttempts /\ FlightIsKnown /\ HostIsKnown /\ HandledIsCovered /\ \A n \in Wakes : WakeFits(n)
        /\ WakesEvolve /\ ClientsEvolve /\ 0 \notin Wakes /\ pno \in Wakes \cup {0}
        /\ chatLedger.attempt.no \in Wakes \cup {0} /\ chatLedger.attempt.max \in Chat!Ids /\ pmax \in Chat!Ids
        /\ chatLedger.handled \in Chat!Ids /\ dl.handled \in Chat!Ids /\ Chat!Ids \subseteq Nat /\ got \in Nat
        /\ \A n \in Wakes : wake[n].max \in Chat!Ids
        /\ dpc \in {"idle", "wake", "busy", "save"} /\ chatLock \in {"free", "driver", "dead"}
        /\ ppc \in {"idle", "consider", "inject", "accepted", "unknown", "not_submitted"}
    BY NowFacts DEF Now
  <1>1. ASSUME NEW n \in Wakes, Chat!InHost(n)' PROVE chatLedger'.attempt.no = n
    <2>1. chatLedger.attempt.no = n
      BY <1>0, <1>1 DEF WakesEvolve, Chat!InHost, HostIsKnown, SnapshotsFit
    <2>2. CASE wake[n].state \in {"queued", "started"}
      BY <2>1, <2>2 DEF AttemptStays
    <2>3. CASE wake[n].state \notin {"queued", "started"}
      BY <1>0, <1>1, <2>1, <2>3 DEF WakesEvolve, Chat!InHost, AttemptStays
    <2>4. QED
      BY <2>2, <2>3
  <1>2. ASSUME NEW n \in Wakes PROVE WakeFits(n)'
    <2>1. wake'[n].max = 0 => wake'[n].state = "none"
      BY <1>0 DEF WakesEvolve, WakeFits, SnapshotsFit
    <2>2. evidence'[n] = "ended" => wake'[n].state = "ended"
      BY <1>0 DEF WakesEvolve
    <2>3. chatLedger'.attempt.no = n => wake'[n].max \in {0, chatLedger'.attempt.max}
      BY <1>0 DEF AttemptStays, WakesEvolve, WakeFits, SnapshotsFit
    <2>4. QED
      BY <2>1, <2>2, <2>3 DEF WakeFits
  <1>3. QED
    BY <1>1, <1>2 DEF HostIsKnown

LEMMA StepKnown ==
  ASSUME ChatInv, ~touched, ChatStep
  PROVE  (HostIsKnown /\ \A k \in Wakes : WakeFits(k))'
  <1>0. /\ SnapshotsFit /\ LockExcludesAttempts /\ FlightIsKnown /\ HostIsKnown /\ HandledIsCovered /\ \A n \in Wakes : WakeFits(n)
        /\ WakesEvolve /\ ClientsEvolve /\ 0 \notin Wakes /\ pno \in Wakes \cup {0}
        /\ chatLedger.attempt.no \in Wakes \cup {0} /\ chatLedger.attempt.max \in Chat!Ids /\ pmax \in Chat!Ids
        /\ chatLedger.handled \in Chat!Ids /\ dl.handled \in Chat!Ids /\ Chat!Ids \subseteq Nat /\ got \in Nat
        /\ \A n \in Wakes : wake[n].max \in Chat!Ids
        /\ dpc \in {"idle", "wake", "busy", "save"} /\ chatLock \in {"free", "driver", "dead"}
        /\ ppc \in {"idle", "consider", "inject", "accepted", "unknown", "not_submitted"}
    BY NowFacts DEF Now
  <1>1. ASSUME Chat!DriverPass PROVE (HostIsKnown /\ \A k \in Wakes : WakeFits(k))'
    BY <1>1, KnownAfter DEF Chat!DriverPass, AttemptStays, Chat!driverVars
  <1>2. ASSUME Chat!DriverLockedOut PROVE (HostIsKnown /\ \A k \in Wakes : WakeFits(k))'
    BY <1>2, KnownAfter DEF Chat!DriverLockedOut, AttemptStays, Chat!driverVars
  <1>3. ASSUME Chat!DriverSettles PROVE (HostIsKnown /\ \A k \in Wakes : WakeFits(k))'
    <2>1. After(chatLedger')
      BY <1>3, DriverSettlesStep
    <2>2. AttemptStays
      BY <1>0, <2>1 DEF After, AttemptStays, WakeFits, SnapshotsFit
    <2>3. QED
      BY <2>2, KnownAfter
  <1>4. ASSUME Chat!DriverWaits PROVE (HostIsKnown /\ \A k \in Wakes : WakeFits(k))'
    <2>1. Writes
      BY <1>4, DriverWaitsStep
    <2>2. AttemptStays
      BY <1>0, <2>1 DEF Writes, Starts, SameBut, LockExcludesAttempts, AttemptStays
    <2>3. QED
      BY <2>2, KnownAfter
  <1>5. ASSUME Chat!launch PROVE (HostIsKnown /\ \A k \in Wakes : WakeFits(k))'
    <2>1. Writes \/ Starts
      BY <1>5, LaunchStep
    <2>2. AttemptStays
      BY <1>0, <2>1 DEF Writes, Starts, SameBut, LockExcludesAttempts, AttemptStays
    <2>3. QED
      BY <2>2, KnownAfter
  <1>6. ASSUME Chat!DriverSaves PROVE (HostIsKnown /\ \A k \in Wakes : WakeFits(k))'
    <2>1. Writes
      BY <1>6, DriverSavesStep
    <2>2. AttemptStays
      BY <1>0, <2>1 DEF Writes, Starts, SameBut, LockExcludesAttempts, AttemptStays
    <2>3. QED
      BY <2>2, KnownAfter
  <1>7. ASSUME Chat!DriverDies PROVE (HostIsKnown /\ \A k \in Wakes : WakeFits(k))'
    BY <1>7, KnownAfter DEF Chat!DriverDies, AttemptStays, Chat!driverVars
  <1>8. ASSUME Chat!CooldownEnds PROVE (HostIsKnown /\ \A k \in Wakes : WakeFits(k))'
    BY <1>8, CooldownStep, KnownAfter DEF SameBut, AttemptStays
  <1>9. ASSUME Chat!reconcile PROVE (HostIsKnown /\ \A k \in Wakes : WakeFits(k))'
    <2>1. After(chatLedger')
      BY <1>9, ReconcileStep
    <2>2. AttemptStays
      BY <1>0, <2>1 DEF After, AttemptStays, WakeFits, SnapshotsFit
    <2>3. QED
      BY <2>2, KnownAfter
  <1>10. ASSUME Chat!settle_own PROVE (HostIsKnown /\ \A k \in Wakes : WakeFits(k))'
    <2>1. After(chatLedger')
      BY <1>10, SettleOwnStep
    <2>2. AttemptStays
      BY <1>0, <2>1 DEF After, AttemptStays, WakeFits, SnapshotsFit
    <2>3. QED
      BY <2>2, KnownAfter
  <1>11. ASSUME Chat!tick PROVE (HostIsKnown /\ \A k \in Wakes : WakeFits(k))'
    BY <1>11, KnownAfter DEF Chat!tick, AttemptStays, Chat!driverVars
  <1>12. ASSUME Chat!consider PROVE (HostIsKnown /\ \A k \in Wakes : WakeFits(k))'
    <2>0. wake' = wake /\ evidence' = evidence
      BY <1>12 DEF Chat!consider
    <2>1. CASE chatLedger' = chatLedger
      BY <2>1, KnownAfter DEF AttemptStays
    <2>2. CASE After(chatLedger')
      <3>1. AttemptStays
        BY <1>0, <2>2 DEF After, AttemptStays, WakeFits, SnapshotsFit
      <3>2. QED
        BY <3>1, KnownAfter
    <2>3. CASE \E l \in ChatLedger, n \in Wakes : Intends(l, n)
      <3>1. PICK l \in ChatLedger, n \in Wakes : Intends(l, n)
        BY <2>3
      <3>2. chatLedger'.attempt.no = n /\ wake[n].max = 0 /\ After(l) /\ l.attempt.no = 0
        BY <3>1, IntendFields DEF Intends
      <3>3. \A k \in Wakes : ~Chat!InHost(k)
        BY <1>0, <3>2 DEF HostIsKnown, After, WakeFits, Chat!InHost
      <3>4. QED
        BY <1>0, <2>0, <3>2, <3>3 DEF HostIsKnown, WakeFits, Chat!InHost
    <2>4. QED
      BY <1>12, <2>1, <2>2, <2>3, ConsiderStep
  <1>13. ASSUME Chat!inject PROVE (HostIsKnown /\ \A k \in Wakes : WakeFits(k))'
    BY <1>13, KnownAfter DEF Chat!inject, AttemptStays, Chat!driverVars
  <1>14. ASSUME Chat!record PROVE (HostIsKnown /\ \A k \in Wakes : WakeFits(k))'
    <2>1. chatLedger' = chatLedger \/ Records
      BY <1>14, RecordStep
    <2>2. AttemptStays
      BY <1>14, <1>0, <2>1 DEF Chat!record, Records, AttemptStays, SnapshotsFit
    <2>3. QED
      BY <2>2, KnownAfter
  <1>15. ASSUME NEW n \in Wakes, Chat!on_pre_llm_call(n) PROVE (HostIsKnown /\ \A k \in Wakes : WakeFits(k))'
    BY <1>15, KnownAfter DEF Chat!on_pre_llm_call, AttemptStays, Chat!driverVars
  <1>16. ASSUME NEW n \in Wakes, Chat!on_post_llm_call(n) PROVE (HostIsKnown /\ \A k \in Wakes : WakeFits(k))'
    BY <1>16, KnownAfter DEF Chat!on_post_llm_call, AttemptStays, Chat!driverVars
  <1>17. ASSUME Chat!MailArrives PROVE (HostIsKnown /\ \A k \in Wakes : WakeFits(k))'
    BY <1>17, KnownAfter DEF Chat!MailArrives, AttemptStays, Chat!driverVars
  <1>18. ASSUME Chat!AgentReads PROVE (HostIsKnown /\ \A k \in Wakes : WakeFits(k))'
    BY <1>18, KnownAfter DEF Chat!AgentReads, AttemptStays, Chat!driverVars
  <1>19. ASSUME NEW n \in Launches, Chat!GatewayStep(n) PROVE (HostIsKnown /\ \A k \in Wakes : WakeFits(k))'
    BY <1>19, KnownAfter DEF Chat!GatewayStep, AttemptStays, Chat!driverVars
  <1>20. ASSUME NEW n \in Launches, Chat!ClientExits(n) PROVE (HostIsKnown /\ \A k \in Wakes : WakeFits(k))'
    BY <1>20, KnownAfter DEF Chat!ClientExits, AttemptStays, Chat!driverVars
  <1>21. ASSUME Chat!ChatOpens PROVE (HostIsKnown /\ \A k \in Wakes : WakeFits(k))'
    BY <1>21, KnownAfter DEF Chat!ChatOpens, AttemptStays, Chat!driverVars
  <1>22. ASSUME Chat!ChatCloses PROVE (HostIsKnown /\ \A k \in Wakes : WakeFits(k))'
    BY <1>22, KnownAfter DEF Chat!ChatCloses, AttemptStays, Chat!driverVars
  <1>23. ASSUME Chat!HostDies PROVE (HostIsKnown /\ \A k \in Wakes : WakeFits(k))'
    BY <1>23, KnownAfter DEF Chat!HostDies, AttemptStays, Chat!driverVars
  <1>24. ASSUME Chat!HostStarts PROVE (HostIsKnown /\ \A k \in Wakes : WakeFits(k))'
    BY <1>24, KnownAfter DEF Chat!HostStarts, AttemptStays, Chat!driverVars
  <1>25. QED
    BY <1>1, <1>2, <1>3, <1>4, <1>5, <1>6, <1>7, <1>8, <1>9, <1>10, <1>11, <1>12, <1>13, <1>14, <1>15, <1>16, <1>17, <1>18, <1>19, <1>20, <1>21, <1>22, <1>23, <1>24 DEF ChatStep

\* Covered, in the state after the step.
CoveredThen(h) ==
  \/ h = 0
  \/ \E n \in Wakes : wake'[n].state = "ended" /\ wake'[n].max >= h
  \/ \E n \in Launches : client'[n].max >= h /\ Chat!TurnShown(n)'

LEMMA HandledStays ==
  ASSUME ChatInv, ~touched, ChatStep, chatLedger'.handled \in Chat!Ids, Covered(chatLedger'.handled),
         dpc' \in {"busy", "save"} => dl'.handled \in Chat!Ids /\ Covered(dl'.handled)
  PROVE  HandledIsCovered'
  <1>1. \A h \in Chat!Ids : Covered(h) => CoveredThen(h)
    BY CoveredStays DEF CoveredThen, Covered
  <1>2. CoveredThen(chatLedger'.handled) /\ (dpc' \in {"busy", "save"} => CoveredThen(dl'.handled))
    BY <1>1
  <1>3. QED
    BY <1>2 DEF HandledIsCovered, CoveredThen, Covered

LEMMA StepHandled ==
  ASSUME ChatInv, ~touched, ChatStep
  PROVE  HandledIsCovered'
  <1>0. /\ SnapshotsFit /\ LockExcludesAttempts /\ FlightIsKnown /\ HostIsKnown /\ HandledIsCovered /\ \A n \in Wakes : WakeFits(n)
        /\ WakesEvolve /\ ClientsEvolve /\ 0 \notin Wakes /\ pno \in Wakes \cup {0}
        /\ chatLedger.attempt.no \in Wakes \cup {0} /\ chatLedger.attempt.max \in Chat!Ids /\ pmax \in Chat!Ids
        /\ chatLedger.handled \in Chat!Ids /\ dl.handled \in Chat!Ids /\ Chat!Ids \subseteq Nat /\ got \in Nat
        /\ \A n \in Wakes : wake[n].max \in Chat!Ids
        /\ dpc \in {"idle", "wake", "busy", "save"} /\ chatLock \in {"free", "driver", "dead"}
        /\ ppc \in {"idle", "consider", "inject", "accepted", "unknown", "not_submitted"}
    BY NowFacts DEF Now
  <1>1. ASSUME Chat!DriverPass PROVE HandledIsCovered'
    BY <1>1, <1>0, HandledStays DEF Chat!DriverPass, HandledIsCovered, Chat!driverVars, Chat!DriverIdle
  <1>2. ASSUME Chat!DriverLockedOut PROVE HandledIsCovered'
    BY <1>2, <1>0, HandledStays DEF Chat!DriverLockedOut, HandledIsCovered, Chat!driverVars, Chat!DriverIdle
  <1>3. ASSUME Chat!DriverSettles PROVE HandledIsCovered'
    <2>1. After(chatLedger') /\ (GoesOn \/ Chat!DriverIdle)
      BY <1>3, DriverSettlesStep
    <2>2. Covered(chatLedger'.handled) /\ chatLedger'.handled \in Chat!Ids
      BY <2>1, LedgerFields DEF After
    <2>3. dpc' \in {"busy", "save"} => dl'.handled = chatLedger'.handled
      BY <2>1 DEF GoesOn, Chat!DriverIdle
    <2>4. QED
      BY <2>2, <2>3, HandledStays
  <1>4. ASSUME Chat!DriverWaits PROVE HandledIsCovered'
    <2>1. Writes
      BY <1>4, DriverWaitsStep
    <2>2. CASE Writes
      BY <1>0, <2>2, HandledStays DEF Writes, SameBut, Chat!DriverIdle, HandledIsCovered
    <2>3. CASE Starts
      BY <1>0, <2>3, HandledStays DEF Starts, HandledIsCovered
    <2>4. QED
      BY <2>1, <2>2, <2>3
  <1>5. ASSUME Chat!launch PROVE HandledIsCovered'
    <2>1. Writes \/ Starts
      BY <1>5, LaunchStep
    <2>2. CASE Writes
      BY <1>0, <2>2, HandledStays DEF Writes, SameBut, Chat!DriverIdle, HandledIsCovered
    <2>3. CASE Starts
      BY <1>0, <2>3, HandledStays DEF Starts, HandledIsCovered
    <2>4. QED
      BY <2>1, <2>2, <2>3
  <1>6. ASSUME Chat!DriverSaves PROVE HandledIsCovered'
    <2>1. Writes
      BY <1>6, DriverSavesStep
    <2>2. CASE Writes
      BY <1>0, <2>2, HandledStays DEF Writes, SameBut, Chat!DriverIdle, HandledIsCovered
    <2>3. CASE Starts
      BY <1>0, <2>3, HandledStays DEF Starts, HandledIsCovered
    <2>4. QED
      BY <2>1, <2>2, <2>3
  <1>7. ASSUME Chat!DriverDies PROVE HandledIsCovered'
    BY <1>7, <1>0, HandledStays DEF Chat!DriverDies, HandledIsCovered, Chat!driverVars, Chat!DriverIdle
  <1>8. ASSUME Chat!CooldownEnds PROVE HandledIsCovered'
    BY <1>8, <1>0, CooldownStep, HandledStays DEF SameBut, HandledIsCovered, Chat!CooldownEnds, Chat!driverVars
  <1>9. ASSUME Chat!reconcile PROVE HandledIsCovered'
    <2>1. After(chatLedger') /\ dpc' = dpc /\ dl' = dl
      BY <1>9, ReconcileStep DEF Chat!reconcile, Chat!driverVars
    <2>2. Covered(chatLedger'.handled) /\ chatLedger'.handled \in Chat!Ids
      BY <2>1, LedgerFields DEF After
    <2>3. QED
      BY <1>0, <2>1, <2>2, HandledStays DEF HandledIsCovered
  <1>10. ASSUME Chat!settle_own PROVE HandledIsCovered'
    <2>1. After(chatLedger') /\ dpc' = dpc /\ dl' = dl
      BY <1>10, SettleOwnStep DEF Chat!settle_own, Chat!driverVars
    <2>2. Covered(chatLedger'.handled) /\ chatLedger'.handled \in Chat!Ids
      BY <2>1, LedgerFields DEF After
    <2>3. QED
      BY <1>0, <2>1, <2>2, HandledStays DEF HandledIsCovered
  <1>11. ASSUME Chat!tick PROVE HandledIsCovered'
    BY <1>11, <1>0, HandledStays DEF Chat!tick, HandledIsCovered, Chat!driverVars, Chat!DriverIdle
  <1>12. ASSUME Chat!consider PROVE HandledIsCovered'
    <2>1. dpc' = dpc /\ dl' = dl
      BY <1>12 DEF Chat!consider, Chat!driverVars
    <2>2. CASE chatLedger' = chatLedger
      BY <1>0, <2>1, <2>2, HandledStays DEF HandledIsCovered
    <2>3. CASE \E l \in ChatLedger : After(l) /\ chatLedger'.handled = l.handled
      <3>1. PICK l \in ChatLedger : Covered(l.handled) /\ chatLedger'.handled = l.handled
        BY <2>3 DEF After
      <3>2. l.handled \in Chat!Ids
        BY LedgerFields
      <3>3. QED
        BY <1>0, <2>1, <3>1, <3>2, HandledStays DEF HandledIsCovered
    <2>4. CASE After(chatLedger')
      BY <2>3, <2>4 DEF After
    <2>5. CASE \E l \in ChatLedger, n \in Wakes : Intends(l, n)
      <3>1. PICK l \in ChatLedger, n \in Wakes : Intends(l, n)
        BY <2>5
      <3>2. After(l) /\ chatLedger'.handled = l.handled
        BY <3>1, IntendFields DEF Intends
      <3>3. QED
        BY <2>3, <3>2
    <2>6. QED
      BY <1>12, <2>2, <2>4, <2>5, ConsiderStep
  <1>13. ASSUME Chat!inject PROVE HandledIsCovered'
    BY <1>13, <1>0, HandledStays DEF Chat!inject, HandledIsCovered, Chat!driverVars, Chat!DriverIdle
  <1>14. ASSUME Chat!record PROVE HandledIsCovered'
    <2>1. dpc' = dpc /\ dl' = dl /\ chatLedger'.handled = chatLedger.handled
      BY <1>14, RecordStep DEF Records, Chat!record, Chat!driverVars
    <2>2. QED
      BY <1>0, <2>1, HandledStays DEF HandledIsCovered
  <1>15. ASSUME NEW n \in Wakes, Chat!on_pre_llm_call(n) PROVE HandledIsCovered'
    BY <1>15, <1>0, HandledStays DEF Chat!on_pre_llm_call, HandledIsCovered, Chat!driverVars, Chat!DriverIdle
  <1>16. ASSUME NEW n \in Wakes, Chat!on_post_llm_call(n) PROVE HandledIsCovered'
    BY <1>16, <1>0, HandledStays DEF Chat!on_post_llm_call, HandledIsCovered, Chat!driverVars, Chat!DriverIdle
  <1>17. ASSUME Chat!MailArrives PROVE HandledIsCovered'
    BY <1>17, <1>0, HandledStays DEF Chat!MailArrives, HandledIsCovered, Chat!driverVars, Chat!DriverIdle
  <1>18. ASSUME Chat!AgentReads PROVE HandledIsCovered'
    BY <1>18, <1>0, HandledStays DEF Chat!AgentReads, HandledIsCovered, Chat!driverVars, Chat!DriverIdle
  <1>19. ASSUME NEW n \in Launches, Chat!GatewayStep(n) PROVE HandledIsCovered'
    BY <1>19, <1>0, HandledStays DEF Chat!GatewayStep, HandledIsCovered, Chat!driverVars, Chat!DriverIdle
  <1>20. ASSUME NEW n \in Launches, Chat!ClientExits(n) PROVE HandledIsCovered'
    BY <1>20, <1>0, HandledStays DEF Chat!ClientExits, HandledIsCovered, Chat!driverVars, Chat!DriverIdle
  <1>21. ASSUME Chat!ChatOpens PROVE HandledIsCovered'
    BY <1>21, <1>0, HandledStays DEF Chat!ChatOpens, HandledIsCovered, Chat!driverVars, Chat!DriverIdle
  <1>22. ASSUME Chat!ChatCloses PROVE HandledIsCovered'
    BY <1>22, <1>0, HandledStays DEF Chat!ChatCloses, HandledIsCovered, Chat!driverVars, Chat!DriverIdle
  <1>23. ASSUME Chat!HostDies PROVE HandledIsCovered'
    BY <1>23, <1>0, HandledStays DEF Chat!HostDies, HandledIsCovered, Chat!driverVars, Chat!DriverIdle
  <1>24. ASSUME Chat!HostStarts PROVE HandledIsCovered'
    BY <1>24, <1>0, HandledStays DEF Chat!HostStarts, HandledIsCovered, Chat!driverVars, Chat!DriverIdle
  <1>25. QED
    BY <1>1, <1>2, <1>3, <1>4, <1>5, <1>6, <1>7, <1>8, <1>9, <1>10, <1>11, <1>12, <1>13, <1>14, <1>15, <1>16, <1>17, <1>18, <1>19, <1>20, <1>21, <1>22, <1>23, <1>24 DEF ChatStep

LEMMA TouchedStays ==
  ASSUME touched, Chat!Next
  PROVE  touched'
  <1>1. ASSUME Chat!DriverPass PROVE touched'
    BY <1>1 DEF Chat!DriverPass, Chat!Operator
  <1>2. ASSUME Chat!DriverLockedOut PROVE touched'
    BY <1>2 DEF Chat!DriverLockedOut, Chat!Operator
  <1>3. ASSUME Chat!DriverSettles PROVE touched'
    BY <1>3 DEF Chat!DriverSettles, Chat!Operator
  <1>4. ASSUME Chat!DriverWaits PROVE touched'
    BY <1>4 DEF Chat!DriverWaits, Chat!Operator
  <1>5. ASSUME Chat!launch PROVE touched'
    BY <1>5 DEF Chat!launch, Chat!Operator
  <1>6. ASSUME Chat!DriverSaves PROVE touched'
    BY <1>6 DEF Chat!DriverSaves, Chat!Operator
  <1>7. ASSUME Chat!DriverDies PROVE touched'
    BY <1>7 DEF Chat!DriverDies, Chat!Operator
  <1>8. ASSUME Chat!CooldownEnds PROVE touched'
    BY <1>8 DEF Chat!CooldownEnds, Chat!Operator
  <1>9. ASSUME Chat!reconcile PROVE touched'
    BY <1>9 DEF Chat!reconcile, Chat!Operator
  <1>10. ASSUME Chat!settle_own PROVE touched'
    BY <1>10 DEF Chat!settle_own, Chat!Operator
  <1>11. ASSUME Chat!tick PROVE touched'
    BY <1>11 DEF Chat!tick, Chat!Operator
  <1>12. ASSUME Chat!consider PROVE touched'
    BY <1>12 DEF Chat!consider, Chat!Operator
  <1>13. ASSUME Chat!inject PROVE touched'
    BY <1>13 DEF Chat!inject, Chat!Operator
  <1>14. ASSUME Chat!record PROVE touched'
    BY <1>14 DEF Chat!record, Chat!Operator
  <1>15. ASSUME NEW n \in Wakes, Chat!on_pre_llm_call(n) PROVE touched'
    BY <1>15 DEF Chat!on_pre_llm_call, Chat!Operator
  <1>16. ASSUME NEW n \in Wakes, Chat!on_post_llm_call(n) PROVE touched'
    BY <1>16 DEF Chat!on_post_llm_call, Chat!Operator
  <1>17. ASSUME Chat!cancel PROVE touched'
    BY <1>17 DEF Chat!cancel, Chat!Operator
  <1>18. ASSUME Chat!uncancel PROVE touched'
    BY <1>18 DEF Chat!uncancel, Chat!Operator
  <1>19. ASSUME NEW n \in BOOLEAN, Chat!clearDesktop(n) PROVE touched'
    BY <1>19 DEF Chat!clearDesktop, Chat!Operator
  <1>20. ASSUME Chat!ClearDeadLock PROVE touched'
    BY <1>20 DEF Chat!ClearDeadLock, Chat!Operator
  <1>21. ASSUME Chat!MailArrives PROVE touched'
    BY <1>21 DEF Chat!MailArrives, Chat!Operator
  <1>22. ASSUME Chat!AgentReads PROVE touched'
    BY <1>22 DEF Chat!AgentReads, Chat!Operator
  <1>23. ASSUME NEW n \in Launches, Chat!GatewayStep(n) PROVE touched'
    BY <1>23 DEF Chat!GatewayStep, Chat!Operator
  <1>24. ASSUME NEW n \in Launches, Chat!ClientExits(n) PROVE touched'
    BY <1>24 DEF Chat!ClientExits, Chat!Operator
  <1>25. ASSUME Chat!ChatOpens PROVE touched'
    BY <1>25 DEF Chat!ChatOpens, Chat!Operator
  <1>26. ASSUME Chat!ChatCloses PROVE touched'
    BY <1>26 DEF Chat!ChatCloses, Chat!Operator
  <1>27. ASSUME Chat!HostDies PROVE touched'
    BY <1>27 DEF Chat!HostDies, Chat!Operator
  <1>28. ASSUME Chat!HostStarts PROVE touched'
    BY <1>28 DEF Chat!HostStarts, Chat!Operator
  <1>29. QED
    BY <1>1, <1>2, <1>3, <1>4, <1>5, <1>6, <1>7, <1>8, <1>9, <1>10, <1>11, <1>12, <1>13, <1>14, <1>15, <1>16, <1>17, <1>18, <1>19, <1>20, <1>21, <1>22, <1>23, <1>24, <1>25, <1>26, <1>27, <1>28 DEF Chat!Next

LEMMA StepChatInv ==
  ASSUME ChatInv, Chat!Next
  PROVE  ChatInv'
  <1>1. (Chat!TypeOK /\ DriverHasMail /\ \A n \in Launches : ClientFits(n))'
    BY StepChatTypeOK DEF ChatInv
  <1>2. touched \in BOOLEAN
    BY DEF ChatInv, Chat!TypeOK
  <1>3. CASE touched \/ touched'
    <2>1. touched' \/ ~touched'
      OBVIOUS
    <2>2. touched => touched'
      BY TouchedStays
    <2>3. QED
      BY <1>1, <1>3, <2>2 DEF ChatInv
  <1>4. CASE ~touched /\ ~touched'
    <2>1. ChatStep
      BY <1>4 DEF Chat!Next, ChatStep, Chat!Operator, Chat!cancel, Chat!uncancel, Chat!clearDesktop, Chat!ClearDeadLock
    <2>2. Untouched'
      BY <1>4, <2>1, StepSnapshots, StepLock, StepFlight, StepKnown, StepHandled DEF Untouched
    <2>3. QED
      BY <1>1, <2>2 DEF ChatInv
  <1>5. QED
    BY <1>3, <1>4

LEMMA ChatRuns == BothSpec => Chat!Init /\ [][Chat!Next]_chatVars
  <1>1. BothInit => Chat!Init
    BY DEF BothInit
  <1>2. [BothNext]_<<vars, chatVars, surface>> => [Chat!Next]_chatVars
    BY DEF BothNext
  <1>3. QED
    BY <1>1, <1>2, PTL DEF BothSpec

LEMMA ChatInit == Chat!Init => ChatInv
  <1> SUFFICES ASSUME Chat!Init PROVE ChatInv
    OBVIOUS
  <1>1. /\ chatLedger = Chat!emptyLedger /\ dl = Chat!emptyLedger /\ chatLedger \in ChatLedger /\ chatLedger.attempt.no = 0
        /\ chatLedger.handled = 0 /\ chatLedger.state = "done"
    BY EmptyLedger DEF Chat!Init, Chat!emptyLedger, Chat!NoAttempt
  <1>2. ASSUME NEW n \in Launches
        PROVE  client[n] \in Chat!Client /\ client[n].max = 0 /\ ~client[n].up /\ client[n].adm = "none" /\ client[n].out = "none" /\ ~client[n].foreign
    BY MailNumbers DEF Chat!Init, Chat!Client
  <1>3. client \in [Launches -> Chat!Client]
    BY <1>2 DEF Chat!Init
  <1>4. ASSUME NEW n \in Wakes
        PROVE  wake[n] \in Chat!Wake /\ wake[n].max = 0 /\ wake[n].state = "none" /\ evidence[n] = "none"
    BY MailNumbers DEF Chat!Init, Chat!Wake
  <1>5. wake \in [Wakes -> Chat!Wake] /\ evidence \in [Wakes -> {"none", "started", "ended"}]
    BY <1>4 DEF Chat!Init
  <1>6. Chat!TypeOK
    <2>1. sent \in Chat!Ids /\ got \in 0 .. sent /\ dmax \in Chat!Ids /\ pmax \in Chat!Ids
      BY MailNumbers DEF Chat!Init
    <2>2. host \in Hosts /\ up \in BOOLEAN /\ open \in BOOLEAN /\ (open => up) /\ touched \in BOOLEAN
      BY ChatAssumption DEF Chat!Init
    <2>3. chatFaults \in 0 .. ChatFaults
      BY ChatAssumption DEF Chat!Init
    <2>4. chatLock = "free" /\ dpc = "idle" /\ ppc = "idle" /\ pno = 0
      BY DEF Chat!Init
    <2>5. QED
      BY <1>1, <1>3, <1>5, <2>1, <2>2, <2>3, <2>4 DEF Chat!TypeOK, ChatLedger
  <1>7. \A n \in Launches : ~Chat!InFlight(n) /\ ClientFits(n)
    BY <1>2 DEF Chat!InFlight, ClientFits
  <1>8. \A n \in Wakes : ~Chat!InHost(n) /\ WakeFits(n)
    BY <1>1, <1>4, ChatAssumption DEF Chat!InHost, WakeFits
  <1>9. SnapshotsFit /\ LockExcludesAttempts /\ FlightIsKnown /\ HostIsKnown /\ HandledIsCovered /\ DriverHasMail
    BY <1>1, <1>7, <1>8 DEF Chat!Init, SnapshotsFit, LockExcludesAttempts, FlightIsKnown, HostIsKnown, HandledIsCovered, Covered, DriverHasMail, ChatBusy
  <1>10. QED
    BY <1>6, <1>7, <1>8, <1>9 DEF ChatInv, Untouched

LEMMA ChatSafety == BothSpec => []ChatInv
  <1>1. ChatInv /\ [Chat!Next]_chatVars => ChatInv'
    <2>1. ASSUME ChatInv, UNCHANGED chatVars PROVE ChatInv'
      BY <2>1 DEF ChatInv, chatVars, Untouched, Chat!TypeOK, DriverHasMail, ClientFits, SnapshotsFit, LockExcludesAttempts,
                  FlightIsKnown, HostIsKnown, HandledIsCovered, Covered, WakeFits, Chat!InFlight, Chat!InHost, Chat!TurnShown
    <2>2. QED
      BY <2>1, StepChatInv
  <1>2. QED
    BY ChatInit, ChatRuns, <1>1, PTL

\* Unless an operator stepped in, no mail has two wakes in flight at once, whichever
\* executors started them and whatever died in between.
THEOREM OneWake == BothSpec => []OneWakePerMail
  <1>1. ChatInv => OneWakePerMail
    <2> SUFFICES ASSUME ChatInv, ~touched PROVE OneWakePerMail
      BY DEF OneWakePerMail, Chat!OneWakePerMail
    <2>0. /\ FlightIsKnown /\ HostIsKnown /\ LockExcludesAttempts /\ 0 \notin Wakes /\ chatLock \in {"free", "driver", "dead"}
      BY ChatAssumption DEF ChatInv, Untouched, Chat!TypeOK
    <2>1. \A n, k \in Launches : Chat!InFlight(n) /\ Chat!InFlight(k) => n = k
      BY <2>0 DEF FlightIsKnown, LockExcludesAttempts
    <2>2. \A n, k \in Wakes : Chat!InHost(n) /\ Chat!InHost(k) => n = k
      BY <2>0 DEF HostIsKnown
    <2>3. \A n \in Launches, k \in Wakes : ~(Chat!InFlight(n) /\ Chat!InHost(k))
      BY <2>0 DEF FlightIsKnown, HostIsKnown, LockExcludesAttempts
    <2>4. QED
      BY <2>1, <2>2, <2>3 DEF OneWakePerMail, Chat!OneWakePerMail
  <1>2. QED
    BY <1>1, ChatSafety, PTL

\* The ledger counts no mail as handled before a turn that covers it ended, unless an
\* operator said so.
THEOREM HandledByTurns == BothSpec => []HandledAfterATurn
  <1>1. ChatInv => HandledAfterATurn
    BY DEF ChatInv, Untouched, HandledIsCovered, Covered, HandledAfterATurn, Chat!HandledAfterATurn
  <1>2. QED
    BY <1>1, ChatSafety, PTL

\* While a prompt waits or runs in the Desktop its attempt is open in the ledger; only
\* an operator takes it away.
THEOREM AttemptsOpen == BothSpec => OpenWhileInHost
  <1>1. ChatInv' /\ [Chat!Next]_chatVars
          => [\A n \in Wakes : Chat!InHost(n)' /\ chatLedger.attempt.no = n /\ ~touched' => chatLedger'.attempt.no = n]_(Chat!vars)
    BY DEF ChatInv, Untouched, HostIsKnown
  <1>2. QED
    BY <1>1, ChatSafety, ChatRuns, PTL DEF OpenWhileInHost, Chat!OpenWhileInHost
===============================================================================
