------------------------------- MODULE OpenClaw -------------------------------
(***************************************************************************)
(* The OpenClaw integration of one agent.  The wake pass of the daemon and *)
(* the operator's bind submit one bodyless input at a time into the        *)
(* agent's main session and keep custody of it in a ledger, under a file   *)
(* lock that nothing reaps.  OpenClaw starts one MCP child per session     *)
(* thread; a child takes the agent's mailbox only after a call proved, by  *)
(* the one-time token of a submission, that its thread runs the main       *)
(* session.  The OpenClaw Gateway, the broker row and the operator are     *)
(* modelled from how the code uses them.  The name claim is taken and      *)
(* released in one step here; HermesNameClaims has its protocol.           *)
(***************************************************************************)
EXTENDS Naturals, FiniteSets, Sequences

CONSTANTS
  Procs,        \* daemons and operator commands that take the ledger lock
  Children,     \* MCP child processes of the agent
  Calls,        \* tool calls
  ChildOf,      \* the child a call runs in
  ThreadOf,     \* the Codex thread of a child; a session runs on the thread of its number
  Free,         \* no owner of a lock, claim or row
  Orphan,       \* the ledger lock of a process that died
  MaxSubs,      \* bound: submissions in the ledger
  MaxMail,      \* bound: messages for the agent
  MaxSessions,  \* bound: main sessions, one after the other
  MaxFaults     \* bound: switch flips, operator decisions, lapses of retention, lost heartbeats, deaths

ASSUME OpenClawAssumption ==
  /\ ChildOf \in [Calls -> Children]
  /\ ThreadOf \in [Children -> 1 .. MaxSessions]
  /\ {Free, Orphan} \cap (Procs \cup Children) = {} /\ Free # Orphan
  /\ {MaxSubs, MaxMail, MaxSessions, MaxFaults} \subseteq Nat /\ MaxSessions > 0

VARIABLES
  \* disk
  ledger,    \* submissions in the order of created_at, which is also their idempotencyKey
  halted,    \* ledger.halted
  lock,      \* wake/<agent>.lock
  switch,    \* on; off: not in wake/enabled; killed: the file "disabled" exists
  binding,   \* bindings/<agent>.json: thread, submission that proved it, peer_id known
  claim,     \* the child that holds the name claim
  \* wake passes and binds
  pc, kind, sig,  \* step, wake or bind, unread ids that were read
  seen,      \* the session that the pass has described
  \* OpenClaw and the broker
  session,   \* number of the main session, 0 before it exists
  inFlight,  \* chat.send requests not yet processed
  gw,        \* custody of the Gateway per submission: state and session
  unread,    \* unread mail of the peer
  arrived,   \* messages so far
  row,       \* the child that holds the peer row
  stale,     \* its last heartbeat is older than the reclaim cutoff
  \* children and calls
  reg,       \* how far a child is as the owner
  copy,      \* the proof in the binding that its registration read
  cpc, view, \* step of a call; the binding to write, as the call decided it
  faults,
  \* history
  woke,      \* the unread ids a submission was sent for
  excused,   \* submissions whose unread set an operator or the retention released
  proven,    \* threads whose session consumed a token, or that were bound before
  movedBack  \* a binding by an older token was written over that of a newer one

diskVars == <<ledger, halted, lock, switch, binding, claim>>
passVars == <<pc, kind, sig, seen>>
gwVars == <<session, inFlight, gw>>
mailVars == <<unread, arrived>>
rowVars == <<row, stale>>
callVars == <<cpc, view>>
childVars == <<rowVars, reg, copy, callVars>>
wakeHist == <<woke, excused>>
gateHist == <<proven, movedBack>>
histVars == <<wakeHist, gateHist>>
vars == <<diskVars, passVars, gwVars, mailVars, childVars, faults, histVars>>

Mails == 1 .. MaxMail
Ids == 1 .. MaxSubs
Threads == 1 .. MaxSessions
Open == {"intent", "accepted", "unknown"}
Terminal == {"consumed", "cancelled", "cleared"}

\* A signature of {} stands for null (a bind, or a wake that was re-armed).
Submission == [kind : {"wake", "bind"}, sig : SUBSET Mails, session : Threads,
               state : Open \cup Terminal \cup {"pruned"}]
NoBinding == [thread |-> 0, proof |-> 0, peer |-> FALSE]
Bindings == [thread : 0 .. MaxSessions, proof : 0 .. MaxSubs, peer : BOOLEAN]

TypeOK ==
  /\ ledger \in Seq(Submission) /\ Len(ledger) <= MaxSubs
  /\ halted \in BOOLEAN /\ lock \in Procs \cup {Free, Orphan}
  /\ switch \in {"on", "off", "killed"}
  /\ binding \in Bindings /\ claim \in Children \cup {Free}
  /\ pc \in [Procs -> {"idle", "read", "receipts", "inbox", "describe", "send", "ack"}]
  /\ kind \in [Procs -> {"wake", "bind", "status"}]
  /\ sig \in [Procs -> SUBSET Mails] /\ seen \in [Procs -> 0 .. MaxSessions]
  /\ session \in 0 .. MaxSessions /\ inFlight \subseteq Ids
  /\ gw \in [Ids -> [state : {"none", "pending", "cancelled", "consumed"}, session : 0 .. MaxSessions]]
  /\ unread \subseteq Mails /\ arrived \in 0 .. MaxMail /\ row \in Children \cup {Free} /\ stale \in BOOLEAN
  /\ reg \in [Children -> {"none", "proven", "registering", "read", "write", "registered", "second",
                        "leaving", "dead"}]
  /\ copy \in [Children -> 0 .. MaxSubs]
  /\ cpc \in [Calls -> {"idle", "rebind", "claim", "recheck", "await"}]
  /\ view \in [Calls -> Bindings]
  /\ faults \in 0 .. MaxFaults
  /\ woke \in [Ids -> SUBSET Mails] /\ excused \subseteq Ids
  /\ proven \subseteq Threads /\ movedBack \in BOOLEAN

\* Either a new installation, or an agent that was bound before.
Init ==
  /\ ledger = <<>> /\ halted = FALSE /\ lock = Free /\ switch = "on"
  /\ binding \in {NoBinding, [thread |-> 1, proof |-> 0, peer |-> TRUE]}
  /\ claim = Free /\ row = Free /\ stale = FALSE
  /\ pc = [p \in Procs |-> "idle"] /\ kind = [p \in Procs |-> "wake"]
  /\ sig = [p \in Procs |-> {}] /\ seen = [p \in Procs |-> 0]
  /\ session = (IF binding = NoBinding THEN 0 ELSE 1) /\ inFlight = {}
  /\ gw = [s \in Ids |-> [state |-> "none", session |-> 0]]
  /\ unread = {} /\ arrived = 0
  /\ reg = [c \in Children |-> "none"] /\ copy = [c \in Children |-> 0]
  /\ cpc = [k \in Calls |-> "idle"] /\ view = [k \in Calls |-> NoBinding]
  /\ faults = 0 /\ woke = [s \in Ids |-> {}] /\ excused = {}
  /\ proven = {binding.thread} \ {0} /\ movedBack = FALSE

-----------------------------------------------------------------------------
(* Ledger and lock *)

Subs == 1 .. Len(ledger)
OpenSubs == {s \in Subs : ledger[s].state \in Open}
\* A wake needs the opt-in, a bind only that the kill switch is off; status sends nothing.
Allowed(k) == switch = "on" \/ (k = "bind" /\ switch = "off") \/ k = "status"

Fault == faults < MaxFaults /\ faults' = faults + 1

\* Mutant of AcquireLock: the lock of a dead owner is reaped, and a second
\* process can enter before the first has written.
AcquireLockReaped(p) == lock' = p

\* withLedgerLock: link() of a complete file, which fails when one exists.
AcquireLock(p) == lock = Free /\ lock' = p

Forget(p) ==
  /\ pc' = [pc EXCEPT ![p] = "idle"] /\ kind' = [kind EXCEPT ![p] = "wake"]
  /\ sig' = [sig EXCEPT ![p] = {}] /\ seen' = [seen EXCEPT ![p] = 0]

\* The lock is removed only while it carries the token of this process.
Leave(p) ==
  /\ Forget(p)
  /\ lock' = IF lock = p THEN Free ELSE lock

Step(p, to) == pc' = [pc EXCEPT ![p] = to] /\ UNCHANGED <<sig, seen, kind, lock>>

Custody(p) == pc[p] # "idle"

Begin(p, k) ==
  /\ pc[p] = "idle" /\ Allowed(k)
  /\ AcquireLock(p)
  /\ pc' = [pc EXCEPT ![p] = "read"] /\ kind' = [kind EXCEPT ![p] = k]
  /\ UNCHANGED <<ledger, halted, switch, binding, claim, sig, seen, gwVars, mailVars, childVars, faults,
                 histVars>>

\* The three readers of the ledger.  A halted ledger refuses a bind at once.
RunWakePass(p) == Begin(p, "wake")
Bind(p) == ~halted /\ Begin(p, "bind")
ReconcileAgent(p) == Begin(p, "status")

\* Open submissions need a description of the session, unless they were reconciled
\* a moment ago or the Gateway does not answer.
Describe(p) ==
  /\ pc[p] = "read"
  /\ OpenSubs # {}
  /\ \/ Leave(p)
     \/ /\ pc' = [pc EXCEPT ![p] = "receipts"] /\ seen' = [seen EXCEPT ![p] = session]
        /\ UNCHANGED <<sig, kind, lock>>
  /\ UNCHANGED <<ledger, halted, switch, binding, claim, gwVars, mailVars, childVars, faults, histVars>>

\* The state of a submission after reconcileLocked, if it was sent to the session
\* that was described: only a receipt for its exact runId, read from the session
\* that is current by then, moves it to an outcome.
Reconciled(s, described) ==
  LET r == gw[s]
  IN IF ledger[s].state \notin Open THEN ledger[s].state
     ELSE IF ledger[s].session # described \/ r.session # session THEN "unknown"
     ELSE CASE r.state = "consumed" -> "consumed"
            [] r.state = "cancelled" -> "cancelled"
            [] r.state = "pending" -> "accepted"

\* The receipts are read, or the Gateway fails; the pass ends while one is open.
Reconcile(p) ==
  /\ pc[p] = "receipts"
  /\ \/ Leave(p) /\ UNCHANGED ledger
     \/ /\ ledger' = [s \in Subs |-> [ledger[s] EXCEPT !.state = Reconciled(s, seen[p])]]
        /\ IF \E s \in Subs : ledger'[s].state \in Open THEN Leave(p)
           ELSE pc' = [pc EXCEPT ![p] = "read"] /\ seen' = [seen EXCEPT ![p] = 0]
                /\ UNCHANGED <<sig, kind, lock>>
  /\ UNCHANGED <<halted, switch, binding, claim, gwVars, mailVars, childVars, faults, histVars>>

\* Nothing is open.  A wake also needs no halt and a bound, registered peer.
Proceed(p) ==
  /\ pc[p] = "read"
  /\ OpenSubs = {}
  /\ IF kind[p] = "bind" THEN Step(p, "describe")
     ELSE IF kind[p] = "status" \/ halted \/ ~binding.peer THEN Leave(p)
     ELSE Step(p, "inbox")
  /\ UNCHANGED <<ledger, halted, switch, binding, claim, gwVars, mailVars, childVars, faults,
                 histVars>>

\* Mutant of AlreadyWoken: only submissions that are still open are looked at.
AlreadyWokenWhileOpen == \E s \in Subs : ledger[s].sig = unread /\ ledger[s].state \in Open

\* The ledger names the present unread set, whatever became of that submission.
AlreadyWoken == \E s \in Subs : ledger[s].sig = unread

\* /peer-inbox is read; the switch is read again; a set is woken once.
ReadInbox(p) ==
  /\ pc[p] = "inbox"
  /\ \/ Leave(p)                       \* broker error, or nothing to do
     \/ /\ unread # {} /\ ~AlreadyWoken /\ Allowed("wake")
        /\ sig' = [sig EXCEPT ![p] = unread]
        /\ pc' = [pc EXCEPT ![p] = "describe"]
        /\ UNCHANGED <<seen, kind, lock>>
  /\ UNCHANGED <<ledger, halted, switch, binding, claim, gwVars, mailVars, childVars, faults,
                 histVars>>

\* submitLocked: the main session must exist, and is never created; the switch is
\* read again, and the intent is on disk before the send.
WriteIntent(p) ==
  /\ pc[p] = "describe"
  /\ \/ Leave(p) /\ UNCHANGED <<ledger, woke>>
     \/ /\ session # 0 /\ Allowed(kind[p]) /\ Len(ledger) < MaxSubs
        /\ ledger' = Append(ledger, [kind |-> kind[p], sig |-> sig[p], session |-> session,
                                     state |-> "intent"])
        /\ woke' = [woke EXCEPT ![Len(ledger) + 1] = sig[p]]
        /\ Step(p, "send")
  /\ UNCHANGED <<halted, switch, binding, claim, gwVars, mailVars, childVars, faults, excused, gateHist>>

Mine(p) == Len(ledger)
Set(s, st) == ledger' = [ledger EXCEPT ![s].state = st]

\* The last check withdraws the intent, or chat.send leaves the process.
Send(p) ==
  /\ pc[p] = "send"
  /\ IF ~Allowed(kind[p]) THEN Set(Mine(p), "cancelled") /\ Leave(p) /\ UNCHANGED inFlight
     ELSE inFlight' = inFlight \cup {Mine(p)} /\ Step(p, "ack") /\ UNCHANGED ledger
  /\ UNCHANGED <<halted, switch, binding, claim, session, gw, mailVars, childVars, faults, histVars>>

\* The acknowledgement, which may report an interrupted run; or an error, a
\* timeout or an unexpected answer, although the request may still be processed.
Acknowledge(p) ==
  /\ pc[p] = "ack"
  /\ \/ /\ gw[Mine(p)].state # "none"
        /\ Set(Mine(p), "accepted")
        /\ \/ halted' = TRUE /\ Fault
           \/ UNCHANGED <<halted, faults>>
     \/ Set(Mine(p), "unknown") /\ UNCHANGED <<halted, faults>>
  /\ Leave(p)
  /\ UNCHANGED <<switch, binding, claim, gwVars, mailVars, childVars, histVars>>

-----------------------------------------------------------------------------
(* Faults and operator decisions *)

\* A process dies under the lock, which then blocks the agent.
PassDies(p) ==
  /\ Custody(p) /\ Fault
  /\ Forget(p)
  /\ lock' = IF lock = p THEN Orphan ELSE lock
  /\ UNCHANGED <<ledger, halted, switch, binding, claim, gwVars, mailVars, childVars, histVars>>

\* The operator removes the lock of a dead process.
ClearDeadLock ==
  /\ lock = Orphan /\ lock' = Free
  /\ UNCHANGED <<ledger, halted, switch, binding, claim, passVars, gwVars, mailVars, childVars, faults,
                 histVars>>

Flip(to) ==
  /\ Fault /\ switch # to /\ switch' = to
  /\ UNCHANGED <<ledger, halted, lock, binding, claim, passVars, gwVars, mailVars, childVars, histVars>>

\* clearOpenClawSubmission, rearmOpenClawWake, and the retention of terminal rows.
Clear(s) ==
  /\ lock = Free /\ Fault
  /\ ledger[s].state \in Open /\ Set(s, "cleared")
  /\ UNCHANGED <<halted, lock, switch, binding, claim, passVars, gwVars, mailVars, childVars, histVars>>

ClearHalt ==
  /\ lock = Free /\ halted /\ halted' = FALSE
  /\ UNCHANGED <<ledger, lock, switch, binding, claim, passVars, gwVars, mailVars, childVars, faults, histVars>>

Rearm(s) ==
  /\ lock = Free /\ Fault
  /\ ledger[s].state \in Terminal /\ ledger[s].sig # {}
  /\ ledger' = [ledger EXCEPT ![s].sig = {}]
  /\ excused' = excused \cup {s}
  /\ UNCHANGED <<halted, lock, switch, binding, claim, passVars, gwVars, mailVars, childVars, woke, gateHist>>

Prune(s) ==
  /\ lock = Free /\ Fault
  /\ ledger[s].state \in Terminal
  /\ ledger' = [ledger EXCEPT ![s].state = "pruned", ![s].sig = {}]
  /\ excused' = excused \cup {s}
  /\ UNCHANGED <<halted, lock, switch, binding, claim, passVars, gwVars, mailVars, childVars, woke, gateHist>>

-----------------------------------------------------------------------------
(* OpenClaw: the Gateway queues an input into the session that is current when
   it processes the request, and a turn consumes it.  A reset starts a session
   on another thread. *)

GatewayAccepts(s) ==
  /\ s \in inFlight /\ inFlight' = inFlight \ {s}
  /\ gw' \in {gw} \cup (IF session = 0 THEN {}
                        ELSE {[gw EXCEPT ![s] = [state |-> "pending", session |-> session]]})
  /\ UNCHANGED <<diskVars, passVars, session, mailVars, childVars, faults, histVars>>

GatewaySettles(s, st) ==
  /\ gw[s].state = "pending" /\ gw[s].session = session
  /\ gw' = [gw EXCEPT ![s].state = st]
  /\ proven' = IF st = "consumed" THEN proven \cup {session} ELSE proven
  /\ UNCHANGED <<diskVars, passVars, session, inFlight, mailVars, childVars, faults, wakeHist, movedBack>>

NewSession ==
  /\ session < MaxSessions /\ session' = session + 1
  /\ UNCHANGED <<diskVars, passVars, inFlight, gw, mailVars, childVars, faults, histVars>>

MailArrives ==
  /\ arrived < MaxMail /\ arrived' = arrived + 1
  /\ unread' = unread \cup {arrived + 1}
  /\ UNCHANGED <<diskVars, passVars, gwVars, childVars, faults, histVars>>

-----------------------------------------------------------------------------
(* OpenClawMailboxGate *)

Up(c) == reg[c] \notin {"leaving", "dead"}
IsMain(c) == Up(c) /\ reg[c] # "none"
Owns(c) == reg[c] \in {"read", "write", "registered", "second"}
Superseded(c) == binding # NoBinding /\ binding.thread # ThreadOf[c]

\* findSubmissionByToken: the tokens that the thread of a child has read and that
\* the ledger still vouches for.
Proofs(c) == {s \in Subs : /\ gw[s] = [state |-> "consumed", session |-> ThreadOf[c]]
                           /\ ledger[s].state \notin {"cancelled", "cleared", "pruned"}}

Newer(s) == binding = NoBinding \/ s > binding.proof

\* Mutant of Admit: the first child wins while there is no binding.
AdmitFirst(k) ==
  LET c == ChildOf[k]
  IN /\ cpc[k] = "idle" /\ Up(c) /\ binding \in {NoBinding, [binding EXCEPT !.thread = ThreadOf[c]]}
     /\ view' = [view EXCEPT ![k] = [thread |-> ThreadOf[c], proof |-> 0, peer |-> FALSE]]
     /\ cpc' = [cpc EXCEPT ![k] = "rebind"]
     /\ UNCHANGED <<diskVars, passVars, gwVars, mailVars, rowVars, reg, copy, faults, histVars>>

\* admit, up to the decision: a bound thread goes on, a newer proof rebinds,
\* every other call is refused.
Admit(k) ==
  LET c == ChildOf[k]
      t == ThreadOf[c]
  IN /\ cpc[k] = "idle" /\ Up(c) /\ switch # "killed"
     /\ \/ IsMain(c) /\ ~Superseded(c) /\ cpc' = [cpc EXCEPT ![k] = "await"] /\ UNCHANGED view
        \/ ~IsMain(c) /\ binding.thread = t /\ cpc' = [cpc EXCEPT ![k] = "claim"] /\ UNCHANGED view
        \/ /\ ~IsMain(c) /\ binding.thread # t
           /\ \E s \in Proofs(c) :
                /\ Newer(s)
                /\ view' = [view EXCEPT ![k] = [thread |-> t, proof |-> s, peer |-> binding.peer]]
           /\ cpc' = [cpc EXCEPT ![k] = "rebind"]
     /\ UNCHANGED <<diskVars, passVars, gwVars, mailVars, rowVars, reg, copy, faults, histVars>>

\* writeBinding replaces the file, whatever is in it by then.
Write(b) ==
  /\ binding' = b
  /\ movedBack' = (movedBack \/ b.proof < binding.proof)

\* The binding as the call decided it, although another call may have moved it since.
Rebind(k) ==
  /\ cpc[k] = "rebind"
  /\ Write(view[k])
  /\ view' = [view EXCEPT ![k] = NoBinding]
  /\ cpc' = [cpc EXCEPT ![k] = "claim"]
  /\ UNCHANGED <<ledger, halted, lock, switch, claim, passVars, gwVars, mailVars, rowVars, reg, copy,
                 faults, wakeHist, proven>>

\* tryAcquire succeeds for the owner itself, and for a free or dead owner's claim;
\* it is repeated until the deadline refuses the call.
TakeClaim(k) ==
  /\ cpc[k] = "claim"
  /\ \/ claim \in {Free, ChildOf[k]} /\ claim' = ChildOf[k] /\ cpc' = [cpc EXCEPT ![k] = "recheck"]
     \/ claim \notin {Free, ChildOf[k]} /\ UNCHANGED claim /\ cpc' = [cpc EXCEPT ![k] = "idle"]
  /\ UNCHANGED <<ledger, halted, lock, switch, binding, passVars, gwVars, mailVars, rowVars, reg, copy, view,
                 faults, histVars>>

\* Mutant of Released: the claim is dropped, whoever holds it.
ReleasedUnchecked(c) == Free

Released(c) == IF claim = c THEN Free ELSE claim

\* The binding may have moved while the call waited.
Recheck(k) ==
  LET c == ChildOf[k]
  IN /\ cpc[k] = "recheck"
     /\ IF binding.thread = ThreadOf[c]
        THEN /\ reg' = [reg EXCEPT ![c] = IF @ = "none" THEN "proven" ELSE @]
             /\ cpc' = [cpc EXCEPT ![k] = "await"] /\ UNCHANGED claim
        ELSE /\ claim' = Released(c)
             /\ cpc' = [cpc EXCEPT ![k] = "idle"] /\ UNCHANGED reg
     /\ UNCHANGED <<ledger, halted, lock, switch, binding, passVars, gwVars, mailVars, rowVars, copy, view,
                    faults, histVars>>

\* awaitRegistration: the first call starts it; a served call draws the mail, if the
\* broker still knows the session that the child registered.
Await(k) ==
  LET c == ChildOf[k]
  IN /\ cpc[k] = "await"
     /\ \/ /\ reg[c] = "proven" /\ reg' = [reg EXCEPT ![c] = "registering"]
           /\ UNCHANGED <<cpc, unread>>
        \/ /\ reg[c] \in {"registered", "second"} /\ cpc' = [cpc EXCEPT ![k] = "idle"]
           /\ unread' = IF row = c THEN {} ELSE unread
           /\ UNCHANGED reg
     /\ UNCHANGED <<diskVars, passVars, gwVars, arrived, rowVars, copy, view, faults, histVars>>

\* The broker gives the row to a child that asks for it by name once its holder is
\* dead or has sent no heartbeat for the reclaim cutoff, alive or not.
Reclaim(c) == (row = Free \/ stale) /\ row' = c /\ stale' = FALSE

\* Until it can have the row, the child drops the suffixed one and tries again.
Register(c) ==
  /\ reg[c] = "registering" /\ Reclaim(c)
  /\ reg' = [reg EXCEPT ![c] = "read"]
  /\ UNCHANGED <<diskVars, passVars, gwVars, mailVars, copy, callVars, faults, histVars>>

\* The peer id is added to the binding: read, compared, written.
ReadBinding(c) ==
  /\ reg[c] = "read"
  /\ IF binding.thread = ThreadOf[c]
     THEN copy' = [copy EXCEPT ![c] = binding.proof] /\ reg' = [reg EXCEPT ![c] = "write"]
     ELSE reg' = [reg EXCEPT ![c] = "registered"] /\ UNCHANGED copy
  /\ UNCHANGED <<diskVars, passVars, gwVars, mailVars, rowVars, callVars, faults, histVars>>

AddPeer(c) ==
  /\ reg[c] = "write" /\ reg' = [reg EXCEPT ![c] = "registered"]
  /\ Write([thread |-> ThreadOf[c], proof |-> copy[c], peer |-> TRUE])
  /\ copy' = [copy EXCEPT ![c] = 0]
  /\ UNCHANGED <<ledger, halted, lock, switch, claim, passVars, gwVars, mailVars, rowVars, callVars,
                 faults, wakeHist, proven>>

\* No heartbeat reaches the broker for the cutoff: the kill switch holds them back,
\* the owner is suspended, or it no longer sends them and has not exited yet.
RowGoesStale ==
  /\ row # Free /\ ~stale /\ stale' = TRUE
  /\ \/ switch = "killed" /\ UNCHANGED faults
     \/ Fault
  /\ UNCHANGED <<diskVars, passVars, gwVars, mailVars, row, reg, copy, callVars, histVars>>

\* The owner's timer; an owner that lost the row is told so, and registers again by
\* name, now content with a suffixed row of its own.
Heartbeat(c) ==
  /\ reg[c] = "registered" /\ switch # "killed"
  /\ \/ row = c /\ stale /\ stale' = FALSE /\ UNCHANGED <<row, reg>>
     \/ row # c /\ Reclaim(c) /\ UNCHANGED reg
     \/ row \notin {c, Free} /\ ~stale /\ reg' = [reg EXCEPT ![c] = "second"] /\ UNCHANGED rowVars
  /\ UNCHANGED <<diskVars, passVars, gwVars, mailVars, copy, callVars, faults, histVars>>

\* lifecycleCleanup: the timers stop and the claim is released, and in-flight calls
\* are lost; the row stays live until the process is gone.
Cleanup(c, to) ==
  /\ reg' = [reg EXCEPT ![c] = to] /\ copy' = [copy EXCEPT ![c] = 0]
  /\ claim' = Released(c)
  /\ IF row = c /\ to = "dead" THEN row' = Free /\ stale' = FALSE ELSE UNCHANGED rowVars
  /\ cpc' = [k \in Calls |-> IF ChildOf[k] = c THEN "idle" ELSE cpc[k]]
  /\ view' = [k \in Calls |-> IF ChildOf[k] = c THEN NoBinding ELSE view[k]]
  /\ UNCHANGED <<ledger, halted, lock, switch, binding, passVars, gwVars, mailVars, histVars>>

\* Every 5 s the owner looks whether the binding has moved, and stops.
StepDown(c) == Owns(c) /\ Superseded(c) /\ Cleanup(c, "leaving") /\ UNCHANGED faults
Exit(c) == reg[c] = "leaving" /\ Cleanup(c, "dead") /\ UNCHANGED faults

\* The row stayed live for 90 s: the child gives up and exits.
RegisterFails(c) ==
  reg[c] = "registering" /\ row # Free /\ ~stale /\ Cleanup(c, "dead") /\ UNCHANGED faults

ChildDies(c) == Up(c) /\ Fault /\ Cleanup(c, "dead")

\* OpenClaw starts another child for the thread.
Respawn(c) ==
  /\ reg[c] = "dead" /\ reg' = [reg EXCEPT ![c] = "none"]
  /\ UNCHANGED <<diskVars, passVars, gwVars, mailVars, rowVars, copy, callVars, faults, histVars>>

-----------------------------------------------------------------------------

PassStep(p) == \/ Describe(p) \/ Reconcile(p) \/ Proceed(p) \/ ReadInbox(p)
               \/ WriteIntent(p) \/ Send(p) \/ Acknowledge(p)
ChildStep(c) == Register(c) \/ ReadBinding(c) \/ AddPeer(c) \/ Heartbeat(c) \/ RegisterFails(c)
CallStep(k) == Rebind(k) \/ TakeClaim(k) \/ Recheck(k) \/ Await(k)

Next ==
  \/ \E p \in Procs : PassStep(p) \/ PassDies(p) \/ RunWakePass(p) \/ Bind(p) \/ ReconcileAgent(p)
  \/ ClearDeadLock \/ ClearHalt \/ NewSession \/ MailArrives \/ RowGoesStale
  \/ \E to \in {"on", "off", "killed"} : Flip(to)
  \/ \E s \in Subs : Clear(s) \/ Rearm(s) \/ Prune(s)
  \/ \E s \in Ids : GatewayAccepts(s) \/ \E st \in {"cancelled", "consumed"} : GatewaySettles(s, st)
  \/ \E k \in Calls : Admit(k) \/ CallStep(k)
  \/ \E c \in Children : ChildStep(c) \/ StepDown(c) \/ Exit(c) \/ ChildDies(c) \/ Respawn(c)

Spec == Init /\ [][Next]_vars

-----------------------------------------------------------------------------
(* Properties *)

Reached(s) == s \in inFlight \/ gw[s].state # "none"

\* Custody, not a cooldown: whatever the Gateway has, or may still get, is in the
\* ledger as open, unless an operator cleared it, and one submission is open at a
\* time, through lost answers, session resets, crashes of the pass and a switch
\* that is flipped in between.
KeepsCustody ==
  /\ Cardinality(OpenSubs) <= 1
  /\ \A s \in Ids : s \in inFlight \/ gw[s].state = "pending"
       => s \in Subs /\ ledger[s].state \in Open \cup {"cleared", "pruned"}

\* Each unread set is woken at most once, unless an operator re-armed it or the
\* record of the first wake was past its retention.
WokenOnce ==
  \A s, u \in Subs : s # u /\ Reached(s) /\ Reached(u) /\ woke[s] = woke[u] /\ woke[s] # {}
    => s \in excused \/ u \in excused

\* Name claim, peer row and ownership go only to children on a thread whose session
\* read a token of a submission; and while no older binding is written over a newer
\* one, an owner that the binding still names holds the name claim, so there is one
\* such owner: a token read again later, the claim that a second call releases under
\* its own child, a child that steps down and a row that is reclaimed change nothing.
OneProvenOwner ==
  /\ \A c \in Children : IsMain(c) \/ c \in {claim, row} => ThreadOf[c] \in proven
  /\ ~movedBack => \A c \in Children : IsMain(c) /\ ~Superseded(c) => claim = c
===============================================================================
