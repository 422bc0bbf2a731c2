---------------------------- MODULE HermesChatWake ----------------------------
(***************************************************************************)
(* The two executors that wake one Hermes chat, and the ledger file and    *)
(* lock they share.  The driver of the wake daemon launches a hermes       *)
(* client that runs one turn of a closed chat through the gateway; the     *)
(* plugin inside a Desktop host injects a prompt into a chat that is open  *)
(* there.  Both work from a snapshot of the broker's unread mail and       *)
(* settle what they started from what they find later.                     *)
(***************************************************************************)
EXTENDS Naturals, FiniteSets

CONSTANTS
  Mails,        \* bound: ids of the chat's mail, 1 .. n
  Launches,     \* bound: numbers of the clients, 1 .. n
  Wakes,        \* bound: numbers of the desktop wakes, 1 .. n
  MaxStarts,    \* bound: clients and desktop wakes together
  Hosts,        \* bound: Desktop hosts, 1 .. n, one after the other
  Ladder,       \* length of backoffScheduleMs
  MaxFaults,    \* bound: deaths, failures, hooks that do not run, operators that step in
  ForeignWork   \* somebody else may submit to the gateway for this chat

VARIABLES
  sent, got,    \* newest mail of the chat, newest that its agent read
  ledger,       \* the ledger file
  lock,         \* <ledger>.lock: free, driver, dead (its holder died)
  client,       \* of each launch: covers, process up, admission, exit, foreign admission
  dpc, dmax, dl,     \* driver: step, snapshot of max_id, ledger in memory
  wake,         \* of each desktop wake: covers, state in the host
  evidence,     \* of each desktop wake: what the hooks wrote
  ppc, pmax, pno,    \* plugin: step, snapshot of max_id, attempt in its hands
  host, up, open,    \* Desktop host: its number, alive, holds the chat's slot
  faults, touched    \* the bound's counter; history: an operator stepped in

mailVars == <<sent, got>>
driverVars == <<dpc, dmax, dl>>
pluginVars == <<ppc, pmax, pno>>
hostVars == <<host, up, open>>
vars == <<mailVars, ledger, lock, client, driverVars, wake, evidence, pluginVars, hostVars, faults, touched>>

States == {"done", "launched", "running", "waiting_desktop", "desktop_unknown", "waiting_turn",
           "waiting_gateway", "cooldown", "input_required", "exhausted", "cancelled", "not_found"}
Ids == Mails \cup {0}
Attempt == [no : Wakes \cup {0}, max : Ids, host : Hosts \cup {0}, state : {"none", "intent", "accepted", "unknown"}]
HermesChatWakeLedger ==
  [state : States, handled : Ids, launched : Ids, attempts : 0 .. Ladder + 1, next : {"none", "later", "due"},
   launch : Launches \cup {0}, attempt : Attempt]
Client ==
  [max : Ids, up : BOOLEAN, adm : {"none", "pending", "terminal"}, foreign : BOOLEAN,
   out : {"none", "done", "busy_desktop", "busy_turn", "input_required", "unknown", "not_found", "failed"}]
Wake == [max : Ids, state : {"none", "queued", "started", "ended", "lost"}]

TypeOK ==
  /\ sent \in Ids /\ got \in 0 .. sent
  /\ ledger \in HermesChatWakeLedger /\ dl \in HermesChatWakeLedger
  /\ lock \in {"free", "driver", "dead"}
  /\ client \in [Launches -> Client] /\ wake \in [Wakes -> Wake]
  /\ evidence \in [Wakes -> {"none", "started", "ended"}]
  /\ dpc \in {"idle", "wake", "busy", "save"} /\ dmax \in Ids
  /\ ppc \in {"idle", "consider", "inject", "accepted", "unknown", "not_submitted"}
  /\ pmax \in Ids /\ pno \in Wakes \cup {0}
  /\ host \in Hosts /\ up \in BOOLEAN /\ open \in BOOLEAN /\ (open => up)
  /\ faults \in 0 .. MaxFaults /\ touched \in BOOLEAN

NoAttempt == [no |-> 0, max |-> 0, host |-> 0, state |-> "none"]
emptyLedger ==
  [state |-> "done", handled |-> 0, launched |-> 0, attempts |-> 0, next |-> "none", launch |-> 0,
   attempt |-> NoAttempt]

Init ==
  /\ sent = 0 /\ got = 0 /\ ledger = emptyLedger /\ lock = "free"
  /\ client = [n \in Launches |-> [max |-> 0, up |-> FALSE, adm |-> "none", foreign |-> FALSE, out |-> "none"]]
  /\ dpc = "idle" /\ dmax = 0 /\ dl = emptyLedger
  /\ wake = [n \in Wakes |-> [max |-> 0, state |-> "none"]] /\ evidence = [n \in Wakes |-> "none"]
  /\ ppc = "idle" /\ pmax = 0 /\ pno = 0
  /\ host = 1 /\ up = TRUE /\ open = FALSE
  /\ faults = 0 /\ touched = FALSE

Fault == faults < MaxFaults /\ faults' = faults + 1
Larger(a, b) == IF a >= b THEN a ELSE b
Spawned == {n \in Launches : client[n].max # 0}
Injected == {n \in Wakes : n <= ledger.attempt.no \/ wake[n].max # 0}
Startable == Cardinality(Spawned) + Cardinality(Injected) < MaxStarts

DriverIdle == dpc' = "idle" /\ dmax' = 0 /\ dl' = emptyLedger
PluginIdle == ppc' = "idle" /\ pmax' = 0 /\ pno' = 0

-----------------------------------------------------------------------------
(* Settlement of a desktop attempt, the same in both executors *)

\* Mutant of Classify: an attempt whose host is gone or closed counts as handled.
ClassifyGone(a, stale) ==
  IF evidence[a.no] = "none" /\ a.host = host /\ open THEN "pending" ELSE "handled"

\* stale: DESKTOP_INTENT_PENDING_MS have passed since the intent.
Classify(a, stale) ==
  LET alive == up /\ a.host = host IN
  CASE evidence[a.no] = "ended" -> "handled"
    [] evidence[a.no] = "started" -> IF alive THEN "running" ELSE "unknown"
    [] OTHER -> IF alive /\ ((a.state = "intent" /\ ~stale) \/ (a.state = "accepted" /\ open))
                THEN "pending" ELSE "unknown"

\* Evidence or a registry that cannot be read is unknown.
Verdicts(a) == IF a.no = 0 THEN {"none"} ELSE {Classify(a, stale) : stale \in BOOLEAN} \cup {"unknown"}

Handled(l, max) == [l EXCEPT !.handled = Larger(@, max), !.launched = Larger(@, max)]

\* Mutant of ApplyVerdict: an attempt that nothing is known of is given up.
ApplyVerdictGivesUp(l, verdict) ==
  IF verdict = "unknown" THEN [l EXCEPT !.attempt = NoAttempt, !.state = "waiting_desktop"] ELSE l

ApplyVerdict(l, verdict) ==
  LET keep == IF l.state = "cancelled" THEN "cancelled" ELSE "waiting_desktop" IN
  CASE verdict = "handled" ->
         [Handled(l, l.attempt.max) EXCEPT !.attempts = 0, !.next = "none", !.attempt = NoAttempt,
            !.state = IF l.state = "cancelled" THEN @ ELSE "done"]
    [] verdict = "unknown" ->
         [l EXCEPT !.attempt.state = "unknown", !.state = IF @ = "cancelled" THEN @ ELSE "desktop_unknown"]
    [] verdict = "none" -> l
    [] OTHER -> [l EXCEPT !.state = keep]

-----------------------------------------------------------------------------
(* Settlement of a launch *)

\* A launch that failed goes up the ladder, and parks at its end.
Failed(l) ==
  LET n == l.attempts + 1 IN
  IF n > Ladder THEN [l EXCEPT !.attempts = Ladder + 1, !.next = "none", !.state = "exhausted"]
  ELSE [l EXCEPT !.attempts = n, !.next = "later", !.state = "cooldown"]

Overdue(l, past) == l.state \in {"launched", "running"} /\ l.launch # 0 /\ client[l.launch].up /\ past

\* The exit and the log decide; what they leave open, the newest admission to
\* the chat since the launch does.
reconcileLedger(l, past) ==
  LET c == client[l.launch]
      out == IF c.up \/ c.out = "none" THEN "unknown" ELSE c.out
      done == [l EXCEPT !.handled = Larger(@, c.max), !.attempts = 0, !.next = "none", !.state = "done"]
  IN IF l.state \notin {"launched", "running"} \/ l.launch = 0 THEN l
     ELSE IF c.up /\ ~past THEN [l EXCEPT !.state = "running"]
     ELSE CASE out \in {"unknown", "failed"} ->
                 IF c.adm = "pending" THEN [l EXCEPT !.state = "running"]
                 ELSE IF c.adm = "terminal" \/ c.foreign THEN done ELSE Failed(l)
            [] out = "done" -> done
            [] out = "busy_desktop" -> [l EXCEPT !.state = "waiting_desktop"]
            [] out = "busy_turn" -> [l EXCEPT !.state = "waiting_turn"]
            [] out = "input_required" -> [l EXCEPT !.next = "none", !.state = "input_required"]
            [] out = "not_found" -> [l EXCEPT !.state = "not_found"]

-----------------------------------------------------------------------------
(* The driver *)

\* The pass: the broker lists the chats that have unread mail.
DriverPass ==
  /\ dpc = "idle" /\ sent > got
  /\ dmax' = sent /\ dpc' = "wake"
  /\ UNCHANGED <<mailVars, ledger, lock, client, dl, wake, evidence, pluginVars, hostVars, faults, touched>>

DriverLockedOut ==
  /\ dpc = "wake" /\ lock # "free" /\ DriverIdle
  /\ UNCHANGED <<mailVars, ledger, lock, client, wake, evidence, pluginVars, hostVars, faults, touched>>

\* New mail resets the ladder and clears terminal states.
Reset(l) ==
  [l EXCEPT !.attempts = 0, !.next = "none",
            !.state = IF @ \in {"exhausted", "input_required", "cooldown", "not_found"} THEN "done" ELSE @]

Parked(l) ==
  \/ l.state = "done" /\ l.handled >= dmax
  \/ l.state \in {"input_required", "exhausted", "not_found"}
  \/ l.state = "cooldown" /\ l.next = "later"

\* Mutant of Owned: the driver does not look at an open desktop attempt.
OwnedByGateway(l) == l.state = "running"
Owned(l) == l.state = "running" \/ l.attempt.no # 0

\* wakeLocked up to its busy checks: what an earlier wake left is settled first.
DriverSettles ==
  /\ dpc = "wake" /\ lock = "free"
  /\ IF ledger.state = "cancelled"
     THEN DriverIdle /\ UNCHANGED <<ledger, lock, client>>
     ELSE \E past \in BOOLEAN, v \in Verdicts(ledger.attempt) :
            LET l1 == reconcileLedger(ledger, past)
                l2 == IF l1.state = "running" THEN l1 ELSE ApplyVerdict(l1, v)
                new == dmax > l2.launched
            IN /\ ledger' = l2
               /\ client' = IF Overdue(ledger, past) THEN [client EXCEPT ![ledger.launch].up = FALSE] ELSE client
               /\ IF Owned(l2) \/ (~new /\ Parked(l2))
                  THEN DriverIdle /\ UNCHANGED lock
                  ELSE dpc' = "busy" /\ lock' = "driver" /\ dl' = (IF new THEN Reset(l2) ELSE l2) /\ UNCHANGED dmax
  /\ UNCHANGED <<mailVars, wake, evidence, pluginVars, hostVars, faults, touched>>

Release == lock' = "free" /\ DriverIdle
Saves(state) == ledger' = [dl EXCEPT !.state = state] /\ Release

\* The busy checks, re-evaluated on every pass; the chat may also be gone.
DriverWaits ==
  /\ dpc = "busy"
  /\ \/ open /\ Saves("waiting_desktop") /\ UNCHANGED faults
     \/ ~open /\ Saves("waiting_turn") /\ UNCHANGED faults
     \/ ~open /\ (\E n \in Launches : client[n].adm = "pending") /\ Saves("waiting_gateway") /\ UNCHANGED faults
     \/ Fault /\ Saves("not_found")
  /\ UNCHANGED <<mailVars, client, wake, evidence, pluginVars, hostVars, touched>>

launch ==
  /\ dpc = "busy" /\ ~open /\ \A n \in Launches : client[n].adm # "pending"
  /\ \/ \E n \in Launches \ Spawned :
          /\ Startable /\ \A k \in Launches \ Spawned : n <= k
          /\ client' = [client EXCEPT ![n].max = dmax, ![n].up = TRUE]
          /\ dl' = [dl EXCEPT !.launch = n, !.launched = dmax, !.next = "none", !.state = "launched"]
          /\ dpc' = "save" /\ UNCHANGED <<ledger, lock, dmax, faults>>
     \/ Fault /\ ledger' = Failed(dl) /\ Release /\ UNCHANGED client
  /\ UNCHANGED <<mailVars, wake, evidence, pluginVars, hostVars, touched>>

DriverSaves ==
  /\ dpc = "save" /\ ledger' = dl /\ Release
  /\ UNCHANGED <<mailVars, client, wake, evidence, pluginVars, hostVars, faults, touched>>

\* The daemon dies; nothing reaps a lock that it held.
DriverDies ==
  /\ dpc # "idle" /\ Fault /\ DriverIdle
  /\ lock' = IF lock = "driver" THEN "dead" ELSE lock
  /\ UNCHANGED <<mailVars, ledger, client, wake, evidence, pluginVars, hostVars, touched>>

CooldownEnds ==
  /\ ledger.next = "later" /\ lock = "free" /\ ledger' = [ledger EXCEPT !.next = "due"]
  /\ UNCHANGED <<mailVars, lock, client, driverVars, wake, evidence, pluginVars, hostVars, faults, touched>>

\* reconcile, by itself: settles without waking.
reconcile ==
  /\ lock = "free"
  /\ \E past \in BOOLEAN, v \in Verdicts(ledger.attempt) :
       /\ ledger' = ApplyVerdict(reconcileLedger(ledger, past), v)
       /\ client' = IF Overdue(ledger, past) THEN [client EXCEPT ![ledger.launch].up = FALSE] ELSE client
  /\ UNCHANGED <<mailVars, lock, driverVars, wake, evidence, pluginVars, hostVars, faults, touched>>

-----------------------------------------------------------------------------
(* The plugin *)

settle_own ==
  /\ ppc = "idle" /\ up /\ lock = "free" /\ ledger.attempt.no # 0 /\ ledger.attempt.host = host
  /\ \E v \in Verdicts(ledger.attempt) : ledger' = ApplyVerdict(ledger, v)
  /\ UNCHANGED <<mailVars, lock, client, driverVars, wake, evidence, pluginVars, hostVars, faults, touched>>

tick ==
  /\ ppc = "idle" /\ up /\ sent > got
  /\ pmax' = sent /\ ppc' = "consider"
  /\ UNCHANGED <<mailVars, ledger, lock, client, driverVars, wake, evidence, pno, hostVars, faults, touched>>

Refuses(l) ==
  \/ l.state \in {"launched", "running"}
  \/ l.handled >= pmax
  \/ pmax <= l.launched /\ l.state \in {"input_required", "exhausted", "not_found"}
  \/ ~open

\* consider, up to the release of the lock: the intent is on disk.
consider ==
  /\ ppc = "consider"
  /\ \/ PluginIdle /\ UNCHANGED ledger  \* locked, or a gate is closed
     \/ /\ lock = "free" /\ ledger.state # "cancelled"
        /\ \E v \in Verdicts(ledger.attempt) :
             LET l == ApplyVerdict(ledger, v) IN
             IF l.attempt.no # 0 \/ Refuses(l)
             THEN ledger' = l /\ PluginIdle
             ELSE \E n \in Wakes \ Injected :
                    /\ Startable /\ \A k \in Wakes \ Injected : n <= k
                    /\ ledger' = [l EXCEPT !.state = "waiting_desktop",
                                    !.attempt = [no |-> n, max |-> pmax, host |-> host, state |-> "intent"]]
                    /\ pno' = n /\ ppc' = "inject" /\ UNCHANGED pmax
  /\ UNCHANGED <<mailVars, lock, client, driverVars, wake, evidence, hostVars, faults, touched>>

Raised == {"unknown"}

\* inject_message, after the gates were looked at once more: a chat that is not
\* hosted here is refused; a call that raised may have queued the wake.
inject ==
  LET Queue == wake' = [wake EXCEPT ![pno] = [max |-> pmax, state |-> "queued"]] IN
  /\ ppc = "inject"
  /\ \/ ppc' = "not_submitted" /\ UNCHANGED <<wake, faults>>
     \/ open /\ Queue /\ ppc' = "accepted" /\ UNCHANGED faults
     \/ open /\ Fault /\ (Queue \/ UNCHANGED wake) /\ ppc' \in Raised
  /\ UNCHANGED <<mailVars, ledger, lock, client, driverVars, evidence, pmax, pno, hostVars, touched>>

Settled(state) == IF ledger.state = "cancelled" THEN "cancelled" ELSE state

\* The result goes to the ledger, if the attempt is still there and the lock comes free in time.
record ==
  /\ ppc \in {"accepted", "unknown", "not_submitted"}
  /\ \/ lock # "free" /\ UNCHANGED ledger
     \/ lock = "free" /\ ledger.attempt.no # pno /\ UNCHANGED ledger
     \/ /\ lock = "free" /\ ledger.attempt.no = pno
        /\ ledger' = CASE ppc = "accepted" ->
                            [ledger EXCEPT !.attempt.state = "accepted", !.state = Settled("waiting_desktop")]
                       [] ppc = "unknown" ->
                            [ledger EXCEPT !.attempt.state = "unknown", !.state = Settled("desktop_unknown")]
                       [] OTHER -> [ledger EXCEPT !.attempt = NoAttempt, !.state = Settled("waiting_desktop")]
  /\ PluginIdle
  /\ UNCHANGED <<mailVars, lock, client, driverVars, wake, evidence, hostVars, faults, touched>>

\* An open attempt of this process whose marker is in the turn's own prompt.
Correlated(n) == ledger.attempt.no = n /\ ledger.attempt.host = host

on_pre_llm_call(n) ==
  /\ wake[n].state = "queued" /\ open
  /\ wake' = [wake EXCEPT ![n].state = "started"]
  /\ evidence' = IF Correlated(n) THEN [evidence EXCEPT ![n] = "started"] ELSE evidence
  /\ UNCHANGED <<mailVars, ledger, lock, client, driverVars, pluginVars, hostVars, faults, touched>>

\* A turn that was interrupted ends without the hook.
on_post_llm_call(n) ==
  /\ wake[n].state = "started"
  /\ wake' = [wake EXCEPT ![n].state = "ended"]
  /\ \/ evidence' = (IF Correlated(n) THEN [evidence EXCEPT ![n] = "ended"] ELSE evidence) /\ UNCHANGED faults
     \/ Fault /\ UNCHANGED evidence
  /\ UNCHANGED <<mailVars, ledger, lock, client, driverVars, pluginVars, hostVars, touched>>

-----------------------------------------------------------------------------
(* Operator *)

Operator == touched' = TRUE

cancel ==
  /\ Operator /\ Fault /\ lock = "free" /\ ledger' = [ledger EXCEPT !.state = "cancelled"]
  /\ UNCHANGED <<mailVars, lock, client, driverVars, wake, evidence, pluginVars, hostVars>>

uncancel ==
  /\ Operator /\ lock = "free" /\ ledger.state = "cancelled" /\ ledger' = [ledger EXCEPT !.state = "done"]
  /\ UNCHANGED <<mailVars, lock, client, driverVars, wake, evidence, pluginVars, hostVars, faults>>

clearDesktop(handled) ==
  /\ Operator /\ Fault /\ lock = "free" /\ ledger.attempt.no # 0
  /\ ledger' = [(IF handled THEN Handled(ledger, ledger.attempt.max) ELSE ledger) EXCEPT
                  !.attempt = NoAttempt, !.state = Settled(IF handled THEN "done" ELSE "waiting_desktop")]
  /\ UNCHANGED <<mailVars, lock, client, driverVars, wake, evidence, pluginVars, hostVars>>

ClearDeadLock ==
  /\ Operator /\ lock = "dead" /\ dpc = "idle" /\ ppc = "idle" /\ lock' = "free"
  /\ UNCHANGED <<mailVars, ledger, client, driverVars, wake, evidence, pluginVars, hostVars, faults>>

-----------------------------------------------------------------------------
(* Broker, gateway, Desktop *)

MailArrives ==
  /\ sent + 1 \in Mails /\ sent' = sent + 1
  /\ UNCHANGED <<got, ledger, lock, client, driverVars, wake, evidence, pluginVars, hostVars, faults, touched>>

AgentReads ==
  /\ got < sent /\ got' = sent
  /\ UNCHANGED <<sent, ledger, lock, client, driverVars, wake, evidence, pluginVars, hostVars, faults, touched>>

GatewayStep(n) ==
  /\ \/ client[n].up /\ client[n].adm = "none" /\ ~open /\ (\A k \in Launches : client[k].adm # "pending")
        /\ client' = [client EXCEPT ![n].adm = "pending"] /\ UNCHANGED faults
     \/ client[n].adm = "pending" /\ client' = [client EXCEPT ![n].adm = "terminal"] /\ UNCHANGED faults
     \/ ForeignWork /\ n \in Spawned /\ n + 1 \notin Spawned /\ client' = [client EXCEPT ![n].foreign = TRUE] /\ Fault
  /\ UNCHANGED <<mailVars, ledger, lock, driverVars, wake, evidence, pluginVars, hostVars, touched>>

\* A fault may end the client in any way.  Its exit code is no proof of a turn: code 0
\* with no admission, or with one that still runs, is read as `done' like any other.
ClientExits(n) ==
  /\ client[n].up
  /\ \/ \E out \in CASE client[n].adm = "none" -> {"busy_turn"} \cup (IF open THEN {"busy_desktop"} ELSE {})
                     [] client[n].adm = "pending" -> {"input_required"}
                     [] OTHER -> {"done"} :
          client' = [client EXCEPT ![n].up = FALSE, ![n].out = out]
        /\ UNCHANGED faults
     \/ Fault /\ \E out \in {"failed", "unknown", "none", "done"} \cup (IF client[n].adm = "none" THEN {"not_found"} ELSE {}) :
                   client' = [client EXCEPT ![n].up = FALSE, ![n].out = out]
  /\ UNCHANGED <<mailVars, ledger, lock, driverVars, wake, evidence, pluginVars, hostVars, touched>>

ChatOpens ==
  /\ up /\ ~open /\ open' = TRUE
  /\ UNCHANGED <<mailVars, ledger, lock, client, driverVars, wake, evidence, pluginVars, host, up, faults, touched>>

\* Closing the chat drops what is queued in it.
Dropped(states) == [n \in Wakes |-> IF wake[n].state \in states THEN [wake[n] EXCEPT !.state = "lost"] ELSE wake[n]]

ChatCloses ==
  /\ open /\ open' = FALSE /\ wake' = Dropped({"queued"})
  /\ UNCHANGED <<mailVars, ledger, lock, client, driverVars, evidence, pluginVars, host, up, faults, touched>>

HostDies ==
  /\ up /\ Fault /\ up' = FALSE /\ open' = FALSE /\ wake' = Dropped({"queued", "started"})
  /\ PluginIdle
  /\ UNCHANGED <<mailVars, ledger, lock, client, driverVars, evidence, host, touched>>

HostStarts ==
  /\ ~up /\ host + 1 \in Hosts /\ host' = host + 1 /\ up' = TRUE
  /\ UNCHANGED <<mailVars, ledger, lock, client, driverVars, wake, evidence, pluginVars, open, faults, touched>>

Next ==
  \/ DriverPass \/ DriverLockedOut \/ DriverSettles \/ DriverWaits \/ launch \/ DriverSaves
  \/ DriverDies \/ CooldownEnds \/ reconcile
  \/ settle_own \/ tick \/ consider \/ inject \/ record
  \/ \E n \in Wakes : on_pre_llm_call(n) \/ on_post_llm_call(n)
  \/ cancel \/ uncancel \/ (\E handled \in BOOLEAN : clearDesktop(handled)) \/ ClearDeadLock
  \/ MailArrives \/ AgentReads \/ (\E n \in Launches : GatewayStep(n) \/ ClientExits(n))
  \/ ChatOpens \/ ChatCloses \/ HostDies \/ HostStarts

Spec == Init /\ [][Next]_vars

-----------------------------------------------------------------------------
(* Properties *)

\* A turn that waits for a person's answer is parked, and one that its client reported
\* as complete is over as far as the code can know: neither is a wake any more.
InFlight(n) == client[n].up \/ (client[n].adm = "pending" /\ client[n].out \notin {"input_required", "done"})
TurnShown(n) == client[n].adm = "terminal" \/ client[n].foreign \/ client[n].out = "done"
InHost(n) == wake[n].state \in {"queued", "started"}

\* Unless an operator stepped in, no mail has two wakes in flight at once: not two
\* clients, not two prompts in the Desktop, and not one of each, although the two
\* executors share only a file and each acts after it gave up the file's lock.
OneWakePerMail ==
  ~touched =>
    /\ \A n, k \in Launches : n # k /\ InFlight(n) /\ InFlight(k) => client[n].max # client[k].max
    /\ \A n, k \in Wakes : n # k /\ InHost(n) /\ InHost(k) => wake[n].max # wake[k].max
    /\ \A n \in Launches, k \in Wakes : InFlight(n) /\ InHost(k) => client[n].max # wake[k].max

\* Mail that the ledger counts as handled was covered by a wake whose turn ended, or by
\* a launch since which some turn of the chat ended or whose client exited with code 0,
\* which the code takes for a turn; or an operator stepped in.
\* Deaths, a closed chat, time and missing evidence handle nothing.
HandledAfterATurn ==
  touched \/ ledger.handled = 0
    \/ (\E n \in Wakes : wake[n].state = "ended" /\ wake[n].max >= ledger.handled)
    \/ (\E n \in Launches : client[n].max >= ledger.handled /\ TurnShown(n))

\* While a prompt waits or runs in the Desktop, its attempt is open in the ledger, so
\* that newer mail does not wake the chat again; only an operator takes it away.
OpenWhileInHost ==
  [][\A n \in Wakes : InHost(n)' /\ ledger.attempt.no = n /\ ~touched' => ledger'.attempt.no = n]_vars
=============================================================================
