------------------------------ MODULE WakeDaemon ------------------------------
(***************************************************************************)
(* The Codex wake pass.  A pass reads the metadata of a peer's inbox and,  *)
(* when mail is unread, starts a turn on the peer's thread or steers the   *)
(* turn that runs.  The ledger remembers per set of unread mail what was   *)
(* tried, in files that a claim reads and writes without a lock; the       *)
(* observation log holds a wedged thread back.  Two passes may overlap:    *)
(* the loop's and the operator's `wake'.  One registered peer is modelled, *)
(* a set of mail stands for its signature, and the app-server, the user    *)
(* and the inbox are modelled from how the code uses them.                 *)
(***************************************************************************)
EXTENDS Naturals, FiniteSets

CONSTANTS
  Loop,         \* the daemon's loop, one pass after another
  Operators,    \* commands of an operator that run one pass each
  MaxAttempts,  \* length of the backoff schedule plus one
  MaxMail,      \* bound: messages to the peer
  MaxChanges,   \* bound: turns of the user, states that no wake is possible in
  MaxFaults     \* bound: passes that die, answers that are lost, days that go by

ASSUME WakeDaemonAssumption ==
  /\ MaxAttempts \in Nat \ {0} /\ Loop \notin Operators /\ IsFiniteSet(Operators)
  /\ {MaxMail, MaxChanges, MaxFaults} \subseteq Nat

VARIABLES
  thread,   \* state of the peer's thread; "down": the app-server does not answer
  unread,   \* unread ids in the inbox metadata
  arrived,  \* messages so far
  ledger,   \* record per set of unread mail
  held,     \* the observation log has the peer as wedged, in its cooldown
  pc, sig, prev,  \* step of a pass; its unread set; the record that its claim read
  changes, faults,
  \* history
  tried,    \* wakes sent, or that failed, per set while its record lasts
  answered, \* wakes of a set that the app-server acknowledged while its record lasts
  cut,      \* claims of a set that a dying pass left without a wake
  unnoted,  \* answers of a set that a dying pass did not note
  overtaken,\* claims of a set that wrote over a record changed since they read it
  woken     \* mail that a turn of the thread was told about

passVars == <<pc, sig, prev>>
histVars == <<tried, answered, cut, unnoted, overtaken, woken>>
boundVars == <<changes, faults>>
vars == <<thread, unread, arrived, ledger, held, passVars, boundVars, histVars>>

Passes == {Loop} \cup Operators
Mails == 1 .. MaxMail
Sets == SUBSET Mails
Status == {"none", "claimed", "nudged", "failed", "abandoned"}
WakeLedgerRecord == [status : Status, attempts : 0 .. MaxAttempts, age : {"new", "due", "day"}]
NoRecord == [status |-> "none", attempts |-> 0, age |-> "new"]

TypeOK ==
  /\ thread \in {"idle", "active", "parked", "wedged", "unloaded", "down"}
  /\ unread \in Sets /\ arrived \in 0 .. MaxMail
  /\ ledger \in [Sets -> WakeLedgerRecord]
  /\ held \in BOOLEAN
  /\ pc \in [Passes -> {"idle", "look", "claim", "write", "recheck", "steer", "again",
                        "start", "succeeded", "failed", "prune", "done"}]
  /\ sig \in [Passes -> Sets] /\ prev \in [Passes -> WakeLedgerRecord]
  /\ changes \in 0 .. MaxChanges /\ faults \in 0 .. MaxFaults
  /\ tried \in [Sets -> Nat] /\ answered \in [Sets -> Nat] /\ cut \in [Sets -> Nat]
  /\ unnoted \in [Sets -> Nat] /\ overtaken \in [Sets -> Nat]
  /\ woken \in Sets

Init ==
  /\ thread = "idle" /\ unread = {} /\ arrived = 0
  /\ ledger = [s \in Sets |-> NoRecord] /\ held = FALSE
  /\ pc = [p \in Passes |-> "idle"] /\ sig = [p \in Passes |-> {}]
  /\ prev = [p \in Passes |-> NoRecord]
  /\ changes = 0 /\ faults = 0
  /\ tried = [s \in Sets |-> 0] /\ answered = tried /\ cut = tried
  /\ unnoted = tried /\ overtaken = tried /\ woken = {}

-----------------------------------------------------------------------------
(* Helpers *)

Go(p, step) == pc' = [pc EXCEPT ![p] = step]
Sending == {"recheck", "steer", "again", "start"}
Wakeable(s) == s \in {"idle", "active"}

\* The log holds a wedged thread back; any other reason is only a line.
Annotate(reason) == held' = (reason = "wedged")

\* The pass leaves the peer; the records are pruned at its end.
Forget(p) == sig' = [sig EXCEPT ![p] = {}] /\ prev' = [prev EXCEPT ![p] = NoRecord]
Leave(p) == Go(p, "prune") /\ Forget(p)
GoOn(p, step) == Go(p, step) /\ UNCHANGED <<sig, prev>>

\* An unreachable app-server, or a state in which no wake is possible.
SkipThread(p) == Annotate(thread) /\ Leave(p)

\* A skipped claim is undone: the record is again what it was.
Release(p) == ledger' = [ledger EXCEPT ![sig[p]] = prev[p]]

\* The result of a wake starts a new record.
MarkAnew(s, status) ==
  ledger' = [ledger EXCEPT ![s] = [status |-> status, age |-> "new", attempts |-> 1]]

\* mark reads the record for its attempts and writes it with the time of now.
Mark(s, status) ==
  ledger' = [ledger EXCEPT ![s] = [status |-> status, age |-> "new",
    attempts |-> IF ledger[s].attempts = 0 THEN 1 ELSE ledger[s].attempts]]

Change == changes < MaxChanges /\ changes' = changes + 1
Fault == faults < MaxFaults /\ faults' = faults + 1

-----------------------------------------------------------------------------
(* A pass over the peer *)

Begin(p) ==
  /\ pc[p] = "idle"
  /\ sig' = [sig EXCEPT ![p] = unread]
  /\ Go(p, IF unread = {} THEN "prune" ELSE "look")
  /\ UNCHANGED <<thread, unread, arrived, ledger, held, prev, boundVars, histVars>>

\* recheckBackoff, thread/loaded/list and thread/read.
Look(p) ==
  /\ pc[p] = "look"
  /\ IF held THEN Leave(p) /\ UNCHANGED held
     ELSE IF Wakeable(thread) THEN GoOn(p, "claim") /\ UNCHANGED held
     ELSE SkipThread(p)
  /\ UNCHANGED <<thread, unread, arrived, ledger, boundVars, histVars>>

ReadRecord(p) ==
  /\ pc[p] = "claim"
  /\ prev' = [prev EXCEPT ![p] = ledger[sig[p]]]
  /\ Go(p, "write")
  /\ UNCHANGED <<thread, unread, arrived, ledger, held, sig, boundVars, histVars>>

\* A set that was woken is retried on the schedule like any other.
ClaimableNudged(r) == r.status = "none" \/ (r.attempts < MaxAttempts /\ r.age # "new")

\* Only a wake that is known to have failed is retried: a dead pass is not.
ClaimableFailed(r) ==
  r.status = "none" \/ (r.status = "failed" /\ r.attempts < MaxAttempts /\ r.age # "new")

\* A set is claimed when it has no record, or after its delay when a wake of it
\* did not succeed and attempts are left.
Claimable(r) ==
  \/ r.status = "none"
  \/ r.status # "nudged" /\ r.attempts < MaxAttempts /\ r.age # "new"

\* Attempts are used up, and that is not noted yet.
Exhausted(r) == r.status \notin {"none", "nudged", "abandoned"} /\ r.attempts >= MaxAttempts

\* The record may have changed since it was read: nothing is locked.
WriteClaim(p) ==
  /\ pc[p] = "write"
  /\ LET r == prev[p] IN
       IF Claimable(r)
       THEN /\ ledger' = [ledger EXCEPT ![sig[p]] =
                            [status |-> "claimed", attempts |-> r.attempts + 1, age |-> "new"]]
            /\ GoOn(p, "recheck") /\ UNCHANGED held
       ELSE /\ ledger' = IF Exhausted(r)
                         THEN [ledger EXCEPT ![sig[p]] = [r EXCEPT !.status = "abandoned", !.age = "new"]]
                         ELSE ledger
            /\ Annotate("refused") /\ Leave(p)
  /\ overtaken' = IF (Claimable(prev[p]) \/ Exhausted(prev[p])) /\ ledger[sig[p]] # prev[p]
                  THEN [overtaken EXCEPT ![sig[p]] = @ + 1] ELSE overtaken
  /\ UNCHANGED <<thread, unread, arrived, boundVars, tried, answered, cut, unnoted, woken>>

\* The thread is read again before anything is sent.
Recheck(p) ==
  /\ pc[p] = "recheck"
  /\ IF Wakeable(thread)
     THEN /\ GoOn(p, IF thread = "active" THEN "steer" ELSE "start")
          /\ UNCHANGED <<ledger, held>>
     ELSE Release(p) /\ SkipThread(p)
  /\ UNCHANGED <<thread, unread, arrived, boundVars, histVars>>

\* A wake that the app-server took reaches a turn; its answer may be lost.
Taken(p) ==
  /\ tried' = [tried EXCEPT ![sig[p]] = @ + 1]
  /\ woken' = woken \cup sig[p]
  /\ \/ /\ GoOn(p, "succeeded") /\ answered' = [answered EXCEPT ![sig[p]] = @ + 1]
        /\ UNCHANGED faults
     \/ GoOn(p, "failed") /\ Fault /\ UNCHANGED answered

Refused(p) ==
  /\ GoOn(p, "failed")
  /\ tried' = [tried EXCEPT ![sig[p]] = @ + 1]
  /\ UNCHANGED <<answered, woken, faults>>

\* turn/steer names the turn it was meant for, which may wait for the user by now;
\* when it has ended, nothing is sent and the thread is read once more.
Steer(p) ==
  /\ pc[p] = "steer"
  /\ \/ thread \in {"active", "parked"} /\ Taken(p)
     \/ /\ thread # "down" /\ GoOn(p, "again") /\ UNCHANGED <<tried, answered, woken, faults>>
     \/ thread = "down" /\ Refused(p)
  /\ UNCHANGED <<thread, unread, arrived, ledger, held, changes, cut, unnoted, overtaken>>

ReadAgain(p) ==
  /\ pc[p] = "again"
  /\ CASE thread = "idle" -> GoOn(p, "start") /\ UNCHANGED <<ledger, held>>
       [] thread = "down" -> Refused(p) /\ UNCHANGED <<ledger, held>>
       [] OTHER -> Release(p) /\ SkipThread(p)
  /\ thread # "down" => UNCHANGED <<faults, tried, answered, woken>>
  /\ UNCHANGED <<thread, unread, arrived, changes, cut, unnoted, overtaken>>

\* turn/start begins a turn, or appends to the one that a user began since.
StartTurn(p) ==
  /\ pc[p] = "start"
  /\ IF thread \in {"idle", "active", "parked"}
     THEN Taken(p) /\ thread' = (IF thread = "idle" THEN "active" ELSE thread)
     ELSE Refused(p) /\ UNCHANGED thread
  /\ UNCHANGED <<unread, arrived, ledger, held, changes, cut, unnoted, overtaken>>

MarkNudged(p) ==
  /\ pc[p] = "succeeded"
  /\ Mark(sig[p], "nudged") /\ held' = FALSE /\ Leave(p)
  /\ UNCHANGED <<thread, unread, arrived, boundVars, histVars>>

MarkFailed(p) ==
  /\ pc[p] = "failed"
  /\ Mark(sig[p], "failed") /\ Annotate("wake_failed") /\ Leave(p)
  /\ UNCHANGED <<thread, unread, arrived, boundVars, histVars>>

\* A command is over after its pass, the loop goes on.
Ends(p) == Go(p, IF p = Loop THEN "idle" ELSE "done") /\ Forget(p)

\* The pass ends: records older than a day go, and what they remembered with them.
Old(s) == ledger[s].age = "day"
Prune(p) ==
  /\ pc[p] = "prune"
  /\ ledger' = [s \in Sets |-> IF Old(s) THEN NoRecord ELSE ledger[s]]
  /\ tried' = [s \in Sets |-> IF Old(s) THEN 0 ELSE tried[s]]
  /\ answered' = [s \in Sets |-> IF Old(s) THEN 0 ELSE answered[s]]
  /\ cut' = [s \in Sets |-> IF Old(s) THEN 0 ELSE cut[s]]
  /\ unnoted' = [s \in Sets |-> IF Old(s) THEN 0 ELSE unnoted[s]]
  /\ Ends(p)
  /\ UNCHANGED <<thread, unread, arrived, held, boundVars, overtaken, woken>>

\* The process dies; the next pass is a new one.
Dies(p) ==
  /\ pc[p] \notin {"idle", "look", "claim", "done"} /\ Fault
  /\ cut' = IF pc[p] \in Sending THEN [cut EXCEPT ![sig[p]] = @ + 1] ELSE cut
  /\ unnoted' = IF pc[p] = "succeeded" THEN [unnoted EXCEPT ![sig[p]] = @ + 1] ELSE unnoted
  /\ Ends(p)
  /\ UNCHANGED <<thread, unread, arrived, ledger, held, changes, tried, answered, overtaken, woken>>

Pass(p) ==
  \/ Begin(p) \/ Look(p) \/ ReadRecord(p) \/ WriteClaim(p) \/ Recheck(p) \/ Steer(p)
  \/ ReadAgain(p) \/ StartTurn(p) \/ MarkNudged(p) \/ MarkFailed(p) \/ Prune(p)

-----------------------------------------------------------------------------
(* Around the passes *)

MailArrives ==
  /\ arrived < MaxMail
  /\ arrived' = arrived + 1 /\ unread' = unread \cup {arrived'}
  /\ UNCHANGED <<thread, ledger, held, passVars, boundVars, histVars>>

\* A tool call of the agent in a turn shows its mail.
AgentReads ==
  /\ thread = "active" /\ unread # {}
  /\ unread' = {}
  /\ UNCHANGED <<thread, arrived, ledger, held, passVars, boundVars, histVars>>

TurnEnds ==
  /\ thread = "active" /\ thread' = "idle"
  /\ UNCHANGED <<unread, arrived, ledger, held, passVars, boundVars, histVars>>

\* A user's turn, a prompt for the user, a failed turn, an unloaded thread, or
\* an app-server that hangs.
ThreadChanges ==
  /\ Change
  /\ \/ thread = "idle" /\ thread' \in {"active", "unloaded", "down"}
     \/ thread = "active" /\ thread' \in {"parked", "wedged", "down"}
  /\ UNCHANGED <<unread, arrived, ledger, held, passVars, faults, histVars>>

\* The user answers, or the session is bounced.
Recovers ==
  /\ thread \in {"parked", "wedged", "unloaded", "down"}
  /\ thread' = IF thread = "parked" THEN "active" ELSE "idle"
  /\ UNCHANGED <<unread, arrived, ledger, held, passVars, boundVars, histVars>>

\* The delays are minutes and a pass is over in seconds: time passes between passes.
Between == \A p \in Passes : pc[p] \in {"idle", "done"}
DelayPasses ==
  /\ Between
  /\ ledger' = [s \in Sets |-> IF ledger[s].status # "none" /\ ledger[s].age = "new"
                               THEN [ledger[s] EXCEPT !.age = "due"] ELSE ledger[s]]
  /\ held' = FALSE
  /\ <<ledger, held>>' # <<ledger, held>>
  /\ UNCHANGED <<thread, unread, arrived, passVars, boundVars, histVars>>

DayPasses ==
  /\ Between /\ Fault
  /\ ledger' = [s \in Sets |-> IF ledger[s].status # "none"
                               THEN [ledger[s] EXCEPT !.age = "day"] ELSE ledger[s]]
  /\ held' = FALSE
  /\ UNCHANGED <<thread, unread, arrived, passVars, changes, histVars>>

Next ==
  \/ \E p \in Passes : Pass(p) \/ Dies(p)
  \/ MailArrives \/ AgentReads \/ TurnEnds \/ ThreadChanges \/ Recovers
  \/ DelayPasses \/ DayPasses

\* The loop starts a pass every few seconds, a command that was started goes on,
\* turns end, a user comes back to a chat, and the passes leave gaps in which their
\* delays run out.
Fairness ==
  /\ WF_vars(Pass(Loop)) /\ \A p \in Operators : WF_vars(pc[p] # "idle" /\ Pass(p))
  /\ WF_vars(TurnEnds) /\ WF_vars(Recovers) /\ SF_vars(DelayPasses)

Spec == Init /\ [][Next]_vars
FairSpec == Spec /\ Fairness

-----------------------------------------------------------------------------
(* Properties *)

\* Attempts are wakes: a wake that was sent is paid for with an attempt of the set,
\* so the schedule bounds what a set of mail may cost while its record lasts, and a
\* claim that sends nothing spends nothing.  claim, release and mark interleave with
\* the thread's changes, with dying passes and with the other pass; each claim that
\* wrote over a record changed since it read it costs at most one wake more.
InClaim(s) == {p \in Passes : sig[p] = s /\ pc[p] \in Sending}
AttemptsAreWakes ==
  \A s \in Sets :
    /\ tried[s] <= ledger[s].attempts + overtaken[s]
    /\ overtaken[s] = 0 =>
         ledger[s].attempts <= tried[s] + cut[s] + (IF InClaim(s) = {} THEN 0 ELSE 1)

\* A set of mail that was woken successfully is not woken again while its record
\* lasts (the comment "One successful wake per unread set"), but for a pass that died
\* before it noted the success and for claims that overran each other.
WokenOnce == \A s \in Sets : answered[s] <= 1 + unnoted[s] + overtaken[s]

\* Again and again all unread mail has been told to the agent, or its set has used up
\* its attempts: no skip, cooldown, release or dead pass leaves mail waiting for ever.
MailIsWoken == []<>(unread \subseteq woken \/ ledger[unread].status = "abandoned")

===============================================================================
