------------------------------ MODULE DroidRelay ------------------------------
(***************************************************************************)
(* A managed Droid session: the relay between Factory's terminal UI and    *)
(* its daemon, which watches whose turns the engine holds, and the wake    *)
(* controller, which sends a prompt when there is unread mail and the      *)
(* relay says that the session is idle.  Frames travel in order, each way. *)
(***************************************************************************)
EXTENDS Naturals, FiniteSetsExt, SequencesExt

CONSTANTS
  Mails,       \* bound: ids of the peer's mail, 1 .. n
  Humans,      \* bound: prompts the person types, 1 .. n
  Schedule,    \* length of retryScheduleMs
  MaxFaults    \* bound: interrupts, deletions, refused prompts, closed sessions, failed starts

VARIABLES
  relay,             \* phase, humanTurns, startedTurns, working, wake pending
  toDaemon, toRelay, \* frames under way
  engine,            \* the turn it runs: outer request and what was coalesced; its queue
  typed,             \* prompts typed so far
  unread, sent,      \* the metadata file; newest mail
  controller,        \* tracked unread set, attempts, retry delay over
  poll,              \* the unread set that a poll under way has read, as a singleton
  told, wokenFor,    \* history: mail of the sets that were woken, set of the wake under way
  cancelled,         \* history: sets whose wake the person cancelled
  overtaken,         \* history: outstanding prompts that a notice of others' discard dropped
  faults             \* counter of the bound

engineVars == <<toDaemon, engine>>
mailVars == <<unread, sent>>
pollVars == <<poll, told, wokenFor>>
vars == <<relay, toDaemon, toRelay, engine, typed, mailVars, controller, pollVars, cancelled, overtaken, faults>>

Wake == 0    \* the request of a wake: one is outstanding at a time
Requests == Humans \cup {Wake}
Max1 == Schedule + 1
Frame(t, r) == [type |-> t, req |-> r]
Frames == [type : {"prompt", "delete", "interrupt", "close"}, req : Requests]
Notices ==
  [type : {"error", "created", "deleted", "discarded", "discarded_all", "completed", "cancelled", "idle", "closed"},
   req : Requests]

TypeOK ==
  /\ relay \in [phase : {"start", "loading", "binding", "bound", "closing", "stopped"}, humanTurns : SUBSET Humans,
                startedTurns : SUBSET Requests, working : BOOLEAN, wake : BOOLEAN]
  /\ toDaemon \in Seq(Frames) /\ toRelay \in Seq(Notices)
  /\ engine.outer \in Requests /\ engine.running \in SUBSET Requests /\ engine.queue \in Seq(Requests)
  /\ Cardinality(engine.running) + Len(engine.queue) = Cardinality(engine.running \cup ToSet(engine.queue))
  /\ typed \subseteq Humans /\ unread \subseteq 1 .. sent /\ sent \in Mails \cup {0}
  /\ controller \in [tracked : SUBSET Mails, attempts : 0 .. Max1, due : BOOLEAN]
  /\ poll \subseteq SUBSET Mails /\ Cardinality(poll) <= 1
  /\ told \subseteq Mails /\ wokenFor \subseteq Mails /\ cancelled \subseteq SUBSET Mails /\ overtaken \subseteq Humans
  /\ faults \in 0 .. MaxFaults

Untracked == [tracked |-> {}, attempts |-> 0, due |-> TRUE]

Init ==
  /\ relay = [phase |-> "start", humanTurns |-> {}, startedTurns |-> {}, working |-> FALSE, wake |-> FALSE]
  /\ toDaemon = <<>> /\ toRelay = <<>> /\ engine = [outer |-> Wake, running |-> {}, queue |-> <<>>]
  /\ typed = {} /\ unread = {} /\ sent = 0
  /\ controller = Untracked /\ poll = {} /\ told = {} /\ wokenFor = {}
  /\ cancelled = {} /\ overtaken = {} /\ faults = 0

Fault == faults < MaxFaults /\ faults' = faults + 1

-----------------------------------------------------------------------------
(* The relay *)

isBusy == relay.phase # "bound" \/ relay.working \/ relay.humanTurns # {} \/ relay.wake

close(r) ==
  [phase |-> "stopped", humanTurns |-> {}, startedTurns |-> {}, working |-> r.working, wake |-> FALSE]

\* The first load of a session: its owner lock is taken, the frame waits for
\* authentication; the answer is passed on before the binding is awaited.
LoadSession ==
  /\ \/ relay.phase = "start" /\ relay' = [relay EXCEPT !.phase = "loading"]
     \/ relay.phase = "loading" /\ relay' = [relay EXCEPT !.phase = "binding"]
  /\ UNCHANGED <<engineVars, toRelay, typed, mailVars, controller, pollVars, cancelled, overtaken, faults>>

sessionReady ==
  /\ relay.phase = "binding" /\ relay' = [relay EXCEPT !.phase = "bound"]
  /\ UNCHANGED <<engineVars, toRelay, typed, mailVars, controller, pollVars, cancelled, overtaken, faults>>

\* No binding in time, another session than the one asked for, a refusal: the host stops.
StartFails ==
  /\ relay.phase \in {"loading", "binding"} /\ Fault /\ relay' = close(relay)
  /\ UNCHANGED <<engineVars, toRelay, typed, mailVars, controller, pollVars, cancelled, overtaken>>

Open == relay.phase \in {"binding", "bound"}
Send(frame) == toDaemon' = Append(toDaemon, frame)

\* Mutant of suppressCurrentUnread: the retry delay starts, the attempts go on.
SuppressDelays == [controller EXCEPT !.due = FALSE]
suppressCurrentUnread == [controller EXCEPT !.attempts = Max1]

onCancel(cancels) ==
  IF cancels THEN controller' = suppressCurrentUnread /\ cancelled' = cancelled \cup {wokenFor}
  ELSE UNCHANGED <<controller, cancelled>>

add_user_message(h) ==
  /\ Open /\ h \notin typed /\ (\A k \in Humans \ typed : h <= k)
  /\ typed' = typed \cup {h} /\ relay' = [relay EXCEPT !.humanTurns = @ \cup {h}] /\ Send(Frame("prompt", h))
  /\ UNCHANGED <<toRelay, engine, mailVars, controller, pollVars, cancelled, overtaken, faults>>

Control == Open /\ Fault

resolve_queued_user_message(r) ==
  /\ Control /\ (r \in typed \/ (r = Wake /\ relay.wake)) /\ Send(Frame("delete", r))
  /\ UNCHANGED <<relay, toRelay, engine, typed, mailVars, controller, pollVars, cancelled, overtaken>>

interrupt_session ==
  /\ Control /\ onCancel(relay.wake) /\ Send(Frame("interrupt", Wake))
  /\ UNCHANGED <<relay, toRelay, engine, typed, mailVars, pollVars, overtaken>>

close_session ==
  /\ relay.phase = "bound" /\ Fault /\ relay' = [relay EXCEPT !.phase = "closing"] /\ Send(Frame("close", Wake))
  /\ UNCHANGED <<toRelay, engine, typed, mailVars, controller, pollVars, cancelled, overtaken>>

discardTurn(r, gone) ==
  [r EXCEPT !.humanTurns = @ \ gone, !.startedTurns = @ \ gone, !.wake = @ /\ Wake \notin gone]

\* Mutant of Outlived: a completion ends the turn it names and no other.
OutlivedOuter(r, outer) == {outer}

\* Mutant of Outlived: a completion leaves the session idle.
OutlivedAll(r, outer) == Requests

\* A completion ends the turn it names and every turn that was coalesced into it.
Outlived(r, outer) == {outer} \cup (r.startedTurns \cap r.humanTurns)

\* What a notice discards: the request it names, or all that have not started.
Discards(r, f) ==
  CASE f.type \in {"deleted", "discarded"} -> {f.req}
    [] f.type = "discarded_all" -> Requests \ r.startedTurns
    [] OTHER -> {}

Noticed(r, f) ==
  CASE f.type = "closed" \/ (f.type = "error" /\ f.req = Wake /\ r.wake) -> close(r)
    [] f.type = "error" /\ ~(f.req = Wake /\ r.wake) -> [r EXCEPT !.humanTurns = @ \ {f.req}]
    [] f.type = "created" ->
         [r EXCEPT !.working = TRUE,
                   !.startedTurns = @ \cup ({f.req} \cap (r.humanTurns \cup IF r.wake THEN {Wake} ELSE {}))]
    [] f.type = "idle" -> [r EXCEPT !.working = FALSE]
    [] f.type \in {"completed", "cancelled"} -> discardTurn(r, Outlived(r, f.req))
    [] OTHER -> discardTurn(r, Discards(r, f))

\* What the person typed and the engine still holds, or will when it arrives there.
Outstanding ==
  Humans \cap (engine.running \cup ToSet(engine.queue)
                \cup {f.req : f \in {g \in ToSet(toDaemon) : g.type = "prompt"}})

fromDaemon ==
  /\ toRelay # <<>>
  /\ LET f == Head(toRelay) IN
       /\ relay' = Noticed(relay, f)
       /\ onCancel(relay.wake /\ (Wake \in Discards(relay, f) \/ (f.type = "cancelled" /\ f.req = Wake)))
       /\ overtaken' = overtaken \cup IF f.type = "discarded_all" THEN Outstanding \ relay.startedTurns ELSE {}
  /\ toRelay' = Tail(toRelay) /\ wokenFor' = IF relay'.wake THEN wokenFor ELSE {}
  /\ UNCHANGED <<engineVars, typed, mailVars, poll, told, faults>>

-----------------------------------------------------------------------------
(* The wake controller *)

\* The claim and the metadata file are read, which takes time.
PollReads ==
  /\ relay.phase \notin {"start", "loading", "binding", "stopped"} /\ poll = {} /\ poll' = {unread}
  /\ UNCHANGED <<relay, engineVars, toRelay, typed, mailVars, controller, told, wokenFor, cancelled, overtaken, faults>>

Tracks(snapshot) ==
  IF snapshot = {} THEN Untracked
  ELSE IF snapshot = controller.tracked THEN controller
  ELSE [tracked |-> snapshot, attempts |-> 0, due |-> TRUE]

MayRetry(c) == c.attempts <= Schedule /\ c.due

pollOnce ==
  /\ poll' = {}
  /\ \E snapshot \in poll : LET c == Tracks(snapshot) IN
       IF snapshot = {} \/ isBusy \/ ~MayRetry(c)
       THEN controller' = c /\ UNCHANGED <<relay, toDaemon, told, wokenFor>>
       ELSE /\ controller' = [c EXCEPT !.attempts = @ + 1, !.due = FALSE]
            /\ relay' = [relay EXCEPT !.wake = TRUE] /\ Send(Frame("prompt", Wake))
            /\ told' = told \cup snapshot /\ wokenFor' = snapshot
  /\ UNCHANGED <<toRelay, engine, typed, mailVars, cancelled, overtaken, faults>>

RetryDelayEnds ==
  /\ ~controller.due /\ controller' = [controller EXCEPT !.due = TRUE]
  /\ UNCHANGED <<relay, engineVars, toRelay, typed, mailVars, pollVars, cancelled, overtaken, faults>>

-----------------------------------------------------------------------------
(* Factory's daemon *)

Tells(notices) == toRelay' = toRelay \o notices
Forget(r) ==
  LET k == CHOOSE k \in 1 .. Len(engine.queue) : engine.queue[k] = r
  IN [engine EXCEPT !.queue = RemoveAt(@, k)]

EngineTakes ==
  /\ toDaemon # <<>> /\ toDaemon' = Tail(toDaemon)
  /\ LET f == Head(toDaemon) IN
     \/ /\ f.type = "prompt"
        /\ \/ engine' = [engine EXCEPT !.queue = Append(@, f.req)] /\ UNCHANGED <<toRelay, faults>>
           \/ Fault /\ Tells(<<Frame("error", f.req)>>) /\ UNCHANGED engine
     \/ /\ f.type = "delete"
        /\ IF Contains(engine.queue, f.req)
           THEN engine' = Forget(f.req) /\ Tells(<<Frame("deleted", f.req)>>)
           ELSE UNCHANGED <<engine, toRelay>>
        /\ UNCHANGED faults
     \/ /\ f.type = "interrupt"
        /\ LET ended == IF engine.running = {} THEN <<>>
                        ELSE <<Frame("cancelled", engine.outer), Frame("idle", Wake)>> IN
           \/ engine' = [engine EXCEPT !.running = {}] /\ Tells(ended)
           \/ /\ engine.queue # <<>> /\ engine' = [engine EXCEPT !.running = {}, !.queue = <<>>]
              /\ Tells(<<IF Len(engine.queue) = 1 THEN Frame("discarded", engine.queue[1])
                         ELSE Frame("discarded_all", Wake)>> \o ended)
        /\ UNCHANGED faults
     \/ f.type = "close" /\ Tells(<<Frame("closed", Wake)>>) /\ UNCHANGED <<engine, faults>>
  /\ UNCHANGED <<relay, typed, mailVars, controller, pollVars, cancelled, overtaken>>

EngineStarts ==
  /\ engine.running = {} /\ engine.queue # <<>>
  /\ engine' = [outer |-> Head(engine.queue), running |-> {Head(engine.queue)}, queue |-> Tail(engine.queue)]
  /\ Tells(<<Frame("created", Head(engine.queue))>>)
  /\ UNCHANGED <<relay, toDaemon, typed, mailVars, controller, pollVars, cancelled, overtaken, faults>>

\* Input queued for the end of the turn may join the turn that runs.
EngineCoalesces ==
  /\ engine.running # {} /\ engine.queue # <<>>
  /\ engine' = [engine EXCEPT !.running = @ \cup {Head(engine.queue)}, !.queue = Tail(@)]
  /\ Tells(<<Frame("created", Head(engine.queue))>>)
  /\ UNCHANGED <<relay, toDaemon, typed, mailVars, controller, pollVars, cancelled, overtaken, faults>>

EngineCompletes ==
  /\ engine.running # {} /\ engine' = [engine EXCEPT !.running = {}]
  /\ Tells(<<Frame("completed", engine.outer), Frame("idle", Wake)>>)
  /\ UNCHANGED <<relay, toDaemon, typed, mailVars, controller, pollVars, cancelled, overtaken, faults>>

MailArrives ==
  /\ sent + 1 \in Mails /\ sent' = sent + 1 /\ unread' = unread \cup {sent + 1}
  /\ UNCHANGED <<relay, engineVars, toRelay, typed, controller, pollVars, cancelled, overtaken, faults>>

AgentReads ==
  /\ engine.running # {} /\ unread # {} /\ unread' = {}
  /\ UNCHANGED <<relay, engineVars, toRelay, typed, sent, controller, pollVars, cancelled, overtaken, faults>>

Running == relay.phase # "stopped"

\* A host that stops takes the daemon, the engine and the timers with it.
Next ==
  /\ Running
  /\ \/ LoadSession \/ sessionReady \/ StartFails \/ fromDaemon
     \/ (\E h \in Humans : add_user_message(h)) \/ (\E r \in Requests : resolve_queued_user_message(r))
     \/ interrupt_session \/ close_session
     \/ PollReads \/ pollOnce \/ RetryDelayEnds
     \/ EngineTakes \/ EngineStarts \/ EngineCoalesces \/ EngineCompletes \/ MailArrives \/ AgentReads

\* Frames arrive, the interval timer fires, and the engine comes to the end of a turn.
Fairness ==
  /\ WF_vars(LoadSession) /\ WF_vars(sessionReady) /\ WF_vars(Running /\ fromDaemon)
  /\ WF_vars(Running /\ PollReads) /\ WF_vars(Running /\ pollOnce) /\ WF_vars(Running /\ RetryDelayEnds)
  /\ WF_vars(Running /\ EngineTakes) /\ WF_vars(Running /\ EngineStarts) /\ WF_vars(Running /\ EngineCompletes)

Spec == Init /\ [][Next]_vars

-----------------------------------------------------------------------------
(* Properties *)

\* As long as the engine holds a prompt that the person typed, or it is on its way
\* there, the relay counts it, so that it does not look idle and no wake is sent;
\* except for a prompt that a batch of discarded ones overtook.
HumanTurnsTracked ==
  Running => Outstanding \subseteq relay.humanTurns \cup overtaken

\* A person's cancellation sticks: the unread set whose wake was cancelled, by an
\* interrupt or by deleting the queued prompt, is not woken again.
CancelSticks == [][~relay.wake /\ relay'.wake => wokenFor' \notin cancelled]_vars

\* Unread mail is read, or a wake is sent for it, unless a person cancelled a wake,
\* a prompt was overtaken, or the host stopped: no turn leaves the relay busy for ever.
MailIsWoken ==
  \A m \in Mails :
    m \in unread ~> \/ m \notin unread \/ m \in told
                    \/ cancelled # {} \/ overtaken # {} \/ relay.phase \in {"closing", "stopped"}
=============================================================================
