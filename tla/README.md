# agent-peers-mcp: specifications, checks and proofs

agent-peers-mcp lets coding agents (Claude Code, Codex, Hermes, Factory Droid,
OpenClaw) send each other messages. A broker per machine (SQLite and HTTP on
localhost) keeps peers and mail; an MCP server per session polls the broker and
shows mail to its model inside the answers of tool calls; daemons wake idle
sessions; brokers of several machines relay mail to each other.

This directory holds TLA+ modules of the parts where the order of steps decides
whether mail is lost, doubled or shown to the wrong reader, TLC configurations
that check them on small instances, and TLAPS proofs for all instances.

Run TLC on `MC<Module>.tla` with the `.cfg` file of the run, and `tlapm` on the
`*Proofs.tla` modules. `PROJECT.json` maps every definition to source lines and
lists the runs, a mutant per property, findings, hazards and theorems.

## 1. The system

| Component | State it keeps | Operations | Talks to |
|---|---|---|---|
| Broker (`broker.ts`) | `peers` (id, name, type, session token, last_seen, durable, mailbox_owner), `messages` (to, chat, acked, lease token and expiry), chat routes, conversations | register with reclaim and suffix ladder, heartbeat, unregister, send, poll, poll-chat, ack, rename, list, GC | everyone, HTTP on localhost |
| Federation (`shared/federation.ts`) | outbox, receipts, routes, sender snapshots | send with directory lookup, tick/relay, receive, complete, retry | brokers of other machines, HTTP |
| Turn delivery (`codex-server.ts`, `shared/delivery-state.ts`, `codex-inbox.ts`, `piggyback.ts`, `async-lock.ts`, `wait-for-peer-messages.ts`) | durable inbox file; presented, confirmed, promoted-at generations, pending acks, acked ids | tool call with piggyback, check_messages with wait, background poll, hook poll, rejoin | broker, MCP client over a pipe |
| Claude server (`claude-server.ts`) | durable inbox, `seen`, recently delivered, socket waker | poll and push, check_messages, rejoin | broker, MCP client |
| Launch claim (`wake-launch-claims.ts`) | claim file, lock file, `.reclaim` guard | create claim, tryAcquireRoot, bind, prune | sibling MCP children of one launch |
| Name claims (`hermes-claims.ts`) | lock file per name | tryAcquire, release | surfaces of a Hermes profile, OpenClaw gate, Droid session owner |
| Wake registry and daemon (`wake-registry.ts`, `wake-daemon.ts`) | registry entries with locks, ledger per unread set | register, unregister, claim, start or steer a turn, mark, release | Codex app-server |
| Hermes chat wake (`hermes-chat-wake.ts`) | ledger per chat: launches, desktop attempts, cooldown | wake, reconcile, clear | Hermes CLI, gateway, desktop plugin |
| OpenClaw (`openclaw-gate.ts`, `openclaw-wake-pass.ts`, `openclaw-state.ts`) | binding, submissions with custody state | admit, submit, reconcile | OpenClaw gateway |
| Droid (`droid-*.ts`) | launch claims, turn book-keeping of the relay, wake attempts | bind, prompt, relay frames | Factory daemon, TUI |
| Start-up (`ensure-broker.ts`, `shared-secret.ts`, `broker.ts`) | port, secret file | provision the secret, evict a squatter, yield | service manager |

What is hard here: messages travel as *leases* (at least once, with tokens that
expire) into a durable inbox, and leave it only when a later call *arrives* (the
evidence that the earlier response was taken), while polls, parallel calls,
aborts, lost answers, crashes and re-registrations interleave at every `await`;
processes elect owners with files and are killed between two system calls; a
relayed message crosses two databases that restart at different times.
`PROJECT.json` lists each of these places as a hazard at its line.

What makes each component correct:

* turn delivery: mail is confirmed only by a call that arrived after a response
  carrying it was built, acked only after that, dealt to one call at a time,
  never stranded, and never crosses chats;
* leases: an ack takes effect only with the current, unexpired token;
* federation: one insertion per message, a truthful outcome per message, and
  every message to a reachable machine settles;
* elections: at most one live owner; an owner's death does not block the next;
* broker peers: leases belong to the current session of a peer, mail follows the
  agent, members keep their owner's mailbox;
* Claude server: a message is acked only when it is durable, what was shown and
  confirmed is not shown again, and a session that says that it wakes itself
  announces everything it stores;
* wake daemon: the attempts of the ledger are the wakes that were sent, a set of
  mail is woken successfully once, and no skip or cooldown strands mail;
* wake registry: no operation undoes another's row, and a session that tells its
  model not to wait for mail is listed;
* Hermes chats: one wake in flight per mail over two executors, mail is handled
  only after a turn, and a prompt of unknown fate keeps its place in the ledger;
* OpenClaw: whatever the Gateway may still get is in the ledger as open, a set is
  woken once, and the mailbox goes only to a child that proved its session;
* Droid: one engine per session, the claim names the peer of the engine's child,
  no wake while a person's prompt is outstanding, and a cancelled wake stays so.

## 2. Modules

```
Custody            what delivery promises            RelayContract  what federation promises
   ^ refined by                                          ^ refined by
CodexDelivery --EXTENDS-- LeaseTable, DeliveryState   Federation
                (Messages)
ClaudeDelivery --EXTENDS-- LeaseTable                 Election       what a claim promises
               --INSTANCE- DeliveryState                 ^ refined by
                                                      RootClaim --EXTENDS-- LockFile
MailLeases         what mailboxes promise
   ^ refined by                                       HermesNameClaims --EXTENDS-- LockFile
Broker --EXTENDS-- LeaseTable                         WakeRegistry     --EXTENDS-- LockFile

WakeDaemon   OpenClaw   HermesChatWake   DroidRelay   DroidSession
```

`MC*` modules give constants their values. Three of them check two components
in one run: `MCLockFiles` (`RootClaim` and `HermesNameClaims`), `MCCustody`
(`OpenClaw` and `HermesChatWake`) and `MCLaunches` (`WakeRegistry` and
`DroidSession`). The two use different files and never meet, so a variable chooses
one of them in the initial state and the other stutters: the run is the two separate
checks. In `MCRelays` (`Federation` and `DroidRelay`) it is the constant `Between`, and
each has a run of its own. `*Proofs` modules extend the module they are about;
`LockFileProofs`, `LedgerWakeProofs`, `LaunchesProofs` and `RelaysProofs` extend
`MCLockFiles`, `MCCustody`, `MCLaunches` and `MCRelays`, and each is about both of its
components.

### 2.1 LeaseTable, DeliveryState, CodexDelivery

`LeaseTable` is the mail of one mailbox in the broker: `queued` rows, their
lease (`lease[m]` is the token of message `m`, tokens being pairs of message and
lease number) and whether the row is acked. `DeliveryState` is the class of that
name: `presented`, `confirmed`, the generation at which each presented message
was promoted, and the barrier of an arrival. `CodexDelivery` is a session:

| Action | Code |
|---|---|
| `Arrive`, `HookFetch`, `HookApply` | `withPiggyback` entry: the arrival barrier, then the hook of a call that waits for mail of its chat |
| `EnterLock`, `AcquireGeneral`, `AcquireChat` | `withPiggybackLock` (first in, first out) and STEP 0: which mailbox the call reads |
| `Confirm`, `Flush` | STEP 1: store pruned, acks enqueued, marked confirmed; pending acks sent, effect or answer lost |
| `InlinePoll`, `DrawFresh` | STEPs 2 and 3: `applyLeasedToQueue` of a poll under the lock; the draw; watermark prune; lock released |
| `Reply`, `Abort` | STEP 4, outside the lock: response built and promoted, or draws rolled back |
| `BgFetch`, `BgFetchLost`, `BgApply` | `pollBrokerIntoQueue`: fetched outside the lock, applied under it |
| `Crash`, `Restart` | process death anywhere; restart over the durable store, the reclaim clears the leases |
| `Evict`, `Rejoin`, `Migrate` | the broker collects the row; re-registration switches the store, then migrates it, without the lock |
| `Send`, `LeaseExpires` | the broker's other clients, and time |

What is abstracted: `pendingAcks` is a set of tokens and a trim drops any of
them; the limits (lease of 30 s, batch of 100, 500 pending acks, watermark slack
of 10000) are constants scaled down; an HTTP request always ends (the client has
a 15 s deadline), with its effect and with or without its answer; `Confirm` is
one step although the code awaits file writes in it, because it holds the lock
and no other step of the session reads the store without it, except the rejoin,
which has steps of its own; a restart reclaims its row by name, a rejoin always
gets a new id; a chat is identified with its resolved key, and a chat that the
broker does not know makes the call's key `null`. An abort is read where the
code reads it, after the response is built.

### 2.2 Custody

Honest at-least-once delivery of a mailbox: a message is accepted, offered in any
number of built responses, and closed (acked) only after it was offered at least
once; nothing else ends custody. `KeepsCustody` is the refinement, with
`queued`, `built` and `acked` of `CodexDelivery`.

### 2.3 LockFile, RootClaim, HermesNameClaims, Election

One lock path at the grain of system calls: a file is created empty by `wx` and
gets its content in a second step; rename and unlink act on the path, whatever
file is there by then. A process may be killed between any two calls, and its pid
reused. `isProcessAlive` answers for the pid, `EPERM` counting as alive.

`RootClaim` follows `tryAcquireRoot` (`Create`, `Write`, `Guard`, `Read`,
`Unlink`, `Drop`); the guard file is a second path. It is about one launch: claim
files and their pruning are left out, and disk errors other than `EEXIST` and
`ENOENT`. `HermesNameClaims` follows `tryAcquire` and `release`; `predates`
stands for the comparison of `acquired_at` with the start of the process that now
has the pid, without its tolerance of 2 s. `Election` is the abstract
specification: candidates take the office when no live one has it; `RootClaim`
implements it, and `HermesNameClaims` does not (section 3.3).
Two history variables say what has happened so far, for the properties that hold
only until then: `midway` (a child was killed inside its call) and `died` (a
surface died). `WakeRegistry` uses the same lock path with a guard of its own.

### 2.4 Federation, RelayContract

The origin (`authed`, `local`, `call`, the outbox, `relay` for the request in
flight of a row, `notices`), the destinations (`receipt`, `mail`, and whether the
broker is `old`) and the network (`late`: a request that the origin has given up
and that may still arrive).

| Action | Code |
|---|---|
| `Send`, `DirectoryAnswers` | `send`: `sendLocal`, directory lookup, `sendLocal` again, `enqueue` |
| `SessionEnds`, `LocalPeerChanges` | what may change while the lookup is awaited |
| `Tick` | `tick`: nothing running, the due rows `ORDER BY id LIMIT` |
| `Handle`, `HandleLate` | `handle` and `receive`: refusal of the envelope by an old broker, the recorded response, or insertion and receipt in one transaction |
| `Lose`, `LoseAnswer`, `Retry`, `BackOffEnds` | transport errors, 401, 503 and timeouts, all a failed relay; `retry` |
| `Complete` | `complete`, notice and status in one transaction, also for the 400 bounce; or its failure, and then `retry` |
| `DestinationRestarts`, `OriginRestarts` | tables stay, requests in flight are cut, an old destination may be upgraded |

A destination is upgraded but never rolled back. With a roll-back the model (and
the code) can bounce a message that was delivered, if the success answer was
lost first. The directory's answer is reduced to "one remote peer" or "no use";
`rememberRoute`, sender snapshots and chat lookup are left out. Back-off has no
clock: a row becomes due again at any time after it was retried.

### 2.5 Broker, MailLeases

The peers table and the mail of several peers, every route one SQLite
transaction. `rows` are the peers by id; a session token is the number of the
registration that issued it, `regs` in all. `LeaseTable` has the leases and acks,
`to` and `chatMail` say in whose mailbox a message lies and whether it is for a
chat. A process is `off`, `joining` (it has to register) or `up`.

| Action | Code |
|---|---|
| `Start`, `Exit` | a process starts; it ends and leaves its row, or unregisters it after a failed start-up |
| `Register` | `registerPeer`: reclaim of a stale or dead row of the name (`Reclaimable`), or a new row under a free name (`FreeNames`); `repointOrphanedMail` (`Orphaned`) and the clearing of leases; the answer arrives or is lost (`Answered`) |
| `Heartbeat` | `heartbeatPeer`, and the client's decision to register again |
| `Rename` | `renamePeer`: the links of the members follow |
| `Age`, `Sweep` | 60 s and 7 days without a sign of life; `gcStalePeers` |
| `Send`, `Notice` | `sendMessage` and `deliverRelayed` with `Target`, `Deliverable`; `deliverNotice`, which checks nothing |
| `Poll`, `AckMail`, `LeaseExpires` | `pollMessages` with `PollScope`, `ackMessages` with `Ackable` |

Time is three ages of a row, in any rhythm, `MaxLapses` times for a process that
runs. Of a deleted row the model remembers who had it and whether that process
has exited, for the property only. Left out: the sender's own row, chat routes and
titles (a message is for a chat of an owner or it is general), persona, summary
and capabilities, conversations, the retention of old messages, and the rule that
a sweep is skipped after the machine slept.

`MailLeases` is the abstract specification: a message is in the hands of at most
one reader, may be taken away at any time, and is closed only by the reader that
has it. `HonorsLeases` is the refinement; the holder is the process that got the
newest lease, while that lease is live.

### 2.6 ClaudeDelivery

The MCP server of a Claude Code session. `file[i]` is the inbox file of peer id `i`,
`store` and `prev` are the inbox objects of now and before the last rejoin (number,
peer id, what is unread in memory), `seen` the ids that this process stored, `ring`
the recently delivered messages, `pending` the waker's unannounced ones.

| Action | Code |
|---|---|
| `Poll`, `SeenRow`, `StoreRow`, `Push`, `AckRows` | `pollAndPushMessages`: a row known already is only acked; a new one is stored, then queued for the waker or pushed over the channel; one ack request at the end |
| `Flush` | the waker's notice, and the give-up after repeated failures |
| `Arrive`, `Confirm` | handler entry: arrival snapshot, removal of what earlier responses had shown |
| `Check`, `Build` | `check_messages` under its lock: ring, then store, then the response; an aborted one promotes nothing |
| `Rejoin`, `Carry`, `Drop`, `Restart` | re-registration: new inbox, copy of the old one, removal from it; process death |

One poll cycle runs at a time, as in the code; its rows are single steps, so a
call, a rejoin or a kill fits between any two. Drawing and promoting happen in one
step because no `await` separates them. A cycle with nothing to do is left out, the
time limit of the ring is its length limit, and the mode `none` acts as `channel`.
`SameId` says whether a rejoin may get the id that the session had before.
A bound in the guard of `Rejoin`: the removals queued on one inbox are over before the
next rejoin but one.

### 2.7 WakeDaemon

One registered peer, its Codex thread (`idle`, `active`, `parked`, `wedged`,
`unloaded`, `down`) and the files of the ledger and of the observation log. A set of
mail stands for its signature. Passes of the loop and of operators (each a `wake`
command, which runs one pass) interleave at every step.

| Action | Code |
|---|---|
| `Begin`, `Look` | the inbox metadata of a peer; back-off of a wedged thread; `thread/loaded/list`, `thread/read` |
| `ReadRecord`, `WriteClaim` | `WakeLedger.claim`: read, decide, write, without a lock |
| `Recheck`, `Steer`, `ReadAgain`, `StartTurn` | the second read and `wakeThread`: steer the turn that runs, or start one; a wake may be taken while its answer is lost |
| `MarkNudged`, `MarkFailed`, `Prune` | `mark`, the observation, and the records older than a day |
| `Dies`, `DelayPasses`, `DayPasses` and the rest | the pass is killed; time; the inbox, the user and the app-server |

Time is three ages of a record and passes between passes. A claim reads and writes the
record in two steps, as in the code; `mark`, which reads it for its attempts alone, is
one step here, and so are a release and a prune. `overtaken` counts the claims that
wrote over a record that had changed since they read it (section 3.3).

### 2.8 OpenClaw

Two halves over one binding file. The wake pass, the operator's bind and the status
command are processes that hold the ledger lock (`RunWakePass`, `Bind`,
`ReconcileAgent`, then `Describe` and `Reconcile`, which read the session and, an await
later, its receipts, `Proceed`, `ReadInbox`, `WriteIntent`, `Send`,
`Acknowledge`: `runOpenClawWakePass`, `submitLocked`, `reconcileLocked`). The gate
(`Admit`, `Rebind`, `TakeClaim`, `Recheck`, `Await`, then `Register`, `ReadBinding`,
`AddPeer`, `RegisterFails`, `StepDown`) lets a call of a child draw the mailbox after
the token of a submission proved that its thread runs the main session. The peer row
goes to a child that asks for it by name when its holder is dead or sent no heartbeat
for the reclaim cutoff (`RowGoesStale`, `Reclaim`); the `Heartbeat` of a holder refreshes
the row, and that of an owner that lost it takes it back or gets a suffixed one. Operator
decisions (`ClearDeadLock`, `Clear`, `ClearHalt`, `Rearm`, `Flip`) and the retention
(`Prune`) are actions; the Gateway accepts, settles or forgets an input at its own
pace (`GatewayAccepts`, `GatewaySettles`, `NewSession`). A request that left the
process may be accepted at any later time, whatever the process heard of it. The name
claim is atomic here, because `HermesNameClaims` has its protocol, and a process that
is gone counts at once. The history variables `proven` and `movedBack` remember which
threads read a token, and whether an older binding was written over a newer one.

### 2.9 HermesChatWake

One chat and two executors that share a ledger file and its lock: the driver of the
daemon (`DriverPass`, `DriverSettles`, `DriverWaits`, `launch`, `DriverSaves`,
`reconcile`: `wake`, `wakeLocked`, `reconcileLedger`, `classifyDesktopAttempt`) starts
Hermes clients, which reach a turn through the gateway; the plugin inside a Desktop host
(`tick`, `consider`, `inject`, `record`, `settle_own` and the two hooks) injects
prompts. Message ids grow, so the snapshot of the unread mail is its newest id.
`evidence` is what the hooks wrote for a wake; hosts, clients and gateway work end in
every way the code distinguishes. Left out: general mail (a chat is created for it),
the lineage of a profile and its directory, and the skip of a chat with leased mail.
`foreign` is work of others that ended in the chat since a launch. A client may exit in
any way, also with code 0 and no admission of its own, or one that still runs
(`TurnShown`, section 3.3).

### 2.10 DroidRelay

Frames between Factory's terminal UI and its daemon pass the relay
(`DroidNativeRelay`), which counts the person's turns and the wake under way
(`fromDaemon`, `add_user_message`, `resolve_queued_user_message`, `interrupt_session`,
`close_session`); the wake controller of the launcher (`PollReads`, `pollOnce`,
`RetryDelayEnds`) sends a prompt when the relay is idle. The engine is external:
it queues, starts, coalesces, completes, cancels and discards prompts, and tells so
in order. Compaction's `working` notice and the second, headless client are left out.

### 2.11 DroidSession

A launcher (`createClaim`, `tryAcquire`, `ScanClaims`, `LoadSession`, `waitForBinding`,
`setSessionId`, `LauncherStops`, `LauncherDies`) and the MCP child of its engine
(`Register`, `bindClaim`, `McpExits`, `McpReplaced`) write one launch claim under an
update lock that is never stolen, and the saved session that a later launcher resumes.
The owner lock of a session is atomic here; `HermesNameClaims` has its protocol. A
crashed launcher's engine ends with its pipe, its MCP child later.

### 2.12 WakeRegistry

`wake-registry.json` as a set of rows, its lock with the guarded reclaim
(`acquireFileLock`, `WriteOwner`, `TakeGuard`, `ReadOwner`, `reclaimDeadLock`,
`DropGuard`, `readStateFromDisk`, `persistState`, `Release`), and its writers: MCP
children of one managed launch, which elect a root (the abstract election that
`RootClaim` implements) and register; desktop chats, which bind to the thread of their
first call (`observe`, `ObserveOther`); the daemon's prune and the CLI's removal
(`RunTool`). `runWakeableLauncher` starts the app-server, opens the TUI and stops both.
`QuickExits` allows a process to end while a reclaimer that read its record has not yet
probed it (section 3.3).

## 3. Runs

Every run but the two `violation` ones passes. `CHECK_DEADLOCK FALSE` is used where
all calls of the instance may be over.

| Run | Bounds | Question |
|---|---|---|
| `codex` | 2 messages, general and of one chat, 2 lanes of calls and 3 calls in all, 2 leases per message, batch 1, slack 0, 1 pending ack, a background poll, expiry, lost answers, write failures, one crash | custody (refines `Custody`), single dealing, causality of confirms, a call confirms its own mailbox only, nothing is stranded, what leaves the inbox stays out |
| `rejoin` | 2 calls, general mail, one eviction and re-registration under way | a confirmed id stays confirmed through the migration; every call ends |
| `locks` | launch: 3 children, 2 attempts, kills at every step, reused pids; name: 3 surfaces, 3 attempts, owners die | one live root, replaced when dead, every call returns, refines `Election`; one holder of a name until somebody dies |
| `broker` | 2 sessions that want one durable name, a member of it, 2 starts, one lapse, one rename or lost answer, one message, 2 leases | leases belong to the current session; mail follows its agent; members stay linked; refines `MailLeases` |
| `federation` | an explicit send, of a kind an old broker refuses, to a machine that never answers, and a bare one to a machine that does; 2 restarts | truthful notices and outcomes, local before remote, every message to the live machine settles; refines `RelayContract` |
| `claude` | 2 messages, 2 leases each, 2 calls in flight, 2 responses with mail, ring of 1, notices of 1, one rejoin, one fault (write, push, notice, ack, abort or kill) | custody; no confirmed message is shown again; a self-waking session announces what it stores |
| `wake` | 2 messages, 2 attempts, the loop and an operator's one pass, interleaved in the claim too, one change of the thread by the user, one fault (death, lost answer, a day) | attempts are wakes and a set has one success, both up to overrun claims and unnoted answers; mail is told or its attempts are spent |
| `custody` | OpenClaw's ledger: 2 processes, 2 sessions, 2 submissions, one message, one call, one fault or decision. Its gate: 2 children on 2 sessions, 3 calls (2 of one child), 2 binds, one death or heartbeat that stops. Hermes: 2 messages, 2 starts of a client or a prompt, 2 hosts, ladder of 1, one fault or decision | nothing of unknown fate is forgotten or repeated; claim, row and ownership only for proven threads, and the bound owner keeps the claim; one wake per mail, handled means a turn, a prompt in the host keeps its attempt |
| `droid` | 2 messages, 2 prompts of a person, one retry, one fault or control of the person | prompts are counted, a cancelled wake stays cancelled, mail is told |
| `launches` | registry: 2 children of a launch, a desktop chat, a tool, 3 peer ids, one kill or failed app-server. Droid: 2 launchers, 2 peer ids, 2 faults | rows survive others' operations, a wakeable session is listed; one engine per session, the claim names its peer |

In `custody`, a variable chooses what a behaviour is about. The constraint `Halves`
gives the two parts of `OpenClaw` instances of their own, since their product is out of
TLC's reach: `wake` has every fault of a pass, and one child with one call at a time,
which starts while no pass runs; `gate` has all children and calls at every moment of a
bind, a death and a row that goes stale, and neither mail nor switch nor operator. The
theorems are about `OpenClaw` without it. `UntilOperator` stops the Hermes part after
an operator stepped in, because its three properties are about what happens without one.

Why the bounds suffice: each hazard needs two actors and one repetition, so two
calls, children, passes or sends, one of everything that is lost, and a third actor
where a second reclaimer is the point. Slack 0 with two messages, one pending ack, a
ring of one and notices of one put these limits inside the instance. `broker` has one
message, because order and batches within a mailbox are the subject of the other runs
of `LeaseTable`; the limit on queued mail is therefore translated, and not
exercised. The inductive invariants, proved for all values, show that nothing more
hides behind the bounds for the properties in section 4. `LIMIT` of a relay round is
not reached by two rows: what it does to fairness depends on the delays of the
back-off, and the model has no clock.

`TypeOK` of a module documents the values of its variables. It is in no run; for the
modules of section 4 it is proved.

### 3.1 Violations

Each is a disagreement between the code and what a comment says of it.

| Run | What happens |
|---|---|
| `unreadable_chat` | a call naming a chat that cannot be read confirms the mail of every chat |
| `same_id` | a Claude session whose row was taken over, and given back, rejoins under its own id: the copy into the "new" inbox and the removal from the "old" one are the same file, so the mail in it is lost (the Codex server compares the ids at codex-server.ts:1349, and does not) |

### 3.2 Fairness

* `rejoin`: weak fairness of each call's next step or reply, and of the
  background apply. The event loop runs every continuation that is ready, every
  HTTP request and file operation ends, and the wait ends at its deadline. No
  fairness of arrivals, aborts, polls or mail.
* `locks`: weak fairness of each child's next system call, for the launch only.
  Nothing for crashes and new processes.
* `federation`: weak fairness of the worker (its timer fires every second, a
  request ends by its timeout, a back-off ends). Strong fairness, for reachable
  machines only, that a request retried forever is handled, and its answer
  settled, at some time: both can be disabled by a loss again and again, which
  is what "reachable" excludes in the long run.
* `wake`: weak fairness of the loop's steps (a supervisor starts a pass every few
  seconds), of those of a command that was started, of a turn's end and of a chat that
  its user comes back to; strong fairness of delays that run out in the gaps between
  passes. Commands, mail, reads and deaths are not fair.
* `droid`: weak fairness of frames, of the poll timer and its delay, of the load of
  the session, and of the engine: it takes, starts and completes. Nothing for the
  person, faults and mail.

### 3.3 What the properties except, and why

Modelling met places where the code does not do what a comment or document says.
Two have a run of their own (above). The others bound a property, in the property
itself, by a history variable, or by a constant, and are listed with their lines:

* **Turn delivery.** A response is promoted before the client takes it
  (codex-server.ts:634), so a response that is never taken is confirmed by the next
  call; custody therefore counts *built* responses. The migration of a rejoin brings
  back a message that was confirmed meanwhile (codex-server.ts:1354), so
  `ConfirmedLeavesInbox` is checked without evictions.
* **Launch claim.** A child killed while it holds the reclaim guard strands the launch
  (wake-launch-claims.ts:198): `LosesOnlyToLive` says "until `midway`".
* **Name claims.** Two reclaimers of one dead owner can both own the name, the second
  renaming the first's new lock (hermes-claims.ts:95): `SoleHolder` says "until
  `died`". The OpenClaw gate and the Droid owner lock use this code.
* **Broker.** `MailFollowsAgent` excepts two cases, in which mail is left behind: the
  row of a registration whose answer was lost, once it is collected; and a notice for
  a collected row whose agent has registered anew. A fallback name becomes durable
  when its session registers again under it (broker.ts:709).
* **Claude.** Mail that a killed self-waking process had not announced waits for the
  next call: `WakesWhatItStores` is about one process.
* **Wake daemon.** docs/wake-daemon.md:36 says that the ledger "fires one nudge per
  unread set and never re-wakes a set it woke successfully"; but
  `claim` reads the record and writes it with no lock (shared/wake-daemon.ts:365-409), so
  the loop and an operator's `wake` may both claim a set: it is woken twice on one
  attempt, and a release of the one takes the other's record with it. `AttemptsAreWakes`
  and `WokenOnce` say that each such claim (`overtaken`) costs one wake at most, and are
  exact while there is none. A record is forgotten after a day, and its set is woken
  again (424-444): the properties count per record. A pass that dies between a wake and
  its mark leaves a success that nobody noted: `WokenOnce` counts these (`unnoted`).
* **Hermes.** A cancellation that is lifted at once, or lands between the plugin's check
  and its injection, does not stop the prompt; foreign work in a chat counts as the
  launch's turn (hermes-chat-wake.ts:1032-1039); a launch that waits for a person's
  input is reset by newer mail. Exit code 0 counts as a turn (hermes-chat-wake.ts:684),
  although the header says that the code is never the truth (25-26): mail may be marked
  handled without one. `touched`, `foreign`, `InFlight` and `TurnShown` say so.
* **OpenClaw.** The header of openclaw-gate.ts (20-21) says that a later read of an old
  token cannot move the binding back. It does when two calls of different children decide
  on the same binding and write one after the other (108-130), or when a registration
  writes the binding that it read earlier (159-163): `movedBack`. Until then
  `OneProvenOwner` says that an owner whom the binding names has the claim; afterwards
  two owners may follow each other, or one go on without the claim, and only threads
  that proved themselves come in. A parallel call of a child that fails its recheck
  releases the claim that another call of it took (147-152, 186-189), which is harmless
  until then because the child is superseded. A second owner may hold a reclaimed row
  while the first steps down; the row serves one session at a time (`Broker`). An intent
  that was withdrawn before it was sent still stands for its set.
* **Droid relay.** A cancellation also suppresses mail that came after the wake
  (droid-launcher.ts:300-303): `MailIsWoken` excepts it. A notice that a batch was
  discarded makes the relay forget prompts that are still on their way
  (droid-native-relay.ts:150-155): `overtaken`.
* **Droid session.** Two launchers that start together may refuse each other. The
  update lock of a writer that died is not stolen, and the launch ends. An MCP child
  that outlives its launcher may overwrite the saved session: `orphan`.
* **Wake registry.** `reclaimDeadLock` unlinks the path, not the lock it read, and the
  writer that wrote the lock may have finished, and exited, since: then a living
  writer's lock goes, and with it the exclusion (shared/wake-registry.ts:60-72). It takes
  an exit between a read and a probe of one reclaimer: the run sets `QuickExits` to
  `FALSE`. The grace of a row and read errors that count as an empty file are as coded.

## 4. Proofs

All with `tlapm`, for every value of the constants that meets the module's named
assumption (finite sets of actors, sorts of the constants). Where a theorem needs
more, it is an `ASSUME` of the theorem, and named below. TLC checked every inductive
invariant on the instances of section 3 before it was proved.

**CodexDeliveryProofs.** `TypeCorrect`; the inductive invariant
`IInv == TypeOK /\ Evidence /\ DealtOnce /\ HoldsQueued /\ BarrierAtEntry`
(`Safety`). `DealtOnce` and the ack property are not inductive alone: an ack
needs `Evidence` (what is presented, confirmed or pending was in a built
response), a deal needs `HoldsQueued` (what a call holds is in the store, so no
other call takes it), causality needs `BarrierAtEntry` (the barrier of a call is
not above the generation of its arrival). From it: `AckIsHonest`, `NoDoubleDeal`,
`NothingStranded`, `ArrivalCausality` and `Refinement` to `Custody`.
A second invariant, `UnreadUntilConfirmed`, says that until the first eviction what
is drawn or presented is still in the store, and what is confirmed is not: it gives
`ConfirmedIsRead` and, with `KeyAcquired` (a call that confirms has its mailbox),
`OwnChat`. The latter assumes `MaxEvictions = 0`: after an eviction the store of the
new identity is empty until it is migrated, and a message that is not found there
counts as general. `ConfirmedForGood` assumes `SlackCovers`, that the ids in play are
no further apart than the watermark slack (10,000 in the code, whose mailboxes hold
500 and whose polls bring 100).

**LockFileProofs** (extends `MCLockFiles`, to have both elections). For the launch,
`IInv` adds to `TypeOK`: one process inside the guard at most (`GuardedByOne`), a
writer still owns the file it created (`WriterOwnsLock`), an own verdict stands while
the guard is held (`OwnVerdictHolds`), and who is about to unlink has read a dead
owner that is still there (`ReclaimsLoser`); the last is where the guard is needed.
From it `RootIsSafe`, `OneRoot`, `Refinement` to `Election`, with crashes at every
step and reused pids, and with `Attended` (a guard or an empty lock belongs to a child
that is still at work, until one is killed inside its call) `LossIsJustified`. For the
names, `NamesOwner` (until a death the lock is that of whoever writes or owns it, and
nobody renames) gives `NameHasOneOwner`, and `VouchedFor` (a lock younger than the
process with its pid is that of a process that owns the name or is writing)
gives `NameLossIsJustified`. That one assumes that no process dies between creating
its lock file and writing it (`"write" \notin NameCrashPoints`, as in the run
`locks`): the code takes an empty file for a live owner's, and keeps it for ever.

**RelaysProofs** (extends `MCRelays`). For `Federation` the invariant is proved row by
row (`RowInv`): copies match the receipt, the answer at the origin is the recorded one,
only pending rows are relayed, and a refused message is `Doomed`: its destination is
still old, or no request of it is left on its way. `Doomed` is what makes the 400 bounce
safe, and needs that a restart cuts the requests of the old version. From it `OneCopy`,
`TruthfulNotices`, `QueuesOnlyRemote` and `Refinement` to `RelayContract`.
For `DroidRelay`, `CancelInv` follows the unread set from one poll to the next: ids grow
and the agent reads all it has, so a set that is not the unread one now, nor in the hands
of a poll, never is again (`NeverAgain`); a cancelled set is such a set or is the tracked
one at the end of its schedule (`CancelledStay`), and so would be that of the wake under
way (`WakeIsTracked`). It needs that a poll whose answer differs from the tracked set is
not about a set that comes back (`PollIsNewer`), and gives `CancelledWake`. `TurnsInv`
follows a prompt through the frames: it is in one place (`OnePlace`), a notice that it is
over travels only when it is (`EndedIsGone`), and while it runs every end of an earlier
turn that is still on its way is followed by its own start (`StartIsNews`): so an end
that takes all coalesced turns with it never takes a later one. From it `HumanTurns`.

**BrokerProofs.** `IInv == TypeOK /\ RowsOK /\ MailOK`. `LeasedToCurrent` and
`MailFollowsAgent` are about mail, but hold because of what the peers table
remembers: sessions are numbered and owned (`SessionsAreOwned`), and the row of a
running process is the one it knows, unless an answer was lost (`RowsAreKnown`). Mail
needs that a token is the newest of its row only in the hands of the row's reader
(`TokensAreReaders`), since a displaced session keeps its tokens. From it
`CurrentLeases`, `MailIsFollowed`, `Refinement` to `MailLeases`, and `LinksHold`
(every action keeps the name and the kind on which a link rests, or both names move).

**ClaudeDeliveryProofs.** `TypeInv` (`TypeCorrect`) and
`IInv == TypeInv /\ OnlyConfirming /\ InboxesInSync /\ PromisesKept /\ ShownFirst /\
CallsAreEvidence /\ CarriedIsSafe`: what the session has seen or is about to ack is in
a file or was read (`PromisesKept`), a removal needs that its ids were shown before the
call arrived (`CallsAreEvidence`, by way of the generations in `ShownFirst`), and the
old inbox is emptied of what the new one has (`CarriedIsSafe`). `Safety` and `Custody`
assume `~SameId`, which is what `InboxesInSync` rests on (two inboxes, two files): the
run `same_id` shows that it fails otherwise. `WakesAll` needs no assumption (a notice
names the oldest of what is pending and removes just these); `ShownOnce` assumes
`SlackCovers`.

**LedgerWakeProofs** (extends `MCCustody`: the two wakes whose prompts are in a ledger).
For `OpenClaw`, `IInv == TypeOK /\ LedgerInv /\ TokensInOrder /\ GateInv` with
`LedgerInv == LedgerGuarded /\ OneOpen /\ HeldInLedger /\ SignaturesDiffer`. Who
changes the ledger has its lock and sees what is there (`LedgerGuarded`), so that only
one entry can be open (`OneOpen`); what is in flight or accepted has an entry
(`HeldInLedger`); a pass that is past its check for an earlier wake has a set that no
entry names (`SignaturesDiffer`, which speaks of the passes still reading too, as the
check and the intent are two steps). From it `Custodial` and `Woken`. The gate rests on
the ledger: as one submission is open at a time, an earlier token was read by a session
no later than that of a later submission (`TokensInOrder`), so a newer proof never names
an earlier thread. Every binding, on disk, decided by a call or read by a registration,
is shown by its token (`BindingsShown`), who has passed the gate is on a proven thread
(`OwnersProven`), and until `movedBack` an owner is bound with the claim, or was
superseded for good, as the bound thread only grows (`ClaimKept`). From it `ProvenOwner`.
For `HermesChatWake`, `ChatInv` is about the time until an operator steps in
(`touched`). Who has the file's lock, or died with it, found no open attempt of the
Desktop (`LockExcludesAttempts`), and no attempt is opened without the lock; what is in
the host is the open attempt (`HostIsKnown`). The driver starts its client under the
lock but saves afterwards, and may die between: the client in flight is then the one
whose start is not saved, with the lock for ever at the dead driver, else that of the
ledger (`FlightIsKnown`). `SnapshotsFit` and `WakeFits` say that what the plugin has read
outside the lock is still so when it injects and records, and `HandledIsCovered` that the
mark of handled mail, also in the driver's copy, lies below a turn that ended. From it
`OneWake` (for every mail at most one wake in flight in all), `HandledByTurns` and
`AttemptsOpen`.

**WakeDaemonProofs.** `IInv == TypeOK /\ RecordsSound /\ \A s : Books(s)`, for any number
of operators, with no assumption about the two steps of a claim. `Books` accounts for
each set by counting the passes at work on it: a record that is not due stands for one
of them (`Exclusive`), and each overrun claim adds one. What was tried, and what is about
to be, is paid for in the record (`PaidFor`) and, as a claim may be undone or built upon,
in the record that a claim has read (`PaidBefore`); a set has one answer or one pass that
may still get it (`OneAnswer`); and while no claim was overrun nothing is spent but by
the pass at work and the dead ones (`Frugal`). From it `Safety`, `TypeCorrect`, `Paid`
and `Woken`.

**LaunchesProofs** (extends `MCLaunches`). For `DroidSession`, `DInv` says that a
loaded session is that of the launcher with its owner lock, or of the launcher that
created it, as long as nothing names it (`EngineIsOwned`, `Unnamed`): a launcher takes
the lock of a session it just created only after its engine has it loaded, which is
safe because no claim, saved session or other launcher can know the id yet
(`NewIsUnnamed`); from the scan of the claims on it has the lock (`OwnsSession`). From
it `OneEnginePerSession`. `ClaimInv` adds that the writers of a claim exclude each
other (`NoLostUpdate`) and that claim and saved session keep up with the child
(`ClaimKeepsUp`, `RecordKeepsUp`), and gives `ClaimNamesItsPeer`.
For `WakeRegistry`, `RInv == TypeOK /\ RegistrySafe /\ BookInv`. `RegistrySafe` is the
exclusion: who is in the critical section owns the file at the lock's path
(`HoldersOwnLock`), and a reclaimer that finds its owner dead finds this lock still
there (`SeenIsOwner`), so what was read is what is there when it is written
(`SnapshotFresh`). `BookInv` follows a session from its peer id (`PeersIssued`, ids grow)
and the election (`RootOnly`, so one child writes the row of the launch's thread) to its
row (`SavedIsListed`). From it `RegistryTypes`, `RowsOfOthersSurvive` and
`WakeableSessionsListed`. They assume `~QuickExits`, without which `SeenIsOwner` fails
(section 3.3).

Only model-checked: every liveness property (`EveryCallEnds`, `ElectionEnds`,
`EverySendSettles` and both `MailIsWoken`), since this prover has no rules for fairness
and `ENABLED`. Every safety and action property that a passing run checks is a theorem;
those that name an assumption above hold under it only.

## 5. Not modelled, and the plan

Not modelled:

* conversations of the broker (the fence that Hermes used; retired, and kept for old
  clients), its start-up, port eviction and secret: they are a race of whole
  processes for one port and file, with the service manager in it, and nothing else
  depends on their order;
* schema migrations (run before the broker serves, and SQL text), the HTTP client,
  operator commands and repairs of the CLI, presentation helpers and other pure I/O;
* of the broker: persona, summary and capabilities, the retention of old messages, the
  rule that a sweep is skipped after the machine slept, chat titles;
* of Codex wakes: the transport of the app-server client, the claim file's unlocked
  update, which the launcher and the root child share (wake-launch-claims.ts:92), a
  secondary child that becomes root after the election, the repair that the CLI offers;
* of Hermes: chats that are created for general mail, a reused pid of a client;
* of Droid: the headless client beyond what the relay shares with it, a child that
  outlives the shutdown deadline (droid-launcher.ts:395-409).

Next, in this order:

1. The broker's start-up (secret by link or rename) and the suspend rule of its GC,
   which needs a clock.
2. The unlocked update of the wake launch claim that launcher and root child share, and
   the second, headless Droid client.
3. Proofs of what these add, and of `OwnChat` past an eviction, with the identity that
   the migration restores in its invariant.
