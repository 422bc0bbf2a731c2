---------------------------- MODULE CodexDelivery ----------------------------
(***************************************************************************)
(* One codex-server.ts process (the transport of Codex, Hermes, Droid and  *)
(* OpenClaw) with its durable inbox, its broker mailbox and the MCP client *)
(* that calls it.  Tool calls run in parallel; the section that confirms,  *)
(* acks, polls and draws runs under one FIFO lock, but each await inside   *)
(* it lets other calls arrive, finish or be cancelled.  The background     *)
(* poll and the poll of a waiting call fetch outside the lock and apply    *)
(* under it.  HTTP requests and their answers can be lost, inbox writes    *)
(* can fail, leases expire, the process can crash and restart, and the     *)
(* broker can evict its row, after which the heartbeat rejoins.  The       *)
(* client sees a response as soon as it is built; one that is lost on the  *)
(* pipe is not modelled.                                                   *)
(***************************************************************************)
EXTENDS Naturals, FiniteSets, Sequences, DeliveryState, LeaseTable

CONSTANTS
  Chats,           \* the mailboxes of a Hermes profile: General and its chats
  General,         \* GENERAL_PARTITION
  ChatOf,          \* to_chat of each message, General for none
  NoKey,           \* key = null, readable: the call reads every message
  Unreadable,      \* key = null, not readable: the call's chat could not be polled
  Bg,              \* the background poll, as a holder of the lock
  ChatMail,        \* HERMES_CHAT_MAIL
  Partitioned,     \* HERMES_PARTITIONED
  MaxPendingAcks,  \* MAX_PENDING_ACKS
  Slack,           \* SEEN_WATERMARK_SLACK
  MaxCalls,        \* bound: tool calls issued
  MaxCrashes,      \* bound: crashes of the process
  MaxEvictions     \* bound: evictions of its broker row

ASSUME CodexAssumption ==
  /\ General \in Chats
  /\ ChatOf \in [Msgs -> Chats]
  /\ NoKey \notin Chats /\ Unreadable \notin Chats /\ NoKey # Unreadable
  /\ Bg \notin Calls
  /\ ChatMail \in BOOLEAN /\ Partitioned \in BOOLEAN
  /\ ChatMail => Partitioned
  /\ Slack \in Nat

VARIABLES
  \* the process
  up,           \* the process runs
  pendingAcks,  \* lease tokens to ack with the next flush
  lockQ,        \* withPiggybackLock: its holder first, then the waiters
  batch,        \* leased rows fetched outside the lock, per fetcher, not applied yet
  pc,           \* what a call is doing
  hint,         \* the chat a call names
  key,          \* the mailbox STEP 0 gave it
  arrivalGen,   \* its newArrival() snapshot
  \* its disk
  inbox,        \* the unread store: token number of each stored row, 0 when absent
  oldInbox,     \* the store of an evicted identity, until its unread is migrated
  migrating,    \* a rejoin has switched stores and not migrated yet
  known,        \* the broker still has the row of this session
  issued, crashes, evictions,
  \* history
  built,        \* messages that were in a fully built response
  entryGen      \* generation when the server took the request in

memVars == <<pendingAcks, lockQ, batch, key, arrivalGen>>
storeVars == <<inbox, oldInbox, migrating>>
callVars == <<hint, issued>>
faultVars == <<up, known, crashes, evictions>>
histVars == <<built, entryGen>>
vars == <<dsVars, tableVars, memVars, storeVars, callVars, faultVars, histVars, pc>>

Phases == {"idle", "arrived", "hook", "queued", "confirm", "flush", "poll", "draw", "handling"}

TypeOK ==
  /\ DSTypeOK /\ TableTypeOK
  /\ up \in BOOLEAN /\ known \in BOOLEAN /\ migrating \in BOOLEAN
  /\ pendingAcks \subseteq Tokens
  /\ lockQ \in Seq(Calls \cup {Bg})
  /\ batch \in [Calls \cup {Bg} -> Batches]
  /\ pc \in [Calls -> Phases]
  /\ hint \in [Calls -> Chats]
  /\ key \in [Calls -> Chats \cup {NoKey, Unreadable}]
  /\ arrivalGen \in [Calls -> Nat]
  /\ inbox \in Batches /\ oldInbox \in Batches
  /\ issued \in Nat /\ crashes \in Nat /\ evictions \in Nat
  /\ built \subseteq Msgs
  /\ entryGen \in [Calls -> Nat]

Init ==
  /\ DSInit /\ TableInit
  /\ up = TRUE /\ known = TRUE /\ migrating = FALSE
  /\ pendingAcks = {} /\ lockQ = <<>>
  /\ batch = [p \in Calls \cup {Bg} |-> EmptyBatch]
  /\ pc = [c \in Calls |-> "idle"]
  /\ hint = [c \in Calls |-> General]
  /\ key = [c \in Calls |-> NoKey]
  /\ arrivalGen = [c \in Calls |-> 0]
  /\ inbox = EmptyBatch /\ oldInbox = EmptyBatch
  /\ issued = 0 /\ crashes = 0 /\ evictions = 0
  /\ built = {}
  /\ entryGen = [c \in Calls |-> 0]

-----------------------------------------------------------------------------
(* Helpers *)

MailOf(chat) == {m \in Msgs : ChatOf[m] = chat}

Move(c, from, to) ==
  /\ up
  /\ pc[c] = from
  /\ pc' = [pc EXCEPT ![c] = to]

HoldsLock(p) == lockQ # <<>> /\ Head(lockQ) = p

\* enqueueAck: beyond MAX_PENDING_ACKS tokens are dropped.  The code drops the
\* oldest; which ones they are is left open here.
EnqueueAcks(tokens) ==
  LET all == pendingAcks \cup tokens
  IN IF Cardinality(all) <= MaxPendingAcks
     THEN pendingAcks' = all
     ELSE \E keep \in SUBSET all :
            /\ Cardinality(keep) = MaxPendingAcks
            /\ pendingAcks' = keep

\* Mutant of ApplyLeased: leased rows are stored without a look at the confirmed ids.
ApplyUntriaged(b) ==
  /\ inbox' = [m \in Msgs |-> IF m \in InBatch(b) THEN b[m] ELSE inbox[m]]
  /\ UNCHANGED <<pendingAcks, oldInbox, migrating>>

\* applyLeasedToQueue, always under the lock: a re-offer of a confirmed message
\* is closed, everything else is written to the store before it counts, and a
\* failed write leaves the row to its lease.
ApplyLeased(b) ==
  LET done == InBatch(b) \cap confirmed
  IN /\ EnqueueAcks({<<m, b[m]>> : m \in done})
     /\ \/ inbox' = [m \in Msgs |-> IF m \in InBatch(b) \ done THEN b[m] ELSE inbox[m]]
        \/ /\ InBatch(b) \ done # {}
           /\ UNCHANGED inbox
     /\ UNCHANGED <<oldInbox, migrating>>

\* One poll of `scope` from code that holds the lock.  The request is lost, or
\* the rows are leased and the answer is lost, or the rows are applied.  A row
\* the broker has deleted (`known` is false) polls as empty.
PollHere(scope) ==
  LET ms == IF known THEN Leasable(scope) ELSE {}
  IN \/ UNCHANGED <<tableVars, pendingAcks, storeVars>>
     \/ /\ ms # {}
        /\ Lease(ms)
        /\ \/ UNCHANGED <<pendingAcks, storeVars>>
           \/ ApplyLeased(Leased(ms))

-----------------------------------------------------------------------------
(* The broker and time *)

Send(m) ==
  /\ known
  /\ Insert(m)
  /\ UNCHANGED <<dsVars, memVars, storeVars, callVars, faultVars, histVars, pc>>

LeaseExpires(m) ==
  /\ Expire(m)
  /\ UNCHANGED <<dsVars, memVars, storeVars, callVars, faultVars, histVars, pc>>

-----------------------------------------------------------------------------
(* Polls outside the lock: the background timer, and the hook of a call that
   waits in wait_for_peer_messages for mail of its chat. *)

Fetch(p, scope) ==
  LET ms == IF known THEN Leasable(scope) ELSE {}
  IN /\ ms # {}
     /\ Lease(ms)
     /\ batch' = [batch EXCEPT ![p] = Leased(ms)]
     /\ lockQ' = Append(lockQ, p)

Apply(p) ==
  /\ HoldsLock(p)
  /\ ApplyLeased(batch[p])
  /\ batch' = [batch EXCEPT ![p] = EmptyBatch]
  /\ lockQ' = Tail(lockQ)
  /\ UNCHANGED <<tableVars, key, arrivalGen>>

\* pollBrokerIntoQueue, from the timer or from a waiting general call.
\* pollInFlight is set while the poll waits for the lock.
BgFetch ==
  /\ up
  /\ batch[Bg] = EmptyBatch
  /\ Fetch(Bg, MailOf(General))
  /\ UNCHANGED <<dsVars, pendingAcks, key, arrivalGen, storeVars, callVars, faultVars, histVars, pc>>

BgFetchLost ==
  /\ up
  /\ known
  /\ batch[Bg] = EmptyBatch
  /\ Leasable(MailOf(General)) # {}
  /\ Lease(Leasable(MailOf(General)))
  /\ UNCHANGED <<dsVars, memVars, storeVars, callVars, faultVars, histVars, pc>>

BgApply ==
  /\ up
  /\ Apply(Bg)
  /\ UNCHANGED <<dsVars, callVars, faultVars, histVars, pc>>

HookFetch(c) ==
  /\ ChatMail /\ hint[c] # General
  /\ Move(c, "arrived", "hook")
  /\ Fetch(c, MailOf(hint[c]))
  /\ UNCHANGED <<dsVars, pendingAcks, key, arrivalGen, storeVars, callVars, faultVars, histVars>>

HookApply(c) ==
  /\ Move(c, "hook", "arrived")
  /\ Apply(c)
  /\ UNCHANGED <<dsVars, callVars, faultVars, histVars>>

-----------------------------------------------------------------------------
(* One tool call: withPiggyback and acquireInboxBatch *)

\* A request for chat h comes in: the confirm barrier is snapshot here, before
\* any hook that waits.
Arrive(c, h) ==
  /\ issued < MaxCalls
  /\ Move(c, "idle", "arrived")
  /\ issued' = issued + 1
  /\ hint' = [hint EXCEPT ![c] = h]
  /\ arrivalGen' = [arrivalGen EXCEPT ![c] = newArrival]
  /\ entryGen' = [entryGen EXCEPT ![c] = generation]
  /\ UNCHANGED <<dsVars, tableVars, pendingAcks, lockQ, batch, key, storeVars, faultVars, built>>

\* The hook has ended; the call asks for the lock.
EnterLock(c) ==
  /\ Move(c, "arrived", "queued")
  /\ lockQ' = Append(lockQ, c)
  /\ UNCHANGED <<dsVars, tableVars, pendingAcks, batch, key, arrivalGen, storeVars, callVars,
                 faultVars, histVars>>

\* STEP 0 without a chat: Codex and Droid read everything, Hermes the general mailbox.
AcquireGeneral(c) ==
  /\ HoldsLock(c)
  /\ ~ChatMail \/ hint[c] = General
  /\ Move(c, "queued", "confirm")
  /\ key' = [key EXCEPT ![c] = IF Partitioned THEN General ELSE NoKey]
  /\ UNCHANGED <<dsVars, tableVars, pendingAcks, lockQ, batch, arrivalGen, storeVars, callVars,
                 faultVars, histVars>>

\* STEP 0 for a chat: poll that chat first.  An unknown chat, an old broker or
\* a failed request leaves key at null and the call unable to read.  The answer
\* "general" does not come here: the broker gives it to no name but "general"
\* (resolvePollScope), and that name polls nothing (AcquireGeneral).
AcquireChat(c) ==
  LET ms == IF known THEN Leasable(MailOf(hint[c])) ELSE {}
  IN /\ HoldsLock(c)
     /\ ChatMail /\ hint[c] # General
     /\ Move(c, "queued", "confirm")
     /\ \/ /\ known
           /\ key' = [key EXCEPT ![c] = hint[c]]
           /\ Lease(ms)
           /\ ApplyLeased(Leased(ms))
        \/ /\ key' = [key EXCEPT ![c] = Unreadable]
           /\ UNCHANGED <<pendingAcks, storeVars>>
           /\ Lease(ms) \/ UNCHANGED tableVars
     /\ UNCHANGED <<dsVars, lockQ, batch, arrivalGen, callVars, faultVars, histVars>>

\* Mutant of Confirming: the mailbox of the call is not looked at.
ConfirmingAll(c) == Confirmable(arrivalGen[c])

\* The presentations this call is evidence for.
Confirming(c) ==
  LET eligible == Confirmable(arrivalGen[c])
      mailbox(m) == IF inbox[m] # 0 THEN ChatOf[m] ELSE General
  IN IF key[c] \in Chats
     THEN {m \in eligible : mailbox(m) = key[c]}
     ELSE eligible

\* STEP 1a: read the freshest tokens, prune the store, enqueue the acks, mark
\* confirmed.  A failed prune keeps everything as it was.
Confirm(c) ==
  LET ids == Confirming(c)
  IN /\ HoldsLock(c)
     /\ Move(c, "confirm", "flush")
     /\ \/ /\ inbox' = [m \in Msgs |-> IF m \in ids THEN 0 ELSE inbox[m]]
           /\ EnqueueAcks({<<m, inbox[m]>> : m \in {k \in ids : inbox[k] # 0}})
           /\ MarkConfirmed(ids)
           /\ UNCHANGED <<drawnByCall, drawn, generation>>
        \/ /\ \E m \in ids : inbox[m] # 0
           /\ UNCHANGED <<inbox, pendingAcks, dsVars>>
     /\ UNCHANGED <<tableVars, lockQ, batch, key, arrivalGen, oldInbox, migrating, callVars,
                    faultVars, histVars>>

\* STEP 1b: flush the pending acks.  Tokens leave the list only when the
\* broker's answer arrives; a session the broker does not know acks nothing.
Flush(c) ==
  /\ HoldsLock(c)
  /\ Move(c, "flush", "poll")
  /\ \/ pendingAcks = {} /\ UNCHANGED <<tableVars, pendingAcks>>
     \/ /\ pendingAcks # {}
        /\ \/ UNCHANGED <<tableVars, pendingAcks>>
           \/ /\ IF known THEN Ack(pendingAcks) ELSE UNCHANGED tableVars
              /\ pendingAcks' \in {{}, pendingAcks}
  /\ UNCHANGED <<dsVars, lockQ, batch, key, arrivalGen, storeVars, callVars, faultVars, histVars>>

\* Mutant of InlinePoll: it first waits for a background poll in flight.
InlinePollAfterBg(c) ==
  /\ batch[Bg] = EmptyBatch
  /\ HoldsLock(c)
  /\ Move(c, "poll", "draw")
  /\ IF key[c] \in {General, NoKey}
     THEN PollHere(MailOf(General))
     ELSE UNCHANGED <<tableVars, pendingAcks, storeVars>>
  /\ UNCHANGED <<dsVars, lockQ, batch, key, arrivalGen, callVars, faultVars, histVars>>

\* STEP 2: inline poll of the general mailbox, unless a chat was polled or
\* nothing may be read.
InlinePoll(c) ==
  /\ HoldsLock(c)
  /\ Move(c, "poll", "draw")
  /\ IF key[c] \in {General, NoKey}
     THEN PollHere(MailOf(General))
     ELSE UNCHANGED <<tableVars, pendingAcks, storeVars>>
  /\ UNCHANGED <<dsVars, lockQ, batch, key, arrivalGen, callVars, faultVars, histVars>>

\* STEP 3 reads the store and draws what is not in the pipeline; the lock is released.
Fresh(c) ==
  {m \in Msgs : /\ inbox[m] # 0
                /\ ~IsBlocked(m)
                /\ key[c] # Unreadable
                /\ key[c] = NoKey \/ ChatOf[m] = key[c]}

DrawFresh(c) ==
  /\ HoldsLock(c)
  /\ Move(c, "draw", "handling")
  /\ Draw(c, Fresh(c))
  /\ PruneConfirmed({m \in Msgs : inbox[m] # 0}, Slack)
  /\ lockQ' = Tail(lockQ)
  /\ key' = [key EXCEPT ![c] = NoKey]
  /\ arrivalGen' = [arrivalGen EXCEPT ![c] = 0]
  /\ entryGen' = [entryGen EXCEPT ![c] = 0]
  /\ UNCHANGED <<presentedGen, generation, tableVars, pendingAcks, batch, storeVars,
                 callVars, faultVars, built>>

\* STEP 4: the handler has run and the request was not aborted.
Reply(c) ==
  /\ Move(c, "handling", "idle")
  /\ built' = built \cup drawnByCall[c]
  /\ Promote(c)
  /\ hint' = [hint EXCEPT ![c] = General]
  /\ UNCHANGED <<tableVars, memVars, storeVars, issued, faultVars, entryGen>>

\* STEP 4: the request was aborted, at any time since it came in: its draws can
\* be dealt again.
Abort(c) ==
  /\ Move(c, "handling", "idle")
  /\ Rollback(c)
  /\ hint' = [hint EXCEPT ![c] = General]
  /\ UNCHANGED <<tableVars, memVars, storeVars, issued, faultVars, histVars>>

-----------------------------------------------------------------------------
(* Crash, restart, eviction and rejoin *)

\* The process dies, and its memory and the calls inside it are gone.
Crash ==
  /\ up /\ known
  /\ crashes < MaxCrashes
  /\ up' = FALSE
  /\ crashes' = crashes + 1
  /\ DSReset
  /\ pendingAcks' = {} /\ lockQ' = <<>>
  /\ batch' = [p \in Calls \cup {Bg} |-> EmptyBatch]
  /\ pc' = [c \in Calls |-> "idle"]
  /\ hint' = [c \in Calls |-> General]
  /\ key' = [c \in Calls |-> NoKey]
  /\ arrivalGen' = [c \in Calls |-> 0]
  /\ entryGen' = [c \in Calls |-> 0]
  /\ migrating' = FALSE
  /\ oldInbox' = EmptyBatch
  /\ UNCHANGED <<tableVars, inbox, issued, known, evictions, built>>

\* The next process reclaims the row by name (its pid is gone), which clears
\* the leases, and loads the store from disk.
Restart ==
  /\ ~up
  /\ up' = TRUE
  /\ ClearLeases(Msgs)
  /\ UNCHANGED <<dsVars, memVars, storeVars, callVars, known, crashes, evictions, histVars, pc>>

\* The broker collects the row while the process lives (a long outage).
Evict ==
  /\ up /\ known /\ ~migrating
  /\ evictions < MaxEvictions
  /\ known' = FALSE
  /\ evictions' = evictions + 1
  /\ UNCHANGED <<dsVars, tableVars, memVars, storeVars, callVars, up, crashes, histVars, pc>>

\* The heartbeat learns it: re-register with prev_id, which re-points the
\* unacked mail, and switch to the store of the new identity.  The delivery
\* lock is not taken.
Rejoin ==
  /\ up /\ ~known
  /\ known' = TRUE
  /\ ClearLeases(Msgs)
  /\ migrating' = TRUE
  /\ oldInbox' = inbox
  /\ inbox' = EmptyBatch
  /\ UNCHANGED <<dsVars, memVars, callVars, up, crashes, evictions, histVars, pc>>

\* The old store's unread moves into the new store; a failed write leaves it
\* behind in the old file.
Migrate ==
  /\ up /\ migrating
  /\ migrating' = FALSE
  /\ oldInbox' = EmptyBatch
  /\ \/ inbox' = [m \in Msgs |-> IF oldInbox[m] # 0 THEN oldInbox[m] ELSE inbox[m]]
     \/ UNCHANGED inbox
  /\ UNCHANGED <<dsVars, tableVars, memVars, callVars, faultVars, histVars, pc>>

-----------------------------------------------------------------------------

CallStep(c) ==
  \/ EnterLock(c) \/ HookApply(c)
  \/ AcquireGeneral(c) \/ AcquireChat(c)
  \/ Confirm(c) \/ Flush(c) \/ InlinePoll(c) \/ DrawFresh(c)
  \/ Abort(c)

\* Every step but the two in which a call meets the client: Arrive and Reply.
Internal ==
  \/ \E m \in Msgs : Send(m) \/ LeaseExpires(m)
  \/ \E c \in Calls : HookFetch(c) \/ CallStep(c)
  \/ BgFetch \/ BgFetchLost \/ BgApply
  \/ Crash \/ Restart \/ Evict \/ Rejoin \/ Migrate

Next ==
  \/ Internal
  \/ \E c \in Calls : Reply(c) \/ \E h \in Chats : Arrive(c, h)

Spec == Init /\ [][Next]_vars

\* The event loop runs every continuation that is ready, a wait ends at its
\* deadline, and every HTTP request ends with an answer or an error.
Fairness ==
  /\ \A c \in Calls : WF_vars(CallStep(c) \/ Reply(c))
  /\ WF_vars(BgApply)

FairSpec == Spec /\ Fairness

-----------------------------------------------------------------------------
(* Safety *)

\* Honest at-least-once: the broker acks a row only after the message was in a
\* response that was fully built and not aborted.  The chain is broken by an ack
\* enqueued at draw time, by a confirm that ignores the pipeline, or by a token
\* of one row that acks another.
AckedOnlyAfterBuilt == acked \subseteq built

\* A message is dealt to at most one call at a time, and never while it is
\* presented or confirmed: parallel tool calls do not both show it, although the
\* replies and aborts of other calls run outside the lock.
DealtOnce ==
  /\ \A m \in Msgs : \A c, d \in Calls :
       m \in DrawnBy(c) /\ m \in DrawnBy(d) => c = d
  /\ drawn = UNION {DrawnBy(c) : c \in Calls}
  /\ drawn \cap (presented \cup confirmed) = {}

\* What the broker still holds unacked and the model has not been offered can
\* be dealt again: it is not stuck behind the dedupe state of the process.
UnofferedIsDealable ==
  \A m \in queued \ built : IsBlocked(m) => \E c \in Calls : m \in DrawnBy(c)

\* A confirmed message has left the unread store and no late apply of a lease
\* that was fetched before the confirm puts it back, so it is not presented
\* again after a restart ("the durable queue shouldn't contain confirmed ids").
ConfirmedLeavesInbox == \A m \in confirmed : inbox[m] = 0

-----------------------------------------------------------------------------
(* Steps *)

Confirms(c, m) == pc[c] = "confirm" /\ pc'[c] = "flush" /\ m \in confirmed' \ confirmed

\* Arrival causality: a call confirms only presentations promoted before the
\* server took the call in, however long it then waited.
ConfirmsOnlyEarlierResponses ==
  [][\A c \in Calls, m \in Msgs : Confirms(c, m) => presentedGen[m] <= entryGen[c]]_vars

\* Within one process a confirmed message is not dealt again, although its row
\* is re-offered whenever the ack was lost or came too late.
ConfirmedStaysConfirmed ==
  [][\A m \in confirmed : up' => m \in confirmed' /\ m \notin drawn']_vars

\* Mail for one chat is never confirmed by a call from another chat.
ConfirmsOnlyOwnChat ==
  [][\A c \in Calls, m \in Msgs : Confirms(c, m) /\ ChatMail => ChatOf[m] = hint[c]]_vars

\* A call that reads a mailbox confirms only presentations of that mailbox.
ConfirmsOwnChat ==
  [][\A c \in Calls, m \in Msgs : Confirms(c, m) /\ key[c] # Unreadable /\ Partitioned
       => ChatOf[m] = key[c]]_vars

-----------------------------------------------------------------------------
(* Refinement and liveness *)

C == INSTANCE Custody WITH accepted <- queued, offered <- built, closed <- acked

\* The mailbox keeps custody: see Custody.
KeepsCustody == C!Spec

\* Every tool call that the server took in is answered, unless the process
\* dies: the lock is always passed on, and no poll waits for the lock its
\* caller holds.
EveryCallEnds == \A c \in Calls : (pc[c] # "idle") ~> (pc[c] = "idle")
=============================================================================
