------------------------------- MODULE Broker -------------------------------
(***************************************************************************)
(* broker.ts: the peers table and the mailboxes of one machine.  Sessions  *)
(* register, are displaced or collected when their heartbeats stop, and    *)
(* register again; mail is addressed to the id of a row, so it must follow *)
(* its agent to the row of the next session.  Every route is one SQLite    *)
(* transaction and one action; the answer of a register or a poll may be   *)
(* lost.  The general mailbox of a row is read by the row's own session;   *)
(* mail for a Hermes chat lies in the row of the profile's owner and is    *)
(* also read by the members that link to the owner by name.                *)
(***************************************************************************)
EXTENDS LeaseTable

CONSTANTS
  Procs,         \* client processes (MCP servers)
  Names,         \* peer names
  NoName,        \* no mailbox_owner
  Nobody,        \* no process
  Want,          \* the name a process asks for
  Kind,          \* its peer_type
  WantsDurable,  \* processes that ask for durable retention
  LinksTo,       \* the mailbox_owner a process registers with
  Remembers,     \* processes whose next start passes the previous id (OpenClaw, Droid)
  MaxQueued,     \* MAX_QUEUED_PER_DURABLE_PEER
  MaxStarts,     \* bound: starts of processes
  MaxLapses,     \* bound: heartbeats of a running process stop for too long
  MaxEvents,     \* bound: renames and lost answers of registrations, together
  NewNames       \* bound: names a peer is renamed to

\* A registration follows a start, a lapse, or a registration whose answer was lost.
MaxRegs == MaxStarts + MaxLapses + MaxEvents
Ids == 1 .. MaxRegs
Ages == {"live", "stale", "old"}

Row == [there : BOOLEAN, name : Names \cup {NoName}, by : Procs \cup {Nobody}, session : 0 .. MaxRegs,
        age : Ages, durable : BOOLEAN, gone : BOOLEAN, link : Names \cup {NoName}]

NoRow == [there |-> FALSE, name |-> NoName, by |-> Nobody, session |-> 0,
          age |-> "live", durable |-> FALSE, gone |-> FALSE, link |-> NoName]

ASSUME BrokerAssumption ==
  /\ Nobody \notin Procs /\ NoName \notin Names
  /\ Want \in [Procs -> Names]
  /\ LinksTo \in [Procs -> Names \cup {NoName}]
  /\ WantsDurable \subseteq Procs /\ Remembers \subseteq Procs
  /\ MaxQueued \in Nat /\ MaxStarts \in Nat /\ MaxLapses \in Nat /\ MaxEvents \in Nat
  /\ NewNames \subseteq Names

VARIABLES
  \* the broker, with the tables of LeaseTable
  rows,      \* peers, by id; a collected row stays as a record of who had it
  regs,      \* registrations so far: the next id and session token
  to,        \* messages.to_id, 0 before the insert
  chatMail,  \* messages with a to_chat
  \* the processes
  pc,        \* "off", "joining" (has to register), "up"
  id, sess,  \* what the last answered registration said, 0 for nothing
  myName,    \* the name it registers with
  held,      \* lease tokens it has not acked, the newest of each message
  \* bounds
  starts, lapses, events,
  \* history
  reader,    \* who got the newest lease of a message
  closer,    \* whose ack closed a message
  astray     \* an answer of a registration was lost, or a notice came after its addressee moved on

brokerVars == <<rows, regs, to, chatMail>>
clientVars == <<pc, id, sess, myName, held>>
boundVars == <<starts, lapses, events>>
histVars == <<reader, closer, astray>>
vars == <<tableVars, brokerVars, clientVars, boundVars, histVars>>

\* Every variable has its type, and names are unique.
TypeOK ==
  /\ TableTypeOK
  /\ rows \in [Ids -> Row]
  /\ regs \in 0 .. MaxRegs
  /\ to \in [Msgs -> 0 .. MaxRegs]
  /\ chatMail \subseteq queued
  /\ pc \in [Procs -> {"off", "joining", "up"}]
  /\ id \in [Procs -> 0 .. MaxRegs]
  /\ sess \in [Procs -> 0 .. MaxRegs]
  /\ myName \in [Procs -> Names]
  /\ held \in [Procs -> SUBSET Tokens]
  /\ starts \in 0 .. MaxStarts
  /\ lapses \in 0 .. MaxLapses
  /\ events \in 0 .. MaxEvents
  /\ reader \in [Msgs -> Procs \cup {Nobody}]
  /\ closer \in [Msgs -> Procs \cup {Nobody}]
  /\ astray \in BOOLEAN
  /\ \A i, j \in Ids : i # j /\ rows[i].there /\ rows[j].there => rows[i].name # rows[j].name

Init ==
  /\ TableInit
  /\ rows = [i \in Ids |-> NoRow]
  /\ regs = 0
  /\ to = [m \in Msgs |-> 0]
  /\ chatMail = {}
  /\ pc = [p \in Procs |-> "off"]
  /\ id = [p \in Procs |-> 0]
  /\ sess = [p \in Procs |-> 0]
  /\ myName = Want
  /\ held = [p \in Procs |-> {}]
  /\ starts = 0 /\ lapses = 0 /\ events = 0
  /\ reader = [m \in Msgs |-> Nobody]
  /\ closer = [m \in Msgs |-> Nobody]
  /\ astray = FALSE

-----------------------------------------------------------------------------
(* The peers table *)

RowsNamed(n) == {i \in Ids : rows[i].there /\ rows[i].name = n}

\* The WHERE clause of every mutation: the row exists and has the caller's session.
Current(p) == id[p] # 0 /\ rows[id[p]].there /\ rows[id[p]].session = sess[p]

\* mailboxOwnerRow: the owner of a row's chat mail, the row itself without a link.
Owner(i) ==
  LET linked == {j \in RowsNamed(rows[i].link) : Kind[rows[j].by] = Kind[rows[i].by]}
  IN IF linked = {} THEN i ELSE CHOOSE j \in linked : TRUE

\* Rows whose mail a session may ack.
Mailboxes(p) == {id[p], Owner(id[p])}

Unacked(i) == {m \in queued \ acked : to[m] = i}

\* A stale row, or the row of a dead local process, with the name and the type.
Reclaimable(p) ==
  {i \in RowsNamed(myName[p]) :
     Kind[rows[i].by] = Kind[p] /\ (rows[i].age # "live" \/ rows[i].gone)}

\* Mutant of Orphaned: mail of a collected row is left behind.
OrphanedNever(p, i) == {}

\* repointOrphanedMail: mail of the previous row, when that row is gone.
Orphaned(p, i) ==
  IF id[p] \in {0, i} \/ rows[id[p]].there THEN {} ELSE Unacked(id[p])

\* Mutant of Enroll: mail that follows keeps the leases of the session before.
EnrollKeepsLeases(p, i, n) ==
  /\ rows' = [rows EXCEPT ![i] =
       [there |-> TRUE, name |-> n, by |-> p, session |-> regs + 1, age |-> "live",
        durable |-> p \in WantsDurable /\ n = myName[p], gone |-> FALSE, link |-> LinksTo[p]]]
  /\ regs' = regs + 1
  /\ to' = [m \in Msgs |-> IF m \in Orphaned(p, i) THEN i ELSE to[m]]
  /\ ClearLeases(Orphaned(p, i))

\* Row i becomes the row of p under a new session; mail that follows is free again.
Enroll(p, i, n) ==
  /\ rows' = [rows EXCEPT ![i] =
       [there |-> TRUE, name |-> n, by |-> p, session |-> regs + 1, age |-> "live",
        durable |-> p \in WantsDurable /\ n = myName[p], gone |-> FALSE, link |-> LinksTo[p]]]
  /\ regs' = regs + 1
  /\ to' = [m \in Msgs |-> IF m \in Orphaned(p, i) THEN i ELSE to[m]]
  /\ ClearLeases(Orphaned(p, i) \cup Unacked(i))

\* The client learns the answer, or keeps what it knew and registers again.
Answered(p, i, n) ==
  \/ /\ pc' = [pc EXCEPT ![p] = "up"]
     /\ id' = [id EXCEPT ![p] = i]
     /\ sess' = [sess EXCEPT ![p] = regs + 1]
     /\ myName' = [myName EXCEPT ![p] = n]
     /\ UNCHANGED <<events, astray>>
  \/ /\ events < MaxEvents
     /\ events' = events + 1
     /\ astray' = TRUE
     /\ UNCHANGED <<pc, id, sess, myName>>

\* nameCandidates: the wanted name, or else the first suffix of it or generated
\* name that no row has (which one it is is not told apart).
FreeNames(p) ==
  LET free == {n \in Names : RowsNamed(n) = {}}
  IN IF myName[p] \in free THEN {myName[p]} ELSE free

\* registerPeer: reclaim the row of the name, or insert a row under a free name.
Register(p) ==
  /\ pc[p] = "joining"
  /\ regs < MaxRegs
  /\ \E i \in Ids, n \in Names :
       /\ \/ i \in Reclaimable(p) /\ n = myName[p]
          \/ Reclaimable(p) = {} /\ i = regs + 1 /\ n \in FreeNames(p)
       /\ Enroll(p, i, n)
       /\ Answered(p, i, n)
  /\ UNCHANGED <<chatMail, held, starts, lapses, reader, closer>>

Seen(p) == rows' = [rows EXCEPT ![id[p]].age = "live"]

\* heartbeatPeer; a client whose row is unknown registers again.
Heartbeat(p) ==
  /\ pc[p] = "up"
  /\ \/ Current(p) /\ Seen(p) /\ UNCHANGED pc
     \/ ~Current(p) /\ pc' = [pc EXCEPT ![p] = "joining"] /\ UNCHANGED rows
  /\ UNCHANGED <<tableVars, regs, to, chatMail, id, sess, myName, held, boundVars, histVars>>

\* Mutant of Rename: the links of the members keep the old name.
RenameAlone(p, n) ==
  /\ pc[p] = "up" /\ Current(p)
  /\ RowsNamed(n) \subseteq {id[p]}
  /\ events < MaxEvents
  /\ events' = events + 1
  /\ rows' = [rows EXCEPT ![id[p]].name = n, ![id[p]].age = "live"]
  /\ myName' = [myName EXCEPT ![p] = n]
  /\ UNCHANGED <<tableVars, regs, to, chatMail, pc, id, sess, held, starts, lapses, histVars>>

\* renamePeer: member links follow the name, which must be free.
Rename(p, n) ==
  /\ pc[p] = "up" /\ Current(p)
  /\ RowsNamed(n) \subseteq {id[p]}
  /\ events < MaxEvents
  /\ events' = events + 1
  /\ LET before == rows[id[p]].name
         linked == [i \in Ids |-> IF rows[i].link = before THEN [rows[i] EXCEPT !.link = n] ELSE rows[i]]
     IN rows' = [linked EXCEPT ![id[p]].name = n, ![id[p]].age = "live"]
  /\ myName' = [myName EXCEPT ![p] = n]
  /\ UNCHANGED <<tableVars, regs, to, chatMail, pc, id, sess, held, starts, lapses, histVars>>

\* No heartbeat or poll for 60 s, and then for 7 days.
Age(i) ==
  /\ rows[i].there /\ rows[i].age # "old"
  /\ \/ rows[i].gone /\ UNCHANGED lapses
     \/ ~rows[i].gone /\ lapses < MaxLapses /\ lapses' = lapses + 1
  /\ rows' = [rows EXCEPT ![i].age = IF @ = "live" THEN "stale" ELSE "old"]
  /\ UNCHANGED <<tableVars, regs, to, chatMail, clientVars, starts, events, histVars>>

\* What is remembered of a deleted row: who had it, and whether that process has exited.
Deleted(i) == [NoRow EXCEPT !.by = rows[i].by, !.session = rows[i].session, !.gone = rows[i].gone]

Collectable(i) ==
  rows[i].there /\ (rows[i].age = "old" \/ (rows[i].age = "stale" /\ ~rows[i].durable))

\* gcStalePeers: one DELETE.
Sweep ==
  /\ \E i \in Ids : Collectable(i)
  /\ rows' = [i \in Ids |-> IF Collectable(i) THEN Deleted(i) ELSE rows[i]]
  /\ UNCHANGED <<tableVars, regs, to, chatMail, clientVars, boundVars, histVars>>

-----------------------------------------------------------------------------
(* Processes *)

Start(p) ==
  /\ pc[p] = "off"
  /\ starts < MaxStarts
  /\ starts' = starts + 1
  /\ pc' = [pc EXCEPT ![p] = "joining"]
  /\ UNCHANGED <<tableVars, brokerVars, id, sess, myName, held, lapses, events, histVars>>

\* The process ends.  One whose start-up failed unregisters; the others leave their row.
Exit(p) ==
  /\ pc[p] # "off"
  /\ pc' = [pc EXCEPT ![p] = "off"]
  /\ \E unregister \in BOOLEAN :
       LET left == [i \in Ids |-> IF unregister /\ Current(p) /\ i = id[p] THEN Deleted(i) ELSE rows[i]]
       IN rows' = [i \in Ids |-> IF rows[i].by = p THEN [left[i] EXCEPT !.gone = TRUE] ELSE left[i]]
  /\ id' = [id EXCEPT ![p] = IF p \in Remembers THEN @ ELSE 0]
  /\ sess' = [sess EXCEPT ![p] = 0]
  /\ myName' = [myName EXCEPT ![p] = Want[p]]
  /\ held' = [held EXCEPT ![p] = {}]
  /\ UNCHANGED <<tableVars, regs, to, chatMail, boundVars, histVars>>

-----------------------------------------------------------------------------
(* Mail *)

\* insertResolvedMessage: live, or durable with room.
Deliverable(i) ==
  /\ rows[i].there
  /\ \/ rows[i].age = "live"
     \/ rows[i].durable /\ Cardinality(Unacked(i)) < MaxQueued

\* resolveAddress: the mailbox for mail to the peer with row i, or to a chat of it.
Target(i, chat) == IF chat THEN Owner(i) ELSE i

\* sendMessage and deliverRelayed.
Send(m, i, chat) ==
  /\ rows[i].there
  /\ Deliverable(Target(i, chat))
  /\ Insert(m)
  /\ to' = [to EXCEPT ![m] = Target(i, chat)]
  /\ chatMail' = IF chat THEN chatMail \cup {m} ELSE chatMail
  /\ UNCHANGED <<rows, regs, clientVars, boundVars, histVars>>

\* deliverNotice: to the id the sender had, whether the row exists or not.
Notice(m, i) ==
  /\ rows[i].session # 0
  /\ Insert(m)
  /\ to' = [to EXCEPT ![m] = i]
  /\ astray' = (astray \/ (~rows[i].there /\ ~rows[i].gone /\ id[rows[i].by] # i))
  /\ UNCHANGED <<rows, regs, chatMail, clientVars, boundVars, reader, closer>>

\* resolvePollScope: general mail of the caller's own row, or chat mail of its owner.
PollScope(p, chat) ==
  {m \in queued : to[m] = Target(id[p], chat) /\ (m \in chatMail <=> chat)}

\* pollMessages: the rows of the scope are leased
\* (a lost answer is a batch that the client does not ack).
Poll(p, chat) ==
  /\ pc[p] = "up" /\ Current(p)
  /\ LET ms == Leasable(PollScope(p, chat))
     IN /\ Lease(ms)
        /\ reader' = [m \in Msgs |-> IF m \in ms THEN p ELSE reader[m]]
        /\ held' = [held EXCEPT ![p] = {t \in @ : t[1] \notin ms} \cup {<<m, leaseNo[m] + 1>> : m \in ms}]
  /\ Seen(p)
  /\ UNCHANGED <<regs, to, chatMail, pc, id, sess, myName, boundVars, closer, astray>>

\* The tokens of an ack that name mail of the caller's session.
Ackable(p) == {t \in held[p] : Current(p) /\ to[t[1]] \in Mailboxes(p)}

\* ackMessages; the client forgets the tokens.
AckMail(p) ==
  /\ pc[p] = "up" /\ held[p] # {}
  /\ Ack(Ackable(p))
  /\ closer' = [m \in Msgs |-> IF Honoured(m, Ackable(p)) THEN p ELSE closer[m]]
  /\ held' = [held EXCEPT ![p] = {}]
  /\ UNCHANGED <<brokerVars, pc, id, sess, myName, boundVars, reader, astray>>

LeaseExpires(m) ==
  /\ Expire(m)
  /\ UNCHANGED <<brokerVars, clientVars, boundVars, histVars>>

-----------------------------------------------------------------------------

Next ==
  \/ \E p \in Procs :
       \/ Start(p) \/ Exit(p) \/ Register(p) \/ Heartbeat(p) \/ AckMail(p)
       \/ \E n \in NewNames : Rename(p, n)
       \/ \E chat \in BOOLEAN : Poll(p, chat)
  \/ \E i \in Ids : Age(i) \/ \E m \in Msgs : Notice(m, i) \/ \E chat \in BOOLEAN : Send(m, i, chat)
  \/ \E m \in Msgs : LeaseExpires(m)
  \/ Sweep

Spec == Init /\ [][Next]_vars

-----------------------------------------------------------------------------

\* A live lease on general mail belongs to the process that has the row now: a
\* session that displaced another, or that the mail followed, finds it free, and
\* the tokens of the session before are worthless.
LeasedToCurrent ==
  \A m \in (queued \ acked) \ chatMail :
    lease[m] = "live" /\ rows[to[m]].there => reader[m] = rows[to[m]].by

\* Mail follows the agent: when the row of unread mail was collected, its process
\* has exited, or still has the id of that row and passes it as prev_id when it
\* registers again.  Excepted are a registration whose answer was lost and a notice
\* that came after its addressee moved on.
MailFollowsAgent ==
  ~astray =>
    \A m \in queued \ acked :
      LET r == rows[to[m]] IN r.there \/ r.gone \/ id[r.by] = to[m]

\* A member of a profile stays with its owner's mailbox while both registrations
\* stand, also when the owner is renamed.
MembersStayLinked ==
  [][\A i, j \in Ids :
       /\ i # j /\ rows[i].there /\ Owner(i) = j
       /\ rows'[i].there /\ rows'[i].session = rows[i].session /\ rows'[j].there
       => Owner(i)' = j]_vars

L == INSTANCE MailLeases WITH
       Readers <- Procs,
       holder <- [m \in Msgs |-> IF lease[m] = "live" THEN reader[m] ELSE Nobody],
       closer <- closer

\* The mailboxes hand out exclusive leases: see MailLeases.
HonorsLeases == L!Spec
=============================================================================
