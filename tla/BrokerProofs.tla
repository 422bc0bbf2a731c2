---------------------------- MODULE BrokerProofs ----------------------------
(***************************************************************************)
(* Proofs about Broker, for any number of processes, names, messages,      *)
(* registrations and leases.                                               *)
(***************************************************************************)
EXTENDS Broker, TLAPS

\* Sessions are numbered as they are issued, and a row that exists has one.
Numbered ==
  /\ \A i \in Ids : /\ rows[i].session <= regs
                    /\ rows[i].there => rows[i].session # 0 /\ rows[i].by \in Procs
                    /\ rows[i].session # 0 => i <= regs /\ rows[i].by \in Procs
  /\ \A p \in Procs : sess[p] <= regs

\* A row that carries the session a process was told belongs to that process.
SessionsAreOwned ==
  \A p \in Procs, i \in Ids : sess[p] # 0 /\ rows[i].session = sess[p] => rows[i].by = p

\* Mail is addressed to rows, and only mail that was sent is leased.
MailIsAddressed ==
  \A m \in Msgs : /\ m \in queued => to[m] \in Ids
                  /\ m \notin queued => lease[m] = "none"

\* A token names a lease that was given, the newest one to the reader.
TokensAreReaders ==
  \A p \in Procs, m \in Msgs, n \in Nat :
    <<m, n>> \in held[p] => n <= leaseNo[m] /\ (n = leaseNo[m] => reader[m] = p)

\* Whoever closed a message is remembered, from its ack on.
ClosedIsAcked == \A m \in Msgs : closer[m] # Nobody <=> m \in acked

\* Unless an answer was lost, the row of a process that runs is the one that
\* the process knows, with the session that it was told.
RowsAreKnown ==
  ~astray => \A i \in Ids : rows[i].there /\ ~rows[i].gone =>
               /\ id[rows[i].by] = i /\ sess[rows[i].by] = rows[i].session
               /\ pc[rows[i].by] = "up"

RowsOK == Numbered /\ SessionsAreOwned /\ RowsAreKnown

MailOK ==
  /\ MailIsAddressed
  /\ TokensAreReaders
  /\ ClosedIsAcked
  /\ LeasedToCurrent
  /\ MailFollowsAgent

IInv == TypeOK /\ RowsOK /\ MailOK
-----------------------------------------------------------------------------
(* Lemmas about the tables *)

LEMMA Bounds == MaxRegs \in Nat /\ Ids = 1 .. MaxRegs /\ Ids \subseteq Nat \ {0}
  BY BrokerAssumption DEF MaxRegs, Ids

LEMMA NoRowIsRow == NoRow \in Row
  BY Bounds, BrokerAssumption DEF NoRow, Row, Ages

\* What is left of a deleted row.
LEMMA DeletedFacts ==
  ASSUME NEW i \in Ids, rows[i] \in Row
  PROVE  /\ Deleted(i) \in Row
         /\ ~Deleted(i).there /\ Deleted(i).by = rows[i].by
         /\ Deleted(i).session = rows[i].session /\ Deleted(i).gone = rows[i].gone
  BY Bounds, BrokerAssumption DEF Deleted, NoRow, Row, Ages

\* No row is made, deleted or given to another session.
SameRows ==
  \A i \in Ids : /\ rows'[i].there = rows[i].there /\ rows'[i].gone = rows[i].gone
                 /\ rows'[i].by = rows[i].by /\ rows'[i].session = rows[i].session

\* The fields of a row that is touched.
LEMMA RowFields ==
  ASSUME NEW r \in Row, NEW n \in Names \cup {NoName}, NEW a \in Ages
  PROVE  /\ [r EXCEPT !.age = a] \in Row /\ [r EXCEPT !.gone = TRUE] \in Row
         /\ [r EXCEPT !.link = n] \in Row /\ [r EXCEPT !.name = n, !.age = a] \in Row
  BY DEF Row

\* A heartbeat or a poll of a session changes no more than the age of its row.
LEMMA SeenFacts ==
  ASSUME rows \in [Ids -> Row], NEW p \in Procs, id[p] \in Ids, Seen(p)
  PROVE  /\ rows' \in [Ids -> Row]
         /\ \A i \in Ids : \E a \in Ages : rows'[i] = [rows[i] EXCEPT !.age = a]
         /\ \A i \in Ids : rows'[i].there = rows[i].there /\ rows'[i].name = rows[i].name
                          /\ rows'[i].link = rows[i].link
         /\ SameRows
  <1>1. rows' = [rows EXCEPT ![id[p]] = [rows[id[p]] EXCEPT !.age = "live"]]
    BY DEF Seen
  <1>2. [rows[id[p]] EXCEPT !.age = "live"] \in Row
    BY RowFields DEF Ages
  <1>3. \A i \in Ids : rows[i] = [rows[i] EXCEPT !.age = rows[i].age] /\ rows[i].age \in Ages
    BY DEF Row
  <1>4. \A i \in Ids : \E a \in Ages : rows'[i] = [rows[i] EXCEPT !.age = a]
    BY <1>1, <1>2, <1>3 DEF Ages
  <1>5. QED
    BY <1>1, <1>2, <1>4 DEF Row, SameRows

LEMMA AgeFacts ==
  ASSUME rows \in [Ids -> Row], NEW i \in Ids, Age(i)
  PROVE  /\ rows' \in [Ids -> Row]
         /\ \A j \in Ids : \E a \in Ages : rows'[j] = [rows[j] EXCEPT !.age = a]
         /\ \A j \in Ids : rows'[j].there = rows[j].there /\ rows'[j].name = rows[j].name
                          /\ rows'[j].link = rows[j].link
         /\ SameRows
  <1>1. PICK a \in Ages : rows' = [rows EXCEPT ![i] = [rows[i] EXCEPT !.age = a]]
    BY DEF Age, Ages
  <1>2. [rows[i] EXCEPT !.age = a] \in Row
    BY RowFields
  <1>3. \A j \in Ids : rows[j] = [rows[j] EXCEPT !.age = rows[j].age] /\ rows[j].age \in Ages
    BY DEF Row
  <1>4. \A j \in Ids : \E b \in Ages : rows'[j] = [rows[j] EXCEPT !.age = b]
    BY <1>1, <1>2, <1>3
  <1>5. QED
    BY <1>1, <1>2, <1>4 DEF Row, SameRows

\* What the exit of a process leaves of a row: its own rows are marked, the one it
\* unregisters is deleted.
LEMMA ExitFacts ==
  ASSUME rows \in [Ids -> Row], NEW p \in Procs, Exit(p)
  PROVE  /\ rows' \in [Ids -> Row]
         /\ \A i \in Ids : /\ rows'[i].by = rows[i].by /\ rows'[i].session = rows[i].session
                           /\ rows'[i].gone <=> rows[i].by = p \/ rows[i].gone
                           /\ rows'[i].there => /\ rows[i].there /\ rows'[i].name = rows[i].name
                                                /\ rows'[i].link = rows[i].link
                           /\ rows[i].there /\ ~rows'[i].there => rows[i].session = sess[p] /\ i = id[p]
  <1>1. PICK unregister \in BOOLEAN :
          rows' = [i \in Ids |-> IF rows[i].by = p
                     THEN [(IF unregister /\ Current(p) /\ i = id[p] THEN Deleted(i) ELSE rows[i]) EXCEPT !.gone = TRUE]
                     ELSE IF unregister /\ Current(p) /\ i = id[p] THEN Deleted(i) ELSE rows[i]]
    BY DEF Exit
  <1> DEFINE del(i) == unregister /\ Current(p) /\ i = id[p]
  <1> SUFFICES ASSUME NEW i \in Ids
               PROVE  /\ rows'[i] \in Row
                      /\ rows'[i].by = rows[i].by /\ rows'[i].session = rows[i].session
                      /\ rows'[i].gone <=> rows[i].by = p \/ rows[i].gone
                      /\ rows'[i].there => /\ rows[i].there /\ rows'[i].name = rows[i].name
                                           /\ rows'[i].link = rows[i].link
                      /\ rows[i].there /\ ~rows'[i].there => rows[i].session = sess[p] /\ i = id[p]
    BY <1>1
  <1>2. rows[i] \in Row /\ Deleted(i) \in Row
        /\ ~Deleted(i).there /\ Deleted(i).by = rows[i].by
        /\ Deleted(i).session = rows[i].session /\ Deleted(i).gone = rows[i].gone
    BY DeletedFacts
  <1>3. CASE rows[i].by = p /\ del(i)
    <2>1. rows'[i] = [Deleted(i) EXCEPT !.gone = TRUE]
      BY <1>1, <1>3
    <2>2. QED
      BY <2>1, <1>2, <1>3 DEF Row, Current
  <1>4. CASE rows[i].by = p /\ ~del(i)
    <2>1. rows'[i] = [rows[i] EXCEPT !.gone = TRUE]
      BY <1>1, <1>4
    <2>2. QED
      BY <2>1, <1>2, <1>4 DEF Row
  <1>5. CASE rows[i].by # p /\ del(i)
    <2>1. rows'[i] = Deleted(i)
      BY <1>1, <1>5
    <2>2. QED
      BY <2>1, <1>2, <1>5 DEF Row, Current
  <1>6. CASE rows[i].by # p /\ ~del(i)
    <2>1. rows'[i] = rows[i]
      BY <1>1, <1>6
    <2>2. QED
      BY <2>1, <1>2, <1>6 DEF Row
  <1>7. QED
    BY Zenon, <1>3, <1>4, <1>5, <1>6

\* A rename moves the links of the members with the name.
LEMMA RenameFacts ==
  ASSUME rows \in [Ids -> Row], NEW p \in Procs, id[p] \in Ids, NEW n \in Names, Rename(p, n)
  PROVE  /\ rows' \in [Ids -> Row]
         /\ \A i \in Ids : /\ rows'[i].there = rows[i].there /\ rows'[i].by = rows[i].by
                           /\ rows'[i].session = rows[i].session /\ rows'[i].gone = rows[i].gone
                           /\ rows'[i].name = (IF i = id[p] THEN n ELSE rows[i].name)
                           /\ rows'[i].link = (IF rows[i].link = rows[id[p]].name THEN n ELSE rows[i].link)
  <1> DEFINE linked == [i \in Ids |-> IF rows[i].link = rows[id[p]].name
                                     THEN [rows[i] EXCEPT !.link = n] ELSE rows[i]]
  <1>1. linked \in [Ids -> Row]
    BY RowFields DEF Ages
  <1>2. rows' = [linked EXCEPT ![id[p]].name = n, ![id[p]].age = "live"]
    BY DEF Rename
  <1>3. \A i \in Ids : rows'[i] = IF i = id[p] THEN [linked[i] EXCEPT !.name = n, !.age = "live"] ELSE linked[i]
    BY <1>1, <1>2
  <1>4. \A i \in Ids : /\ linked[i].there = rows[i].there /\ linked[i].by = rows[i].by
                       /\ linked[i].session = rows[i].session /\ linked[i].gone = rows[i].gone
                       /\ linked[i].name = rows[i].name
                       /\ linked[i].link = IF rows[i].link = rows[id[p]].name THEN n ELSE rows[i].link
    BY DEF Row
  <1> HIDE DEF linked
  <1>5. \A i \in Ids : rows'[i] \in Row
    <2>1. \A r \in Row : [r EXCEPT !.name = n, !.age = "live"] \in Row
      BY RowFields DEF Ages
    <2>2. QED
      BY <1>1, <1>3, <2>1
  <1>6. rows' \in [Ids -> Row]
    BY <1>1, <1>2, <1>5
  <1>7. \A r \in Row : /\ [r EXCEPT !.name = n, !.age = "live"].there = r.there
                       /\ [r EXCEPT !.name = n, !.age = "live"].by = r.by
                       /\ [r EXCEPT !.name = n, !.age = "live"].session = r.session
                       /\ [r EXCEPT !.name = n, !.age = "live"].gone = r.gone
                       /\ [r EXCEPT !.name = n, !.age = "live"].link = r.link
                       /\ [r EXCEPT !.name = n, !.age = "live"].name = n
    BY DEF Row
  <1>8. \A i \in Ids : /\ rows'[i].there = linked[i].there /\ rows'[i].by = linked[i].by
                       /\ rows'[i].session = linked[i].session /\ rows'[i].gone = linked[i].gone
                       /\ rows'[i].link = linked[i].link
                       /\ rows'[i].name = IF i = id[p] THEN n ELSE linked[i].name
    <2> TAKE i \in Ids
    <2>1. linked[i] \in Row
      BY <1>1
    <2>2. CASE i = id[p]
      BY <1>3, <1>7, <2>1, <2>2
    <2>3. CASE i # id[p]
      BY <1>3, <2>3
    <2>4. QED
      BY <2>2, <2>3
  <1>9. QED
    BY <1>4, <1>6, <1>8

\* A poll leases only open mail of its scope that nobody has.
LEMMA LeasableFacts ==
  ASSUME NEW scope
  PROVE  \A m \in Leasable(scope) : m \in scope /\ m \in queued /\ m \notin acked /\ lease[m] # "live"
  BY DEF Leasable

\* What is done to the lease table keeps its type.
LEMMA LeaseType ==
  ASSUME TableTypeOK, NEW ms, Lease(ms) PROVE TableTypeOK'
  BY DEF TableTypeOK, Lease, LeaseStates

LEMMA AckType ==
  ASSUME TableTypeOK, NEW tokens, Ack(tokens) PROVE TableTypeOK'
  BY DEF TableTypeOK, Ack, LeaseStates, Honoured

LEMMA ClearType ==
  ASSUME TableTypeOK, NEW ms, ClearLeases(ms) PROVE TableTypeOK'
  BY DEF TableTypeOK, ClearLeases, LeaseStates

LEMMA InsertType ==
  ASSUME TableTypeOK, NEW m \in Msgs, Insert(m) PROVE TableTypeOK'
  BY DEF TableTypeOK, Insert

\* The row that a registration takes: the one with the wanted name, or a fresh one.
Taken(p, i, n) ==
  \/ i \in Reclaimable(p) /\ n = myName[p]
  \/ Reclaimable(p) = {} /\ i = regs + 1 /\ n \in FreeNames(p)

EnrolledRow(p, n) ==
  [there |-> TRUE, name |-> n, by |-> p, session |-> regs + 1, age |-> "live",
   durable |-> p \in WantsDurable /\ n = myName[p], gone |-> FALSE, link |-> LinksTo[p]]

LEMMA EnrollFacts ==
  ASSUME TypeOK, Numbered, NEW p \in Procs, NEW i \in Ids, NEW n \in Names, regs < MaxRegs,
         Taken(p, i, n), Enroll(p, i, n)
  PROVE  /\ rows' = [rows EXCEPT ![i] = EnrolledRow(p, n)]
         /\ EnrolledRow(p, n) \in Row
         /\ \A j \in Ids : j # i /\ rows[j].there => rows[j].name # n
         /\ i <= regs + 1 /\ regs' = regs + 1
  <1>1. EnrolledRow(p, n) \in Row
    BY Bounds, BrokerAssumption DEF EnrolledRow, Row, Ages, TypeOK
  <1>2. \A j \in Ids : j # i /\ rows[j].there => rows[j].name # n
    <2>1. CASE i \in Reclaimable(p) /\ n = myName[p]
      BY <2>1 DEF Reclaimable, RowsNamed, TypeOK
    <2>2. CASE Reclaimable(p) = {} /\ i = regs + 1 /\ n \in FreeNames(p)
      <3>1. RowsNamed(n) = {}
        BY <2>2 DEF FreeNames
      <3>2. QED
        BY <3>1 DEF RowsNamed
    <2>3. QED
      BY <2>1, <2>2 DEF Taken
  <1>3. i <= regs + 1
    BY Bounds DEF Taken, Reclaimable, RowsNamed, Numbered, TypeOK
  <1>4. QED
    BY <1>1, <1>2, <1>3 DEF Enroll, EnrolledRow

LEMMA TargetIsRow ==
  ASSUME NEW i \in Ids, NEW chat \in BOOLEAN PROVE Target(i, chat) \in Ids
  <1>1. Owner(i) \in Ids
    BY DEF Owner, RowsNamed
  <1>2. QED
    BY <1>1 DEF Target

-----------------------------------------------------------------------------
(* Types *)

LEMMA InitTypeOK == Init => TypeOK
  <1> SUFFICES ASSUME Init PROVE TypeOK
    OBVIOUS
  <1>1. TableTypeOK
    BY DEF Init, TableInit, TableTypeOK, LeaseStates
  <1>2. astray \in BOOLEAN
    BY Zenon DEF Init
  <1>3. QED
    BY <1>1, <1>2, Bounds, NoRowIsRow, BrokerAssumption DEF Init, TableInit, TypeOK, NoRow

LEMMA RegisterTypeOK ==
  ASSUME TypeOK, Numbered, NEW p \in Procs, Register(p) PROVE TypeOK'
  <1>1. PICK i \in Ids, n \in Names : Taken(p, i, n) /\ Enroll(p, i, n) /\ Answered(p, i, n)
    BY DEF Register, Taken
  <1>2. regs \in Nat /\ regs < MaxRegs /\ MaxRegs \in Nat
    BY Bounds DEF Register, TypeOK
  <1>3. /\ rows' = [rows EXCEPT ![i] = EnrolledRow(p, n)]
        /\ EnrolledRow(p, n) \in Row
        /\ \A j \in Ids : j # i /\ rows[j].there => rows[j].name # n
        /\ regs' = regs + 1
    BY <1>1, <1>2, EnrollFacts
  <1>4. TableTypeOK'
    BY <1>1, ClearType DEF Enroll, TypeOK
  <1>5. to' \in [Msgs -> 0 .. MaxRegs] /\ chatMail' \subseteq queued'
    BY <1>1, Bounds DEF Enroll, TypeOK, Register, ClearLeases
  <1>6. /\ pc' \in [Procs -> {"off", "joining", "up"}] /\ id' \in [Procs -> 0 .. MaxRegs]
        /\ sess' \in [Procs -> 0 .. MaxRegs] /\ myName' \in [Procs -> Names]
        /\ events' \in 0 .. MaxEvents
    <2>1. pc \in [Procs -> {"off", "joining", "up"}] /\ id \in [Procs -> 0 .. MaxRegs]
          /\ sess \in [Procs -> 0 .. MaxRegs] /\ myName \in [Procs -> Names]
          /\ events \in 0 .. MaxEvents /\ MaxEvents \in Nat
      BY BrokerAssumption DEF TypeOK
    <2>2. i \in 0 .. MaxRegs /\ regs + 1 \in 0 .. MaxRegs
      BY <1>2, Bounds
    <2>3. CASE /\ pc' = [pc EXCEPT ![p] = "up"] /\ id' = [id EXCEPT ![p] = i]
               /\ sess' = [sess EXCEPT ![p] = regs + 1] /\ myName' = [myName EXCEPT ![p] = n]
               /\ UNCHANGED events
      BY <2>1, <2>2, <2>3
    <2>4. CASE events < MaxEvents /\ events' = events + 1 /\ UNCHANGED <<pc, id, sess, myName>>
      BY <2>1, <2>4
    <2>5. QED
      BY <1>1, <2>3, <2>4 DEF Answered
  <1>7. astray' \in BOOLEAN
    BY <1>1, Zenon DEF Answered, TypeOK
  <1>8. rows' \in [Ids -> Row] /\ regs' \in 0 .. MaxRegs
    BY <1>2, <1>3 DEF TypeOK
  <1>9. \A k, j \in Ids : k # j /\ rows'[k].there /\ rows'[j].there => rows'[k].name # rows'[j].name
    BY <1>3 DEF TypeOK, EnrolledRow
  <1>10. QED
    BY <1>4, <1>5, <1>6, <1>7, <1>8, <1>9 DEF TypeOK, Register

LEMMA StepTypeOK == TypeOK /\ Numbered /\ [Next]_vars => TypeOK'
  <1> SUFFICES ASSUME TypeOK, Numbered, [Next]_vars PROVE TypeOK'
    OBVIOUS
  <1>0. rows \in [Ids -> Row]
    BY DEF TypeOK
  <1> USE DEF TypeOK, TableTypeOK, tableVars, brokerVars, clientVars, boundVars, histVars
  <1>1. ASSUME NEW p \in Procs, Start(p) PROVE TypeOK'
    BY <1>1, BrokerAssumption DEF Start
  <1>2. ASSUME NEW p \in Procs, Exit(p) PROVE TypeOK'
    <2>1. rows' \in [Ids -> Row] /\ \A i \in Ids : rows'[i].there => rows[i].there /\ rows'[i].name = rows[i].name
      BY <1>0, <1>2, ExitFacts
    <2>2. pc' \in [Procs -> {"off", "joining", "up"}] /\ sess' \in [Procs -> 0 .. MaxRegs]
      BY <1>2, Bounds DEF Exit
    <2>3. id' \in [Procs -> 0 .. MaxRegs]
      BY <1>2, Bounds DEF Exit
    <2>4. myName' \in [Procs -> Names] /\ held' \in [Procs -> SUBSET Tokens]
      BY <1>2, BrokerAssumption DEF Exit
    <2>5. UNCHANGED <<tableVars, regs, to, chatMail, boundVars, histVars>>
      BY <1>2 DEF Exit
    <2>6. QED
      BY <2>1, <2>2, <2>3, <2>4, <2>5
  <1>3. ASSUME NEW p \in Procs, Register(p) PROVE TypeOK'
    BY <1>3, RegisterTypeOK
  <1>4. ASSUME NEW p \in Procs, Heartbeat(p) PROVE TypeOK'
    <2>1. CASE Current(p) /\ Seen(p) /\ UNCHANGED pc
      <3>1. id[p] \in Ids
        BY <2>1, Bounds DEF Current
      <3>2. rows' \in [Ids -> Row]
            /\ \A i \in Ids : rows'[i].there = rows[i].there /\ rows'[i].name = rows[i].name
        BY <2>1, <1>0, <3>1, SeenFacts
      <3>3. QED
        BY <1>4, <2>1, <3>2 DEF Heartbeat
    <2>2. CASE ~Current(p)
      BY <1>4, <2>2 DEF Heartbeat
    <2>3. QED
      BY <1>4, <2>1, <2>2 DEF Heartbeat
  <1>5. ASSUME NEW p \in Procs, AckMail(p) PROVE TypeOK'
    <2>1. TableTypeOK'
      BY <1>5, AckType DEF AckMail
    <2>2. closer' \in [Msgs -> Procs \cup {Nobody}] /\ held' \in [Procs -> SUBSET Tokens]
      BY <1>5 DEF AckMail
    <2>3. QED
      BY <1>5, <2>1, <2>2 DEF AckMail, Ack
  <1>6. ASSUME NEW p \in Procs, NEW n \in NewNames, Rename(p, n) PROVE TypeOK'
    <2>1. n \in Names /\ id[p] \in Ids
      BY <1>6, Bounds, BrokerAssumption DEF Rename, Current
    <2>2. rows' \in [Ids -> Row]
      BY <1>0, <1>6, <2>1, RenameFacts
    <2>3. \A i \in Ids : rows'[i].there = rows[i].there /\ rows'[i].name = IF i = id[p] THEN n ELSE rows[i].name
      BY <1>0, <1>6, <2>1, RenameFacts
    <2>4. \A i \in Ids : rows[i].there /\ rows[i].name = n => i = id[p]
      BY <1>6 DEF Rename, RowsNamed
    <2>5. \A i, j \in Ids : i # j /\ rows'[i].there /\ rows'[j].there => rows'[i].name # rows'[j].name
      BY <2>3, <2>4
    <2>6. events' \in 0 .. MaxEvents /\ myName' \in [Procs -> Names]
      BY <1>6, <2>1, BrokerAssumption DEF Rename
    <2>7. QED
      BY <1>6, <2>2, <2>5, <2>6 DEF Rename
  <1>7. ASSUME NEW p \in Procs, NEW chat \in BOOLEAN, Poll(p, chat) PROVE TypeOK'
    <2> DEFINE ms == Leasable(PollScope(p, chat))
    <2>1. TableTypeOK'
      BY <1>7, LeaseType DEF Poll
    <2>2. rows' \in [Ids -> Row]
          /\ \A i \in Ids : rows'[i].there = rows[i].there /\ rows'[i].name = rows[i].name
      <3>1. id[p] \in Ids /\ Seen(p)
        BY <1>7, Bounds DEF Poll, Current
      <3>2. QED
        BY <1>0, <3>1, SeenFacts
    <2>3. {<<m, leaseNo[m] + 1>> : m \in ms} \subseteq Tokens
      BY LeasableFacts DEF Tokens
    <2>4. held' \in [Procs -> SUBSET Tokens]
      BY <1>7, <2>3 DEF Poll
    <2>5. reader' \in [Msgs -> Procs \cup {Nobody}]
      BY <1>7 DEF Poll
    <2>6. QED
      BY <1>7, <2>1, <2>2, <2>4, <2>5 DEF Poll, Lease
  <1>8. ASSUME NEW i \in Ids, Age(i) PROVE TypeOK'
    <2>1. rows' \in [Ids -> Row]
          /\ \A j \in Ids : rows'[j].there = rows[j].there /\ rows'[j].name = rows[j].name
      BY <1>8, AgeFacts
    <2>2. lapses' \in 0 .. MaxLapses
      BY <1>8, BrokerAssumption DEF Age
    <2>3. QED
      BY <1>8, <2>1, <2>2 DEF Age
  <1>9. ASSUME NEW i \in Ids, NEW m \in Msgs, Notice(m, i) PROVE TypeOK'
    <2>1. astray' \in BOOLEAN
      BY <1>9, Zenon DEF Notice
    <2>2. QED
      BY <1>9, <2>1, Bounds DEF Notice, Insert
  <1>10. ASSUME NEW i \in Ids, NEW m \in Msgs, NEW chat \in BOOLEAN, Send(m, i, chat) PROVE TypeOK'
    <2>1. Target(i, chat) \in Ids
      BY TargetIsRow
    <2>2. QED
      BY <1>10, <2>1, Bounds DEF Send, Insert
  <1>11. ASSUME NEW m \in Msgs, LeaseExpires(m) PROVE TypeOK'
    BY <1>11 DEF LeaseExpires, Expire, LeaseStates
  <1>12. CASE Sweep
    <2>1. rows' \in [Ids -> Row] /\ \A i \in Ids : rows'[i].there => rows[i].there /\ rows'[i] = rows[i]
      BY <1>12, DeletedFacts DEF Sweep
    <2>2. QED
      BY <1>12, <2>1 DEF Sweep
  <1>13. CASE UNCHANGED vars
    BY <1>13 DEF vars
  <1>14. QED
    BY <1>1, <1>2, <1>3, <1>4, <1>5, <1>6, <1>7, <1>8, <1>9, <1>10, <1>11, <1>12, <1>13 DEF Next

-----------------------------------------------------------------------------
(* The inductive invariant *)

LEMMA InitIInv == Init => IInv
  <1> SUFFICES ASSUME Init PROVE IInv
    OBVIOUS
  <1>1. TypeOK
    BY InitTypeOK
  <1>2. \A i \in Ids : ~rows[i].there /\ rows[i].session = 0
    BY DEF Init, NoRow
  <1>3. queued = {} /\ acked = {} /\ \A m \in Msgs : lease[m] = "none" /\ closer[m] = Nobody
    BY DEF Init, TableInit
  <1>4. \A p \in Procs : sess[p] = 0 /\ held[p] = {}
    BY DEF Init
  <1>5. RowsOK
    BY <1>1, <1>2, <1>4, Bounds DEF RowsOK, Numbered, SessionsAreOwned, RowsAreKnown, TypeOK
  <1>6. MailOK
    BY <1>3, <1>4 DEF MailOK, MailIsAddressed, TokensAreReaders, ClosedIsAcked,
                      LeasedToCurrent, MailFollowsAgent
  <1>7. QED
    BY <1>1, <1>5, <1>6 DEF IInv

\* Touching rows without giving them away disturbs nothing.
LEMMA TouchIInv ==
  ASSUME IInv, SameRows, regs' = regs, UNCHANGED <<tableVars, to, chatMail, pc, id, sess, held, histVars>>
  PROVE  RowsOK' /\ MailOK'
  <1>1. rows \in [Ids -> Row]
    BY DEF IInv, TypeOK
  <1>2. RowsOK'
    BY DEF IInv, RowsOK, Numbered, SessionsAreOwned, RowsAreKnown, SameRows, histVars
  <1>3. MailOK'
    <2> USE DEF IInv, MailOK, SameRows, tableVars, histVars
    <2>1. MailIsAddressed' /\ TokensAreReaders' /\ ClosedIsAcked'
      BY DEF MailIsAddressed, TokensAreReaders, ClosedIsAcked
    <2>2. \A m \in queued : to[m] \in Ids
      BY DEF MailIsAddressed, TypeOK, TableTypeOK
    <2>3. LeasedToCurrent'
      BY <2>2 DEF LeasedToCurrent
    <2>4. MailFollowsAgent'
      BY <2>2 DEF MailFollowsAgent
    <2>5. QED
      BY <2>1, <2>3, <2>4
  <1>4. QED
    BY <1>2, <1>3

LEMMA RegisterIInv ==
  ASSUME IInv, NEW p \in Procs, Register(p) PROVE RowsOK' /\ MailOK'
  <1>0. TypeOK /\ Numbered /\ regs \in Nat /\ Nobody \notin Procs
    BY Bounds, BrokerAssumption DEF IInv, RowsOK, TypeOK
  <1>1. PICK i \in Ids, n \in Names : Taken(p, i, n) /\ Enroll(p, i, n) /\ Answered(p, i, n)
    BY DEF Register, Taken
  <1>2. regs < MaxRegs /\ MaxRegs \in Nat /\ pc[p] = "joining"
    BY Bounds DEF Register
  <1>3. rows' = [rows EXCEPT ![i] = EnrolledRow(p, n)] /\ i <= regs + 1 /\ regs' = regs + 1
    BY <1>0, <1>1, <1>2, EnrollFacts
  <1>4. /\ rows'[i].there /\ ~rows'[i].gone /\ rows'[i].by = p /\ rows'[i].session = regs + 1
        /\ \A j \in Ids : j # i => rows'[j] = rows[j]
    BY <1>0, <1>3 DEF EnrolledRow, TypeOK
  <1>5. \/ /\ pc' = [pc EXCEPT ![p] = "up"] /\ id' = [id EXCEPT ![p] = i]
           /\ sess' = [sess EXCEPT ![p] = regs + 1] /\ UNCHANGED astray
        \/ astray' /\ UNCHANGED <<pc, id, sess>>
    BY <1>1, Zenon DEF Answered
  <1>6. \A q \in Procs : sess'[q] = sess[q] \/ (q = p /\ sess'[q] = regs + 1)
    BY <1>0, <1>5 DEF TypeOK
  <1>7. /\ UNCHANGED <<queued, acked, leaseNo, chatMail, held, reader, closer>>
        /\ \A m \in Msgs : /\ to'[m] = IF m \in Orphaned(p, i) THEN i ELSE to[m]
                           /\ lease'[m] = IF m \in (Orphaned(p, i) \cup Unacked(i)) \ acked
                                         THEN "none" ELSE lease[m]
    BY <1>1 DEF Enroll, ClearLeases, Register
  <1> HIDE DEF Ids
  <1>8. Numbered'
    <2>1. \A j \in Ids : /\ rows'[j].session <= regs + 1
                         /\ rows'[j].there => rows'[j].session # 0 /\ rows'[j].by \in Procs
                         /\ rows'[j].session # 0 => j <= regs + 1 /\ rows'[j].by \in Procs
      BY <1>0, <1>3, <1>4, Bounds DEF Numbered, TypeOK, Row
    <2>2. \A q \in Procs : sess'[q] <= regs + 1
      <3>1. \A q \in Procs : sess[q] \in Nat /\ sess[q] <= regs
        BY <1>0, Bounds DEF Numbered, TypeOK
      <3>2. QED
        BY <1>0, <1>6, <3>1
    <2>3. QED
      BY <1>3, <2>1, <2>2 DEF Numbered
  <1>9. SessionsAreOwned'
    <2>1. \A q \in Procs : sess[q] \in Nat /\ sess[q] <= regs
      BY <1>0, Bounds DEF Numbered, TypeOK
    <2>2. \A j \in Ids : rows[j].session \in Nat /\ rows[j].session <= regs
      BY <1>0, Bounds DEF Numbered, TypeOK, Row
    <2>3. QED
      BY <1>0, <1>4, <1>6, <2>1, <2>2 DEF SessionsAreOwned, IInv, RowsOK
  <1>10. RowsAreKnown'
    <2> SUFFICES ASSUME ~astray', NEW j \in Ids, rows'[j].there, ~rows'[j].gone
                 PROVE  /\ id'[rows'[j].by] = j /\ sess'[rows'[j].by] = rows'[j].session
                        /\ pc'[rows'[j].by] = "up"
      BY DEF RowsAreKnown
    <2>1. /\ pc' = [pc EXCEPT ![p] = "up"] /\ id' = [id EXCEPT ![p] = i]
          /\ sess' = [sess EXCEPT ![p] = regs + 1] /\ ~astray
      BY <1>5
    <2>2. CASE j = i
      BY <1>0, <1>4, <2>1, <2>2 DEF TypeOK
    <2>3. CASE j # i
      BY <1>0, <1>2, <1>4, <2>1, <2>3 DEF TypeOK, RowsAreKnown, IInv, RowsOK, Numbered
    <2>4. QED
      BY <2>2, <2>3
  <1>11. MailIsAddressed' /\ TokensAreReaders' /\ ClosedIsAcked'
    BY <1>7 DEF MailIsAddressed, TokensAreReaders, ClosedIsAcked, IInv, MailOK
  <1>12. \A m \in queued : m \in Msgs /\ to[m] \in Ids
    BY <1>0 DEF MailIsAddressed, IInv, MailOK, TypeOK, TableTypeOK
  <1>13. LeasedToCurrent'
    <2> SUFFICES ASSUME NEW m \in (queued \ acked) \ chatMail, lease'[m] = "live", rows'[to'[m]].there
                 PROVE  reader[m] = rows'[to'[m]].by
      BY <1>7 DEF LeasedToCurrent
    <2>1. m \notin Orphaned(p, i) /\ m \notin Unacked(i) /\ lease[m] = "live"
      BY <1>7, <1>12
    <2>2. to'[m] = to[m] /\ to[m] # i
      BY <1>7, <1>12, <2>1 DEF Unacked
    <2>3. QED
      BY <1>4, <1>12, <2>1, <2>2 DEF LeasedToCurrent, IInv, MailOK
  <1>14. MailFollowsAgent'
    <2> SUFFICES ASSUME ~astray', NEW m \in queued \ acked, ~rows'[to'[m]].there, ~rows'[to'[m]].gone
                 PROVE  id'[rows'[to'[m]].by] = to'[m]
      BY <1>7, Zenon DEF MailFollowsAgent
    <2>1. id' = [id EXCEPT ![p] = i] /\ ~astray
      BY <1>5
    <2>2. m \in Msgs /\ to'[m] # i /\ m \notin Orphaned(p, i) /\ to'[m] = to[m] /\ rows'[to'[m]] = rows[to[m]]
      BY <1>4, <1>7, <1>12
    <2>3. id[rows[to[m]].by] = to[m]
      BY <2>1, <2>2, <1>12 DEF MailFollowsAgent, IInv, MailOK
    <2>4. rows[to[m]].by # p
      BY <1>12, <2>2, <2>3, Bounds DEF Orphaned, Unacked
    <2>5. QED
      BY <1>0, <2>1, <2>2, <2>3, <2>4, <1>12 DEF TypeOK, Row
  <1>15. QED
    BY <1>8, <1>9, <1>10, <1>11, <1>13, <1>14 DEF RowsOK, MailOK

LEMMA ExitIInv ==
  ASSUME IInv, NEW p \in Procs, Exit(p) PROVE RowsOK' /\ MailOK'
  <1>1. rows \in [Ids -> Row] /\ UNCHANGED <<tableVars, regs, to, chatMail, histVars>>
    BY DEF Exit, IInv, TypeOK
  <1>2. \A i \in Ids : /\ rows'[i].by = rows[i].by /\ rows'[i].session = rows[i].session
                       /\ rows'[i].gone <=> rows[i].by = p \/ rows[i].gone
                       /\ rows'[i].there => rows[i].there
                       /\ rows[i].there /\ ~rows'[i].there => rows[i].session = sess[p] /\ i = id[p]
    BY <1>1, ExitFacts
  <1>3. \A q \in Procs : /\ q # p => pc'[q] = pc[q] /\ id'[q] = id[q] /\ sess'[q] = sess[q] /\ held'[q] = held[q]
                         /\ q = p => sess'[q] = 0 /\ held'[q] = {}
    BY DEF Exit, IInv, TypeOK
  <1>4. Numbered'
    <2>1. \A q \in Procs : sess'[q] <= regs
      <3>1. regs \in Nat
        BY Bounds DEF IInv, TypeOK
      <3>2. QED
        BY <1>3, <3>1 DEF IInv, RowsOK, Numbered
    <2>2. QED
      BY <1>1, <1>2, <2>1 DEF IInv, RowsOK, Numbered
  <1>5. SessionsAreOwned'
    BY <1>2, <1>3 DEF IInv, RowsOK, SessionsAreOwned
  <1>6. RowsAreKnown'
    <2> SUFFICES ASSUME ~astray, NEW i \in Ids, rows'[i].there, ~rows'[i].gone
                 PROVE  /\ id'[rows'[i].by] = i /\ sess'[rows'[i].by] = rows'[i].session
                        /\ pc'[rows'[i].by] = "up"
      BY <1>1 DEF RowsAreKnown, histVars
    <2>1. rows[i].there /\ ~rows[i].gone /\ rows[i].by # p /\ rows[i].by \in Procs
      BY <1>2 DEF IInv, RowsOK, Numbered
    <2>2. QED
      BY <1>2, <1>3, <2>1 DEF IInv, RowsOK, RowsAreKnown
  <1>7. MailIsAddressed' /\ TokensAreReaders' /\ ClosedIsAcked'
    BY <1>1, <1>3 DEF IInv, MailOK, MailIsAddressed, TokensAreReaders, ClosedIsAcked, tableVars, histVars
  <1>8. \A m \in queued : to[m] \in Ids
    BY DEF IInv, MailOK, MailIsAddressed, TypeOK, TableTypeOK
  <1>9. LeasedToCurrent'
    BY <1>1, <1>2, <1>8 DEF IInv, MailOK, LeasedToCurrent, tableVars, histVars
  <1>10. MailFollowsAgent'
    <2> SUFFICES ASSUME ~astray, NEW m \in queued \ acked, ~rows'[to[m]].there, ~rows'[to[m]].gone
                 PROVE  id'[rows'[to[m]].by] = to[m]
      BY <1>1, Zenon DEF MailFollowsAgent, tableVars, histVars
    <2> DEFINE i == to[m]
    <2>1. i \in Ids /\ rows'[i].by = rows[i].by /\ rows[i].by # p /\ ~rows[i].gone
      BY <1>2, <1>8
    <2>2. ~rows[i].there
      BY <1>2, <2>1 DEF IInv, RowsOK, SessionsAreOwned, Numbered
    <2>3. id[rows[i].by] = i
      BY <2>1, <2>2 DEF IInv, MailOK, MailFollowsAgent
    <2>4. QED
      BY <2>1, <2>3 DEF Exit, IInv, TypeOK
  <1>11. QED
    BY <1>4, <1>5, <1>6, <1>7, <1>9, <1>10 DEF RowsOK, MailOK

LEMMA PollIInv ==
  ASSUME IInv, NEW p \in Procs, NEW chat \in BOOLEAN, Poll(p, chat) PROVE RowsOK' /\ MailOK'
  <1> DEFINE ms == Leasable(PollScope(p, chat))
  <1>1. /\ Seen(p) /\ Lease(ms) /\ UNCHANGED <<regs, to, chatMail, pc, id, sess, closer, astray>>
        /\ reader' = [m \in Msgs |-> IF m \in ms THEN p ELSE reader[m]]
        /\ held' = [held EXCEPT ![p] = {t \in @ : t[1] \notin ms} \cup {<<m, leaseNo[m] + 1>> : m \in ms}]
        /\ id[p] \in Ids /\ rows[id[p]].there /\ rows[id[p]].session = sess[p]
    BY Bounds DEF Poll, Current, IInv, TypeOK
  <1>2. rows \in [Ids -> Row]
    BY DEF IInv, TypeOK
  <1>3. SameRows
    BY <1>1, <1>2, SeenFacts
  <1>4. /\ leaseNo' = [m \in Msgs |-> IF m \in ms THEN leaseNo[m] + 1 ELSE leaseNo[m]]
        /\ lease' = [m \in Msgs |-> IF m \in ms THEN "live" ELSE lease[m]]
        /\ UNCHANGED <<queued, acked>>
    BY <1>1 DEF Lease
  <1>5. \A m \in ms : m \in PollScope(p, chat) /\ m \in queued /\ m \notin acked /\ lease[m] # "live"
    BY LeasableFacts
  <1> HIDE DEF ms
  <1>6. RowsOK'
    BY <1>1, <1>3 DEF IInv, RowsOK, Numbered, SessionsAreOwned, RowsAreKnown, SameRows
  <1>7. queued \subseteq Msgs /\ leaseNo \in [Msgs -> Nat] /\ held \in [Procs -> SUBSET (Msgs \X Nat)]
    BY DEF IInv, TypeOK, TableTypeOK, Tokens
  <1>8. MailIsAddressed' /\ ClosedIsAcked'
    BY <1>1, <1>4, <1>5 DEF IInv, MailOK, MailIsAddressed, ClosedIsAcked
  <1>9. TokensAreReaders'
    <2> SUFFICES ASSUME NEW q \in Procs, NEW m \in Msgs, NEW n \in Nat, <<m, n>> \in held'[q]
                 PROVE  n <= leaseNo'[m] /\ (n = leaseNo'[m] => reader'[m] = q)
      BY DEF TokensAreReaders
    <2>1. CASE <<m, n>> \in held[q] /\ (q = p => m \notin ms)
      <3>1. n <= leaseNo[m] /\ (n = leaseNo[m] => reader[m] = q)
        BY <2>1 DEF IInv, MailOK, TokensAreReaders
      <3>2. QED
        BY <1>1, <1>4, <1>7, <3>1
    <2>2. CASE q = p /\ m \in ms /\ n = leaseNo[m] + 1
      BY <1>1, <1>4, <1>7, <2>2
    <2>3. QED
      BY <1>1, <1>7, <2>1, <2>2
  <1>10. \A m \in queued : to[m] \in Ids
    BY <1>7 DEF IInv, MailOK, MailIsAddressed
  <1>11. LeasedToCurrent'
    <2> SUFFICES ASSUME NEW m \in (queued \ acked) \ chatMail, lease'[m] = "live", rows'[to[m]].there
                 PROVE  reader'[m] = rows'[to[m]].by
      BY <1>1, <1>4 DEF LeasedToCurrent
    <2>1. rows'[to[m]].there = rows[to[m]].there /\ rows'[to[m]].by = rows[to[m]].by
      BY <1>3, <1>10 DEF SameRows
    <2>2. CASE m \in ms
      <3>1. to[m] = id[p]
        BY <1>5, <2>2 DEF PollScope, Target
      <3>2. rows[id[p]].by = p
        BY <1>1 DEF IInv, RowsOK, SessionsAreOwned, Numbered
      <3>3. QED
        BY <1>1, <1>7, <2>1, <2>2, <3>1, <3>2
    <2>3. CASE m \notin ms
      BY <1>1, <1>4, <1>7, <2>1, <2>3 DEF IInv, MailOK, LeasedToCurrent
    <2>4. QED
      BY <2>2, <2>3
  <1>12. MailFollowsAgent'
    BY <1>1, <1>3, <1>4, <1>10 DEF IInv, MailOK, MailFollowsAgent, SameRows
  <1>13. QED
    BY <1>6, <1>8, <1>9, <1>11, <1>12 DEF MailOK

LEMMA AckIInv ==
  ASSUME IInv, NEW p \in Procs, AckMail(p) PROVE RowsOK' /\ MailOK'
  <1> DEFINE hit == {m \in Msgs : Honoured(m, Ackable(p))}
  <1>1. /\ acked' = acked \cup hit /\ lease' = [m \in Msgs |-> IF m \in hit THEN "none" ELSE lease[m]]
        /\ closer' = [m \in Msgs |-> IF m \in hit THEN p ELSE closer[m]]
        /\ held' = [held EXCEPT ![p] = {}]
        /\ UNCHANGED <<queued, leaseNo, brokerVars, pc, id, sess, reader, astray>>
    BY DEF AckMail, Ack
  <1>2. hit \subseteq queued \ acked /\ queued \subseteq Msgs /\ acked \subseteq queued /\ hit \subseteq Msgs
        /\ held \in [Procs -> SUBSET (Msgs \X Nat)] /\ Nobody \notin Procs
    BY BrokerAssumption DEF Honoured, IInv, TypeOK, TableTypeOK, Tokens
  <1> HIDE DEF hit
  <1>3. RowsOK'
    BY <1>1 DEF IInv, RowsOK, Numbered, SessionsAreOwned, RowsAreKnown, brokerVars
  <1>4. MailIsAddressed' /\ ClosedIsAcked'
    BY <1>1, <1>2 DEF IInv, MailOK, MailIsAddressed, ClosedIsAcked, brokerVars
  <1>5. TokensAreReaders'
    BY <1>1, <1>2 DEF IInv, MailOK, TokensAreReaders
  <1>6. LeasedToCurrent' /\ MailFollowsAgent'
    BY <1>1, <1>2 DEF IInv, MailOK, LeasedToCurrent, MailFollowsAgent, brokerVars
  <1>7. QED
    BY <1>3, <1>4, <1>5, <1>6 DEF MailOK

\* Mail that arrives is addressed to a row, and is not leased.
LEMMA ArrivalIInv ==
  ASSUME IInv, NEW m \in Msgs, NEW i \in Ids, Insert(m), to' = [to EXCEPT ![m] = i],
         chatMail' \subseteq chatMail \cup {m}, chatMail \subseteq chatMail',
         UNCHANGED <<rows, regs, clientVars, reader, closer>>,
         ~astray' => ~astray /\ (rows[i].there \/ rows[i].gone \/ id[rows[i].by] = i)
  PROVE  RowsOK' /\ MailOK'
  <1>1. /\ m \notin queued /\ queued' = queued \cup {m} /\ UNCHANGED <<acked, leaseNo, lease>>
        /\ queued \subseteq Msgs /\ to \in [Msgs -> 0 .. MaxRegs]
    BY DEF Insert, IInv, TypeOK, TableTypeOK
  <1>2. lease[m] = "none"
    BY <1>1 DEF IInv, MailOK, MailIsAddressed
  <1>3. RowsOK'
    BY DEF IInv, RowsOK, Numbered, SessionsAreOwned, RowsAreKnown, clientVars
  <1>4. MailIsAddressed' /\ TokensAreReaders' /\ ClosedIsAcked'
    BY <1>1 DEF IInv, MailOK, MailIsAddressed, TokensAreReaders, ClosedIsAcked, clientVars
  <1>5. \A k \in Msgs : to'[k] = IF k = m THEN i ELSE to[k]
    BY <1>1
  <1>6. LeasedToCurrent'
    BY <1>1, <1>2, <1>5 DEF IInv, MailOK, LeasedToCurrent
  <1>7. MailFollowsAgent'
    BY <1>1, <1>5 DEF IInv, MailOK, MailFollowsAgent, clientVars
  <1>8. QED
    BY <1>3, <1>4, <1>6, <1>7 DEF MailOK

LEMMA SendIInv ==
  ASSUME IInv, NEW i \in Ids, NEW m \in Msgs, NEW chat \in BOOLEAN, Send(m, i, chat)
  PROVE  RowsOK' /\ MailOK'
  <1>1. Target(i, chat) \in Ids /\ rows[Target(i, chat)].there
    BY TargetIsRow DEF Send, Deliverable
  <1>2. chatMail' \subseteq chatMail \cup {m} /\ chatMail \subseteq chatMail'
    BY DEF Send
  <1>3. /\ Insert(m) /\ to' = [to EXCEPT ![m] = Target(i, chat)]
        /\ UNCHANGED <<rows, regs, clientVars, reader, closer, astray>>
    BY DEF Send, histVars
  <1>4. QED
    BY <1>1, <1>2, <1>3, ArrivalIInv

LEMMA NoticeIInv ==
  ASSUME IInv, NEW i \in Ids, NEW m \in Msgs, Notice(m, i) PROVE RowsOK' /\ MailOK'
  <1>1. /\ Insert(m) /\ to' = [to EXCEPT ![m] = i]
        /\ UNCHANGED <<rows, regs, chatMail, clientVars, reader, closer>>
    BY DEF Notice
  <1>2. ~astray' => ~astray /\ (rows[i].there \/ rows[i].gone \/ id[rows[i].by] = i)
    BY Zenon DEF Notice
  <1>3. QED
    BY <1>1, <1>2, ArrivalIInv

LEMMA ExpireIInv ==
  ASSUME IInv, NEW m \in Msgs, LeaseExpires(m) PROVE RowsOK' /\ MailOK'
  <1>1. /\ lease[m] = "live" /\ lease' = [lease EXCEPT ![m] = "expired"]
        /\ UNCHANGED <<queued, acked, leaseNo, brokerVars, clientVars, boundVars, histVars>>
        /\ lease \in [Msgs -> LeaseStates] /\ queued \subseteq Msgs
    BY DEF LeaseExpires, Expire, IInv, TypeOK, TableTypeOK
  <1>2. RowsOK'
    BY <1>1 DEF IInv, RowsOK, Numbered, SessionsAreOwned, RowsAreKnown, brokerVars, clientVars, histVars
  <1>3. MailOK'
    BY <1>1 DEF IInv, MailOK, MailIsAddressed, TokensAreReaders, ClosedIsAcked, LeasedToCurrent,
                MailFollowsAgent, brokerVars, clientVars, histVars
  <1>4. QED
    BY <1>2, <1>3

LEMMA SweepIInv ==
  ASSUME IInv, Sweep PROVE RowsOK' /\ MailOK'
  <1>1. rows \in [Ids -> Row] /\ UNCHANGED <<tableVars, regs, to, chatMail, clientVars, histVars>>
    BY DEF Sweep, IInv, TypeOK
  <1>2. \A i \in Ids : /\ rows'[i].by = rows[i].by /\ rows'[i].session = rows[i].session
                       /\ rows'[i].gone = rows[i].gone
                       /\ rows'[i].there => rows[i].there
    BY <1>1, DeletedFacts DEF Sweep
  <1>3. RowsOK'
    BY <1>1, <1>2 DEF IInv, RowsOK, Numbered, SessionsAreOwned, RowsAreKnown, clientVars, histVars
  <1>4. MailIsAddressed' /\ TokensAreReaders' /\ ClosedIsAcked'
    BY <1>1 DEF IInv, MailOK, MailIsAddressed, TokensAreReaders, ClosedIsAcked,
                tableVars, clientVars, histVars
  <1>5. \A m \in queued : to[m] \in Ids
    BY DEF IInv, MailOK, MailIsAddressed, TypeOK, TableTypeOK
  <1>6. LeasedToCurrent'
    BY <1>1, <1>2, <1>5 DEF IInv, MailOK, LeasedToCurrent, tableVars, histVars
  <1>7. MailFollowsAgent'
    <2> SUFFICES ASSUME ~astray, NEW m \in queued \ acked, ~rows'[to[m]].there, ~rows'[to[m]].gone
                 PROVE  id[rows'[to[m]].by] = to[m]
      BY <1>1, Zenon DEF MailFollowsAgent, tableVars, clientVars, histVars
    <2>1. to[m] \in Ids /\ ~rows[to[m]].gone /\ rows'[to[m]].by = rows[to[m]].by
      BY <1>2, <1>5
    <2>2. CASE rows[to[m]].there
      BY <2>1, <2>2 DEF IInv, RowsOK, RowsAreKnown
    <2>3. CASE ~rows[to[m]].there
      BY <2>1, <2>3 DEF IInv, MailOK, MailFollowsAgent
    <2>4. QED
      BY <2>1, <2>2, <2>3
  <1>8. QED
    BY <1>3, <1>4, <1>6, <1>7 DEF MailOK

LEMMA StepIInv == IInv /\ [Next]_vars => IInv'
  <1> SUFFICES ASSUME IInv, [Next]_vars PROVE RowsOK' /\ MailOK'
    BY StepTypeOK DEF IInv, RowsOK
  <1>0. rows \in [Ids -> Row]
    BY DEF IInv, TypeOK
  <1>1. ASSUME NEW p \in Procs, Start(p) PROVE RowsOK' /\ MailOK'
    <2>1. /\ pc[p] = "off" /\ pc' = [pc EXCEPT ![p] = "joining"]
          /\ UNCHANGED <<tableVars, rows, regs, to, chatMail, id, sess, held, histVars>>
      BY <1>1 DEF Start, brokerVars
    <2>2. RowsOK'
      BY <2>1 DEF IInv, TypeOK, RowsOK, Numbered, SessionsAreOwned, RowsAreKnown, histVars
    <2>3. MailOK'
      BY <2>1 DEF IInv, MailOK, MailIsAddressed, TokensAreReaders, ClosedIsAcked, LeasedToCurrent,
                  MailFollowsAgent, tableVars, histVars
    <2>4. QED
      BY <2>2, <2>3
  <1>2. ASSUME NEW p \in Procs, Exit(p) PROVE RowsOK' /\ MailOK'
    BY <1>2, ExitIInv
  <1>3. ASSUME NEW p \in Procs, Register(p) PROVE RowsOK' /\ MailOK'
    BY <1>3, RegisterIInv
  <1>4. ASSUME NEW p \in Procs, Heartbeat(p) PROVE RowsOK' /\ MailOK'
    <2>1. CASE Current(p) /\ Seen(p) /\ UNCHANGED pc
      <3>1. id[p] \in Ids
        BY <2>1, Bounds DEF Current, IInv, TypeOK
      <3>2. SameRows
        BY <1>0, <2>1, <3>1, SeenFacts
      <3>3. QED
        BY <1>4, <2>1, <3>2, TouchIInv DEF Heartbeat
    <2>2. CASE ~Current(p) /\ pc' = [pc EXCEPT ![p] = "joining"] /\ UNCHANGED rows
      <3>1. UNCHANGED <<tableVars, rows, regs, to, chatMail, id, sess, held, histVars>>
        BY <1>4, <2>2 DEF Heartbeat
      <3>2. RowsAreKnown'
        <4> SUFFICES ASSUME ~astray, NEW i \in Ids, rows[i].there, ~rows[i].gone
                     PROVE  /\ id[rows[i].by] = i /\ sess[rows[i].by] = rows[i].session
                            /\ pc'[rows[i].by] = "up"
          BY <3>1 DEF RowsAreKnown, histVars
        <4>1. /\ id[rows[i].by] = i /\ sess[rows[i].by] = rows[i].session
              /\ pc[rows[i].by] = "up" /\ i # 0
          BY Bounds DEF IInv, RowsOK, RowsAreKnown
        <4>2. rows[i].by # p
          BY <2>2, <4>1 DEF Current
        <4>3. QED
          BY <2>2, <4>1, <4>2 DEF IInv, TypeOK
      <3>3. RowsOK'
        BY <3>1, <3>2 DEF IInv, RowsOK, Numbered, SessionsAreOwned
      <3>4. MailOK'
        BY <3>1 DEF IInv, MailOK, MailIsAddressed, TokensAreReaders, ClosedIsAcked, LeasedToCurrent,
                    MailFollowsAgent, tableVars, histVars
      <3>5. QED
        BY <3>3, <3>4
    <2>3. QED
      BY <1>4, <2>1, <2>2 DEF Heartbeat
  <1>5. ASSUME NEW p \in Procs, AckMail(p) PROVE RowsOK' /\ MailOK'
    BY <1>5, AckIInv
  <1>6. ASSUME NEW p \in Procs, NEW n \in NewNames, Rename(p, n) PROVE RowsOK' /\ MailOK'
    <2>1. id[p] \in Ids /\ n \in Names
      BY <1>6, Bounds, BrokerAssumption DEF Rename, Current, IInv, TypeOK
    <2>2. SameRows
      BY <1>0, <1>6, <2>1, RenameFacts DEF SameRows
    <2>3. QED
      BY <1>6, <2>2, TouchIInv DEF Rename
  <1>7. ASSUME NEW p \in Procs, NEW chat \in BOOLEAN, Poll(p, chat) PROVE RowsOK' /\ MailOK'
    BY <1>7, PollIInv
  <1>8. ASSUME NEW i \in Ids, Age(i) PROVE RowsOK' /\ MailOK'
    <2>1. SameRows
      BY <1>0, <1>8, AgeFacts
    <2>2. QED
      BY <1>8, <2>1, TouchIInv DEF Age, clientVars
  <1>9. ASSUME NEW i \in Ids, NEW m \in Msgs, Notice(m, i) PROVE RowsOK' /\ MailOK'
    BY <1>9, NoticeIInv
  <1>10. ASSUME NEW i \in Ids, NEW m \in Msgs, NEW chat \in BOOLEAN, Send(m, i, chat)
         PROVE  RowsOK' /\ MailOK'
    BY <1>10, SendIInv
  <1>11. ASSUME NEW m \in Msgs, LeaseExpires(m) PROVE RowsOK' /\ MailOK'
    BY <1>11, ExpireIInv
  <1>12. CASE Sweep
    BY <1>12, SweepIInv
  <1>13. CASE UNCHANGED vars
    <2>1. SameRows /\ UNCHANGED <<tableVars, regs, to, chatMail, pc, id, sess, held, histVars>>
      BY <1>13 DEF vars, brokerVars, clientVars, SameRows
    <2>2. QED
      BY <2>1, TouchIInv
  <1>14. QED
    BY <1>1, <1>2, <1>3, <1>4, <1>5, <1>6, <1>7, <1>8, <1>9, <1>10, <1>11, <1>12, <1>13 DEF Next

\* The inductive invariant of the peers table and the mailboxes.
THEOREM Safety == Spec => []IInv
  <1>1. Init => IInv
    BY InitIInv
  <1>2. IInv /\ [Next]_vars => IInv'
    BY StepIInv
  <1>3. QED
    BY <1>1, <1>2, PTL DEF Spec

\* Every variable keeps its type, and no two rows of the peers table have one name
\* (the UNIQUE column of the schema is never what stops a registration or a rename).
THEOREM TypeCorrect == Spec => []TypeOK
  <1>1. IInv => TypeOK
    BY DEF IInv
  <1>2. QED
    BY <1>1, Safety, PTL

\* A live lease on general mail belongs to the process that has the row now.
THEOREM CurrentLeases == Spec => []LeasedToCurrent
  <1>1. IInv => LeasedToCurrent
    BY DEF IInv, MailOK
  <1>2. QED
    BY <1>1, Safety, PTL

\* Mail follows its agent from a collected row to the row of its next session.
THEOREM MailIsFollowed == Spec => []MailFollowsAgent
  <1>1. IInv => MailFollowsAgent
    BY DEF IInv, MailOK
  <1>2. QED
    BY <1>1, Safety, PTL

-----------------------------------------------------------------------------
(* The leases *)

LEMMA RefinesInit == Init => L!Init
  BY DEF Init, TableInit, L!Init

\* Taking leases away, or nothing at all, is a revocation.
LEMMA RevokeStep ==
  ASSUME NEW ms \in SUBSET Msgs, lease' = [m \in Msgs |-> IF m \in ms THEN "none" ELSE lease[m]],
         UNCHANGED <<reader, closer>>
  PROVE  L!Next
  <1>1. L!Revoke(ms)
    BY DEF L!Revoke
  <1>2. QED
    BY <1>1 DEF L!Next

LEMMA RefinesStep == IInv /\ [Next]_vars => [L!Next]_(L!leaseVars)
  <1> SUFFICES ASSUME IInv, [Next]_vars PROVE [L!Next]_(L!leaseVars)
    OBVIOUS
  <1>1. /\ TypeOK /\ Nobody \notin Procs
        /\ lease \in [Msgs -> LeaseStates] /\ closer \in [Msgs -> Procs \cup {Nobody}]
    BY BrokerAssumption DEF IInv, TypeOK, TableTypeOK
  <1>2. ASSUME UNCHANGED <<lease, reader, closer>> PROVE UNCHANGED L!leaseVars
    BY <1>2 DEF L!leaseVars
  <1>3. ASSUME NEW p \in Procs, Register(p) PROVE L!Next
    <2>1. PICK i \in Ids : ClearLeases(Orphaned(p, i) \cup Unacked(i))
      BY <1>3 DEF Register, Enroll
    <2> DEFINE ms == {m \in Msgs : m \in (Orphaned(p, i) \cup Unacked(i)) \ acked}
    <2>2. lease' = [m \in Msgs |-> IF m \in ms THEN "none" ELSE lease[m]]
      BY <2>1 DEF ClearLeases
    <2>3. ms \in SUBSET Msgs /\ UNCHANGED <<reader, closer>>
      BY <1>3 DEF Register
    <2> HIDE DEF ms
    <2>4. QED
      BY <2>2, <2>3, RevokeStep
  <1>4. ASSUME NEW p \in Procs, NEW chat \in BOOLEAN, Poll(p, chat) PROVE L!Next
    <2> DEFINE ms == Leasable(PollScope(p, chat))
    <2>1. /\ lease' = [m \in Msgs |-> IF m \in ms THEN "live" ELSE lease[m]]
          /\ reader' = [m \in Msgs |-> IF m \in ms THEN p ELSE reader[m]]
          /\ UNCHANGED closer
      BY <1>4 DEF Poll, Lease
    <2>2. \A m \in ms : m \in Msgs /\ lease[m] # "live" /\ closer[m] = Nobody
      BY LeasableFacts DEF IInv, TypeOK, TableTypeOK, MailOK, ClosedIsAcked
    <2> HIDE DEF ms
    <2>3. L!Take(ms, p)
      BY <2>1, <2>2 DEF L!Take
    <2>4. QED
      BY <2>2, <2>3 DEF L!Next
  <1>5. ASSUME NEW p \in Procs, AckMail(p) PROVE L!Next
    <2> DEFINE hit == {m \in Msgs : Honoured(m, Ackable(p))}
    <2>1. /\ lease' = [m \in Msgs |-> IF m \in hit THEN "none" ELSE lease[m]]
          /\ closer' = [m \in Msgs |-> IF m \in hit THEN p ELSE closer[m]]
          /\ UNCHANGED reader
      BY <1>5 DEF AckMail, Ack
    <2>2. ASSUME NEW m \in hit PROVE lease[m] = "live" /\ reader[m] = p
      <3>1. lease[m] = "live" /\ <<m, leaseNo[m]>> \in held[p] /\ leaseNo[m] \in Nat
        BY <2>2 DEF Honoured, Ackable, IInv, TypeOK, TableTypeOK
      <3>2. QED
        BY <2>2, <3>1 DEF IInv, MailOK, TokensAreReaders
    <2>3. hit \in SUBSET Msgs
      OBVIOUS
    <2> HIDE DEF hit
    <2>4. L!Close(hit, p)
      BY <2>1, <2>2, <2>3 DEF L!Close
    <2>5. QED
      BY <2>3, <2>4 DEF L!Next
  <1>6. ASSUME NEW m \in Msgs, LeaseExpires(m) PROVE L!Next
    <2>1. lease' = [lease EXCEPT ![m] = "expired"] /\ UNCHANGED <<reader, closer>>
      BY <1>6 DEF LeaseExpires, Expire, histVars
    <2>2. L!Revoke({m})
      BY <1>1, <2>1 DEF L!Revoke
    <2>3. QED
      BY <2>2 DEF L!Next
  <1>7. ASSUME NEW p \in Procs, Start(p) \/ Exit(p) \/ Heartbeat(p) \/ \E n \in NewNames : Rename(p, n)
        PROVE UNCHANGED <<lease, reader, closer>>
    BY <1>7 DEF Start, Exit, Heartbeat, Rename, tableVars, histVars
  <1>8. ASSUME NEW i \in Ids,
               Age(i) \/ \E m \in Msgs : Notice(m, i) \/ \E chat \in BOOLEAN : Send(m, i, chat)
        PROVE UNCHANGED <<lease, reader, closer>>
    BY <1>8 DEF Age, Notice, Send, Insert, tableVars, histVars
  <1>9. CASE Sweep \/ UNCHANGED vars
    BY <1>9 DEF Sweep, vars, tableVars, histVars, L!leaseVars
  <1>10. QED
    BY <1>2, <1>3, <1>4, <1>5, <1>6, <1>7, <1>8, <1>9 DEF Next

\* The mailboxes of the broker implement the exclusive leases of MailLeases: a
\* message is handed to one reader at a time, and only the reader that has it closes it.
THEOREM Refinement == Spec => HonorsLeases
  <1>1. Init => L!Init
    BY RefinesInit
  <1>2. IInv /\ [Next]_vars => [L!Next]_(L!leaseVars)
    BY RefinesStep
  <1>3. QED
    BY <1>1, <1>2, Safety, PTL DEF Spec, HonorsLeases, L!Spec

-----------------------------------------------------------------------------
(* Links of members *)

\* Row i is a member that links to row j by its name.
LinkedTo(rs, i, j) == rs[j].there /\ rs[j].name = rs[i].link /\ Kind[rs[j].by] = Kind[rs[i].by]

\* Names are unique, so the row that mailboxOwnerRow picks is the only candidate.
LEMMA OneOwner ==
  ASSUME NEW rs, \A k, l \in Ids : k # l /\ rs[k].there /\ rs[l].there => rs[k].name # rs[l].name,
         NEW i \in Ids, NEW j \in Ids, i # j
  PROVE  LET linked == {k \in {l \in Ids : rs[l].there /\ rs[l].name = rs[i].link} :
                          Kind[rs[k].by] = Kind[rs[i].by]}
         IN (IF linked = {} THEN i ELSE CHOOSE k \in linked : TRUE) = j <=> LinkedTo(rs, i, j)
  <1> DEFINE linked == {k \in {l \in Ids : rs[l].there /\ rs[l].name = rs[i].link} :
                          Kind[rs[k].by] = Kind[rs[i].by]}
  <1>1. \A k \in linked : k \in Ids /\ LinkedTo(rs, i, k)
    BY DEF LinkedTo
  <1>2. LinkedTo(rs, i, j) <=> j \in linked
    BY DEF LinkedTo
  <1>3. \A k, l \in linked : k = l
    BY DEF LinkedTo
  <1> HIDE DEF linked
  <1>4. linked # {} => (CHOOSE k \in linked : TRUE) \in linked
    OBVIOUS
  <1>5. (IF linked = {} THEN i ELSE CHOOSE k \in linked : TRUE) = j <=> j \in linked
    BY <1>3, <1>4
  <1>6. QED
    BY <1>2, <1>5 DEF linked

LEMMA LinksStep ==
  ASSUME IInv, [Next]_vars, NEW i \in Ids, NEW j \in Ids, i # j, rows[i].there, LinkedTo(rows, i, j),
         rows'[i].there, rows'[i].session = rows[i].session, rows'[j].there
  PROVE  LinkedTo(rows', i, j)
  <1>0. /\ rows \in [Ids -> Row] /\ TypeOK /\ Numbered /\ regs \in Nat
        /\ \A k, l \in Ids : k # l /\ rows[k].there /\ rows[l].there => rows[k].name # rows[l].name
    BY Bounds DEF IInv, TypeOK, RowsOK
  <1> DEFINE Untouched ==
        \A k \in Ids :
          rows'[k].there =>
            /\ rows'[k].name = rows[k].name
            /\ rows'[k].link = rows[k].link
            /\ rows'[k].by = rows[k].by
  <1>1. ASSUME Untouched PROVE LinkedTo(rows', i, j)
    BY <1>1 DEF LinkedTo
  <1>2. ASSUME NEW p \in Procs, Register(p) PROVE LinkedTo(rows', i, j)
    <2>1. PICK r \in Ids, n \in Names : Taken(p, r, n) /\ Enroll(p, r, n) /\ regs < MaxRegs
      BY <1>2 DEF Register, Taken
    <2>2. rows' = [rows EXCEPT ![r] = EnrolledRow(p, n)]
      BY <1>0, <2>1, EnrollFacts
    <2>3. rows'[r].session = regs + 1 /\ rows'[r].name = n /\ rows'[r].by = p
      BY <1>0, <2>2 DEF EnrolledRow
    <2>4. r # i
      BY <1>0, <2>3, Bounds DEF Numbered, Row
    <2>5. rows'[i] = rows[i] /\ (r # j => rows'[j] = rows[j])
      BY <1>0, <2>2, <2>4
    <2>6. CASE r = j
      <3>1. j <= regs
        BY <1>0 DEF Numbered, LinkedTo
      <3>2. j # regs + 1
        BY <1>0, <3>1, Bounds
      <3>3. j \in Reclaimable(p) /\ n = myName[p]
        BY <2>1, <2>6, <3>2 DEF Taken
      <3>4. rows[j].name = n /\ Kind[rows[j].by] = Kind[p]
        BY <3>3 DEF Reclaimable, RowsNamed
      <3>5. QED
        BY <2>3, <2>5, <2>6, <3>4 DEF LinkedTo
    <2>7. CASE r # j
      BY <2>5, <2>7 DEF LinkedTo
    <2>8. QED
      BY <2>6, <2>7
  <1>3. ASSUME NEW p \in Procs, NEW n \in NewNames, Rename(p, n) PROVE LinkedTo(rows', i, j)
    <2>1. id[p] \in Ids /\ n \in Names /\ rows[id[p]].there
      <3>1. id[p] \in 0 .. MaxRegs /\ id[p] # 0 /\ rows[id[p]].there /\ n \in Names
        BY <1>3, BrokerAssumption DEF Rename, Current, IInv, TypeOK
      <3>2. QED
        BY <3>1, Bounds
    <2>2. \A k \in Ids : /\ rows'[k].by = rows[k].by
                         /\ rows'[k].name = (IF k = id[p] THEN n ELSE rows[k].name)
                         /\ rows'[k].link = (IF rows[k].link = rows[id[p]].name THEN n ELSE rows[k].link)
      BY <1>0, <1>3, <2>1, RenameFacts
    <2>3. rows[i].link = rows[id[p]].name <=> j = id[p]
      BY <1>0, <2>1 DEF LinkedTo
    <2>4. QED
      BY <2>2, <2>3 DEF LinkedTo
  <1>4. ASSUME NEW p \in Procs, Exit(p) PROVE Untouched
    BY <1>0, <1>4, ExitFacts
  <1>5. ASSUME NEW p \in Procs, id[p] \in Ids, Seen(p) PROVE Untouched
    BY <1>0, <1>5, SeenFacts DEF SameRows
  <1>6. ASSUME NEW p \in Procs, Heartbeat(p) PROVE Untouched
    <2>1. CASE Current(p) /\ Seen(p)
      BY <1>0, <1>5, <2>1, Bounds DEF Current, TypeOK
    <2>2. CASE ~Current(p)
      BY <1>6, <2>2 DEF Heartbeat
    <2>3. QED
      BY <1>6, <2>1, <2>2 DEF Heartbeat
  <1>7. ASSUME NEW p \in Procs, NEW chat \in BOOLEAN, Poll(p, chat) PROVE Untouched
    BY <1>0, <1>5, <1>7, Bounds DEF Poll, Current, TypeOK
  <1>8. ASSUME NEW k \in Ids, Age(k) PROVE Untouched
    BY <1>0, <1>8, AgeFacts DEF SameRows
  <1>9. CASE Sweep
    <2>1. \A k \in Ids : ~Deleted(k).there
      BY <1>0, DeletedFacts
    <2>2. \A k \in Ids : rows'[k] = rows[k] \/ rows'[k] = Deleted(k)
      BY <1>9 DEF Sweep
    <2>3. ASSUME NEW k \in Ids, rows'[k].there PROVE rows'[k] = rows[k]
      BY <2>1, <2>2, <2>3, Zenon
    <2>4. QED
      BY <1>1, <2>3
  <1>10. ASSUME UNCHANGED rows PROVE Untouched
    BY <1>10
  <1>11. ASSUME NEW p \in Procs, Start(p) \/ AckMail(p) PROVE UNCHANGED rows
    BY <1>11 DEF Start, AckMail, brokerVars
  <1>12. ASSUME NEW k \in Ids, NEW m \in Msgs, Notice(m, k) \/ \E chat \in BOOLEAN : Send(m, k, chat)
         PROVE  UNCHANGED rows
    BY <1>12 DEF Notice, Send
  <1>13. ASSUME NEW m \in Msgs, LeaseExpires(m) PROVE UNCHANGED rows
    BY <1>13 DEF LeaseExpires, brokerVars
  <1>14. CASE UNCHANGED vars
    BY <1>10, <1>14 DEF vars, brokerVars
  <1> HIDE DEF Untouched
  <1>15. QED
    BY <1>1, <1>2, <1>3, <1>4, <1>6, <1>7, <1>8, <1>9, <1>10, <1>11, <1>12, <1>13, <1>14 DEF Next

\* A member keeps its owner's mailbox while both registrations stand, through every
\* rename, displacement and collection of rows.
THEOREM LinksHold == Spec => MembersStayLinked
  <1>1. IInv /\ IInv' /\ [Next]_vars =>
          [\A i, j \in Ids :
             /\ i # j /\ rows[i].there /\ Owner(i) = j
             /\ rows'[i].there /\ rows'[i].session = rows[i].session /\ rows'[j].there
             => Owner(i)' = j]_vars
    <2> SUFFICES ASSUME IInv, IInv', [Next]_vars, NEW i \in Ids, NEW j \in Ids, i # j,
                        rows[i].there, Owner(i) = j, rows'[i].there,
                        rows'[i].session = rows[i].session, rows'[j].there
                 PROVE  Owner(i)' = j
      OBVIOUS
    <2>1. /\ \A k, l \in Ids : k # l /\ rows[k].there /\ rows[l].there => rows[k].name # rows[l].name
          /\ \A k, l \in Ids : k # l /\ rows'[k].there /\ rows'[l].there => rows'[k].name # rows'[l].name
      BY DEF IInv, TypeOK
    <2>2. Owner(i) = j <=> LinkedTo(rows, i, j)
      BY <2>1, OneOwner DEF Owner, RowsNamed
    <2>3. Owner(i)' = j <=> LinkedTo(rows', i, j)
      BY <2>1, OneOwner DEF Owner, RowsNamed
    <2>4. QED
      BY <2>2, <2>3, LinksStep
  <1>2. QED
    BY <1>1, Safety, PTL DEF Spec, MembersStayLinked
=============================================================================
