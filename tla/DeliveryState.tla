---------------------------- MODULE DeliveryState ----------------------------
(***************************************************************************)
(* The delivery pipeline of one MCP process: class DeliveryState of        *)
(* shared/delivery-state.ts.  A message id is drawn into the response of   *)
(* one call, then presented (that response was fully built), then          *)
(* confirmed (a later call proved that it arrived).                        *)
(*                                                                         *)
(* Each operator below constrains only the fields it writes; the module    *)
(* that composes them says what stays unchanged.                           *)
(***************************************************************************)
EXTENDS Naturals, Messages

CONSTANT Calls   \* request slots: the callId of a CallTool request in flight

VARIABLES
  drawnByCall,   \* callId -> ids dealt into its response; a partial function
  drawn,         \* ids drawn and neither presented nor rolled back
  presentedGen,  \* generation a presented id was promoted at, 0 when it is not presented
  confirmed,     \* ids known to have been delivered
  generation     \* number of promotions so far

dsVars == <<drawnByCall, drawn, presentedGen, confirmed, generation>>

DSTypeOK ==
  /\ DOMAIN drawnByCall \subseteq Calls
  /\ drawnByCall \in [DOMAIN drawnByCall -> SUBSET Msgs]
  /\ drawn \subseteq Msgs
  /\ presentedGen \in [Msgs -> Nat]
  /\ confirmed \subseteq Msgs
  /\ generation \in Nat

\* A process starts with an empty pipeline.
DSInit ==
  /\ drawnByCall = [c \in {} |-> {}]
  /\ drawn = {}
  /\ presentedGen = [m \in Msgs |-> 0]
  /\ confirmed = {}
  /\ generation = 0

\* The process dies: nothing of the pipeline is persisted.
DSReset ==
  /\ drawnByCall' = [c \in {} |-> {}]
  /\ drawn' = {}
  /\ presentedGen' = [m \in Msgs |-> 0]
  /\ confirmed' = {}
  /\ generation' = 0

presented == {m \in Msgs : presentedGen[m] # 0}

newArrival == generation

\* Mutant of IsBlocked: a message in the response of a call in flight is not blocked.
IsBlockedOncePresented(m) == m \in presented \cup confirmed

IsBlocked(m) == m \in drawn \cup presented \cup confirmed

DrawnBy(c) == IF c \in DOMAIN drawnByCall THEN drawnByCall[c] ELSE {}

Draw(c, ids) ==
  /\ drawnByCall' = [d \in DOMAIN drawnByCall \cup {c} |->
                       IF d = c THEN DrawnBy(c) \cup ids ELSE drawnByCall[d]]
  /\ drawn' = drawn \cup ids

Forget(c) == drawnByCall' = [d \in DOMAIN drawnByCall \ {c} |-> drawnByCall[d]]

Promote(c) ==
  /\ c \in DOMAIN drawnByCall
  /\ generation' = generation + 1
  /\ presentedGen' = [m \in Msgs |->
                        IF m \in drawnByCall[c] THEN generation + 1 ELSE presentedGen[m]]
  /\ drawn' = drawn \ drawnByCall[c]
  /\ Forget(c)
  /\ UNCHANGED confirmed

\* Mutant of Rollback: the draws of the aborted call stay in the drawn set.
RollbackForgets(c) ==
  /\ c \in DOMAIN drawnByCall
  /\ Forget(c)
  /\ UNCHANGED <<drawn, presentedGen, confirmed, generation>>

Rollback(c) ==
  /\ c \in DOMAIN drawnByCall
  /\ drawn' = drawn \ drawnByCall[c]
  /\ Forget(c)
  /\ UNCHANGED <<presentedGen, confirmed, generation>>

\* Mutant of Confirmable: no arrival barrier.
ConfirmableAny(arrival) == presented
\* Presentations promoted before the arrival that snapshot `arrival` belongs to.
Confirmable(arrival) == {m \in presented : presentedGen[m] <= arrival}

MarkConfirmed(ids) ==
  /\ presentedGen' = [m \in Msgs |-> IF m \in ids THEN 0 ELSE presentedGen[m]]
  /\ confirmed' = confirmed \cup ids

\* Mutant of PruneConfirmed: only the queue is looked at, not the watermark.
PruneBelowQueue(queued, slack) ==
  confirmed' = {m \in confirmed : \E q \in queued : q <= m}

\* pruneSeenWatermark of codex-server.ts with pruneConfirmedBelow: forget the
\* confirmed ids below everything queued and `slack` below the newest confirmed.
PruneConfirmed(queued, slack) ==
  confirmed' = {m \in confirmed :
                  ~ /\ \A q \in queued : m < q
                    /\ \E top \in confirmed : m + slack < top}
=============================================================================
