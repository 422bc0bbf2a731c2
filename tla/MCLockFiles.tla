----------------------------- MODULE MCLockFiles -----------------------------
(***************************************************************************)
(* Both elections by lock file, the guarded one of the launch claims       *)
(* (RootClaim) and the renaming one of the name claims (HermesNameClaims), *)
(* for TLC.  They use different files and share no state, so a behaviour   *)
(* runs one of them and the other stays as it was.                         *)
(***************************************************************************)
EXTENDS RootClaim

CONSTANTS
  p1, p2, p3,
  NameAttempts,     \* MaxAttempts of HermesNameClaims
  NameCrashPoints   \* CrashPoints of HermesNameClaims

VARIABLES
  protocol,      \* which election this behaviour is about
  nameLock, predates, namePc, nameAttempt, died   \* the state of HermesNameClaims

ThreeProcs == {p1, p2, p3}

\* A child can be killed at any point.
AnyPoint == Calling \cup {"root", "inert"}

\* The owner of a name can die; where reclaimers die too, AtMostOneHolder of
\* HermesNameClaims does not hold.
OwnersOnly == {"held"}

NameClaims == INSTANCE HermesNameClaims
  WITH lock <- nameLock, pc <- namePc, attempt <- nameAttempt,
       MaxAttempts <- NameAttempts, CrashPoints <- NameCrashPoints

nameVars == <<nameLock, predates, namePc, nameAttempt, died>>

BothInit ==
  /\ Init /\ NameClaims!Init
  /\ protocol \in {"launch", "name"}

BothNext ==
  \/ protocol = "launch" /\ Next /\ UNCHANGED <<protocol, nameVars>>
  \/ protocol = "name" /\ NameClaims!Next /\ UNCHANGED <<protocol, vars>>

BothSpec ==
  /\ BothInit /\ [][BothNext]_<<vars, nameVars, protocol>>
  /\ protocol = "launch" => \A p \in Procs : WF_vars(Step(p))

\* See HermesNameClaims: while nobody died, the name has one owner, whose lock
\* nobody else removes or replaces.
SoleHolder == NameClaims!SoleHolder

\* See HermesNameClaims: a name is given up only to a live owner or contender.
NameLosesOnlyToLive == NameClaims!LosesOnlyToLive
==============================================================================
