------------------------------- MODULE MCBroker -------------------------------
(* Instances of Broker for TLC. *)
EXTENDS Broker, TLC

CONSTANTS p1, p2, p3, a, b, c, hermes

MCProcs == {p1, p2, p3}
MCNames == {a, b, c}

\* Two sessions ask for the same durable name, a third is a member of the first.
SharedName == [p \in MCProcs |-> IF p = p3 THEN b ELSE a]
OneKind == [p \in MCProcs |-> hermes]
MemberOfA == [p \in MCProcs |-> IF p = p3 THEN a ELSE NoName]

\* The two sessions are interchangeable.
SessionSymmetry == Permutations({p1, p2})
=============================================================================
