--------------------------- MODULE MCCodexDelivery ---------------------------
(* Instances of CodexDelivery for TLC. *)
EXTENDS CodexDelivery, TLC

CONSTANTS c1, c2, general, chatA

MCCalls == {c1, c2}
MCChats == {general, chatA}
FlatChats == {general}

\* Every message is general mail (Codex, Droid, OpenClaw).
AllGeneral == [m \in Msgs |-> general]

\* Message 1 is mail of chatA, the others are general (Hermes).
FirstToChat == [m \in Msgs |-> IF m = 1 THEN chatA ELSE general]

CallSymmetry == Permutations(MCCalls)
=============================================================================
