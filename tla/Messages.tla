------------------------------ MODULE Messages ------------------------------
(***************************************************************************)
(* Message ids: the AUTOINCREMENT numbers of the broker's messages table.  *)
(***************************************************************************)
EXTENDS Naturals

CONSTANT Msgs

ASSUME MsgsAssumption == Msgs \subseteq Nat
=============================================================================
