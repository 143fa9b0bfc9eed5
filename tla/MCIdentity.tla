----------------------------- MODULE MCIdentity -----------------------------
(* Small instances of Identity for TLC. *)
EXTENDS Identity, TLC

SlotSymmetry == Permutations(Slot)
=============================================================================
