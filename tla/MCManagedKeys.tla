--------------------------- MODULE MCManagedKeys ---------------------------
(* Small instances of ManagedKeys for TLC. *)
EXTENDS ManagedKeys, TLC

SlotSymmetry == Permutations(Slot)
=============================================================================
