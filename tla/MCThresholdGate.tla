--------------------------- MODULE MCThresholdGate ---------------------------
(* Small instances of ThresholdGate for TLC. *)
EXTENDS ThresholdGate, TLC

CONSTANTS alice, bob, carol, x, y

TwoOfTwo == {[k |-> 2, sigs |-> {bob, carol}]}
OneOrTwo == {[k |-> 1, sigs |-> {bob}], [k |-> 2, sigs |-> {alice, bob}]}

OwnName == [z \in Resource |-> IF z = x THEN "x" ELSE "y"]
SameName == [z \in Resource |-> "key"]

ReadSymmetry == Permutations(Read)
=============================================================================
