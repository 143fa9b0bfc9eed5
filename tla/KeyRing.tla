------------------------------- MODULE KeyRing -------------------------------
(***************************************************************************)
(* What the managed keys promise their callers: a name holds a key or      *)
(* none, a key is the list of the materials of its versions, and the only  *)
(* things that ever happen to it are that it is created with one material, *)
(* gets one more that no version had before, or is destroyed.              *)
(***************************************************************************)
EXTENDS Naturals, Sequences

CONSTANTS Name, Material, Imported

VARIABLES
    ring,    \* the materials of each name's key, <<>> when it has none
    spent    \* materials that were ever generated

vars == <<ring, spent>>

Init == ring = [n \in Name |-> <<>>] /\ spent = {}

\* A caller may bring material; what the server makes up is always new.
Create(n, m) ==
    /\ ring[n] = <<>>
    /\ m \in Imported \/ m \notin spent
    /\ ring' = [ring EXCEPT ![n] = <<m>>]
    /\ spent' = IF m \in Imported THEN spent ELSE spent \cup {m}

Rotate(n, m) ==
    /\ ring[n] # <<>>
    /\ m \notin spent \cup Imported
    /\ ring' = [ring EXCEPT ![n] = Append(@, m)]
    /\ spent' = spent \cup {m}

Destroy(n) ==
    /\ ring[n] # <<>>
    /\ ring' = [ring EXCEPT ![n] = <<>>]
    /\ UNCHANGED spent

Next ==
    \E n \in Name :
        \/ \E m \in Material : Create(n, m) \/ Rotate(n, m)
        \/ Destroy(n)

Spec == Init /\ [][Next]_vars
=============================================================================
