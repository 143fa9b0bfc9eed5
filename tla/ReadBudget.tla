------------------------------ MODULE ReadBudget ------------------------------
(***************************************************************************)
(* What the read caps of a resource promise, with no table, no handler and *)
(* no statement in sight.  A resource is issued with a quota of reads; a   *)
(* request may be granted one read while the resource is live and its      *)
(* quota is not used up; a retired resource grants nothing any more.       *)
(***************************************************************************)
EXTENDS Naturals, FiniteSets

CONSTANTS Req, Id, NoQuota

VARIABLES
    live,     \* the resources that can still be read
    quota,    \* reads a resource was issued with, NoQuota before that
    granted   \* the requests that were granted a read of the resource

vars == <<live, quota, granted>>

Init ==
    /\ live \in SUBSET Id
    /\ quota \in [Id -> Nat \cup {NoQuota}]
    /\ \A i \in live : quota[i] # NoQuota
    /\ granted = [i \in Id |-> {}]

Issue(i) ==
    /\ quota[i] = NoQuota
    /\ quota'[i] \in Nat
    /\ quota' = [quota EXCEPT ![i] = quota'[i]]
    /\ live' = live \cup {i}
    /\ UNCHANGED granted

Grant(i, r) ==
    /\ i \in live
    /\ r \notin UNION {granted[j] : j \in Id}
    /\ Cardinality(granted[i]) < quota[i]
    /\ granted' = [granted EXCEPT ![i] = @ \cup {r}]
    /\ UNCHANGED <<live, quota>>

Retire(i) ==
    /\ i \in live
    /\ live' = live \ {i}
    /\ UNCHANGED <<quota, granted>>

Next == \E i \in Id : Issue(i) \/ Retire(i) \/ \E r \in Req : Grant(i, r)

Spec == Init /\ [][Next]_vars
=============================================================================
