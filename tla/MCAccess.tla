------------------------------ MODULE MCAccess ------------------------------
(* Small instances of Access for TLC. *)
EXTENDS Access, AlgorithmInputs, TLC

SlotSymmetry == Permutations(Slot)

\* Domain "x" is created by root, "~a" is private to a.
OwnerOf == [d \in Domain |-> IF d = "~a" THEN "a" ELSE NoOne]

Mix(ops, doms, who, rules) == [ops |-> ops, doms |-> doms, who |-> who, rules |-> rules]
Mixes ==
    {Mix({"grant", "access"}, {"default"}, {"u", "default"}, 2),
     Mix({"add", "remove", "access", "grant"}, {"~a"}, {"u"}, 1),
     Mix({"grant", "access"}, {"default", "~a"}, {"u"}, 1),
     Mix({"create_domain", "add", "remove"}, {"x"}, {"a", "u"}, 0),
     Mix({"add", "grant", "revoke"}, {"default", "~a"}, {"u"}, 1)}

ReadGoal == {[act |-> "read", name |-> <<"r", "s">>]}
Matching(p) == {n \in {g.name : g \in Goals} : SqlLikeMatch(p, n)}
OpenHours(field) == {h \in Time : CronWindow(field, <<Star(1)>>, h, 1) = "yes"}

\* A rule with one use that expires, and one with a rate of one per two ticks
\* that is closed at time 1.
TwoTemplates ==
    {[acts |-> {"read"}, covers |-> Matching(<<"*">>), times |-> Time, from |-> 0, until |-> 2,
      max |-> 1, rate |-> 0, period |-> 0],
     [acts |-> {"read", "update"}, covers |-> Matching(<<"r", "_">>),
      times |-> OpenHours(<<Span(0, 2, 2)>>), from |-> 0, until |-> MaxTime + 1,
      max |-> 0, rate |-> 1, period |-> 2]}

\* The matchers and the limiter are tried on their inputs, or requests are
\* served: a behaviour is first the one, then the other.
TryFirst == granted = 0 /\ clock = 0 /\ traffic.rules = 2 /\ Init
MCInit == Init /\ Untried
MCNext ==
    \/ Untried /\ Next /\ UNCHANGED inputs
    \/ TryFirst /\ Try /\ UNCHANGED vars
MCSpec == MCInit /\ [][MCNext]_<<vars, inputs>>
=============================================================================
