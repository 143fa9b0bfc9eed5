------------------------------ MODULE AccessProofs ------------------------------
(***************************************************************************)
(* Proofs about Access, for any number of slots, clients, domains, rules   *)
(* and ticks: a domain's members and rules change at the hands of its      *)
(* administrators (ScopedAuthority), an access that goes ahead was allowed *)
(* (GrantedWasAllowed), and the limits of a rule, tested before an access  *)
(* and charged after it, are exceeded by less than the requests in flight  *)
(* (BoundedExcess).  They rest on the inductive invariant IInv: what a     *)
(* request has found out so far is among what was true since it arrived.   *)
(***************************************************************************)
EXTENDS Access, FiniteSetTheorems, TLAPS

Asking == {"gate", "admin", "candidates", "record"}

\* What the request of a slot is, by how far it has come.
Staged(s) ==
    /\ pc[s] = "find" => op[s] = "revoke"
    /\ pc[s] = "resolve" => op[s] \notin {"create_domain", "revoke"}
    /\ pc[s] = "authority" => op[s] \notin {"create_domain", "access"}
    /\ pc[s] = "target" => op[s] \in {"grant", "add"}
    /\ pc[s] \in Asking => op[s] = "access"
    /\ pc[s] = "write" => op[s] # "access"

\* Whom it is about.
Named(s) ==
    /\ pc[s] = "idle" => arg[s].id = 0
    /\ op[s] = "access" /\ pc[s] \in {"resolve", "gate", "admin", "candidates"} =>
          arg[s].goal # NoOne /\ arg[s].id = 0
    /\ op[s] = "grant" /\ pc[s] = "write" => arg[s].who \in Client \cup Domain
    /\ op[s] = "add" /\ pc[s] = "write" => arg[s].who \in Client
    /\ op[s] = "revoke" /\ pc[s] # "idle" => arg[s].id \in Ids
    /\ op[s] = "revoke" /\ pc[s] \in {"authority", "write"} =>
          /\ arg[s].id <= granted
          /\ rule[arg[s].id] # NoRule => rule[arg[s].id].dom = dom[s]

\* What was true since it arrived is on record: what is true now, the authority
\* behind a write and the permission behind an access.
Witnessed(s) ==
    /\ pc[s] = "idle" => seen[s] = {}
    /\ pc[s] # "idle" => Facts(s) \subseteq seen[s]
    /\ pc[s] \in {"target", "write"} /\ op[s] # "create_domain" => "admin" \in seen[s]
    /\ pc[s] \in {"admin", "candidates", "record"} => "member" \in seen[s]
    /\ pc[s] = "record" => "allowed" \in seen[s]
    /\ op[s] = "access" => seen[s] \subseteq {"member", "allowed"}

\* Rules are numbered in the order they were granted.
Numbered == \A i \in Ids : i > granted => rule[i] = NoRule

\* The accesses that a rule has let pass and that are not charged to it yet.
Recording(i) == {s \in Slot : pc[s] = "record" /\ arg[s].id = i}

\* The rate window of a rule is open.
Open(r) == r.start <= MaxTime /\ clock < r.start + r.t.period

\* Counting the accesses under way, the limits are kept up to the requests in
\* flight; when no window is open only the accesses charged count.
Limits(i) ==
    rule[i] # NoRule =>
        /\ rule[i].count <= rule[i].uses
        /\ rule[i].t.max > 0 =>
              rule[i].uses + Cardinality(Recording(i)) <= rule[i].t.max + Cardinality(Slot) - 1
        /\ rule[i].t.rate > 0 /\ rule[i].t.period > 0 =>
              /\ rule[i].count <= rule[i].t.rate + Cardinality(Slot) - 1
              /\ Open(rule[i]) =>
                    rule[i].count + Cardinality(Recording(i))
                        <= rule[i].t.rate + Cardinality(Slot) - 1
Charges == \A i \in Ids : Limits(i)

\* What is required of a slot.
Sound(s) == Staged(s) /\ Named(s) /\ Witnessed(s)
Requests == \A s \in Slot : Sound(s)

IInv == TypeOK /\ Requests /\ Numbered /\ Charges

\* A set of natural numbers has a least element.
LEMMA NatMin ==
    ASSUME NEW S \in SUBSET Nat, S # {}
    PROVE  \E m \in S : \A y \in S : m <= y
  <1> DEFINE R == OpToRel(<, Nat)
  <1>1. IsWellFoundedOn(R, Nat)
    BY NatLessThanWellFounded, Zenon
  <1>2. \E x \in S : \A y \in S : ~ (<<y, x>> \in R)
    <2> HIDE DEF R
    <2> QED BY <1>1, WFMin, Zenon
  <1>3. \A x, y \in Nat : <<y, x>> \in R <=> y < x
    BY DEF OpToRel
  <1>4. PICK x \in S : \A y \in S : ~ (<<y, x>> \in R)
    BY <1>2
  <1>5. \A y \in S : ~(y < x)
    BY <1>3, <1>4
  <1>6. \A y \in S : x <= y
    BY <1>5
  <1> QED
    BY <1>6

\* A bounded set of ids has a greatest element.
LEMMA Greatest ==
    ASSUME NEW S \in SUBSET Nat, NEW n \in Nat, \A y \in S : y <= n, S # {}
    PROVE  \E x \in S : \A y \in S : y <= x
  <1> DEFINE T == {n - y : y \in S}
  <1>1. T \in SUBSET Nat /\ T # {}
    <2>1. PICK y \in S : TRUE
      OBVIOUS
    <2>2. n - y \in T
      BY <2>1
    <2>3. \A z \in S : n - z \in Nat
      OBVIOUS
    <2> QED
      BY <2>2, <2>3
  <1>2. PICK m \in T : \A y \in T : m <= y
    BY <1>1, NatMin
  <1>3. PICK x \in S : m = n - x
    OBVIOUS
  <1>4. ASSUME NEW y \in S PROVE x >= y
    <2>1. n - y \in T
      OBVIOUS
    <2> HIDE DEF T
    <2> QED
      BY <1>2, <1>3, <2>1
  <1> QED
    BY <1>3, <1>4

-----------------------------------------------------------------------------
(* Facts that the steps share *)

\* A rule has its fields.
LEMMA RuleFacts ==
    ASSUME TypeOK, NEW i \in Ids, rule[i] # NoRule
    PROVE  /\ rule[i] \in Rule /\ rule[i].t \in Template
           /\ rule[i].uses \in Nat /\ rule[i].count \in Nat /\ rule[i].start \in Nat
           /\ rule[i].t.max \in Nat /\ rule[i].t.rate \in Nat /\ rule[i].t.period \in Nat
           /\ rule[i].t.from \in Nat /\ rule[i].t.until \in Nat
           /\ rule[i].start \in 0..(MaxTime + 1) /\ clock \in Nat
  <1>1. rule[i] \in Rule
    BY DEF TypeOK
  <1>2. rule[i].t \in Template /\ rule[i].t \in Templates
    BY <1>1, AccessAssumption DEF Rule
  <1>3. /\ rule[i].uses \in 0..MaxCount /\ rule[i].count \in 0..MaxCount
        /\ rule[i].start \in 0..(MaxTime + 1)
    BY <1>1 DEF Rule
  <1>4. /\ rule[i].t.max \in 0..MaxCount /\ rule[i].t.rate \in 0..MaxCount
        /\ rule[i].t.period \in 0..MaxTime
        /\ rule[i].t.from \in 0..MaxTime /\ rule[i].t.until \in 0..(MaxTime + 1)
    BY <1>2 DEF Template, Time
  <1>5. clock \in 0..MaxTime
    BY DEF TypeOK, Time
  <1> QED
    BY <1>1, <1>2, <1>3, <1>4, <1>5, AccessAssumption

\* There are no more accesses under way than slots.
LEMMA RecordingFacts ==
    ASSUME NEW i
    PROVE  /\ Recording(i) \in SUBSET Slot /\ IsFiniteSet(Recording(i))
           /\ Cardinality(Recording(i)) \in Nat /\ Cardinality(Slot) \in Nat
           /\ Cardinality(Recording(i)) <= Cardinality(Slot)
  <1>1. Recording(i) \in SUBSET Slot
    BY DEF Recording
  <1>2. IsFiniteSet(Slot)
    BY AccessAssumption
  <1> QED
    BY <1>1, <1>2, FS_Subset, FS_CardinalityType

\* The same after a step.
LEMMA RecordingFactsNext ==
    ASSUME NEW i
    PROVE  /\ Recording(i)' \in SUBSET Slot /\ IsFiniteSet(Recording(i)')
           /\ Cardinality(Recording(i)') \in Nat /\ Cardinality(Slot) \in Nat
           /\ Cardinality(Recording(i)') <= Cardinality(Slot)
  <1>1. Recording(i)' \in SUBSET Slot
    BY DEF Recording
  <1>2. IsFiniteSet(Slot)
    BY AccessAssumption
  <1> QED
    BY <1>1, <1>2, FS_Subset, FS_CardinalityType

\* A step that leaves a rule alone and starts no access of it keeps its limits,
\* also when time passes.
LEMMA LimitsKept ==
    ASSUME TypeOK, NEW i \in Ids, Limits(i), rule'[i] = rule[i],
           clock' \in Nat, clock <= clock', Recording(i)' \subseteq Recording(i)
    PROVE  Limits(i)'
  <1> SUFFICES ASSUME rule[i] # NoRule PROVE Limits(i)'
    BY DEF Limits
  <1>1. /\ Cardinality(Recording(i)') \in Nat /\ Cardinality(Recording(i)) \in Nat
        /\ Cardinality(Recording(i)') <= Cardinality(Recording(i))
    BY RecordingFacts, RecordingFactsNext, FS_Subset
  <1>2. Open(rule[i])' => Open(rule[i])
    BY RuleFacts DEF Open
  <1>3. Cardinality(Slot) \in Nat
    BY RecordingFacts
  <1> HIDE DEF Open
  <1>4. /\ rule[i].count <= rule[i].uses
        /\ rule[i].t.max > 0 =>
              rule[i].uses + Cardinality(Recording(i)') <= rule[i].t.max + Cardinality(Slot) - 1
        /\ rule[i].t.rate > 0 /\ rule[i].t.period > 0 =>
              /\ rule[i].count <= rule[i].t.rate + Cardinality(Slot) - 1
              /\ Open(rule[i]) =>
                    rule[i].count + Cardinality(Recording(i)')
                        <= rule[i].t.rate + Cardinality(Slot) - 1
    BY <1>1, <1>3, RuleFacts DEF Limits
  <1> QED
    BY <1>2, <1>4 DEF Limits

\* What the history records of a slot.
LEMMA WatchFacts ==
    ASSUME Watch, NEW q \in Slot
    PROVE  /\ pc'[q] = "idle" => seen'[q] = {}
           /\ pc'[q] # "idle" => seen'[q] = seen[q] \cup Facts(q)'
           /\ op'[q] = "access" => Facts(q)' \subseteq {"member", "allowed"}
  <1>1. op'[q] = "access" => Facts(q)' \subseteq {"member", "allowed"}
    BY DEF Facts
  <1> HIDE DEF Facts
  <1>2. seen'[q] = IF pc'[q] = "idle" THEN {} ELSE seen[q] \cup Facts(q)'
    BY DEF Watch
  <1> QED
    BY <1>1, <1>2

\* The rules there were are there unchanged as to their domain, or gone.
RulesStay ==
    /\ granted' \in Nat /\ granted <= granted'
    /\ \A i \in Ids : i <= granted /\ rule'[i] # NoRule =>
                          rule[i] # NoRule /\ rule'[i].dom = rule[i].dom

\* A step leaves the other slots as they are.
LEMMA OtherSlot ==
    ASSUME TypeOK, Watch, RulesStay, NEW q \in Slot, Sound(q),
           pc'[q] = pc[q], op'[q] = op[q], arg'[q] = arg[q], dom'[q] = dom[q]
    PROVE  Sound(q)'
  <1>0. granted \in Nat /\ Ids \subseteq Nat
    BY AccessAssumption DEF TypeOK, Ids
  <1>1. Staged(q)'
    BY DEF Staged, Sound
  <1>2. Named(q)'
    <2>1. \A i \in Ids : i <= granted => i <= granted'
      BY <1>0 DEF RulesStay
    <2> QED
      BY <2>1 DEF Named, Sound, RulesStay
  <1>3. Witnessed(q)'
    BY WatchFacts DEF Witnessed, Sound
  <1> QED
    BY <1>1, <1>2, <1>3 DEF Sound

\* A slot that is free makes no claims.
LEMMA IdleSlot ==
    ASSUME Watch, NEW q \in Slot, pc'[q] = "idle", op'[q] = "access", arg'[q].id = 0
    PROVE  Sound(q)'
  BY WatchFacts DEF Sound, Staged, Named, Witnessed, Asking

\* The end of a request frees its slot.
LEMMA EndFacts ==
    ASSUME TypeOK, NEW s \in Slot, End(s)
    PROVE  /\ pc' = [pc EXCEPT ![s] = "idle"]
           /\ pc'[s] = "idle" /\ op'[s] = "access" /\ arg'[s].id = 0 /\ traffic' = traffic
           /\ \A q \in Slot : q # s => /\ pc'[q] = pc[q] /\ op'[q] = op[q]
                                       /\ arg'[q] = arg[q] /\ dom'[q] = dom[q]
           /\ op' \in [Slot -> Op] /\ caller' \in [Slot -> Client] /\ dom' \in [Slot -> Domain]
           /\ pc' \in [Slot -> Pcs] /\ arg' \in [Slot -> Arg]
           /\ \A i : Recording(i)' \subseteq Recording(i)
  <1>1. AnyDomain \in Domain
    BY AccessAssumption DEF AnyDomain
  <1>2. NoArg \in Arg
    BY DEF NoArg, Arg
  <1>3. /\ pc' = [pc EXCEPT ![s] = "idle"] /\ op' = [op EXCEPT ![s] = "access"]
        /\ caller' = [caller EXCEPT ![s] = Root] /\ dom' = [dom EXCEPT ![s] = AnyDomain]
        /\ arg' = [arg EXCEPT ![s] = NoArg] /\ traffic' = traffic
    BY DEF End, Goto, AnyOp
  <1> HIDE DEF AnyDomain, NoArg
  <1>4. /\ pc \in [Slot -> Pcs] /\ op \in [Slot -> Op] /\ caller \in [Slot -> Client]
        /\ dom \in [Slot -> Domain] /\ arg \in [Slot -> Arg]
    BY DEF TypeOK
  <1>5. /\ pc'[s] = "idle" /\ op'[s] = "access"
        /\ \A q \in Slot : q # s => /\ pc'[q] = pc[q] /\ op'[q] = op[q]
                                    /\ arg'[q] = arg[q] /\ dom'[q] = dom[q]
    BY <1>3, <1>4
  <1>6. "idle" \in Pcs /\ "access" \in Op /\ Root \in Client
    BY AccessAssumption DEF Pcs, Op
  <1>7. \A i : Recording(i)' \subseteq Recording(i)
    BY <1>5 DEF Recording
  <1>8. arg'[s].id = 0
    BY <1>3, <1>4 DEF NoArg
  <1> QED
    BY <1>1, <1>2, <1>3, <1>4, <1>5, <1>6, <1>7, <1>8

\* A step that only looks something up and ends the request, or takes it on.
LEMMA ReadsInv ==
    ASSUME IInv, Watch, Reads, NEW s \in Slot, Sound(s)', traffic' = traffic,
           op' \in [Slot -> Op], caller' \in [Slot -> Client], dom' \in [Slot -> Domain],
           pc' \in [Slot -> Pcs], arg' \in [Slot -> Arg],
           \A q \in Slot : q # s => /\ pc'[q] = pc[q] /\ op'[q] = op[q]
                                    /\ arg'[q] = arg[q] /\ dom'[q] = dom[q],
           \A i \in Ids : Recording(i)' \subseteq Recording(i)
    PROVE  IInv'
  <1>1. /\ domain' = domain /\ member' = member /\ active' = active /\ rule' = rule
        /\ granted' = granted /\ clock' = clock
    BY DEF Reads, tables
  <1>2. TypeOK'
    BY <1>1 DEF IInv, TypeOK
  <1>3. RulesStay
    BY <1>1, AccessAssumption DEF RulesStay, IInv, TypeOK
  <1>4. Requests'
    BY <1>3, OtherSlot DEF IInv, Requests
  <1>5. Numbered'
    BY <1>1 DEF IInv, Numbered
  <1>6. clock \in Nat
    BY AccessAssumption DEF IInv, TypeOK, Time
  <1>7. Charges'
    BY <1>1, <1>6, LimitsKept DEF IInv, Charges
  <1> QED
    BY <1>2, <1>4, <1>5, <1>7 DEF IInv

\* A request that ends without a trace.
LEMMA EndReadsInv ==
    ASSUME IInv, Watch, Reads, NEW s \in Slot, End(s)
    PROVE  IInv'
  BY EndFacts, IdleSlot, ReadsInv DEF IInv

-----------------------------------------------------------------------------
(* One lemma per step of a request *)

\* The slot's request is typed.
LEMMA SlotFacts ==
    ASSUME TypeOK, NEW s \in Slot
    PROVE  /\ op[s] \in Op /\ caller[s] \in Client /\ dom[s] \in Domain
           /\ arg[s] \in Arg /\ arg[s].id \in Ids \cup {0} /\ 0 \notin Ids
           /\ traffic \in Traffics /\ traffic.ops \subseteq Op /\ traffic.doms \subseteq Domain
           /\ traffic.rules \in 0..MaxRule
  <1>1. op[s] \in Op /\ caller[s] \in Client /\ dom[s] \in Domain /\ arg[s] \in Arg
    BY DEF TypeOK
  <1>2. arg[s].id \in Ids \cup {0}
    BY <1>1 DEF Arg
  <1>3. traffic \in Traffics
    BY DEF TypeOK
  <1> QED
    BY <1>1, <1>2, <1>3, AccessAssumption DEF Ids

\* A step by which a request goes on to another stage, about the same things.
LEMMA Moves ==
    ASSUME IInv, Watch, Reads, NEW s \in Slot, NEW l \in Pcs \ {"idle", "record"},
           pc[s] # "idle", Goto(s, l), UNCHANGED <<call, dom, arg>>, Staged(s)', Named(s)',
           l \in {"target", "write"} => "admin" \in seen[s],
           l \in {"admin", "candidates"} => "member" \in seen[s]
    PROVE  IInv'
  <1>1. pc' = [pc EXCEPT ![s] = l] /\ op' = op /\ dom' = dom /\ arg' = arg
        /\ caller' = caller /\ traffic' = traffic
    BY DEF Goto, call
  <1>2. pc \in [Slot -> Pcs] /\ op \in [Slot -> Op] /\ dom \in [Slot -> Domain]
        /\ arg \in [Slot -> Arg] /\ caller \in [Slot -> Client]
    BY DEF IInv, TypeOK
  <1>3. pc'[s] = l /\ \A q \in Slot : q # s => pc'[q] = pc[q]
    BY <1>1, <1>2
  <1>4. Witnessed(s)'
    BY <1>1, <1>3, WatchFacts DEF IInv, Requests, Sound, Witnessed
  <1>5. \A i \in Ids : Recording(i)' \subseteq Recording(i)
    BY <1>1, <1>3 DEF Recording
  <1>6. pc' \in [Slot -> Pcs]
    BY <1>1, <1>2
  <1> QED
    BY <1>1, <1>2, <1>3, <1>4, <1>5, <1>6, ReadsInv DEF Sound

\* A request arrives.
LEMMA ArriveInv == ASSUME IInv, Watch, NEW s \in Slot, Arrive(s) PROVE IInv'
  <1>1. PICK o \in traffic.ops, c \in active :
          /\ op' = [op EXCEPT ![s] = o] /\ caller' = [caller EXCEPT ![s] = c]
          /\ \/ /\ o = "revoke"
                /\ \E i \in 1..traffic.rules : arg' = [arg EXCEPT ![s].id = i]
                /\ Goto(s, "find") /\ UNCHANGED dom
             \/ /\ o # "revoke"
                /\ \E d \in traffic.doms : dom' = [dom EXCEPT ![s] = d]
                /\ IF o = "access"
                   THEN \E g \in Goals : arg' = [arg EXCEPT ![s].goal = g]
                   ELSE UNCHANGED arg
                /\ Goto(s, IF o = "create_domain" THEN "write" ELSE "resolve")
    BY DEF Arrive
  <1>2. pc[s] = "idle" /\ traffic' = traffic /\ Reads
    BY DEF Arrive
  <1>3. o \in Op /\ c \in Client
    BY SlotFacts DEF IInv, TypeOK
  <1>4. /\ pc \in [Slot -> Pcs] /\ op \in [Slot -> Op] /\ dom \in [Slot -> Domain]
        /\ arg \in [Slot -> Arg] /\ caller \in [Slot -> Client]
    BY DEF IInv, TypeOK
  <1>5. PICK l \in {"find", "write", "resolve"} :
          /\ pc' = [pc EXCEPT ![s] = l]
          /\ o = "revoke" => l = "find"
          /\ o = "create_domain" => l = "write"
          /\ o \notin {"create_domain", "revoke"} => l = "resolve"
    BY <1>1 DEF Goto
  <1>6. dom' \in [Slot -> Domain] /\ \A q \in Slot : q # s => dom'[q] = dom[q]
    <2>1. CASE dom' = dom
      BY <1>4, <2>1
    <2>2. CASE \E d \in traffic.doms : dom' = [dom EXCEPT ![s] = d]
      BY <1>4, <2>2, SlotFacts DEF IInv
    <2> QED
      BY <1>1, <2>1, <2>2
  <1>7. /\ arg' \in [Slot -> Arg] /\ \A q \in Slot : q # s => arg'[q] = arg[q]
        /\ o = "revoke" => arg'[s].id \in Ids
        /\ o = "access" => arg'[s].goal # NoOne /\ arg'[s].id = arg[s].id
    <2>1. CASE o = "revoke"
      <3>1. PICK i \in 1..traffic.rules : arg' = [arg EXCEPT ![s].id = i]
        BY <1>1, <2>1
      <3>2. i \in Ids
        BY SlotFacts, AccessAssumption DEF IInv, Ids
      <3>3. [arg[s] EXCEPT !.id = i] \in Arg
        BY <1>4, <3>2 DEF Arg
      <3>4. arg[s] \in Arg
        BY <1>4
      <3>5. arg'[s].id = i
        BY <1>4, <3>1, <3>4 DEF Arg
      <3> QED
        BY <1>4, <2>1, <3>1, <3>2, <3>3, <3>5
    <2>2. CASE o = "access"
      <3>1. PICK g \in Goals : arg' = [arg EXCEPT ![s].goal = g]
        BY <1>1, <2>2
      <3>2. arg[s] \in Arg
        BY <1>4
      <3>3. [arg[s] EXCEPT !.goal = g] \in Arg
        BY <3>2 DEF Arg
      <3>4. arg'[s] = [arg[s] EXCEPT !.goal = g]
        BY <1>4, <3>1
      <3>5. arg'[s].goal = g /\ arg'[s].id = arg[s].id
        BY <3>2, <3>4 DEF Arg
      <3>6. g # NoOne
        BY AccessAssumption
      <3> QED
        BY <1>4, <2>2, <3>1, <3>3, <3>5, <3>6
    <2>3. CASE o \notin {"revoke", "access"}
      BY <1>1, <1>4, <2>3
    <2> QED
      BY <2>1, <2>2, <2>3
  <1>8. /\ pc'[s] = l /\ op'[s] = o
        /\ \A q \in Slot : q # s => pc'[q] = pc[q] /\ op'[q] = op[q]
        /\ pc' \in [Slot -> Pcs] /\ op' \in [Slot -> Op] /\ caller' \in [Slot -> Client]
    <2>1. l \in Pcs
      BY DEF Pcs
    <2> QED
      BY <1>1, <1>3, <1>4, <1>5, <2>1
  <1>9. \A i \in Ids : Recording(i)' \subseteq Recording(i)
    BY <1>5, <1>7, <1>8 DEF Recording
  <1>10. Sound(s)'
    <2>1. Staged(s)'
      BY <1>5, <1>8 DEF Staged, Asking
    <2>2. o = "access" => arg[s].id = 0
      BY <1>2 DEF IInv, Requests, Sound, Named
    <2>3. Named(s)'
      BY <1>5, <1>7, <1>8, <2>2 DEF Named
    <2>4. seen[s] = {}
      BY <1>2 DEF IInv, Requests, Sound, Witnessed
    <2>5. Witnessed(s)'
      BY <1>5, <1>8, <2>4, WatchFacts DEF Witnessed
    <2> QED
      BY <2>1, <2>3, <2>5 DEF Sound
  <1> QED
    BY <1>2, <1>6, <1>7, <1>8, <1>9, <1>10, ReadsInv

\* resolve_domain
LEMMA ResolveInv == ASSUME IInv, Watch, NEW s \in Slot, Resolve(s) PROVE IInv'
  <1>1. pc[s] = "resolve" /\ Reads
    BY DEF Resolve
  <1>2. CASE End(s)
    BY <1>1, <1>2, EndReadsInv
  <1>3. CASE ~End(s)
    <2>1. PICK l \in {"gate", "authority"} :
            /\ Goto(s, l) /\ UNCHANGED <<call, dom, arg>>
            /\ l = IF op[s] = "access" THEN "gate" ELSE "authority"
      BY <1>3 DEF Resolve
    <2>2. pc'[s] = l /\ op'[s] = op[s] /\ arg'[s] = arg[s]
      BY <2>1 DEF Goto, call, IInv, TypeOK
    <2>3. Staged(s)'
      BY <1>1, <2>1, <2>2 DEF Staged, Asking, IInv, Requests, Sound
    <2>4. Named(s)'
      <3>1. op[s] # "revoke" /\ (op[s] = "access" => arg[s].goal # NoOne /\ arg[s].id = 0)
        BY <1>1 DEF IInv, Requests, Sound, Staged, Named
      <3> QED
        BY <2>1, <2>2, <3>1 DEF Named
    <2>5. l \in Pcs \ {"idle", "record"}
      BY DEF Pcs
    <2> QED
      BY <1>1, <2>1, <2>3, <2>4, <2>5, Moves
  <1> QED
    BY <1>2, <1>3

\* revoke_acl: the domain of the rule is the one to be administered.
LEMMA FindRuleInv == ASSUME IInv, Watch, NEW s \in Slot, FindRule(s) PROVE IInv'
  <1>1. pc[s] = "find" /\ Reads
    BY DEF FindRule
  <1>2. CASE End(s)
    BY <1>1, <1>2, EndReadsInv
  <1>3. CASE ~End(s)
    <2>1. /\ rule[arg[s].id] # NoRule
          /\ dom' = [dom EXCEPT ![s] = rule[arg[s].id].dom]
          /\ pc' = [pc EXCEPT ![s] = "authority"]
          /\ op' = op /\ caller' = caller /\ traffic' = traffic /\ arg' = arg
      BY <1>3 DEF FindRule, Goto, call
    <2>2. op[s] = "revoke" /\ arg[s].id \in Ids
      BY <1>1 DEF IInv, Requests, Sound, Staged, Named
    <2>3. /\ pc \in [Slot -> Pcs] /\ op \in [Slot -> Op] /\ dom \in [Slot -> Domain]
          /\ arg \in [Slot -> Arg] /\ caller \in [Slot -> Client]
      BY DEF IInv, TypeOK
    <2>4. rule[arg[s].id].dom \in Domain
      BY <2>1, <2>2, RuleFacts DEF IInv, Rule
    <2>5. /\ pc'[s] = "authority" /\ dom'[s] = rule[arg[s].id].dom
          /\ \A q \in Slot : q # s => pc'[q] = pc[q] /\ dom'[q] = dom[q]
          /\ pc' \in [Slot -> Pcs] /\ dom' \in [Slot -> Domain]
      <3>1. "authority" \in Pcs
        BY DEF Pcs
      <3> QED
        BY <2>1, <2>3, <2>4, <3>1
    <2>6. arg[s].id <= granted
      BY <2>1, <2>2, AccessAssumption DEF IInv, Numbered, TypeOK, Ids
    <2>7. rule' = rule /\ granted' = granted
      BY <1>1 DEF Reads, tables
    <2>8. Sound(s)'
      <3>1. Staged(s)'
        BY <2>1, <2>2, <2>5 DEF Staged, Asking
      <3>2. Named(s)'
        BY <2>1, <2>2, <2>5, <2>6, <2>7 DEF Named
      <3>3. Witnessed(s)'
        BY <2>1, <2>2, <2>5, WatchFacts DEF Witnessed
      <3> QED
        BY <3>1, <3>2, <3>3 DEF Sound
    <2>9. \A i \in Ids : Recording(i)' \subseteq Recording(i)
      BY <2>1, <2>5 DEF Recording
    <2> QED
      BY <1>1, <2>1, <2>3, <2>5, <2>8, <2>9, ReadsInv
  <1> QED
    BY <1>2, <1>3

\* require_domain_admin
LEMMA AuthorityInv == ASSUME IInv, Watch, NEW s \in Slot, Authority(s) PROVE IInv'
  <1>1. pc[s] = "authority" /\ Reads
    BY DEF Authority
  <1>2. CASE End(s)
    BY <1>1, <1>2, EndReadsInv
  <1>3. CASE ~End(s)
    <2>1. DomainAdmin(caller[s], dom[s])
      BY <1>3 DEF Authority
    <2>2. PICK l \in {"target", "write"} :
            /\ Goto(s, l) /\ UNCHANGED <<call, dom, arg>>
            /\ l = IF op[s] \in {"grant", "add"} THEN "target" ELSE "write"
      BY <1>3 DEF Authority
    <2>3. op[s] \notin {"create_domain", "access"}
      BY <1>1 DEF IInv, Requests, Sound, Staged
    <2>4. "admin" \in Facts(s)
      BY <2>1, <2>3 DEF Facts
    <2>5. "admin" \in seen[s]
      BY <1>1, <2>4 DEF IInv, Requests, Sound, Witnessed
    <2>6. pc'[s] = l /\ op'[s] = op[s] /\ arg'[s] = arg[s] /\ dom'[s] = dom[s]
          /\ rule' = rule /\ granted' = granted
      BY <1>1, <2>2 DEF Goto, call, IInv, TypeOK, Reads, tables
    <2>7. Staged(s)'
      BY <2>2, <2>3, <2>6 DEF Staged, Asking
    <2>8. Named(s)'
      BY <1>1, <2>2, <2>3, <2>6 DEF IInv, Requests, Sound, Named
    <2>9. l \in Pcs \ {"idle", "record"}
      BY DEF Pcs
    <2> QED
      BY <1>1, <2>2, <2>5, <2>7, <2>8, <2>9, Moves
  <1> QED
    BY <1>2, <1>3

\* The lookup of the client or domain a grant or membership is for.
LEMMA LookupTargetInv == ASSUME IInv, Watch, NEW s \in Slot, LookupTarget(s) PROVE IInv'
  <1>1. pc[s] = "target" /\ Reads
    BY DEF LookupTarget
  <1>2. CASE End(s)
    BY <1>1, <1>2, EndReadsInv
  <1>3. CASE ~End(s)
    <2>1. PICK w \in traffic.who \cap (active \cup IF op[s] = "grant" THEN domain ELSE {}) :
            arg' = [arg EXCEPT ![s].who = w]
      BY <1>3 DEF LookupTarget
    <2>2. /\ pc' = [pc EXCEPT ![s] = "write"]
          /\ op' = op /\ caller' = caller /\ traffic' = traffic /\ dom' = dom
      BY <1>3 DEF LookupTarget, Goto, call
    <2>3. w \in Client \/ (op[s] = "grant" /\ w \in Domain)
      BY <2>1 DEF IInv, TypeOK
    <2>4. /\ pc \in [Slot -> Pcs] /\ op \in [Slot -> Op] /\ dom \in [Slot -> Domain]
          /\ arg \in [Slot -> Arg] /\ caller \in [Slot -> Client]
      BY DEF IInv, TypeOK
    <2>5. arg[s] \in Arg /\ [arg[s] EXCEPT !.who = w] \in Arg
      BY <2>3, <2>4 DEF Arg
    <2>6. arg'[s] = [arg[s] EXCEPT !.who = w] /\ arg' \in [Slot -> Arg]
          /\ \A q \in Slot : q # s => arg'[q] = arg[q]
      BY <2>1, <2>4, <2>5
    <2>7. arg'[s].who = w
      BY <2>5, <2>6 DEF Arg
    <2>8. pc'[s] = "write" /\ pc' \in [Slot -> Pcs] /\ \A q \in Slot : q # s => pc'[q] = pc[q]
      BY <2>2, <2>4 DEF Pcs
    <2>9. op[s] \in {"grant", "add"} /\ "admin" \in seen[s]
      BY <1>1 DEF IInv, Requests, Sound, Staged, Witnessed
    <2>10. Sound(s)'
      <3>1. Staged(s)'
        BY <2>2, <2>8, <2>9 DEF Staged, Asking
      <3>2. Named(s)'
        BY <2>2, <2>3, <2>7, <2>8, <2>9 DEF Named
      <3>3. Witnessed(s)'
        BY <2>2, <2>8, <2>9, WatchFacts DEF Witnessed
      <3> QED
        BY <3>1, <3>2, <3>3 DEF Sound
    <2>11. \A i \in Ids : Recording(i)' \subseteq Recording(i)
      BY <2>6, <2>8 DEF Recording
    <2> QED
      BY <1>1, <2>2, <2>4, <2>6, <2>8, <2>10, <2>11, ReadsInv
  <1> QED
    BY <1>2, <1>3

\* resolve_and_gate_domain
LEMMA GateInv == ASSUME IInv, Watch, NEW s \in Slot, Gate(s) PROVE IInv'
  <1>1. pc[s] = "gate" /\ Reads
    BY DEF Gate
  <1>2. CASE End(s)
    BY <1>1, <1>2, EndReadsInv
  <1>3. CASE ~End(s)
    <2>1. DomainMember(caller[s], dom[s])
      BY <1>3 DEF Gate
    <2>2. Goto(s, "admin") /\ UNCHANGED <<call, dom, arg>>
      BY <1>3 DEF Gate
    <2>3. op[s] = "access" /\ arg[s].goal # NoOne /\ arg[s].id = 0
      BY <1>1 DEF IInv, Requests, Sound, Staged, Named, Asking
    <2>4. "member" \in Facts(s)
      BY <2>1, <2>3 DEF Facts
    <2>5. "member" \in seen[s]
      BY <1>1, <2>4 DEF IInv, Requests, Sound, Witnessed
    <2>6. pc'[s] = "admin" /\ op'[s] = op[s] /\ arg'[s] = arg[s]
      BY <2>2 DEF Goto, call, IInv, TypeOK
    <2>7. Staged(s)' /\ Named(s)'
      BY <2>3, <2>6 DEF Staged, Asking, Named
    <2>8. "admin" \in Pcs \ {"idle", "record"}
      BY DEF Pcs
    <2> QED
      BY <1>1, <2>2, <2>5, <2>7, <2>8, Moves
  <1> QED
    BY <1>2, <1>3

\* A request that is dropped.
LEMMA DropInv == ASSUME IInv, Watch, NEW s \in Slot, Drop(s) PROVE IInv'
  BY EndReadsInv DEF Drop

\* An access that is let pass, on the word of the rule i or of none (0).
LEMMA Passes ==
    ASSUME IInv, Watch, Reads, NEW s \in Slot, NEW i \in Ids \cup {0}, op[s] = "access",
           pc[s] \in {"admin", "candidates"}, "allowed" \in seen[s],
           pc' = [pc EXCEPT ![s] = "record"], UNCHANGED <<call, dom>>,
           arg' = [arg EXCEPT ![s] = [arg[s] EXCEPT !.id = i, !.goal = NoOne]],
           i \in Ids => /\ rule[i] # NoRule
                        /\ rule[i].t.max = 0 \/ rule[i].uses < rule[i].t.max
                        /\ RateOk(rule[i])
    PROVE  IInv'
  <1>0. /\ pc \in [Slot -> Pcs] /\ op \in [Slot -> Op] /\ dom \in [Slot -> Domain]
        /\ arg \in [Slot -> Arg] /\ caller \in [Slot -> Client]
    BY DEF IInv, TypeOK
  <1>1. op' = op /\ caller' = caller /\ traffic' = traffic /\ dom' = dom
    BY DEF call
  <1>2. arg[s] \in Arg /\ [arg[s] EXCEPT !.id = i, !.goal = NoOne] \in Arg
    BY <1>0 DEF Arg
  <1>3. /\ arg'[s] = [arg[s] EXCEPT !.id = i, !.goal = NoOne] /\ arg' \in [Slot -> Arg]
        /\ \A q \in Slot : q # s => arg'[q] = arg[q]
    BY <1>0, <1>2
  <1>4. arg'[s].id = i
    BY <1>2, <1>3 DEF Arg
  <1>5. /\ pc'[s] = "record" /\ pc' \in [Slot -> Pcs]
        /\ \A q \in Slot : q # s => pc'[q] = pc[q]
    BY <1>0 DEF Pcs
  <1>6. /\ domain' = domain /\ member' = member /\ active' = active /\ rule' = rule
        /\ granted' = granted /\ clock' = clock /\ clock \in Nat /\ granted \in Nat
    BY AccessAssumption DEF Reads, tables, IInv, TypeOK, Time
  <1>7. TypeOK'
    BY <1>0, <1>1, <1>3, <1>5, <1>6 DEF IInv, TypeOK
  <1>8. Requests'
    <2>1. RulesStay
      BY <1>6 DEF RulesStay
    <2>2. Staged(s)'
      BY <1>1, <1>5 DEF Staged, Asking
    <2>3. Named(s)'
      BY <1>1, <1>5 DEF Named
    <2>4. "member" \in seen[s]
      BY DEF IInv, Requests, Sound, Witnessed
    <2>5. Witnessed(s)'
      BY <1>1, <1>5, <2>4, WatchFacts DEF IInv, Requests, Sound, Witnessed
    <2>6. ASSUME NEW q \in Slot, q # s PROVE Sound(q)'
      BY <1>1, <1>3, <1>5, <2>1, <2>6, OtherSlot DEF IInv, Requests
    <2> QED
      BY <2>2, <2>3, <2>5, <2>6 DEF Requests, Sound
  <1>9. Numbered'
    BY <1>6 DEF IInv, Numbered
  <1>10. ASSUME NEW j \in Ids PROVE Limits(j)'
    <2>1. CASE j # i
      <3>1. Recording(j)' \subseteq Recording(j)
        BY <1>3, <1>4, <1>5, <2>1 DEF Recording
      <3> QED
        BY <1>6, <3>1, LimitsKept DEF IInv, Charges
    <2>2. CASE j = i
      <3>1. /\ Cardinality(Recording(i)') \in Nat /\ Cardinality(Slot) \in Nat
            /\ Cardinality(Recording(i)') <= Cardinality(Slot)
        BY RecordingFactsNext
      <3>2. Limits(i) /\ rule[i] # NoRule
        BY <2>2 DEF IInv, Charges
      <3>3. Open(rule[i])' /\ rule[i].t.rate > 0 /\ rule[i].t.period > 0 =>
              rule[i].count < rule[i].t.rate
        <4>1. /\ rule[i].start \in Nat /\ rule[i].t.period \in Nat /\ rule[i].t.rate \in Nat
              /\ clock \in Nat /\ MaxTime \in Nat
          BY <2>2, <3>2, RuleFacts, AccessAssumption DEF IInv
        <4>2. RateOk(rule[i])
          BY <2>2
        <4>3. Open(rule[i])' => rule[i].start <= MaxTime /\ clock < rule[i].start + rule[i].t.period
          BY <1>6 DEF Open
        <4> QED
          BY <4>1, <4>2, <4>3 DEF RateOk
      <3> HIDE DEF Open
      <3>4. /\ rule[i].t.max > 0 =>
                  rule[i].uses + Cardinality(Recording(i)') <= rule[i].t.max + Cardinality(Slot) - 1
            /\ rule[i].t.rate > 0 /\ rule[i].t.period > 0 /\ rule[i].count < rule[i].t.rate =>
                  rule[i].count + Cardinality(Recording(i)')
                      <= rule[i].t.rate + Cardinality(Slot) - 1
        BY <2>2, <3>1, RuleFacts DEF IInv
      <3> QED
        BY <1>6, <2>2, <3>2, <3>3, <3>4 DEF Limits
    <2> QED
      BY <2>1, <2>2
  <1> QED
    BY <1>7, <1>8, <1>9, <1>10 DEF IInv, Charges

\* acl_check for an administrator.
LEMMA AdminAllowedInv == ASSUME IInv, Watch, NEW s \in Slot, AdminAllowed(s) PROVE IInv'
  <1>1. pc[s] = "admin" /\ Reads /\ UNCHANGED <<call, dom>>
    BY DEF AdminAllowed
  <1>2. op[s] = "access" /\ arg[s].goal # NoOne /\ arg[s].id = 0 /\ "member" \in seen[s]
    BY <1>1 DEF IInv, Requests, Sound, Staged, Named, Witnessed, Asking
  <1>3. CASE DomainAdmin(caller[s], dom[s])
    <2>1. pc' = [pc EXCEPT ![s] = "record"] /\ arg' = [arg EXCEPT ![s].goal = NoOne]
      BY <1>3 DEF AdminAllowed, Goto
    <2>2. "allowed" \in Facts(s)
      BY <1>2, <1>3 DEF Facts
    <2>3. "allowed" \in seen[s]
      BY <1>1, <2>2 DEF IInv, Requests, Sound, Witnessed
    <2>4. arg[s] \in Arg
      BY DEF IInv, TypeOK
    <2>5. [arg[s] EXCEPT !.goal = NoOne] = [arg[s] EXCEPT !.id = 0, !.goal = NoOne]
      BY <1>2, <2>4 DEF Arg
    <2>6. 0 \notin Ids
      BY DEF Ids
    <2> QED
      BY <1>1, <1>2, <2>1, <2>3, <2>5, <2>6, Passes
  <1>4. CASE ~DomainAdmin(caller[s], dom[s])
    <2>1. Goto(s, "candidates") /\ UNCHANGED <<call, dom, arg>>
      BY <1>4 DEF AdminAllowed
    <2>2. pc'[s] = "candidates" /\ op'[s] = op[s] /\ arg'[s] = arg[s]
      BY <2>1 DEF Goto, call, IInv, TypeOK
    <2>3. Staged(s)' /\ Named(s)'
      BY <1>2, <2>2 DEF Staged, Asking, Named
    <2>4. "candidates" \in Pcs \ {"idle", "record"}
      BY DEF Pcs
    <2> QED
      BY <1>1, <1>2, <2>1, <2>3, <2>4, Moves
  <1> QED
    BY <1>3, <1>4

\* acl_check by the newest rule that admits.
LEMMA DecideInv == ASSUME IInv, Watch, NEW s \in Slot, Decide(s) PROVE IInv'
  <1> DEFINE g == arg[s].goal
             ok == {i \in Ids : Candidate(rule[i], caller[s], dom[s], g) /\ Admits(rule[i], g)}
             i == CHOOSE j \in ok : \A k \in ok : k <= j
  <1>1. pc[s] = "candidates" /\ Reads
    BY DEF Decide
  <1>2. CASE End(s)
    BY <1>1, <1>2, EndReadsInv
  <1>3. CASE ~End(s)
    <2>1. /\ ok # {} /\ arg' = [arg EXCEPT ![s].id = i, ![s].goal = NoOne]
          /\ pc' = [pc EXCEPT ![s] = "record"] /\ UNCHANGED <<call, dom>>
      BY <1>3 DEF Decide, Goto
    <2>2. i \in ok
      <3>1. ok \subseteq Ids
        OBVIOUS
      <3>2. Ids \subseteq Nat /\ MaxRule \in Nat /\ \A y \in Ids : y <= MaxRule
        BY AccessAssumption DEF Ids
      <3> HIDE DEF ok
      <3>3. \E x \in ok : \A y \in ok : y <= x
        BY <2>1, <3>1, <3>2, Greatest
      <3> QED
        BY <3>3
    <2>3. i \in Ids /\ Candidate(rule[i], caller[s], dom[s], g) /\ Admits(rule[i], g)
      BY <2>2
    <2>4. op[s] = "access" /\ g # NoOne
      BY <1>1 DEF IInv, Requests, Sound, Staged, Named, Asking
    <2>x. arg[s] \in Arg /\ arg \in [Slot -> Arg]
      BY DEF IInv, TypeOK
    <2> HIDE DEF i, ok
    <2>5. "allowed" \in Facts(s)
      <3>1. rule[i] # NoRule /\ clock \in Nat /\ rule[i].t.from \in Nat /\ rule[i].t.until \in Nat
        BY <2>3, RuleFacts DEF IInv, Candidate
      <3>2. clock \in rule[i].t.from..(rule[i].t.until - 1)
        BY <2>3, <3>1 DEF Candidate
      <3>3. Entitles(caller[s], dom[s], g)
        BY <2>3, <3>2 DEF Entitles, Candidate, Admits
      <3> QED
        BY <2>4, <3>3 DEF Facts
    <2>6. "allowed" \in seen[s]
      BY <1>1, <2>5 DEF IInv, Requests, Sound, Witnessed
    <2>7. /\ rule[i] # NoRule
          /\ rule[i].t.max = 0 \/ rule[i].uses < rule[i].t.max
          /\ RateOk(rule[i])
      BY <2>3 DEF Candidate, Admits
    <2>8. arg' = [arg EXCEPT ![s] = [arg[s] EXCEPT !.id = i, !.goal = NoOne]]
      BY <2>1, <2>x DEF Arg
    <2> QED
      BY <1>1, <2>1, <2>3, <2>4, <2>6, <2>7, <2>8, Passes
  <1> QED
    BY <1>2, <1>3

-----------------------------------------------------------------------------
(* The steps that write *)

\* A request that ends with a write to the tables.
LEMMA WritesInv ==
    ASSUME IInv, Watch, NEW s \in Slot, End(s), RulesStay, clock' = clock,
           domain' \subseteq Domain, member' \in [Domain -> [Client -> Role \cup {"none"}]],
           active' = active, rule' \in [Ids -> Rule \cup {NoRule}], granted' \in 0..MaxRule,
           Numbered', \A i \in Ids : rule'[i] = rule[i] \/ Limits(i)'
    PROVE  IInv'
  <1>1. TypeOK'
    BY EndFacts DEF IInv, TypeOK
  <1>2. Requests'
    <2>1. Sound(s)'
      BY EndFacts, IdleSlot DEF IInv
    <2>2. ASSUME NEW q \in Slot, q # s PROVE Sound(q)'
      BY <2>2, EndFacts, OtherSlot DEF IInv, Requests
    <2> QED
      BY <2>1, <2>2 DEF Requests
  <1>3. clock \in Nat
    BY AccessAssumption DEF IInv, TypeOK, Time
  <1>4. Charges'
    <2>1. ASSUME NEW i \in Ids, rule'[i] = rule[i] PROVE Limits(i)'
      BY <1>3, <2>1, EndFacts, LimitsKept DEF IInv, Charges
    <2> QED
      BY <2>1 DEF Charges
  <1> QED
    BY <1>1, <1>2, <1>4 DEF IInv

\* The rules are as they were.
LEMMA SameRules ==
    ASSUME IInv, rule' = rule, granted' = granted
    PROVE  /\ RulesStay /\ Numbered' /\ rule' \in [Ids -> Rule \cup {NoRule}]
           /\ granted' \in 0..MaxRule
  BY AccessAssumption DEF IInv, TypeOK, RulesStay, Numbered

\* create_domain
LEMMA CreateDomainInv == ASSUME IInv, Watch, NEW s \in Slot, CreateDomain(s) PROVE IInv'
  <1>1. /\ End(s) /\ member' = member /\ active' = active /\ rule' = rule
        /\ granted' = granted /\ clock' = clock
    BY DEF CreateDomain
  <1>2. domain' \subseteq Domain
    BY SlotFacts DEF CreateDomain, IInv, TypeOK
  <1>3. member' \in [Domain -> [Client -> Role \cup {"none"}]]
    BY <1>1 DEF IInv, TypeOK
  <1> QED
    BY <1>1, <1>2, <1>3, SameRules, WritesInv

\* add_domain_member
LEMMA AddMemberInv == ASSUME IInv, Watch, NEW s \in Slot, AddMember(s) PROVE IInv'
  <1>1. /\ End(s) /\ domain' = domain /\ active' = active /\ rule' = rule
        /\ granted' = granted /\ clock' = clock /\ pc[s] = "write" /\ op[s] = "add"
    BY DEF AddMember
  <1>2. PICK r \in Roles : member' = [member EXCEPT ![dom[s]][arg[s].who] = r]
    BY DEF AddMember
  <1>3. arg[s].who \in Client /\ dom[s] \in Domain /\ r \in Role
    BY <1>1, SlotFacts, AccessAssumption DEF IInv, Requests, Sound, Named
  <1>4. member \in [Domain -> [Client -> Role \cup {"none"}]] /\ domain \subseteq Domain
    BY DEF IInv, TypeOK
  <1>5. member' \in [Domain -> [Client -> Role \cup {"none"}]]
    BY <1>2, <1>3, <1>4
  <1> QED
    BY <1>1, <1>4, <1>5, SameRules, WritesInv

\* remove_domain_member
LEMMA RemoveMemberInv == ASSUME IInv, Watch, NEW s \in Slot, RemoveMember(s) PROVE IInv'
  <1>1. /\ End(s) /\ domain' = domain /\ active' = active /\ rule' = rule
        /\ granted' = granted /\ clock' = clock
    BY DEF RemoveMember
  <1>2. PICK c \in traffic.who \cap Client : member' = [member EXCEPT ![dom[s]][c] = "none"]
    BY DEF RemoveMember
  <1>3. member \in [Domain -> [Client -> Role \cup {"none"}]] /\ domain \subseteq Domain
        /\ dom[s] \in Domain
    BY SlotFacts DEF IInv, TypeOK
  <1>4. member' \in [Domain -> [Client -> Role \cup {"none"}]]
    BY <1>2, <1>3
  <1> QED
    BY <1>1, <1>3, <1>4, SameRules, WritesInv

\* grant_acl
LEMMA GrantInv == ASSUME IInv, Watch, NEW s \in Slot, Grant(s) PROVE IInv'
  <1>1. /\ End(s) /\ domain' = domain /\ active' = active /\ member' = member
        /\ clock' = clock /\ pc[s] = "write" /\ op[s] = "grant"
        /\ granted < traffic.rules /\ granted' = granted + 1
    BY DEF Grant
  <1>2. PICK t \in Templates :
          rule' = [rule EXCEPT ![granted + 1] = FreshRule(dom[s], arg[s].who, t)]
    BY DEF Grant
  <1>3. /\ granted \in Nat /\ granted + 1 \in Ids /\ granted + 1 \in 0..MaxRule
        /\ Ids \subseteq Nat /\ \A i \in Ids : i <= granted => i # granted + 1
    BY <1>1, SlotFacts, AccessAssumption DEF IInv, TypeOK, Ids
  <1>4. arg[s].who \in Client \cup Domain /\ dom[s] \in Domain
    BY <1>1, SlotFacts DEF IInv, Requests, Sound, Named
  <1>5. PICK new \in Rule :
          /\ new = FreshRule(dom[s], arg[s].who, t)
          /\ new.uses = 0 /\ new.count = 0 /\ new.t = t /\ new.start = MaxTime + 1
    <2>1. FreshRule(dom[s], arg[s].who, t) \in Rule
      BY <1>4, AccessAssumption DEF FreshRule, Rule
    <2> QED
      BY <2>1 DEF FreshRule
  <1>6. PICK n \in Ids : n = granted + 1
    BY <1>3
  <1>7. t.max \in Nat /\ t.rate \in Nat
    BY AccessAssumption DEF Template
  <1>8. rule \in [Ids -> Rule \cup {NoRule}]
    BY DEF IInv, TypeOK
  <1>9. /\ rule' \in [Ids -> Rule \cup {NoRule}] /\ rule'[n] = new
        /\ \A i \in Ids : i # n => rule'[i] = rule[i]
    BY <1>2, <1>3, <1>5, <1>6, <1>8
  <1>10. RulesStay
    BY <1>1, <1>3, <1>6, <1>9 DEF RulesStay
  <1>11. Numbered'
    <2>1. ASSUME NEW i \in Ids, i > granted + 1 PROVE i > granted /\ i # n
      BY <1>3, <1>6, <2>1
    <2> QED
      BY <1>1, <1>9, <2>1 DEF IInv, Numbered
  <1>12. Limits(n)'
    <2>1. ~(new.start <= MaxTime)
      BY <1>5, AccessAssumption
    <2>2. ~Open(rule[n])'
      BY <1>9, <2>1 DEF Open
    <2>3. /\ Cardinality(Recording(n)') \in Nat /\ Cardinality(Slot) \in Nat
          /\ Cardinality(Recording(n)') <= Cardinality(Slot)
      BY RecordingFactsNext
    <2>4. /\ new.count <= new.uses
          /\ new.t.max > 0 =>
                new.uses + Cardinality(Recording(n)') <= new.t.max + Cardinality(Slot) - 1
          /\ new.t.rate > 0 => new.count <= new.t.rate + Cardinality(Slot) - 1
      BY <1>5, <1>7, <2>3
    <2> QED
      BY <1>9, <2>2, <2>4 DEF Limits
  <1>13. \A i \in Ids : rule'[i] = rule[i] \/ Limits(i)'
    BY <1>9, <1>12
  <1>14. domain' \subseteq Domain /\ member' \in [Domain -> [Client -> Role \cup {"none"}]]
         /\ granted' \in 0..MaxRule
    BY <1>1, <1>3 DEF IInv, TypeOK
  <1> QED
    BY <1>1, <1>9, <1>10, <1>11, <1>13, <1>14, WritesInv

\* revoke_acl
LEMMA RevokeRuleInv == ASSUME IInv, Watch, NEW s \in Slot, RevokeRule(s) PROVE IInv'
  <1>1. /\ End(s) /\ domain' = domain /\ active' = active /\ member' = member
        /\ clock' = clock /\ granted' = granted
        /\ rule' = [rule EXCEPT ![arg[s].id] = NoRule]
    BY DEF RevokeRule
  <1>2. rule \in [Ids -> Rule \cup {NoRule}] /\ granted \in 0..MaxRule
    BY DEF IInv, TypeOK
  <1>3. /\ rule' \in [Ids -> Rule \cup {NoRule}]
        /\ \A i \in Ids : rule'[i] = rule[i] \/ rule'[i] = NoRule
    BY <1>1, <1>2
  <1>4. RulesStay
    BY <1>1, <1>2, <1>3, AccessAssumption DEF RulesStay
  <1>5. Numbered'
    BY <1>1, <1>3 DEF IInv, Numbered
  <1>6. \A i \in Ids : rule'[i] = rule[i] \/ Limits(i)'
    BY <1>3 DEF Limits
  <1>7. domain' \subseteq Domain /\ member' \in [Domain -> [Client -> Role \cup {"none"}]]
    BY <1>1 DEF IInv, TypeOK
  <1> QED
    BY <1>1, <1>2, <1>3, <1>4, <1>5, <1>6, <1>7, WritesInv

\* The window of a rule does not count for an access charged now.
Rolls(r) == r.start > MaxTime \/ r.start + r.t.period <= clock

\* What is charged to a rule.
LEMMA ChargedFacts ==
    ASSUME TypeOK, NEW i \in Ids, rule[i] # NoRule, rule[i].uses < MaxCount,
           rule[i].count <= rule[i].uses
    PROVE  LET r == rule[i]
               c == Charged(rule[i]) IN
           /\ c.dom = r.dom /\ c.t = r.t /\ c.uses = r.uses + 1
           /\ c.count = IF r.t.period = 0 THEN r.count ELSE IF Rolls(r) THEN 1 ELSE r.count + 1
           /\ c \in Rule
  <1> DEFINE r == rule[i]
             c == Charged(rule[i])
  <1>1. r \in Rule
    BY RuleFacts
  <1>a. PICK st, n :
          /\ st = IF r.t.period > 0 /\ Rolls(r) THEN clock ELSE r.start
          /\ n = IF r.t.period = 0 THEN r.count ELSE IF Rolls(r) THEN 1 ELSE r.count + 1
          /\ c = [r EXCEPT !.uses = r.uses + 1, !.start = st, !.count = n]
    BY DEF Charged, Rolls
  <1>2. /\ c.dom = r.dom /\ c.who = r.who /\ c.t = r.t /\ c.uses = r.uses + 1
        /\ c.start = st /\ c.count = n
        /\ c = [dom |-> r.dom, who |-> r.who, t |-> r.t, uses |-> c.uses, count |-> c.count,
                start |-> c.start]
    BY <1>1, <1>a DEF Rule
  <1>3. /\ r.uses \in Nat /\ r.count \in Nat /\ r.start \in 0..(MaxTime + 1)
        /\ r.t.period \in Nat
        /\ clock \in 0..MaxTime /\ MaxTime \in Nat /\ MaxCount \in Nat
    BY RuleFacts, AccessAssumption DEF TypeOK, Time
  <1> HIDE DEF c
  <1>4. c.uses \in 0..MaxCount /\ c.count \in 0..MaxCount /\ c.start \in 0..(MaxTime + 1)
    BY <1>a, <1>2, <1>3
  <1>5. c.dom \in Domain /\ c.who \in Client \cup Domain /\ c.t \in Templates
    BY <1>1, <1>2 DEF Rule
  <1>6. c = [dom |-> c.dom, who |-> c.who, t |-> c.t, uses |-> c.uses, count |-> c.count,
             start |-> c.start]
    BY <1>2
  <1>7. c \in Rule
    BY <1>4, <1>5, <1>6 DEF Rule
  <1> QED
    BY <1>a, <1>2, <1>7 DEF c

\* acl_record_use
LEMMA RecordUseInv == ASSUME IInv, Watch, NEW s \in Slot, RecordUse(s) PROVE IInv'
  <1>1. /\ End(s) /\ domain' = domain /\ active' = active /\ member' = member
        /\ clock' = clock /\ granted' = granted /\ pc[s] = "record"
    BY DEF RecordUse
  <1>2. domain' \subseteq Domain /\ member' \in [Domain -> [Client -> Role \cup {"none"}]]
    BY <1>1 DEF IInv, TypeOK
  <1>3. CASE rule' = rule
    BY <1>1, <1>2, <1>3, SameRules, WritesInv
  <1>4. CASE rule' # rule
    <2>1. PICK i \in Ids :
            /\ i = arg[s].id /\ rule[i] # NoRule /\ rule[i].uses < MaxCount
            /\ rule' = [rule EXCEPT ![i] = Charged(rule[i])]
      BY <1>4 DEF RecordUse
    <2>2. rule \in [Ids -> Rule \cup {NoRule}] /\ granted \in 0..MaxRule
      BY DEF IInv, TypeOK
    <2>3. rule'[i] = Charged(rule[i]) /\ \A j \in Ids : j # i => rule'[j] = rule[j]
      BY <2>1, <2>2
    <2> DEFINE r == rule[i]
               c == Charged(rule[i])
               roll == Rolls(r)
    <2>4. r \in Rule /\ Limits(i)
      BY <2>1, RuleFacts DEF IInv, Charges
    <2>7. r.count <= r.uses
      BY <2>1, <2>4 DEF Limits
    <2>5. /\ c.dom = r.dom /\ c.t = r.t /\ c.uses = r.uses + 1
          /\ c.count = IF r.t.period = 0 THEN r.count ELSE IF roll THEN 1 ELSE r.count + 1
          /\ c \in Rule
      BY <2>1, <2>7, ChargedFacts DEF IInv
    <2>6. /\ r.uses \in Nat /\ r.count \in Nat /\ r.start \in 0..(MaxTime + 1)
          /\ r.t.max \in Nat /\ r.t.rate \in Nat /\ r.t.period \in Nat
          /\ clock \in Nat /\ MaxTime \in Nat
      BY <2>1, RuleFacts, AccessAssumption DEF IInv
    <2> HIDE DEF c, roll
    <2>9. rule' \in [Ids -> Rule \cup {NoRule}]
      BY <2>1, <2>2, <2>5 DEF c
    <2>10. RulesStay
      BY <1>1, <2>1, <2>2, <2>3, <2>5, AccessAssumption DEF RulesStay, c
    <2>11. Numbered'
      BY <1>1, <2>1, <2>3 DEF IInv, Numbered
    <2>12. Limits(i)'
      <3>1. /\ IsFiniteSet(Recording(i)) /\ s \in Recording(i)
            /\ Recording(i)' \subseteq Recording(i) \ {s}
        <4>1. s \in Recording(i)
          BY <1>1, <2>1 DEF Recording
        <4>2. s \notin Recording(i)'
          BY <1>1, EndFacts DEF Recording, IInv
        <4> QED
          BY <1>1, <4>1, <4>2, EndFacts, RecordingFacts DEF IInv
      <3>2. /\ Cardinality(Recording(i) \ {s}) = Cardinality(Recording(i)) - 1
            /\ IsFiniteSet(Recording(i) \ {s})
        BY <3>1, FS_RemoveElement
      <3>3. Cardinality(Recording(i)') <= Cardinality(Recording(i) \ {s})
        BY <3>1, <3>2, FS_Subset
      <3>4. /\ Cardinality(Recording(i)') \in Nat /\ Cardinality(Recording(i)) \in Nat
            /\ Cardinality(Slot) \in Nat /\ Cardinality(Recording(i)) <= Cardinality(Slot)
            /\ Cardinality(Recording(i)') <= Cardinality(Recording(i)) - 1
        BY <3>2, <3>3, RecordingFacts, RecordingFactsNext
      <3> DEFINE n == Cardinality(Slot)
                 m == Cardinality(Recording(i))
                 k == Cardinality(Recording(i)')
      <3>5. c.count <= c.uses
        BY <2>5, <2>6, <2>7
      <3>6. r.t.max > 0 => c.uses + k <= r.t.max + n - 1
        BY <2>1, <2>4, <2>5, <2>6, <3>4 DEF Limits
      <3>7. Open(r) <=> ~roll
        BY <2>6 DEF Open, roll, Rolls
      <3>8. r.t.rate > 0 /\ r.t.period > 0 =>
              c.count <= r.t.rate + n - 1 /\ c.count + k <= r.t.rate + n - 1
        <4> SUFFICES ASSUME r.t.rate > 0, r.t.period > 0
                     PROVE  c.count <= r.t.rate + n - 1 /\ c.count + k <= r.t.rate + n - 1
          OBVIOUS
        <4>1. CASE roll
          BY <2>5, <2>6, <3>4, <4>1
        <4>2. CASE ~roll
          <5>1. r.count + m <= r.t.rate + n - 1
            BY <2>1, <2>4, <3>7, <4>2 DEF Limits
          <5> QED
            BY <2>5, <2>6, <3>4, <4>2, <5>1
        <4> QED
          BY <4>1, <4>2
      <3>9. rule'[i] = c /\ c.t = r.t
        BY <2>3, <2>5 DEF c
      <3> HIDE DEF r, n, m
      <3> QED
        BY <3>5, <3>6, <3>8, <3>9 DEF Limits, n
    <2>13. \A j \in Ids : rule'[j] = rule[j] \/ Limits(j)'
      BY <2>3, <2>12
    <2>14. granted' \in 0..MaxRule
      BY <1>1, <2>2
    <2> QED
      BY <1>1, <1>2, <2>9, <2>10, <2>11, <2>13, <2>14, WritesInv
  <1> QED
    BY <1>3, <1>4

\* Time passes.
LEMMA TickInv == ASSUME IInv, Watch, Tick PROVE IInv'
  <1>1. /\ clock' = clock + 1 /\ clock < MaxTime /\ domain' = domain /\ member' = member
        /\ active' = active /\ rule' = rule /\ granted' = granted /\ op' = op
        /\ caller' = caller /\ traffic' = traffic /\ pc' = pc /\ dom' = dom /\ arg' = arg
    BY DEF Tick, tables, call
  <1>2. clock \in Nat /\ granted \in Nat /\ clock' \in Time
    BY <1>1, AccessAssumption DEF IInv, TypeOK, Time
  <1>3. TypeOK'
    BY <1>1, <1>2 DEF IInv, TypeOK
  <1>4. RulesStay
    BY <1>1, <1>2 DEF RulesStay
  <1>5. Requests'
    BY <1>1, <1>4, OtherSlot DEF IInv, Requests
  <1>6. Numbered'
    BY <1>1 DEF IInv, Numbered
  <1>7. Charges'
    <2> SUFFICES ASSUME NEW i \in Ids PROVE Limits(i)'
      BY DEF Charges
    <2>1. Recording(i)' = Recording(i)
      BY <1>1 DEF Recording
    <2> QED
      BY <1>1, <1>2, <2>1, LimitsKept DEF IInv, Charges
  <1> QED
    BY <1>3, <1>5, <1>6, <1>7 DEF IInv

\* revoke_client_endpoint
LEMMA RevokeClientInv == ASSUME IInv, Watch, NEW c \in Client, RevokeClient(c) PROVE IInv'
  <1>1. /\ active' = active \ {c} /\ clock' = clock /\ domain' = domain /\ member' = member
        /\ rule' = rule /\ granted' = granted /\ op' = op
        /\ caller' = caller /\ traffic' = traffic /\ pc' = pc /\ dom' = dom /\ arg' = arg
    BY DEF RevokeClient, call
  <1>2. clock \in Nat /\ granted \in Nat
    BY AccessAssumption DEF IInv, TypeOK, Time
  <1>3. TypeOK'
    BY <1>1 DEF IInv, TypeOK
  <1>4. RulesStay
    BY <1>1, <1>2 DEF RulesStay
  <1>5. Requests'
    BY <1>1, <1>4, OtherSlot DEF IInv, Requests
  <1>6. Numbered'
    BY <1>1 DEF IInv, Numbered
  <1>7. Charges'
    <2> SUFFICES ASSUME NEW i \in Ids PROVE Limits(i)'
      BY DEF Charges
    <2>1. Recording(i)' = Recording(i)
      BY <1>1 DEF Recording
    <2> QED
      BY <1>1, <1>2, <2>1, LimitsKept DEF IInv, Charges
  <1> QED
    BY <1>3, <1>5, <1>6, <1>7 DEF IInv

-----------------------------------------------------------------------------
(* The invariant, and what it implies *)

\* No request is under way and no rule is granted.
LEMMA InitIInv == Init => IInv
  <1> SUFFICES ASSUME Init PROVE IInv
    OBVIOUS
  <1> USE DEF Init
  <1>0. AnyDomain \in Domain
    BY AccessAssumption DEF AnyDomain
  <1> HIDE DEF AnyDomain
  <1>1. TypeOK
    <2>1. member \in [Domain -> [Client -> Role \cup {"none"}]]
      BY DEF Role
    <2>2. domain \subseteq Domain /\ active \subseteq Client
      BY AccessAssumption
    <2>3. rule \in [Ids -> Rule \cup {NoRule}] /\ granted \in 0..MaxRule /\ clock \in Time
      BY AccessAssumption DEF Time
    <2>4. pc \in [Slot -> Pcs] /\ op \in [Slot -> Op]
      BY DEF Pcs, Op, AnyOp
    <2>5. caller \in [Slot -> Client] /\ dom \in [Slot -> Domain]
      BY <1>0, AccessAssumption
    <2>6. arg \in [Slot -> Arg]
      BY DEF NoArg, Arg
    <2> QED
      BY <2>1, <2>2, <2>3, <2>4, <2>5, <2>6 DEF TypeOK
  <1>2. Requests
    <2> SUFFICES ASSUME NEW s \in Slot PROVE Sound(s)
      BY DEF Requests
    <2>1. pc[s] = "idle" /\ op[s] = "access" /\ arg[s] = NoArg /\ seen[s] = {}
      BY DEF AnyOp
    <2>2. arg[s].id = 0
      BY <2>1 DEF NoArg
    <2> QED
      BY <2>1, <2>2 DEF Sound, Staged, Named, Witnessed, Asking
  <1>3. Numbered /\ Charges
    BY DEF Numbered, Charges, Limits
  <1> QED
    BY <1>1, <1>2, <1>3 DEF IInv

\* Every step of a request and of the world around keeps the invariant.
LEMMA NextIInv == IInv /\ [Next]_vars => IInv'
  <1> SUFFICES ASSUME IInv, [Next]_vars PROVE IInv'
    OBVIOUS
  <1>1. CASE Next
    <2>1. Watch
      BY <1>1 DEF Next
    <2>2. ASSUME NEW s \in Slot, Handle(s) PROVE IInv'
      BY <2>1, <2>2, ArriveInv, ResolveInv, FindRuleInv, AuthorityInv, LookupTargetInv,
         CreateDomainInv, GrantInv, RevokeRuleInv, AddMemberInv, RemoveMemberInv, GateInv,
         AdminAllowedInv, DecideInv, RecordUseInv, DropInv DEF Handle
    <2> QED
      BY <1>1, <2>1, <2>2, TickInv, RevokeClientInv DEF Next
  <1>2. CASE UNCHANGED vars
    <2> USE <1>2 DEF vars, tables, call
    <2>1. TypeOK' /\ Numbered'
      BY DEF IInv, TypeOK, Numbered
    <2>2. Charges'
      BY DEF IInv, Charges, Limits, Recording, Open
    <2>3. \A s \in Slot : Staged(s)' /\ Named(s)'
      BY DEF IInv, Requests, Sound, Staged, Named
    <2>4. \A s \in Slot : Facts(s)' = Facts(s)
      BY DEF Facts, DomainMember, DomainAdmin, Entitles
    <2>5. \A s \in Slot : Witnessed(s)'
      BY <2>4 DEF IInv, Requests, Sound, Witnessed
    <2> QED
      BY <2>1, <2>2, <2>3, <2>5 DEF IInv, Requests, Sound
  <1> QED
    BY <1>1, <1>2

\* IInv holds in every reachable state of the access rules.
THEOREM Invariance == Spec => []IInv
  BY InitIInv, NextIInv, PTL DEF Spec

\* Whatever else goes on between the statements of a request, an access goes
\* ahead only if, since it arrived, its client was a member of the domain and
\* was allowed by a rule or as an administrator (acl_check).
THEOREM AccessSafety == Spec => []GrantedWasAllowed
  <1>1. IInv => GrantedWasAllowed
    BY DEF IInv, Requests, Sound, Staged, Witnessed, Asking, GrantedWasAllowed
  <1> QED
    BY <1>1, Invariance, PTL

\* max_uses and the rate limit of a rule are exceeded by less than the number
\* of requests in flight (acl_check before, acl_record_use after the access).
THEOREM LimitSafety == Spec => []BoundedExcess
  <1>1. ASSUME IInv, NEW i \in Ids, rule[i] # NoRule
        PROVE  /\ rule[i].t.max > 0 => rule[i].uses <= rule[i].t.max + Cardinality(Slot) - 1
               /\ rule[i].t.rate > 0 /\ rule[i].t.period > 0 =>
                      rule[i].count <= rule[i].t.rate + Cardinality(Slot) - 1
    BY <1>1, RuleFacts, RecordingFacts DEF IInv, Charges, Limits
  <1>2. IInv => BoundedExcess
    BY <1>1 DEF BoundedExcess, BoundedUses, BoundedRate
  <1> QED
    BY <1>2, Invariance, PTL

\* The memberships and rules of a domain change only at the hands of a request
\* whose caller administered that domain at some moment since it arrived
\* (require_domain_admin).
THEOREM AuthoritySafety == Spec => ScopedAuthority
  <1> DEFINE Changed(d) ==
               \/ \E c \in Client : member'[d][c] # member[d][c]
               \/ \E i \in Ids : \/ rule[i] = NoRule /\ rule'[i] # NoRule /\ rule'[i].dom = d
                                 \/ rule[i] # NoRule /\ rule'[i] = NoRule /\ rule[i].dom = d
             By(d) == \E s \in Slot : pc[s] = "write" /\ pc'[s] = "idle"
                                      /\ dom[s] = d /\ "admin" \in seen[s]
  <1>1. ASSUME IInv, Next, NEW d \in Domain, Changed(d) PROVE By(d)
    <2>1. PICK s \in Slot : Handle(s)
      BY <1>1 DEF Next, Tick, RevokeClient, tables
    <2>2. ~Reads
      BY <1>1 DEF Reads, tables
    <2>3. CreateDomain(s) \/ Grant(s) \/ RevokeRule(s) \/ AddMember(s) \/ RemoveMember(s)
          \/ RecordUse(s)
      BY <2>1, <2>2 DEF Handle, Arrive, Resolve, FindRule, Authority, LookupTarget, Gate,
         AdminAllowed, Decide, Drop
    <2>4. /\ member \in [Domain -> [Client -> Role \cup {"none"}]]
          /\ rule \in [Ids -> Rule \cup {NoRule}]
      BY <1>1 DEF IInv, TypeOK
    <2>5. ASSUME pc[s] = "write", op[s] # "create_domain", End(s), dom[s] = d PROVE By(d)
      <3>1. "admin" \in seen[s]
        BY <1>1, <2>5 DEF IInv, Requests, Sound, Witnessed
      <3>2. pc'[s] = "idle"
        BY <1>1, <2>5, EndFacts DEF IInv
      <3> QED
        BY <2>5, <3>1, <3>2
    <2>6. CASE CreateDomain(s)
      BY <1>1, <2>6 DEF CreateDomain
    <2>7. CASE Grant(s)
      <3>1. PICK t \in Templates :
              rule' = [rule EXCEPT ![granted + 1] = FreshRule(dom[s], arg[s].who, t)]
        BY <2>7 DEF Grant
      <3>2. member' = member /\ pc[s] = "write" /\ op[s] = "grant" /\ End(s)
        BY <2>7 DEF Grant
      <3>3. FreshRule(dom[s], arg[s].who, t).dom = dom[s]
        BY DEF FreshRule
      <3>4. rule[granted + 1] = NoRule \/ granted + 1 \notin Ids
        BY <1>1, AccessAssumption DEF IInv, Numbered, TypeOK, Ids
      <3> HIDE DEF FreshRule
      <3>5. dom[s] = d
        BY <1>1, <2>4, <3>1, <3>2, <3>3, <3>4
      <3> QED
        BY <2>5, <3>2, <3>5
    <2>8. CASE RevokeRule(s)
      <3>1. /\ rule' = [rule EXCEPT ![arg[s].id] = NoRule] /\ member' = member
            /\ pc[s] = "write" /\ op[s] = "revoke" /\ End(s)
        BY <2>8 DEF RevokeRule
      <3>2. rule[arg[s].id] # NoRule => rule[arg[s].id].dom = dom[s]
        BY <1>1, <3>1 DEF IInv, Requests, Sound, Named
      <3>3. dom[s] = d
        BY <1>1, <2>4, <3>1, <3>2
      <3> QED
        BY <2>5, <3>1, <3>3
    <2>9. CASE AddMember(s)
      <3>1. PICK r \in Roles : member' = [member EXCEPT ![dom[s]][arg[s].who] = r]
        BY <2>9 DEF AddMember
      <3>2. rule' = rule /\ pc[s] = "write" /\ op[s] = "add" /\ End(s)
        BY <2>9 DEF AddMember
      <3>3. dom[s] = d
        BY <1>1, <2>4, <3>1, <3>2
      <3> QED
        BY <2>5, <3>2, <3>3
    <2>10. CASE RemoveMember(s)
      <3>1. PICK c \in traffic.who \cap Client : member' = [member EXCEPT ![dom[s]][c] = "none"]
        BY <2>10 DEF RemoveMember
      <3>2. rule' = rule /\ pc[s] = "write" /\ op[s] = "remove" /\ End(s)
        BY <2>10 DEF RemoveMember
      <3>3. dom[s] = d
        BY <1>1, <2>4, <3>1, <3>2
      <3> QED
        BY <2>5, <3>2, <3>3
    <2>11. CASE RecordUse(s)
      <3>1. member' = member
        BY <2>11 DEF RecordUse
      <3>2. PICK i \in Ids : /\ rule[i] # NoRule /\ rule[i].uses < MaxCount
                             /\ rule' = [rule EXCEPT ![i] = Charged(rule[i])]
        BY <1>1, <2>11, <3>1 DEF RecordUse
      <3>3. rule[i].count <= rule[i].uses
        BY <1>1, <3>2 DEF IInv, Charges, Limits
      <3>4. Charged(rule[i]) # NoRule
        BY <1>1, <3>2, <3>3, ChargedFacts, NoRuleAssumption DEF IInv
      <3> QED
        BY <1>1, <2>4, <3>1, <3>2, <3>4
    <2> QED
      BY <2>3, <2>6, <2>7, <2>8, <2>9, <2>10, <2>11
  <1>2. ASSUME IInv, [Next]_vars
        PROVE  [\A d \in Domain : Changed(d) => By(d)]_vars
    BY <1>1, <1>2
  <1> QED
    BY <1>2, Invariance, PTL DEF Spec, ScopedAuthority
=============================================================================
