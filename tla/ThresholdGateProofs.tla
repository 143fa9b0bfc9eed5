-------------------------- MODULE ThresholdGateProofs --------------------------
(***************************************************************************)
(* Proofs about ThresholdGate, for any number of reads, clients, requests  *)
(* and grants: every pass rests on a quorum (PassedHasQuorum), approvals   *)
(* are spent by one read and passes counted by the grants they needed      *)
(* unless a charge failed (ApprovalsSpent), and the advisory lock leaves a *)
(* reader one open request for a resource (OneOpenRequest).  The proofs    *)
(* rest on the inductive invariant IInv: what an invocation of the gate    *)
(* has found out, as far as it still holds when it acts on it.             *)
(***************************************************************************)
EXTENDS ThresholdGate, FiniteSetTheorems, TLAPS

\* An invocation presents or was given a request that exists, and has found
\* grants that exist.
Found ==
    \A r \in Read :
        /\ rid[r] \in RequestIds \cup {NoRequest}
        /\ pc[r] \in {"lookup", "reread", "consume"} => rid[r] # NoRequest
        /\ adv[r] \subseteq GrantIds /\ used[r] \subseteq adv[r]
        /\ pc[r] \notin {"idle", "advance", "refused"} => SigsOf(adv[r]) \subseteq pol[r].sigs

\* Only signatories approve.
Approved == \A i \in RequestIds : request[i].approvers \subseteq request[i].sigs

\* What an invocation that is past the count rests on: enough signatories, of
\* the request or of the policy.
Enough(r) ==
    IF rid[r] = NoRequest
    THEN basis[r] \subseteq pol[r].sigs /\ Cardinality(basis[r]) >= pol[r].k
    ELSE /\ basis[r] \subseteq request[rid[r]].sigs \cup pol[r].sigs
         /\ \/ Cardinality(basis[r]) >= request[rid[r]].k
            \/ Cardinality(basis[r]) >= pol[r].k
Rests == \A r \in Read : pc[r] \in {"consume", "charge", "passed"} => Enough(r)

\* Who got through has consumed its request.
Consumed == \A r \in Through : rid[r] # NoRequest => request[rid[r]].consumed

\* The grants an invocation relies upon are those it is going to charge, until
\* it has charged them.
Due ==
    \A r \in Read :
        /\ pc[r] = "consume" => Relied(r) \subseteq used[r]
        /\ pc[r] = "passed" => used[r] = {}

\* The passes charged to a grant, counted by its uses.
Charged(g) == {r \in Through : g \in Relied(r) /\ g \notin used[r] /\ g \notin lapsed[r]}
Counted ==
    \A g \in GrantIds :
        IsFiniteSet(Charged(g)) /\ Cardinality(Charged(g)) <= grant[g].uses

\* The reads that may have charged a grant: they have come as far as charging,
\* had found the grant and do not have it before them any more.
Settled(g) == {r \in Read : /\ pc[r] \in {"charge", "passed", "refused"}
                            /\ g \in adv[r] /\ g \notin used[r]}
Spared ==
    \A g \in GrantIds :
        IsFiniteSet(Finders(g)) /\ grant[g].uses <= Cardinality(Settled(g))

\* A reader has one transaction at a time for a resource, and no open request
\* while that transaction is about to insert one.
Locked ==
    \A r \in Read :
        /\ pc[r] = "insert" => Mine(r) = {}
        /\ \A q \in Read : /\ InTransaction(r) /\ InTransaction(q)
                           /\ who[r] = who[q] /\ what[r] = what[q]
                           => r = q

IInv ==
    /\ TypeOK /\ Found /\ Approved /\ Rests /\ Consumed /\ ConsumedOnce /\ Due
    /\ Counted /\ OneOpenRequest /\ Spared /\ Locked

-----------------------------------------------------------------------------
(* Facts about the tables and about finite sets *)

\* Requests and grants are numbered in the order they were created.
LEMMA TableFacts ==
    ASSUME TypeOK
    PROVE  /\ \E n \in 0..MaxRequests : /\ RequestIds = 1..n /\ Cardinality(RequestIds) = n
                                        /\ request \in [1..n -> Request]
           /\ \E n \in 0..MaxGrants : /\ GrantIds = 1..n /\ Cardinality(GrantIds) = n
                                      /\ grant \in [1..n -> Grant]
           /\ RequestIds \subseteq 1..MaxRequests /\ GrantIds \subseteq 1..MaxGrants
           /\ IsFiniteSet(GrantIds) /\ GrantIds \subseteq Nat /\ RequestIds \subseteq Nat
  <1>1. PICK n \in 0..MaxRequests : request \in [1..n -> Request]
    BY DEF TypeOK
  <1>2. PICK m \in 0..MaxGrants : grant \in [1..m -> Grant]
    BY DEF TypeOK
  <1>3. n \in Nat /\ m \in Nat
    BY GateAssumption
  <1>4. RequestIds = 1..n /\ GrantIds = 1..m
    BY <1>1, <1>2 DEF RequestIds, GrantIds
  <1>5. /\ IsFiniteSet(1..n) /\ Cardinality(1..n) = n
        /\ IsFiniteSet(1..m) /\ Cardinality(1..m) = m
    BY <1>3, FS_Interval
  <1>6. 1..n \subseteq 1..MaxRequests /\ 1..m \subseteq 1..MaxGrants
    BY <1>3, GateAssumption
  <1>7. 1..n \subseteq Nat /\ 1..m \subseteq Nat
    BY <1>3
  <1> QED
    BY <1>1, <1>2, <1>3, <1>4, <1>5, <1>6, <1>7

\* A row of a table has its fields.
LEMMA RowFacts ==
    ASSUME TypeOK
    PROVE  /\ \A i \in RequestIds : /\ request[i] \in Request /\ request[i].from \in Client
                                    /\ request[i].res \in Resource /\ request[i].k \in Nat \ {0}
                                    /\ request[i].sigs \subseteq Client
                                    /\ request[i].approvers \subseteq Client
                                    /\ request[i].consumed \in BOOLEAN
                                    /\ request[i].expired \in BOOLEAN
           /\ \A g \in GrantIds : /\ grant[g] \in Grant /\ grant[g].sig \in Client
                                  /\ grant[g].uses \in Nat
  <1>1. \A i \in RequestIds : request[i] \in Request
    BY TableFacts
  <1>2. \A g \in GrantIds : grant[g] \in Grant
    BY TableFacts
  <1> QED
    BY <1>1, <1>2 DEF Request, Grant

\* The rank of an element among those up to it tells the elements apart.
LEMMA OldestCount ==
    ASSUME NEW G \in SUBSET Nat, IsFiniteSet(G), NEW n \in Nat, n <= Cardinality(G)
    PROVE  /\ Oldest(n, G) \subseteq G /\ IsFiniteSet(Oldest(n, G))
           /\ Cardinality(Oldest(n, G)) = n
  <1> DEFINE UpTo(g) == {h \in G : h <= g}
             rank == [g \in G |-> Cardinality(UpTo(g))]
             N == Cardinality(G)
             T == Oldest(n, G)
  <1>1. N \in Nat /\ \A g \in G : IsFiniteSet(UpTo(g)) /\ Cardinality(UpTo(g)) \in Nat
                                  /\ Cardinality(UpTo(g)) <= N
    <2>1. \A g \in G : UpTo(g) \in SUBSET G
      OBVIOUS
    <2> HIDE DEF UpTo
    <2>2. \A g \in G : IsFiniteSet(UpTo(g)) /\ Cardinality(UpTo(g)) <= N
      BY <2>1, FS_Subset
    <2> QED
      BY <2>2, FS_CardinalityType
  <1>2. \A g \in G : 1 <= Cardinality(UpTo(g))
    <2> SUFFICES ASSUME NEW g \in G PROVE Cardinality(UpTo(g)) # 0
      BY <1>1
    <2>1. g \in UpTo(g)
      OBVIOUS
    <2> HIDE DEF UpTo
    <2> QED
      BY <1>1, <2>1, FS_EmptySet
  <1>3. \A g, h \in G : Cardinality(UpTo(g)) = Cardinality(UpTo(h)) => g = h
    <2>1. ASSUME NEW g \in G, NEW h \in G, g < h PROVE Cardinality(UpTo(g)) # Cardinality(UpTo(h))
      <3>0. \A x \in G : x \in Nat
        OBVIOUS
      <3>a. \A x \in G : x <= g => x <= h
        BY <2>1, <3>0
      <3>b. h <= h /\ ~(h <= g)
        BY <2>1, <3>0
      <3>1. UpTo(g) \in SUBSET UpTo(h) /\ h \in UpTo(h) /\ h \notin UpTo(g)
        BY <3>a, <3>b
      <3> HIDE DEF UpTo
      <3> QED
        BY <1>1, <3>1, FS_Subset
    <2> SUFFICES ASSUME NEW g \in G, NEW h \in G, g # h
                 PROVE  Cardinality(UpTo(g)) # Cardinality(UpTo(h))
      OBVIOUS
    <2>2. g \in Nat /\ h \in Nat
      OBVIOUS
    <2>3. g < h \/ h < g
      BY <2>2
    <2> HIDE DEF UpTo
    <2> QED
      BY <2>1, <2>3
  <1> HIDE DEF UpTo
  <1>4. rank \in Injection(G, 1..N)
    BY <1>1, <1>2, <1>3 DEF Injection, IsInjective
  <1>5. IsFiniteSet(1..N) /\ Cardinality(1..N) = N
    BY <1>1, FS_Interval
  <1>6. rank \in Surjection(G, 1..N)
    BY <1>4, <1>5, FS_Injection
  <1>7. T = {g \in G : Cardinality(UpTo(g)) <= n}
    BY DEF Oldest, UpTo
  <1>8. T \in SUBSET G /\ IsFiniteSet(T)
    BY <1>7, FS_Subset
  <1> DEFINE low == [g \in T |-> Cardinality(UpTo(g))]
  <1>9. low \in Injection(T, 1..n)
    <2>1. \A g \in T : g \in G /\ Cardinality(UpTo(g)) \in 1..n
      <3> SUFFICES ASSUME NEW g \in T PROVE g \in G /\ Cardinality(UpTo(g)) \in 1..n
        OBVIOUS
      <3>1. g \in G /\ Cardinality(UpTo(g)) <= n
        BY <1>7
      <3> QED
        BY <1>1, <1>2, <3>1
    <2>2. \A g, h \in T : Cardinality(UpTo(g)) = Cardinality(UpTo(h)) => g = h
      BY <1>3, <2>1
    <2> HIDE DEF T
    <2> QED
      BY <2>1, <2>2 DEF Injection, IsInjective
  <1>10. low \in Surjection(T, 1..n)
    <2>1. ASSUME NEW j \in 1..n PROVE \E g \in T : low[g] = j
      <3>1. j \in 1..N
        BY <1>1
      <3>2. PICK g \in G : rank[g] = j
        BY <1>6, <3>1 DEF Surjection
      <3> QED
        BY <1>7, <3>2
    <2>2. low \in [T -> 1..n]
      BY <1>9 DEF Injection
    <2> QED
      BY <2>1, <2>2 DEF Surjection
  <1>11. IsFiniteSet(1..n) /\ Cardinality(1..n) = n
    BY FS_Interval
  <1> QED
    BY <1>8, <1>9, <1>10, <1>11, FS_Injection

\* advance_approvers finds one grant for each signatory, so that the grants
\* count as many signatories.
LEMMA AdvanceFacts ==
    ASSUME TypeOK, NEW r \in Read
    PROVE  /\ AdvanceApprovers(r) \subseteq GrantIds /\ IsFiniteSet(AdvanceApprovers(r))
           /\ SigsOf(AdvanceApprovers(r)) \subseteq pol[r].sigs
           /\ \A T \in SUBSET AdvanceApprovers(r) : Cardinality(SigsOf(T)) = Cardinality(T)
  <1> DEFINE G == AdvanceApprovers(r)
  <1>1. G \subseteq GrantIds /\ SigsOf(G) \subseteq pol[r].sigs
    BY DEF AdvanceApprovers, SigsOf
  <1>2. IsFiniteSet(G)
    BY <1>1, TableFacts, FS_Subset
  <1>3. \A g, h \in G : grant[g].sig = grant[h].sig => g = h
    <2>1. \A g, h \in G : grant[g].sig = grant[h].sig => g <= h
      BY DEF AdvanceApprovers
    <2>2. \A g \in G : g \in Nat
      BY <1>1, TableFacts
    <2> HIDE DEF G
    <2> QED
      BY <2>1, <2>2
  <1> HIDE DEF G
  <1>4. ASSUME NEW T \in SUBSET G PROVE Cardinality(SigsOf(T)) = Cardinality(T)
    <2> DEFINE sig == [g \in T |-> grant[g].sig]
    <2>1. sig \in Surjection(T, SigsOf(T))
      BY DEF Surjection, SigsOf
    <2>2. sig \in Injection(T, SigsOf(T))
      BY <1>3, <2>1 DEF Injection, IsInjective, Surjection
    <2>3. IsFiniteSet(T)
      BY <1>2, FS_Subset
    <2> HIDE DEF sig
    <2> QED
      BY <2>1, <2>2, <2>3, FS_Surjection
  <1> QED
    BY <1>1, <1>2, <1>4 DEF G


\* A set of natural numbers has a least element.
LEMMA NatMin ==
    ASSUME NEW S \in SUBSET Nat, S # {}
    PROVE  \E m \in S : \A y \in S : m <= y
  <1> DEFINE R == OpToRel(<, Nat)
  <1>1. IsWellFoundedOn(R, Nat)
    BY NatLessThanWellFounded, Zenon
  <1>2. \E x \in S : \A y \in S : ~ (<<y, x>> \in R)
    <2> HIDE DEF R
    <2> QED BY <1>1, WFMin, Zenon
  <1>3. \A x, y \in Nat : <<y, x>> \in R <=> y < x
    BY DEF OpToRel
  <1>4. PICK x \in S : \A y \in S : ~ (<<y, x>> \in R)
    BY <1>2
  <1>5. \A y \in S : ~(y < x)
    BY <1>3, <1>4
  <1>6. \A y \in S : x <= y
    BY <1>5
  <1> QED
    BY <1>6

\* A bounded set of ids has a greatest element.
LEMMA Greatest ==
    ASSUME NEW S \in SUBSET Nat, NEW n \in Nat, \A y \in S : y <= n, S # {}
    PROVE  \E x \in S : \A y \in S : y <= x
  <1> DEFINE T == {n - y : y \in S}
  <1>1. T \in SUBSET Nat /\ T # {}
    <2>1. PICK y \in S : TRUE
      OBVIOUS
    <2>2. n - y \in T
      BY <2>1
    <2>3. \A z \in S : n - z \in Nat
      OBVIOUS
    <2> QED
      BY <2>2, <2>3
  <1>2. PICK m \in T : \A y \in T : m <= y
    BY <1>1, NatMin
  <1>3. PICK x \in S : m = n - x
    OBVIOUS
  <1>4. ASSUME NEW y \in S PROVE x >= y
    <2>1. n - y \in T
      OBVIOUS
    <2> HIDE DEF T
    <2> QED
      BY <1>2, <1>3, <2>1
  <1> QED
    BY <1>3, <1>4

\* A pass is charged to a grant once it no longer has to be.
LEMMA CountedKept ==
    ASSUME IInv, GrantIds' = GrantIds,
           \A g \in GrantIds : grant'[g].uses = grant[g].uses,
           \A q \in Read : q \in Through' =>
              \/ Relied(q)' \subseteq used'[q]
              \/ q \in Through /\ Relied(q)' \subseteq Relied(q) /\ used[q] \subseteq used'[q],
           \A q \in Read : lapsed[q] \subseteq lapsed'[q]
    PROVE  Counted'
  <1> SUFFICES ASSUME NEW g \in GrantIds
               PROVE  IsFiniteSet(Charged(g)') /\ Cardinality(Charged(g)') <= grant'[g].uses
    BY DEF Counted
  <1>1. Charged(g)' \in SUBSET Charged(g)
    BY DEF Charged, Through
  <1>2. IsFiniteSet(Charged(g)) /\ Cardinality(Charged(g)) <= grant[g].uses
        /\ grant[g].uses \in Nat
    BY RowFacts DEF IInv, Counted
  <1>3. IsFiniteSet(Charged(g)') /\ Cardinality(Charged(g)') <= Cardinality(Charged(g))
    BY <1>1, <1>2, FS_Subset
  <1>4. Cardinality(Charged(g)') \in Nat /\ Cardinality(Charged(g)) \in Nat
    BY <1>2, <1>3, FS_CardinalityType
  <1> QED
    BY <1>2, <1>3, <1>4

\* A charge that was counted stays counted: a read that may have charged a grant
\* remains one, and one more read at a time finds a grant.
LEMMA SparedKept ==
    ASSUME IInv, GrantIds' = GrantIds,
           \A g \in GrantIds : grant'[g].uses = grant[g].uses,
           \E r : \A q \in Read : q # r => adv'[q] = adv[q],
           \A q \in Read : pc[q] \in {"charge", "passed", "refused"} =>
              /\ pc'[q] \in {"charge", "passed", "refused"}
              /\ adv'[q] = adv[q] /\ used'[q] \subseteq used[q]
    PROVE  Spared'
  <1> SUFFICES ASSUME NEW g \in GrantIds
               PROVE  IsFiniteSet(Finders(g)') /\ grant'[g].uses <= Cardinality(Settled(g)')
    BY DEF Spared
  <1>0. PICK r : \A q \in Read : q # r => adv'[q] = adv[q]
    OBVIOUS
  <1>1. Finders(g)' \in SUBSET (Finders(g) \cup {r}) /\ Settled(g)' \in SUBSET Finders(g)'
    BY <1>0 DEF Finders, Settled
  <1>2. Settled(g) \in SUBSET Settled(g)'
    BY DEF Settled
  <1>3. IsFiniteSet(Finders(g)) /\ grant[g].uses <= Cardinality(Settled(g))
        /\ grant[g].uses \in Nat
    BY RowFacts DEF IInv, Spared
  <1>4. IsFiniteSet(Finders(g) \cup {r})
    BY <1>3, FS_AddElement
  <1>5. IsFiniteSet(Finders(g)')
    BY <1>1, <1>4, FS_Subset
  <1>6. IsFiniteSet(Settled(g)')
    BY <1>1, <1>5, FS_Subset
  <1>7. IsFiniteSet(Settled(g)) /\ Cardinality(Settled(g)) <= Cardinality(Settled(g)')
    BY <1>2, <1>6, FS_Subset
  <1>8. Cardinality(Settled(g)) \in Nat /\ Cardinality(Settled(g)') \in Nat
    BY <1>6, <1>7, FS_CardinalityType
  <1> QED
    BY <1>3, <1>5, <1>7, <1>8

\* No transaction begins and no open request appears.
LEMMA LockedKept ==
    ASSUME IInv, who' = who, what' = what,
           \A q \in Read : pc'[q] \in {"find", "insert"} => pc'[q] = pc[q],
           \A i \in RequestIds' : Open(i)' => /\ i \in RequestIds /\ Open(i)
                                              /\ request'[i].from = request[i].from
                                              /\ request'[i].res = request[i].res
    PROVE  Locked'
  <1>1. ASSUME NEW q \in Read, pc'[q] = "insert" PROVE Mine(q)' = {}
    <2>1. Mine(q) = {}
      BY <1>1 DEF IInv, Locked
    <2>2. Mine(q)' \subseteq Mine(q)
      BY DEF Mine
    <2> QED
      BY <2>1, <2>2
  <1>2. \A q \in Read : InTransaction(q)' => InTransaction(q)
    BY DEF InTransaction
  <1> QED
    BY <1>1, <1>2 DEF IInv, Locked

-----------------------------------------------------------------------------
(* One lemma for each action *)

\* The policy and the request id are read.
LEMMA EnterInv ==
    ASSUME IInv, NEW r \in Read, Enter(r)
    PROVE  IInv'
  <1> USE DEF IInv, Enter, Goto, tables, locals, RequestIds, GrantIds
  <1>1. TypeOK'
    <2>1. policy' \in [Resource -> Policies] /\ revoked' \subseteq Client
      BY DEF TypeOK
    <2>2. \E n \in 0..MaxRequests : request' \in [1..n -> Request]
      BY DEF TypeOK
    <2>3. \E n \in 0..MaxGrants : grant' \in [1..n -> Grant]
      BY DEF TypeOK
    <2>4. /\ pc' \in [Read -> Pcs]
          /\ who' \in [Read -> Client] /\ what' \in [Read -> Resource]
          /\ pol' \in [Read -> Policies]
          /\ rid' \in [Read -> 1..MaxRequests \cup {NoRequest}]
          /\ adv' \in [Read -> SUBSET (1..MaxGrants)]
          /\ used' \in [Read -> SUBSET (1..MaxGrants)]
          /\ lapsed' \in [Read -> SUBSET (1..MaxGrants)]
          /\ basis' \in [Read -> SUBSET Client]
      BY TableFacts DEF TypeOK, Pcs
    <2> QED
      BY <2>1, <2>2, <2>3, <2>4 DEF TypeOK
  <1>2. Found'
    BY GateAssumption, TableFacts, RowFacts DEF TypeOK, Found, SigsOf
  <1>3. Approved'
    BY GateAssumption, TableFacts, RowFacts DEF TypeOK, Approved
  <1>4. Rests'
    BY GateAssumption, TableFacts, RowFacts DEF TypeOK, Rests, Enough, Found
  <1>5. Consumed'
    BY GateAssumption, TableFacts, RowFacts DEF TypeOK, Consumed, Through, Found
  <1>6. ConsumedOnce'
    BY GateAssumption, TableFacts, RowFacts DEF TypeOK, ConsumedOnce, Through, Found
  <1>7. Due'
    BY GateAssumption, TableFacts, RowFacts DEF TypeOK, Due, Relied, Found
  <1>8. Counted'
    BY  CountedKept DEF TypeOK, Through, Relied
  <1>9. OneOpenRequest'
    BY GateAssumption, TableFacts, RowFacts DEF TypeOK, OneOpenRequest, Open
  <1>10. Spared'
    BY SparedKept DEF TypeOK
  <1>11. Locked'
    BY LockedKept DEF TypeOK, Open
  <1> QED
    BY <1>1, <1>2, <1>3, <1>4, <1>5, <1>6, <1>7, <1>8, <1>9, <1>10, <1>11

\* Grants alone may reach the threshold: the oldest ones of as many signatories.
LEMMA AdvanceInv ==
    ASSUME IInv, NEW r \in Read, Advance(r)
    PROVE  IInv'
  <1> USE DEF IInv, RequestIds, GrantIds
  <1> DEFINE G == AdvanceApprovers(r)
             alone == rid[r] = NoRequest /\ Cardinality(G) >= pol[r].k
             take == Oldest(pol[r].k, G)
  <1>a. /\ pc[r] = "advance"
        /\ adv' = [adv EXCEPT ![r] = G]
        /\ used' = [used EXCEPT ![r] = IF alone THEN take ELSE {}]
        /\ basis' = [basis EXCEPT ![r] = IF alone THEN SigsOf(take) ELSE {}]
        /\ pc' = [pc EXCEPT ![r] = IF alone THEN "charge"
                                   ELSE IF rid[r] = NoRequest THEN "create" ELSE "lookup"]
        /\ UNCHANGED <<policy, request, grant, revoked, who, what, pol, rid, lapsed>>
    BY DEF Advance, Goto, tables
  <1>b. /\ G \subseteq GrantIds /\ IsFiniteSet(G) /\ SigsOf(G) \subseteq pol[r].sigs
        /\ \A T \in SUBSET G : Cardinality(SigsOf(T)) = Cardinality(T)
    BY AdvanceFacts
  <1>c. G \subseteq 1..MaxGrants /\ G \subseteq Nat
    BY <1>b, TableFacts
  <1>d. pol[r].k \in Nat /\ pol[r].sigs \subseteq Client
    BY GateAssumption DEF TypeOK, Policy
  <1>e. take \subseteq G
    BY DEF Oldest
  <1>f. SigsOf(take) \subseteq SigsOf(G) /\ SigsOf(take) \subseteq Client
    BY <1>b, <1>d, <1>e DEF SigsOf
  <1>g. alone => Cardinality(SigsOf(take)) = pol[r].k
    <2> SUFFICES ASSUME alone PROVE Cardinality(SigsOf(take)) = pol[r].k
      OBVIOUS
    <2> HIDE DEF G
    <2>1. Cardinality(G) \in Nat /\ pol[r].k <= Cardinality(G)
      BY <1>b, <1>d, FS_CardinalityType
    <2>2. Cardinality(take) = pol[r].k
      BY <1>b, <1>c, <1>d, <2>1, OldestCount
    <2> QED
      BY <1>b, <1>e, <2>2
  <1> HIDE DEF G
  <1>h. adv'[r] = G /\ \A q \in Read : q # r => adv'[q] = adv[q] /\ pc'[q] = pc[q]
                                              /\ used'[q] = used[q] /\ basis'[q] = basis[q]
    BY <1>a DEF TypeOK
  <1>i. pc'[r] \in {"charge", "create", "lookup"} /\ (pc'[r] = "charge" <=> alone)
        /\ (pc'[r] = "lookup" => rid[r] # NoRequest)
    BY <1>a DEF TypeOK
  <1>j. used'[r] = (IF alone THEN take ELSE {}) /\ (alone => basis'[r] = SigsOf(take))
    BY <1>a DEF TypeOK
  <1>l. \A q \in Read : q # r => Relied(q)' = Relied(q)
    BY <1>a, <1>h DEF Relied, Oldest
  <1>m. alone => Relied(r)' = take
    BY <1>a, <1>h DEF Relied, Oldest
  <1> HIDE DEF alone, take
  <1>1. TypeOK'
    <2>1. policy' \in [Resource -> Policies] /\ revoked' \subseteq Client
      BY <1>a DEF TypeOK
    <2>2. \E n \in 0..MaxRequests : request' \in [1..n -> Request]
      BY <1>a DEF TypeOK
    <2>3. \E n \in 0..MaxGrants : grant' \in [1..n -> Grant]
      BY <1>a DEF TypeOK
    <2>4. /\ pc' \in [Read -> Pcs]
          /\ who' \in [Read -> Client] /\ what' \in [Read -> Resource]
          /\ pol' \in [Read -> Policies]
          /\ rid' \in [Read -> 1..MaxRequests \cup {NoRequest}]
          /\ adv' \in [Read -> SUBSET (1..MaxGrants)]
          /\ used' \in [Read -> SUBSET (1..MaxGrants)]
          /\ lapsed' \in [Read -> SUBSET (1..MaxGrants)]
          /\ basis' \in [Read -> SUBSET Client]
      BY <1>a, <1>c, <1>e, <1>f DEF TypeOK, Pcs
    <2> QED
      BY <2>1, <2>2, <2>3, <2>4 DEF TypeOK
  <1>2. Found'
    <2>1. \A q \in Read : SigsOf(adv[q])' = SigsOf(IF q = r THEN G ELSE adv[q])
      BY <1>a, <1>h DEF SigsOf
    <2> QED
      BY <1>a, <1>b, <1>e, <1>h, <1>i, <1>j, <2>1 DEF Found
  <1>3. Approved'
    BY <1>a, <1>h, <1>i, <1>j DEF TypeOK, Approved
  <1>4. Rests'
    <2>1. alone => Enough(r)'
      <3>1. alone => rid[r] = NoRequest
        BY DEF alone
      <3>2. alone => Cardinality(basis'[r]) >= pol[r].k
        BY <1>d, <1>g, <1>j
      <3> QED
        BY <1>a, <1>b, <1>f, <1>j, <3>1, <3>2 DEF Enough
    <2>2. \A q \in Read : q # r => (Enough(q)' <=> Enough(q))
      BY <1>a, <1>h DEF Enough
    <2> QED
      BY <1>h, <1>i, <2>1, <2>2 DEF Rests
  <1>5. Consumed'
    <2>1. alone => rid[r] = NoRequest
      BY DEF alone
    <2> QED
      BY <1>a, <1>h, <1>i, <2>1 DEF Consumed, Through
  <1>6. ConsumedOnce'
    <2>1. alone => rid[r] = NoRequest
      BY DEF alone
    <2> QED
      BY <1>a, <1>h, <1>i, <2>1 DEF ConsumedOnce, Through
  <1>7. Due'
    BY <1>h, <1>i, <1>l DEF Due
  <1>8. Counted'
    BY <1>a, <1>h, <1>i, <1>j, <1>l, <1>m, CountedKept DEF Through
  <1>9. OneOpenRequest'
    BY <1>a, <1>h, <1>i, <1>j DEF TypeOK, OneOpenRequest, Open
  <1>10. Spared'
    BY <1>a, <1>b, <1>c, <1>d, <1>e, <1>f, <1>g, <1>h, <1>i, <1>j, <1>l, <1>m, SparedKept DEF TypeOK
  <1>11. Locked'
    BY <1>a, <1>b, <1>c, <1>d, <1>e, <1>f, <1>g, <1>h, <1>i, <1>j, <1>l, <1>m, LockedKept DEF TypeOK, Open
  <1> QED
    BY <1>1, <1>2, <1>3, <1>4, <1>5, <1>6, <1>7, <1>8, <1>9, <1>10, <1>11

\* The live approvers of the presented request and the grants are counted.
LEMMA LookupRequestInv ==
    ASSUME IInv, NEW r \in Read, LookupRequest(r)
    PROVE  IInv'
  <1> USE DEF IInv, RequestIds, GrantIds
  <1> DEFINE live == request[rid[r]].approvers
             both == live \cup SigsOf(adv[r])
  <1>a. /\ pc[r] = "lookup"
        /\ used' = [used EXCEPT ![r] = {g \in adv[r] : grant[g].sig \notin live}]
        /\ basis' = [basis EXCEPT ![r] = both]
        /\ pc' = [pc EXCEPT ![r] = IF Cardinality(both) >= request[rid[r]].k THEN "consume" ELSE "refused"]
        /\ UNCHANGED <<policy, request, grant, revoked, who, what, pol, rid, adv, lapsed>>
    BY DEF LookupRequest, Tally, Goto, tables
  <1>b. rid[r] \in RequestIds /\ rid[r] # NoRequest
    BY <1>a DEF Found
  <1>c. live \subseteq request[rid[r]].sigs /\ request[rid[r]].sigs \subseteq Client
        /\ live \subseteq Client
    BY <1>b, RowFacts DEF Approved
  <1>d. SigsOf(adv[r]) \subseteq pol[r].sigs /\ pol[r].sigs \subseteq Client
    <2>1. pc[r] \notin {"idle", "advance", "refused"}
      BY <1>a
    <2>2. SigsOf(adv[r]) \subseteq pol[r].sigs
      BY <2>1 DEF Found
    <2>3. pol[r].sigs \subseteq Client
      BY GateAssumption DEF TypeOK, Policy
    <2> QED
      BY <2>2, <2>3
  <1> HIDE DEF live, both
  <1>e. /\ used'[r] = {g \in adv[r] : grant[g].sig \notin live} /\ basis'[r] = both
        /\ pc'[r] \in {"consume", "refused"}
        /\ pc'[r] = "consume" => Cardinality(both) >= request[rid[r]].k
        /\ \A q \in Read : q # r => /\ pc'[q] = pc[q] /\ used'[q] = used[q]
                                    /\ basis'[q] = basis[q]
    BY <1>a DEF TypeOK
  <1>f. \A q \in Read : Relied(q)' = Relied(q)
    BY <1>a DEF Relied, Oldest
  <1>1. TypeOK'
    <2>1. policy' \in [Resource -> Policies] /\ revoked' \subseteq Client
      BY <1>a DEF TypeOK
    <2>2. \E n \in 0..MaxRequests : request' \in [1..n -> Request]
      BY <1>a DEF TypeOK
    <2>3. \E n \in 0..MaxGrants : grant' \in [1..n -> Grant]
      BY <1>a DEF TypeOK
    <2>4. /\ pc' \in [Read -> Pcs]
          /\ who' \in [Read -> Client] /\ what' \in [Read -> Resource]
          /\ pol' \in [Read -> Policies]
          /\ rid' \in [Read -> 1..MaxRequests \cup {NoRequest}]
          /\ adv' \in [Read -> SUBSET (1..MaxGrants)]
          /\ used' \in [Read -> SUBSET (1..MaxGrants)]
          /\ lapsed' \in [Read -> SUBSET (1..MaxGrants)]
          /\ basis' \in [Read -> SUBSET Client]
      BY <1>a, <1>c, <1>d DEF TypeOK, Pcs, both
    <2> QED
      BY <2>1, <2>2, <2>3, <2>4 DEF TypeOK
  <1>2. Found'
    BY <1>a, <1>e DEF TypeOK, Found, SigsOf
  <1>3. Approved'
    BY <1>a, <1>e DEF TypeOK, Approved
  <1>4. Rests'
    <2>1. pc'[r] = "consume" => Enough(r)'
      BY <1>a, <1>b, <1>c, <1>d, <1>e DEF Enough, both
    <2>2. \A q \in Read : q # r => (Enough(q)' <=> Enough(q))
      BY <1>a, <1>e DEF Enough
    <2> QED
      BY <1>e, <2>1, <2>2 DEF Rests
  <1>5. Consumed'
    BY <1>a, <1>e DEF TypeOK, Consumed, Through, Found
  <1>6. ConsumedOnce'
    BY <1>a, <1>e DEF TypeOK, ConsumedOnce, Through, Found
  <1>7. Due'
    <2>1. Relied(r) = {g \in adv[r] : grant[g].sig \notin live}
      BY <1>b DEF Relied, live
    <2> QED
      BY <1>e, <1>f, <2>1 DEF Due
  <1>8. Counted'
    BY <1>a, <1>e, <1>f, CountedKept DEF Through
  <1>9. OneOpenRequest'
    BY <1>a, <1>e DEF TypeOK, OneOpenRequest, Open
  <1>10. Spared'
    BY <1>a, <1>b, <1>c, <1>d, <1>e, <1>f, SparedKept DEF TypeOK
  <1>11. Locked'
    BY <1>a, <1>b, <1>c, <1>d, <1>e, <1>f, LockedKept DEF TypeOK, Open
  <1> QED
    BY <1>1, <1>2, <1>3, <1>4, <1>5, <1>6, <1>7, <1>8, <1>9, <1>10, <1>11

\* A request that cannot be used is refused.
LEMMA LookupInvalidInv ==
    ASSUME IInv, NEW r \in Read, LookupInvalid(r)
    PROVE  IInv'
  <1> USE DEF IInv, LookupInvalid, Goto, tables, locals, RequestIds, GrantIds
  <1>1. TypeOK'
    <2>1. policy' \in [Resource -> Policies] /\ revoked' \subseteq Client
      BY DEF TypeOK
    <2>2. \E n \in 0..MaxRequests : request' \in [1..n -> Request]
      BY DEF TypeOK
    <2>3. \E n \in 0..MaxGrants : grant' \in [1..n -> Grant]
      BY DEF TypeOK
    <2>4. /\ pc' \in [Read -> Pcs]
          /\ who' \in [Read -> Client] /\ what' \in [Read -> Resource]
          /\ pol' \in [Read -> Policies]
          /\ rid' \in [Read -> 1..MaxRequests \cup {NoRequest}]
          /\ adv' \in [Read -> SUBSET (1..MaxGrants)]
          /\ used' \in [Read -> SUBSET (1..MaxGrants)]
          /\ lapsed' \in [Read -> SUBSET (1..MaxGrants)]
          /\ basis' \in [Read -> SUBSET Client]
      BY DEF TypeOK, Pcs
    <2> QED
      BY <2>1, <2>2, <2>3, <2>4 DEF TypeOK
  <1>2. Found'
    BY GateAssumption, TableFacts, RowFacts DEF TypeOK, Found, SigsOf
  <1>3. Approved'
    BY GateAssumption, TableFacts, RowFacts DEF TypeOK, Approved
  <1>4. Rests'
    BY GateAssumption, TableFacts, RowFacts DEF TypeOK, Rests, Enough, Found
  <1>5. Consumed'
    BY GateAssumption, TableFacts, RowFacts DEF TypeOK, Consumed, Through, Found
  <1>6. ConsumedOnce'
    BY GateAssumption, TableFacts, RowFacts DEF TypeOK, ConsumedOnce, Through, Found
  <1>7. Due'
    BY GateAssumption, TableFacts, RowFacts DEF TypeOK, Due, Relied, Found
  <1>8. Counted'
    BY  CountedKept DEF TypeOK, Through, Relied
  <1>9. OneOpenRequest'
    BY GateAssumption, TableFacts, RowFacts DEF TypeOK, OneOpenRequest, Open
  <1>10. Spared'
    BY SparedKept DEF TypeOK
  <1>11. Locked'
    BY LockedKept DEF TypeOK, Open
  <1> QED
    BY <1>1, <1>2, <1>3, <1>4, <1>5, <1>6, <1>7, <1>8, <1>9, <1>10, <1>11

\* A read that is broken off is refused, and what it has consumed stays consumed.
LEMMA AbortInv ==
    ASSUME IInv, NEW r \in Read, Abort(r)
    PROVE  IInv'
  <1> USE DEF IInv, Abort, Goto, tables, locals, RequestIds, GrantIds
  <1>1. TypeOK'
    <2>1. policy' \in [Resource -> Policies] /\ revoked' \subseteq Client
      BY DEF TypeOK
    <2>2. \E n \in 0..MaxRequests : request' \in [1..n -> Request]
      BY DEF TypeOK
    <2>3. \E n \in 0..MaxGrants : grant' \in [1..n -> Grant]
      BY DEF TypeOK
    <2>4. /\ pc' \in [Read -> Pcs]
          /\ who' \in [Read -> Client] /\ what' \in [Read -> Resource]
          /\ pol' \in [Read -> Policies]
          /\ rid' \in [Read -> 1..MaxRequests \cup {NoRequest}]
          /\ adv' \in [Read -> SUBSET (1..MaxGrants)]
          /\ used' \in [Read -> SUBSET (1..MaxGrants)]
          /\ lapsed' \in [Read -> SUBSET (1..MaxGrants)]
          /\ basis' \in [Read -> SUBSET Client]
      BY DEF TypeOK, Pcs
    <2> QED
      BY <2>1, <2>2, <2>3, <2>4 DEF TypeOK
  <1>2. Found'
    BY GateAssumption, TableFacts, RowFacts DEF TypeOK, Found, SigsOf
  <1>3. Approved'
    BY GateAssumption, TableFacts, RowFacts DEF TypeOK, Approved
  <1>4. Rests'
    BY GateAssumption, TableFacts, RowFacts DEF TypeOK, Rests, Enough, Found
  <1>5. Consumed'
    BY GateAssumption, TableFacts, RowFacts DEF TypeOK, Consumed, Through, Found
  <1>6. ConsumedOnce'
    BY GateAssumption, TableFacts, RowFacts DEF TypeOK, ConsumedOnce, Through, Found
  <1>7. Due'
    BY GateAssumption, TableFacts, RowFacts DEF TypeOK, Due, Relied, Found
  <1>8. Counted'
    BY  CountedKept DEF TypeOK, Through, Relied
  <1>9. OneOpenRequest'
    BY GateAssumption, TableFacts, RowFacts DEF TypeOK, OneOpenRequest, Open
  <1>10. Spared'
    BY SparedKept DEF TypeOK
  <1>11. Locked'
    BY LockedKept DEF TypeOK, Open
  <1> QED
    BY <1>1, <1>2, <1>3, <1>4, <1>5, <1>6, <1>7, <1>8, <1>9, <1>10, <1>11

\* The approvers of the caller's own request and the grants are counted.
LEMMA RereadApproversInv ==
    ASSUME IInv, NEW r \in Read, RereadApprovers(r)
    PROVE  IInv'
  <1> USE DEF IInv, RequestIds, GrantIds
  <1> DEFINE live == request[rid[r]].approvers
             both == live \cup SigsOf(adv[r])
  <1>a. /\ pc[r] = "reread"
        /\ used' = [used EXCEPT ![r] = {g \in adv[r] : grant[g].sig \notin live}]
        /\ basis' = [basis EXCEPT ![r] = both]
        /\ pc' = [pc EXCEPT ![r] = IF Cardinality(both) >= pol[r].k THEN "consume" ELSE "refused"]
        /\ UNCHANGED <<policy, request, grant, revoked, who, what, pol, rid, adv, lapsed>>
    BY DEF RereadApprovers, Tally, Goto, tables
  <1>b. rid[r] \in RequestIds /\ rid[r] # NoRequest
    BY <1>a DEF Found
  <1>c. live \subseteq request[rid[r]].sigs /\ request[rid[r]].sigs \subseteq Client
        /\ live \subseteq Client
    BY <1>b, RowFacts DEF Approved
  <1>d. SigsOf(adv[r]) \subseteq pol[r].sigs /\ pol[r].sigs \subseteq Client
    <2>1. pc[r] \notin {"idle", "advance", "refused"}
      BY <1>a
    <2>2. SigsOf(adv[r]) \subseteq pol[r].sigs
      BY <2>1 DEF Found
    <2>3. pol[r].sigs \subseteq Client
      BY GateAssumption DEF TypeOK, Policy
    <2> QED
      BY <2>2, <2>3
  <1> HIDE DEF live, both
  <1>e. /\ used'[r] = {g \in adv[r] : grant[g].sig \notin live} /\ basis'[r] = both
        /\ pc'[r] \in {"consume", "refused"}
        /\ pc'[r] = "consume" => Cardinality(both) >= pol[r].k
        /\ \A q \in Read : q # r => /\ pc'[q] = pc[q] /\ used'[q] = used[q]
                                    /\ basis'[q] = basis[q]
    BY <1>a DEF TypeOK
  <1>f. \A q \in Read : Relied(q)' = Relied(q)
    BY <1>a DEF Relied, Oldest
  <1>1. TypeOK'
    <2>1. policy' \in [Resource -> Policies] /\ revoked' \subseteq Client
      BY <1>a DEF TypeOK
    <2>2. \E n \in 0..MaxRequests : request' \in [1..n -> Request]
      BY <1>a DEF TypeOK
    <2>3. \E n \in 0..MaxGrants : grant' \in [1..n -> Grant]
      BY <1>a DEF TypeOK
    <2>4. /\ pc' \in [Read -> Pcs]
          /\ who' \in [Read -> Client] /\ what' \in [Read -> Resource]
          /\ pol' \in [Read -> Policies]
          /\ rid' \in [Read -> 1..MaxRequests \cup {NoRequest}]
          /\ adv' \in [Read -> SUBSET (1..MaxGrants)]
          /\ used' \in [Read -> SUBSET (1..MaxGrants)]
          /\ lapsed' \in [Read -> SUBSET (1..MaxGrants)]
          /\ basis' \in [Read -> SUBSET Client]
      BY <1>a, <1>c, <1>d DEF TypeOK, Pcs, both
    <2> QED
      BY <2>1, <2>2, <2>3, <2>4 DEF TypeOK
  <1>2. Found'
    BY <1>a, <1>e DEF TypeOK, Found, SigsOf
  <1>3. Approved'
    BY <1>a, <1>e DEF TypeOK, Approved
  <1>4. Rests'
    <2>1. pc'[r] = "consume" => Enough(r)'
      BY <1>a, <1>b, <1>c, <1>d, <1>e DEF Enough, both
    <2>2. \A q \in Read : q # r => (Enough(q)' <=> Enough(q))
      BY <1>a, <1>e DEF Enough
    <2> QED
      BY <1>e, <2>1, <2>2 DEF Rests
  <1>5. Consumed'
    BY <1>a, <1>e DEF TypeOK, Consumed, Through, Found
  <1>6. ConsumedOnce'
    BY <1>a, <1>e DEF TypeOK, ConsumedOnce, Through, Found
  <1>7. Due'
    <2>1. Relied(r) = {g \in adv[r] : grant[g].sig \notin live}
      BY <1>b DEF Relied, live
    <2> QED
      BY <1>e, <1>f, <2>1 DEF Due
  <1>8. Counted'
    BY <1>a, <1>e, <1>f, CountedKept DEF Through
  <1>9. OneOpenRequest'
    BY <1>a, <1>e DEF TypeOK, OneOpenRequest, Open
  <1>10. Spared'
    BY <1>a, <1>b, <1>c, <1>d, <1>e, <1>f, SparedKept DEF TypeOK
  <1>11. Locked'
    BY <1>a, <1>b, <1>c, <1>d, <1>e, <1>f, LockedKept DEF TypeOK, Open
  <1> QED
    BY <1>1, <1>2, <1>3, <1>4, <1>5, <1>6, <1>7, <1>8, <1>9, <1>10, <1>11

\* A read that has charged all its grants has passed.
LEMMA PassInv ==
    ASSUME IInv, NEW r \in Read, Pass(r)
    PROVE  IInv'
  <1> USE DEF IInv, Pass, Goto, tables, locals, RequestIds, GrantIds
  <1>1. TypeOK'
    BY GateAssumption, TableFacts, RowFacts DEF TypeOK, Pcs
  <1>2. Found'
    BY GateAssumption, TableFacts, RowFacts DEF TypeOK, Found, SigsOf
  <1>3. Approved'
    BY GateAssumption, TableFacts, RowFacts DEF TypeOK, Approved
  <1>4. Rests'
    BY GateAssumption, TableFacts, RowFacts DEF TypeOK, Rests, Enough, Found
  <1>5. Consumed'
    BY GateAssumption, TableFacts, RowFacts DEF TypeOK, Consumed, Through, Found
  <1>6. ConsumedOnce'
    BY GateAssumption, TableFacts, RowFacts DEF TypeOK, ConsumedOnce, Through, Found
  <1>7. Due'
    BY GateAssumption, TableFacts, RowFacts DEF TypeOK, Due, Relied, Found
  <1>8. Counted'
    BY  CountedKept DEF TypeOK, Through, Relied
  <1>9. OneOpenRequest'
    BY GateAssumption, TableFacts, RowFacts DEF TypeOK, OneOpenRequest, Open
  <1>10. Spared'
    BY SparedKept DEF TypeOK
  <1>11. Locked'
    BY LockedKept DEF TypeOK, Open
  <1> QED
    BY <1>1, <1>2, <1>3, <1>4, <1>5, <1>6, <1>7, <1>8, <1>9, <1>10, <1>11

\* A revoked client keeps the approvals it gave.
LEMMA RevokeClientInv ==
    ASSUME IInv, NEW c \in Client, RevokeClient(c)
    PROVE  IInv'
  <1> USE DEF IInv, RevokeClient, Goto, tables, locals, RequestIds, GrantIds
  <1>1. TypeOK'
    BY GateAssumption, TableFacts, RowFacts DEF TypeOK, Pcs
  <1>2. Found'
    BY GateAssumption, TableFacts, RowFacts DEF TypeOK, Found, SigsOf
  <1>3. Approved'
    BY GateAssumption, TableFacts, RowFacts DEF TypeOK, Approved
  <1>4. Rests'
    BY GateAssumption, TableFacts, RowFacts DEF TypeOK, Rests, Enough, Found
  <1>5. Consumed'
    BY GateAssumption, TableFacts, RowFacts DEF TypeOK, Consumed, Through, Found
  <1>6. ConsumedOnce'
    BY GateAssumption, TableFacts, RowFacts DEF TypeOK, ConsumedOnce, Through, Found
  <1>7. Due'
    BY GateAssumption, TableFacts, RowFacts DEF TypeOK, Due, Relied, Found
  <1>8. Counted'
    BY  CountedKept DEF TypeOK, Through, Relied
  <1>9. OneOpenRequest'
    BY GateAssumption, TableFacts, RowFacts DEF TypeOK, OneOpenRequest, Open
  <1>10. Spared'
    BY SparedKept DEF TypeOK
  <1>11. Locked'
    BY LockedKept DEF TypeOK, Open
  <1> QED
    BY <1>1, <1>2, <1>3, <1>4, <1>5, <1>6, <1>7, <1>8, <1>9, <1>10, <1>11

\* A new policy leaves requests and grants alone.
LEMMA RecreateResourceInv ==
    ASSUME IInv, NEW x \in Resource, RecreateResource(x)
    PROVE  IInv'
  <1> USE DEF IInv, RecreateResource, Goto, tables, locals, RequestIds, GrantIds
  <1>1. TypeOK'
    <2>1. policy' \in [Resource -> Policies] /\ revoked' \subseteq Client
      BY DEF TypeOK
    <2>2. \E n \in 0..MaxRequests : request' \in [1..n -> Request]
      BY DEF TypeOK
    <2>3. \E n \in 0..MaxGrants : grant' \in [1..n -> Grant]
      BY DEF TypeOK
    <2>4. /\ pc' \in [Read -> Pcs]
          /\ who' \in [Read -> Client] /\ what' \in [Read -> Resource]
          /\ pol' \in [Read -> Policies]
          /\ rid' \in [Read -> 1..MaxRequests \cup {NoRequest}]
          /\ adv' \in [Read -> SUBSET (1..MaxGrants)]
          /\ used' \in [Read -> SUBSET (1..MaxGrants)]
          /\ lapsed' \in [Read -> SUBSET (1..MaxGrants)]
          /\ basis' \in [Read -> SUBSET Client]
      BY DEF TypeOK, Pcs
    <2> QED
      BY <2>1, <2>2, <2>3, <2>4 DEF TypeOK
  <1>2. Found'
    BY GateAssumption, TableFacts, RowFacts DEF TypeOK, Found, SigsOf
  <1>3. Approved'
    BY GateAssumption, TableFacts, RowFacts DEF TypeOK, Approved
  <1>4. Rests'
    BY GateAssumption, TableFacts, RowFacts DEF TypeOK, Rests, Enough, Found
  <1>5. Consumed'
    BY GateAssumption, TableFacts, RowFacts DEF TypeOK, Consumed, Through, Found
  <1>6. ConsumedOnce'
    BY GateAssumption, TableFacts, RowFacts DEF TypeOK, ConsumedOnce, Through, Found
  <1>7. Due'
    BY GateAssumption, TableFacts, RowFacts DEF TypeOK, Due, Relied, Found
  <1>8. Counted'
    BY  CountedKept DEF TypeOK, Through, Relied
  <1>9. OneOpenRequest'
    BY GateAssumption, TableFacts, RowFacts DEF TypeOK, OneOpenRequest, Open
  <1>10. Spared'
    BY SparedKept DEF TypeOK
  <1>11. Locked'
    BY LockedKept DEF TypeOK, Open
  <1> QED
    BY <1>1, <1>2, <1>3, <1>4, <1>5, <1>6, <1>7, <1>8, <1>9, <1>10, <1>11

\* A signatory's approval is added while the request is open.
LEMMA ApproveInv ==
    ASSUME IInv, NEW c \in Client, NEW i \in RequestIds, Approve(c, i)
    PROVE  IInv'
  <1> USE DEF IInv, RequestIds, GrantIds
  <1>a. /\ Open(i) /\ c \in request[i].sigs /\ c \notin request[i].approvers
        /\ request' = [request EXCEPT ![i].approvers = @ \cup {c}]
        /\ UNCHANGED <<policy, grant, revoked, pc, who, what, pol, rid, adv, used, lapsed, basis>>
    BY DEF Approve, locals
  <1>i. i \in RequestIds
    OBVIOUS
  <1>n. PICK n \in 0..MaxRequests : RequestIds = 1..n /\ request \in [1..n -> Request]
    BY TableFacts
  <1>m. i \in 1..n /\ request[i] \in Request
    BY <1>n, <1>i
  <1>u. /\ request' \in [1..n -> Request]
        /\ \A j \in 1..n : j # i => request'[j] = request[j]
        /\ request'[i] = [request[i] EXCEPT !.approvers = @ \cup {c}]
    BY <1>a, <1>n, <1>m, RowFacts DEF Request
  <1>v. RequestIds' = RequestIds
    BY <1>n, <1>u
  <1>w. \A j \in RequestIds :
            /\ request'[j].from = request[j].from /\ request'[j].res = request[j].res
            /\ request'[j].k = request[j].k /\ request'[j].sigs = request[j].sigs
            /\ request'[j].consumed = request[j].consumed
            /\ request'[j].expired = request[j].expired
            /\ request[j].approvers \subseteq request'[j].approvers
            /\ request'[j].approvers \subseteq request[j].approvers \cup {c}
            /\ j # i => request'[j] = request[j]
    BY <1>n, <1>m, <1>u DEF Request
  <1>x. \A q \in Read : Relied(q)' \subseteq Relied(q)
    BY <1>a, <1>w DEF Relied, Oldest, Found
  <1> HIDE DEF RequestIds
  <1>1. TypeOK'
    <2>1. policy' \in [Resource -> Policies] /\ revoked' \subseteq Client
      BY <1>a DEF TypeOK
    <2>2. \E k \in 0..MaxRequests : request' \in [1..k -> Request]
      BY <1>n, <1>u DEF TypeOK
    <2>3. \E k \in 0..MaxGrants : grant' \in [1..k -> Grant]
      BY <1>a DEF TypeOK
    <2>4. /\ pc' \in [Read -> Pcs]
          /\ who' \in [Read -> Client] /\ what' \in [Read -> Resource]
          /\ pol' \in [Read -> Policies]
          /\ rid' \in [Read -> 1..MaxRequests \cup {NoRequest}]
          /\ adv' \in [Read -> SUBSET (1..MaxGrants)]
          /\ used' \in [Read -> SUBSET (1..MaxGrants)]
          /\ lapsed' \in [Read -> SUBSET (1..MaxGrants)]
          /\ basis' \in [Read -> SUBSET Client]
      BY <1>a DEF TypeOK, Pcs
    <2> QED
      BY <2>1, <2>2, <2>3, <2>4 DEF TypeOK
  <1>2. Found'
    BY <1>a, <1>v, <1>w DEF TypeOK, Found, SigsOf
  <1>3. Approved'
    BY <1>a, <1>v, <1>w DEF Approved
  <1>4. Rests'
    BY <1>a, <1>v, <1>w DEF TypeOK, Rests, Enough, Found
  <1>5. Consumed'
    BY <1>a, <1>v, <1>w DEF TypeOK, Consumed, Through, Found
  <1>6. ConsumedOnce'
    BY <1>a, <1>v, <1>w DEF TypeOK, ConsumedOnce, Through, Found
  <1>7. Due'
    BY <1>a, <1>x DEF Due
  <1>8. Counted'
    BY <1>a, <1>x, CountedKept DEF Through
  <1>9. OneOpenRequest'
    BY <1>a, <1>v, <1>w DEF TypeOK, OneOpenRequest, Open
  <1>10. Spared'
    BY <1>a, <1>i, <1>m, <1>n, <1>u, <1>v, <1>w, <1>x, SparedKept DEF TypeOK
  <1>11. Locked'
    BY <1>a, <1>i, <1>m, <1>n, <1>u, <1>v, <1>w, <1>x, LockedKept DEF TypeOK, Open
  <1> QED
    BY <1>1, <1>2, <1>3, <1>4, <1>5, <1>6, <1>7, <1>8, <1>9, <1>10, <1>11

\* An expired request is no longer open.
LEMMA ExpireRequestInv ==
    ASSUME IInv, NEW i \in RequestIds, ExpireRequest(i)
    PROVE  IInv'
  <1> USE DEF IInv, RequestIds, GrantIds
  <1>a. /\ Open(i)
        /\ request' = [request EXCEPT ![i].expired = TRUE]
        /\ UNCHANGED <<policy, grant, revoked, pc, who, what, pol, rid, adv, used, lapsed, basis>>
    BY DEF ExpireRequest, locals
  <1>i. i \in RequestIds
    OBVIOUS
  <1>n. PICK n \in 0..MaxRequests : RequestIds = 1..n /\ request \in [1..n -> Request]
    BY TableFacts
  <1>m. i \in 1..n /\ request[i] \in Request
    BY <1>n, <1>i
  <1>u. /\ request' \in [1..n -> Request]
        /\ \A j \in 1..n : j # i => request'[j] = request[j]
        /\ request'[i] = [request[i] EXCEPT !.expired = TRUE]
    BY <1>a, <1>n, <1>m, RowFacts DEF Request
  <1>v. RequestIds' = RequestIds
    BY <1>n, <1>u
  <1>w. \A j \in RequestIds :
            /\ request'[j].from = request[j].from /\ request'[j].res = request[j].res
            /\ request'[j].k = request[j].k /\ request'[j].sigs = request[j].sigs
            /\ request'[j].consumed = request[j].consumed
            /\ request[j].expired => request'[j].expired
            /\ request'[j].approvers = request[j].approvers
    BY <1>n, <1>m, <1>u DEF Request
  <1>x. \A q \in Read : Relied(q)' = Relied(q)
    BY <1>a, <1>w DEF Relied, Oldest, Found
  <1> HIDE DEF RequestIds
  <1>1. TypeOK'
    <2>1. policy' \in [Resource -> Policies] /\ revoked' \subseteq Client
      BY <1>a DEF TypeOK
    <2>2. \E k \in 0..MaxRequests : request' \in [1..k -> Request]
      BY <1>n, <1>u DEF TypeOK
    <2>3. \E k \in 0..MaxGrants : grant' \in [1..k -> Grant]
      BY <1>a DEF TypeOK
    <2>4. /\ pc' \in [Read -> Pcs]
          /\ who' \in [Read -> Client] /\ what' \in [Read -> Resource]
          /\ pol' \in [Read -> Policies]
          /\ rid' \in [Read -> 1..MaxRequests \cup {NoRequest}]
          /\ adv' \in [Read -> SUBSET (1..MaxGrants)]
          /\ used' \in [Read -> SUBSET (1..MaxGrants)]
          /\ lapsed' \in [Read -> SUBSET (1..MaxGrants)]
          /\ basis' \in [Read -> SUBSET Client]
      BY <1>a DEF TypeOK, Pcs
    <2> QED
      BY <2>1, <2>2, <2>3, <2>4 DEF TypeOK
  <1>2. Found'
    BY <1>a, <1>v, <1>w DEF TypeOK, Found, SigsOf
  <1>3. Approved'
    BY <1>a, <1>v, <1>w DEF TypeOK, Approved
  <1>4. Rests'
    BY <1>a, <1>v, <1>w DEF TypeOK, Rests, Enough, Found
  <1>5. Consumed'
    BY <1>a, <1>v, <1>w DEF TypeOK, Consumed, Through, Found
  <1>6. ConsumedOnce'
    BY <1>a, <1>v, <1>w DEF TypeOK, ConsumedOnce, Through, Found
  <1>7. Due'
    BY <1>a, <1>x DEF Due
  <1>8. Counted'
    BY <1>a, <1>x, CountedKept DEF Through
  <1>9. OneOpenRequest'
    BY <1>a, <1>v, <1>w DEF TypeOK, OneOpenRequest, Open
  <1>10. Spared'
    BY <1>a, <1>i, <1>m, <1>n, <1>u, <1>v, <1>w, <1>x, SparedKept DEF TypeOK
  <1>11. Locked'
    BY <1>a, <1>i, <1>m, <1>n, <1>u, <1>v, <1>w, <1>x, LockedKept DEF TypeOK, Open
  <1> QED
    BY <1>1, <1>2, <1>3, <1>4, <1>5, <1>6, <1>7, <1>8, <1>9, <1>10, <1>11

\* The request is consumed by one read, which goes on to charge its grants.
LEMMA ConsumeWinsInv ==
    ASSUME IInv, NEW r \in Read, Consume(r), ~request[rid[r]].consumed
    PROVE  IInv'
  <1> USE DEF IInv, RequestIds, GrantIds
  <1>a. /\ pc[r] = "consume"
        /\ request' = [request EXCEPT ![rid[r]].consumed = TRUE]
        /\ pc' = [pc EXCEPT ![r] = "charge"]
        /\ UNCHANGED <<policy, grant, revoked, who, what, pol, rid, adv, used, lapsed, basis>>
    BY DEF Consume, Goto
  <1>i. rid[r] \in RequestIds /\ rid[r] # NoRequest
    BY <1>a DEF Found
  <1>n. PICK n \in 0..MaxRequests : RequestIds = 1..n /\ request \in [1..n -> Request]
    BY TableFacts
  <1>m. rid[r] \in 1..n /\ request[rid[r]] \in Request
    BY <1>n, <1>i
  <1>u. /\ request' \in [1..n -> Request]
        /\ \A j \in 1..n : j # rid[r] => request'[j] = request[j]
        /\ request'[rid[r]] = [request[rid[r]] EXCEPT !.consumed = TRUE]
    BY <1>a, <1>n, <1>m, RowFacts DEF Request
  <1>v. RequestIds' = RequestIds
    BY <1>n, <1>u
  <1>w. \A j \in RequestIds :
            /\ request'[j].from = request[j].from /\ request'[j].res = request[j].res
            /\ request'[j].k = request[j].k /\ request'[j].sigs = request[j].sigs
            /\ request'[j].consumed <=> request[j].consumed \/ j = rid[r]
            /\ request'[j].expired = request[j].expired
            /\ request'[j].approvers = request[j].approvers
    BY <1>n, <1>m, <1>u DEF Request
  <1>x. \A q \in Read : Relied(q)' = Relied(q)
    BY <1>a, <1>w DEF Relied, Oldest, Found
  <1>y. pc'[r] = "charge" /\ \A q \in Read : q # r => pc'[q] = pc[q]
    BY <1>a DEF TypeOK
  <1> HIDE DEF RequestIds
  <1>1. TypeOK'
    <2>1. policy' \in [Resource -> Policies] /\ revoked' \subseteq Client
      BY <1>a DEF TypeOK
    <2>2. \E k \in 0..MaxRequests : request' \in [1..k -> Request]
      BY <1>n, <1>u DEF TypeOK
    <2>3. \E k \in 0..MaxGrants : grant' \in [1..k -> Grant]
      BY <1>a DEF TypeOK
    <2>4. /\ pc' \in [Read -> Pcs]
          /\ who' \in [Read -> Client] /\ what' \in [Read -> Resource]
          /\ pol' \in [Read -> Policies]
          /\ rid' \in [Read -> 1..MaxRequests \cup {NoRequest}]
          /\ adv' \in [Read -> SUBSET (1..MaxGrants)]
          /\ used' \in [Read -> SUBSET (1..MaxGrants)]
          /\ lapsed' \in [Read -> SUBSET (1..MaxGrants)]
          /\ basis' \in [Read -> SUBSET Client]
      BY <1>a DEF TypeOK, Pcs
    <2> QED
      BY <2>1, <2>2, <2>3, <2>4 DEF TypeOK
  <1>2. Found'
    BY <1>a, <1>i, <1>v, <1>w, <1>y DEF TypeOK, Found, SigsOf
  <1>3. Approved'
    BY <1>a, <1>i, <1>v, <1>w, <1>y DEF TypeOK, Approved
  <1>4. Rests'
    BY <1>a, <1>i, <1>v, <1>w, <1>y DEF TypeOK, Rests, Enough, Found
  <1>5. Consumed'
    BY <1>a, <1>i, <1>v, <1>w, <1>y DEF TypeOK, Consumed, Through, Found
  <1>6. ConsumedOnce'
    <2>1. \A q \in Through : rid[q] # rid[r]
      BY <1>i DEF Consumed
    <2> QED
      BY <1>a, <1>y, <2>1 DEF ConsumedOnce, Through
  <1>7. Due'
    BY <1>a, <1>x, <1>y DEF Due
  <1>8. Counted'
    BY <1>a, <1>x, <1>y, CountedKept DEF Through, Due
  <1>9. OneOpenRequest'
    BY <1>a, <1>i, <1>v, <1>w, <1>y DEF TypeOK, OneOpenRequest, Open
  <1>10. Spared'
    BY <1>a, <1>i, <1>m, <1>n, <1>u, <1>v, <1>w, <1>x, <1>y, SparedKept DEF TypeOK
  <1>11. Locked'
    BY <1>a, <1>i, <1>m, <1>n, <1>u, <1>v, <1>w, <1>x, <1>y, LockedKept DEF TypeOK, Open
  <1> QED
    BY <1>1, <1>2, <1>3, <1>4, <1>5, <1>6, <1>7, <1>8, <1>9, <1>10, <1>11

\* A request that another read has consumed is refused.
LEMMA ConsumeLosesInv ==
    ASSUME IInv, NEW r \in Read, Consume(r), request[rid[r]].consumed
    PROVE  IInv'
  <1> USE DEF IInv, Goto, tables, locals, RequestIds, GrantIds
  <1>a. /\ pc[r] = "consume" /\ pc' = [pc EXCEPT ![r] = "refused"]
        /\ UNCHANGED <<policy, request, grant, revoked, who, what, pol, rid, adv, used, lapsed, basis>>
    BY DEF Consume, Goto
  <1>1. TypeOK'
    <2>1. policy' \in [Resource -> Policies] /\ revoked' \subseteq Client
      BY <1>a DEF TypeOK
    <2>2. \E n \in 0..MaxRequests : request' \in [1..n -> Request]
      BY <1>a DEF TypeOK
    <2>3. \E n \in 0..MaxGrants : grant' \in [1..n -> Grant]
      BY <1>a DEF TypeOK
    <2>4. /\ pc' \in [Read -> Pcs]
          /\ who' \in [Read -> Client] /\ what' \in [Read -> Resource]
          /\ pol' \in [Read -> Policies]
          /\ rid' \in [Read -> 1..MaxRequests \cup {NoRequest}]
          /\ adv' \in [Read -> SUBSET (1..MaxGrants)]
          /\ used' \in [Read -> SUBSET (1..MaxGrants)]
          /\ lapsed' \in [Read -> SUBSET (1..MaxGrants)]
          /\ basis' \in [Read -> SUBSET Client]
      BY <1>a DEF TypeOK, Pcs
    <2> QED
      BY <2>1, <2>2, <2>3, <2>4 DEF TypeOK
  <1>2. Found'
    BY <1>a DEF TypeOK, Found, SigsOf
  <1>3. Approved'
    BY <1>a DEF TypeOK, Approved
  <1>4. Rests'
    BY <1>a DEF TypeOK, Rests, Enough, Found
  <1>5. Consumed'
    BY <1>a DEF TypeOK, Consumed, Through, Found
  <1>6. ConsumedOnce'
    BY <1>a DEF TypeOK, ConsumedOnce, Through, Found
  <1>7. Due'
    BY <1>a DEF TypeOK, Due, Relied, Found
  <1>8. Counted'
    BY <1>a, CountedKept DEF TypeOK, Through, Relied
  <1>9. OneOpenRequest'
    BY <1>a DEF TypeOK, OneOpenRequest, Open
  <1>10. Spared'
    BY <1>a, SparedKept DEF TypeOK
  <1>11. Locked'
    BY <1>a, LockedKept DEF TypeOK, Open
  <1> QED
    BY <1>1, <1>2, <1>3, <1>4, <1>5, <1>6, <1>7, <1>8, <1>9, <1>10, <1>11

\* The lock is taken where no transaction for the same reader and resource is open.
LEMMA LockRequestInv ==
    ASSUME IInv, NEW r \in Read, LockRequest(r)
    PROVE  IInv'
  <1> USE DEF IInv, LockRequest, Goto, tables, locals, RequestIds, GrantIds
  <1>1. TypeOK'
    <2>1. policy' \in [Resource -> Policies] /\ revoked' \subseteq Client
      BY DEF TypeOK
    <2>2. \E n \in 0..MaxRequests : request' \in [1..n -> Request]
      BY DEF TypeOK
    <2>3. \E n \in 0..MaxGrants : grant' \in [1..n -> Grant]
      BY DEF TypeOK
    <2>4. /\ pc' \in [Read -> Pcs]
          /\ who' \in [Read -> Client] /\ what' \in [Read -> Resource]
          /\ pol' \in [Read -> Policies]
          /\ rid' \in [Read -> 1..MaxRequests \cup {NoRequest}]
          /\ adv' \in [Read -> SUBSET (1..MaxGrants)]
          /\ used' \in [Read -> SUBSET (1..MaxGrants)]
          /\ lapsed' \in [Read -> SUBSET (1..MaxGrants)]
          /\ basis' \in [Read -> SUBSET Client]
      BY DEF TypeOK, Pcs
    <2> QED
      BY <2>1, <2>2, <2>3, <2>4 DEF TypeOK
  <1>2. Found'
    BY GateAssumption, TableFacts, RowFacts DEF TypeOK, Found, SigsOf
  <1>3. Approved'
    BY GateAssumption, TableFacts, RowFacts DEF TypeOK, Approved
  <1>4. Rests'
    BY GateAssumption, TableFacts, RowFacts DEF TypeOK, Rests, Enough, Found
  <1>5. Consumed'
    BY GateAssumption, TableFacts, RowFacts DEF TypeOK, Consumed, Through, Found
  <1>6. ConsumedOnce'
    BY GateAssumption, TableFacts, RowFacts DEF TypeOK, ConsumedOnce, Through, Found
  <1>7. Due'
    BY GateAssumption, TableFacts, RowFacts DEF TypeOK, Due, Relied, Found
  <1>8. Counted'
    BY  CountedKept DEF TypeOK, Through, Relied
  <1>9. OneOpenRequest'
    BY GateAssumption, TableFacts, RowFacts DEF TypeOK, OneOpenRequest, Open
  <1>10. Spared'
    BY SparedKept DEF TypeOK
  <1>11. Locked'
    <2>1. /\ InTransaction(r)' /\ pc'[r] = "find"
          /\ \A q \in Read : q # r => pc'[q] = pc[q] /\ (InTransaction(q)' <=> InTransaction(q))
      BY DEF TypeOK, InTransaction
    <2>2. \A q \in Read : Mine(q)' = Mine(q)
      BY DEF Mine, Open
    <2>3. \A q \in Read : q # r => ~(InTransaction(q) /\ who[q] = who[r] /\ what[q] = what[r])
      OBVIOUS
    <2> QED
      BY <2>1, <2>2, <2>3 DEF Locked
  <1> QED
    BY <1>1, <1>2, <1>3, <1>4, <1>5, <1>6, <1>7, <1>8, <1>9, <1>10, <1>11

\* The open request that is found is the caller's.
LEMMA FindRequestInv ==
    ASSUME IInv, NEW r \in Read, FindRequest(r)
    PROVE  IInv'
  <1> USE DEF IInv, RequestIds, GrantIds
  <1>a. /\ pc[r] = "find" /\ Mine(r) # {}
        /\ pc' = [pc EXCEPT ![r] = "reread"]
        /\ rid' = [rid EXCEPT ![r] = CHOOSE i \in Mine(r) : \A j \in Mine(r) : j <= i]
        /\ UNCHANGED <<policy, request, grant, revoked, who, what, pol, adv, used, lapsed, basis>>
    BY DEF FindRequest, Goto, tables
  <1>b. rid'[r] \in RequestIds /\ rid'[r] \in 1..MaxRequests /\ rid'[r] # NoRequest
    <2>1. Mine(r) \subseteq RequestIds /\ RequestIds \subseteq 1..MaxRequests
      BY TableFacts DEF Mine
    <2>2. Mine(r) \in SUBSET Nat /\ \A i \in Mine(r) : i <= MaxRequests
      BY <2>1, GateAssumption
    <2>3. \E i \in Mine(r) : \A j \in Mine(r) : j <= i
      BY <1>a, <2>2, GateAssumption, Greatest
    <2>4. rid'[r] \in Mine(r)
      BY <1>a, <2>3 DEF TypeOK
    <2> QED
      BY <2>1, <2>2, <2>4, GateAssumption
  <1>c. \A q \in Read : q # r => rid'[q] = rid[q] /\ pc'[q] = pc[q]
    BY <1>a DEF TypeOK
  <1>d. pc'[r] = "reread" /\ rid' \in [Read -> 1..MaxRequests \cup {NoRequest}]
    BY <1>a, <1>b DEF TypeOK
  <1>e. \A q \in Read : q # r => Relied(q)' = Relied(q)
    BY <1>a, <1>c DEF Relied, Oldest
  <1>1. TypeOK'
    <2>1. policy' \in [Resource -> Policies] /\ revoked' \subseteq Client
      BY <1>a DEF TypeOK
    <2>2. \E n \in 0..MaxRequests : request' \in [1..n -> Request]
      BY <1>a DEF TypeOK
    <2>3. \E n \in 0..MaxGrants : grant' \in [1..n -> Grant]
      BY <1>a DEF TypeOK
    <2>4. /\ pc' \in [Read -> Pcs]
          /\ who' \in [Read -> Client] /\ what' \in [Read -> Resource]
          /\ pol' \in [Read -> Policies]
          /\ rid' \in [Read -> 1..MaxRequests \cup {NoRequest}]
          /\ adv' \in [Read -> SUBSET (1..MaxGrants)]
          /\ used' \in [Read -> SUBSET (1..MaxGrants)]
          /\ lapsed' \in [Read -> SUBSET (1..MaxGrants)]
          /\ basis' \in [Read -> SUBSET Client]
      BY <1>a, <1>d DEF TypeOK, Pcs
    <2> QED
      BY <2>1, <2>2, <2>3, <2>4 DEF TypeOK
  <1>2. Found'
    BY <1>a, <1>b, <1>c, <1>d DEF Found, SigsOf
  <1>3. Approved'
    BY <1>a, <1>b, <1>c DEF TypeOK, Approved
  <1>4. Rests'
    <2>1. \A q \in Read : q # r => (Enough(q)' <=> Enough(q))
      BY <1>a, <1>c DEF Enough
    <2> QED
      BY <1>c, <1>d, <2>1 DEF Rests
  <1>5. Consumed'
    BY <1>a, <1>c, <1>d DEF Consumed, Through
  <1>6. ConsumedOnce'
    BY <1>a, <1>c, <1>d DEF ConsumedOnce, Through
  <1>7. Due'
    BY <1>a, <1>c, <1>d, <1>e DEF Due
  <1>8. Counted'
    BY <1>a, <1>c, <1>d, <1>e, CountedKept DEF Through
  <1>9. OneOpenRequest'
    BY <1>a, <1>b, <1>c DEF TypeOK, OneOpenRequest, Open
  <1>10. Spared'
    BY <1>a, <1>b, <1>c, <1>d, <1>e, SparedKept DEF TypeOK
  <1>11. Locked'
    BY <1>a, <1>b, <1>c, <1>d, <1>e, LockedKept DEF TypeOK, Open
  <1> QED
    BY <1>1, <1>2, <1>3, <1>4, <1>5, <1>6, <1>7, <1>8, <1>9, <1>10, <1>11

\* No open request was found; none can appear while the lock is held.
LEMMA FindNoneInv ==
    ASSUME IInv, NEW r \in Read, FindNone(r)
    PROVE  IInv'
  <1> USE DEF IInv, FindNone, Goto, tables, locals, RequestIds, GrantIds
  <1>1. TypeOK'
    <2>1. policy' \in [Resource -> Policies] /\ revoked' \subseteq Client
      BY DEF TypeOK
    <2>2. \E n \in 0..MaxRequests : request' \in [1..n -> Request]
      BY DEF TypeOK
    <2>3. \E n \in 0..MaxGrants : grant' \in [1..n -> Grant]
      BY DEF TypeOK
    <2>4. /\ pc' \in [Read -> Pcs]
          /\ who' \in [Read -> Client] /\ what' \in [Read -> Resource]
          /\ pol' \in [Read -> Policies]
          /\ rid' \in [Read -> 1..MaxRequests \cup {NoRequest}]
          /\ adv' \in [Read -> SUBSET (1..MaxGrants)]
          /\ used' \in [Read -> SUBSET (1..MaxGrants)]
          /\ lapsed' \in [Read -> SUBSET (1..MaxGrants)]
          /\ basis' \in [Read -> SUBSET Client]
      BY DEF TypeOK, Pcs
    <2> QED
      BY <2>1, <2>2, <2>3, <2>4 DEF TypeOK
  <1>2. Found'
    BY GateAssumption, TableFacts, RowFacts DEF TypeOK, Found, SigsOf
  <1>3. Approved'
    BY GateAssumption, TableFacts, RowFacts DEF TypeOK, Approved
  <1>4. Rests'
    BY GateAssumption, TableFacts, RowFacts DEF TypeOK, Rests, Enough, Found
  <1>5. Consumed'
    BY GateAssumption, TableFacts, RowFacts DEF TypeOK, Consumed, Through, Found
  <1>6. ConsumedOnce'
    BY GateAssumption, TableFacts, RowFacts DEF TypeOK, ConsumedOnce, Through, Found
  <1>7. Due'
    BY GateAssumption, TableFacts, RowFacts DEF TypeOK, Due, Relied, Found
  <1>8. Counted'
    BY  CountedKept DEF TypeOK, Through, Relied
  <1>9. OneOpenRequest'
    BY GateAssumption, TableFacts, RowFacts DEF TypeOK, OneOpenRequest, Open
  <1>10. Spared'
    BY SparedKept DEF TypeOK
  <1>11. Locked'
    <2>1. /\ InTransaction(r) /\ pc'[r] = "insert" /\ Mine(r) = {}
          /\ \A q \in Read : q # r => pc'[q] = pc[q]
          /\ \A q \in Read : InTransaction(q)' <=> InTransaction(q)
      BY DEF TypeOK, InTransaction
    <2>2. \A q \in Read : Mine(q)' = Mine(q)
      BY DEF Mine, Open
    <2> QED
      BY <2>1, <2>2 DEF Locked
  <1> QED
    BY <1>1, <1>2, <1>3, <1>4, <1>5, <1>6, <1>7, <1>8, <1>9, <1>10, <1>11

\* A request is inserted only where the caller has no open one, and by the
\* holder of the lock.
LEMMA InsertRequestInv ==
    ASSUME IInv, NEW r \in Read, InsertRequest(r)
    PROVE  IInv'
  <1> USE DEF IInv, RequestIds, GrantIds
  <1>n. PICK n \in 0..MaxRequests : /\ RequestIds = 1..n /\ Cardinality(RequestIds) = n
                                   /\ request \in [1..n -> Request]
    BY TableFacts
  <1> DEFINE new == NewRequest(r)
  <1>a. /\ pc[r] = "insert" /\ n < MaxRequests
        /\ pc' = [pc EXCEPT ![r] = "reread"]
        /\ rid' = [rid EXCEPT ![r] = n + 1]
        /\ request' = Append1(request, n + 1, new)
        /\ UNCHANGED <<policy, grant, revoked, who, what, pol, adv, used, lapsed, basis>>
    BY <1>n DEF InsertRequest, Goto
  <1>b. /\ n \in Nat /\ n + 1 \in 1..MaxRequests /\ n + 1 # NoRequest /\ n + 1 \notin 1..n
        /\ 1..(n + 1) = 1..n \cup {n + 1}
    BY <1>a, <1>n, GateAssumption
  <1>c. /\ new \in Request /\ new.from = who[r] /\ new.res = what[r]
        /\ new.approvers = {} /\ new.consumed = FALSE
    <2>1. pol[r] \in Policy
      BY GateAssumption DEF TypeOK
    <2> QED
      BY <2>1 DEF TypeOK, NewRequest, Request, Policy
  <1> HIDE DEF new
  <1>d. /\ RequestIds' = 1..n \cup {n + 1} /\ request' \in [1..(n + 1) -> Request]
        /\ request'[n + 1] = new /\ \A i \in 1..n : request'[i] = request[i]
    BY <1>a, <1>b, <1>c, <1>n DEF Append1
  <1>e. /\ rid'[r] = n + 1 /\ pc'[r] = "reread" /\ rid' \in [Read -> 1..MaxRequests \cup {NoRequest}]
        /\ \A q \in Read : q # r => rid'[q] = rid[q] /\ pc'[q] = pc[q]
    BY <1>a, <1>b DEF TypeOK
  <1>f. \A q \in Read : rid[q] # NoRequest => rid[q] \in 1..n
    BY <1>n DEF Found
  <1>g. \A q \in Read : q # r => Relied(q)' = Relied(q)
    BY <1>a, <1>d, <1>e, <1>f DEF Relied, Oldest
  <1>1. TypeOK'
    <2>1. policy' \in [Resource -> Policies] /\ revoked' \subseteq Client
      BY <1>a DEF TypeOK
    <2>2. \E k \in 0..MaxRequests : request' \in [1..k -> Request]
      BY <1>b, <1>d, GateAssumption DEF TypeOK
    <2>3. \E k \in 0..MaxGrants : grant' \in [1..k -> Grant]
      BY <1>a DEF TypeOK
    <2>4. /\ pc' \in [Read -> Pcs]
          /\ who' \in [Read -> Client] /\ what' \in [Read -> Resource]
          /\ pol' \in [Read -> Policies]
          /\ rid' \in [Read -> 1..MaxRequests \cup {NoRequest}]
          /\ adv' \in [Read -> SUBSET (1..MaxGrants)]
          /\ used' \in [Read -> SUBSET (1..MaxGrants)]
          /\ lapsed' \in [Read -> SUBSET (1..MaxGrants)]
          /\ basis' \in [Read -> SUBSET Client]
      BY <1>a, <1>e DEF TypeOK, Pcs
    <2> QED
      BY <2>1, <2>2, <2>3, <2>4 DEF TypeOK
  <1>2. Found'
    BY <1>a, <1>b, <1>d, <1>e, <1>n DEF Found, SigsOf
  <1>3. Approved'
    BY <1>c, <1>d, <1>n DEF Approved
  <1>4. Rests'
    <2>1. \A q \in Read : q # r => (Enough(q)' <=> Enough(q))
      BY <1>a, <1>d, <1>e, <1>f DEF Enough
    <2> QED
      BY <1>e, <2>1 DEF Rests
  <1>5. Consumed'
    BY <1>d, <1>e, <1>f DEF Consumed, Through
  <1>6. ConsumedOnce'
    BY <1>e DEF ConsumedOnce, Through
  <1>7. Due'
    BY <1>a, <1>e, <1>g DEF Due
  <1>8. Counted'
    BY <1>a, <1>e, <1>g, CountedKept DEF Through
  <1>9. OneOpenRequest'
    <2>1. \A i \in 1..n : Open(i) => ~(request[i].from = new.from /\ request[i].res = new.res)
      BY <1>a, <1>c, <1>n DEF Mine, Locked
    <2>2. \A i \in 1..n : Open(i)' <=> Open(i)
      BY <1>d DEF Open
    <2>3. \A i, j \in 1..n :
              Open(i) /\ Open(j) /\ request[i].from = request[j].from
              /\ request[i].res = request[j].res => i = j
      BY <1>n DEF OneOpenRequest
    <2> QED
      BY <1>d, <2>1, <2>2, <2>3 DEF OneOpenRequest
  <1>10. Spared'
    BY <1>a, <1>b, <1>c, <1>d, <1>e, <1>f, <1>g, <1>n, SparedKept DEF TypeOK
  <1>11. Locked'
    <2>1. \A q \in Read : /\ InTransaction(q)' => InTransaction(q) /\ q # r
                          /\ pc'[q] = "insert" => pc[q] = "insert" /\ q # r
      BY <1>e DEF InTransaction
    <2>2. ASSUME NEW q \in Read, pc'[q] = "insert" PROVE Mine(q)' = {}
      <3>1. Mine(q) = {} /\ ~(who[q] = who[r] /\ what[q] = what[r])
        BY <1>a, <2>1, <2>2 DEF Locked, InTransaction
      <3>2. \A i \in 1..n : (Open(i)' <=> Open(i)) /\ request'[i] = request[i]
        BY <1>d DEF Open
      <3>3. ~(request'[n + 1].from = who[q] /\ request'[n + 1].res = what[q])
        BY <1>c, <1>d, <3>1
      <3>4. ASSUME NEW i \in RequestIds', Open(i)', request'[i].from = who[q], request'[i].res = what[q]
            PROVE  FALSE
        <4>1. i \in 1..n
          BY <1>d, <3>3, <3>4
        <4>2. i \in Mine(q)
          BY <1>n, <3>2, <3>4, <4>1 DEF Mine
        <4> QED
          BY <3>1, <4>2
      <3> QED
        BY <1>a, <3>4 DEF Mine
    <2> QED
      BY <1>a, <2>1, <2>2 DEF Locked
  <1> QED
    BY <1>1, <1>2, <1>3, <1>4, <1>5, <1>6, <1>7, <1>8, <1>9, <1>10, <1>11

\* A grant that has ended keeps its count.
LEMMA EndGrantInv ==
    ASSUME IInv, NEW g \in GrantIds, EndGrant(g)
    PROVE  IInv'
  <1> USE DEF IInv, RequestIds, GrantIds
  <1>a. /\ grant' = [grant EXCEPT ![g].live = FALSE]
        /\ UNCHANGED <<policy, request, revoked, pc, who, what, pol, rid, adv, used, lapsed, basis>>
    BY DEF EndGrant, locals
  <1>n. PICK n \in 0..MaxGrants : GrantIds = 1..n /\ grant \in [1..n -> Grant]
    BY TableFacts
  <1>u. /\ grant' \in [1..n -> Grant] /\ \A h \in 1..n : h # g => grant'[h] = grant[h]
        /\ grant'[g] = [grant[g] EXCEPT !.live = FALSE]
    BY <1>a, <1>n, RowFacts DEF Grant
  <1>v. GrantIds' = GrantIds
    BY <1>n, <1>u
  <1>w. \A h \in GrantIds : grant'[h].sig = grant[h].sig /\ grant'[h].uses = grant[h].uses
    BY <1>n, <1>u DEF Grant
  <1>x. \A q \in Read : Relied(q)' = Relied(q)
    BY <1>a, <1>w DEF Relied, Oldest, Found
  <1> HIDE DEF GrantIds
  <1>1. TypeOK'
    <2>1. policy' \in [Resource -> Policies] /\ revoked' \subseteq Client
      BY <1>a DEF TypeOK
    <2>2. \E k \in 0..MaxRequests : request' \in [1..k -> Request]
      BY <1>a DEF TypeOK
    <2>3. \E k \in 0..MaxGrants : grant' \in [1..k -> Grant]
      BY <1>n, <1>u DEF TypeOK
    <2>4. /\ pc' \in [Read -> Pcs]
          /\ who' \in [Read -> Client] /\ what' \in [Read -> Resource]
          /\ pol' \in [Read -> Policies]
          /\ rid' \in [Read -> 1..MaxRequests \cup {NoRequest}]
          /\ adv' \in [Read -> SUBSET (1..MaxGrants)]
          /\ used' \in [Read -> SUBSET (1..MaxGrants)]
          /\ lapsed' \in [Read -> SUBSET (1..MaxGrants)]
          /\ basis' \in [Read -> SUBSET Client]
      BY <1>a DEF TypeOK, Pcs
    <2> QED
      BY <2>1, <2>2, <2>3, <2>4 DEF TypeOK
  <1>2. Found'
    BY <1>a, <1>v, <1>w DEF TypeOK, Found, SigsOf
  <1>3. Approved'
    BY <1>a, <1>v, <1>w DEF TypeOK, Approved
  <1>4. Rests'
    BY <1>a, <1>v, <1>w DEF TypeOK, Rests, Enough, Found
  <1>5. Consumed'
    BY <1>a, <1>v, <1>w DEF TypeOK, Consumed, Through, Found
  <1>6. ConsumedOnce'
    BY <1>a, <1>v, <1>w DEF TypeOK, ConsumedOnce, Through, Found
  <1>7. Due'
    BY <1>a, <1>x DEF Due
  <1>8. Counted'
    BY <1>a, <1>v, <1>w, <1>x, CountedKept DEF Through
  <1>9. OneOpenRequest'
    BY <1>a, <1>v, <1>w DEF TypeOK, OneOpenRequest, Open
  <1>10. Spared'
    BY <1>a, <1>n, <1>u, <1>v, <1>w, <1>x, SparedKept DEF TypeOK
  <1>11. Locked'
    BY <1>a, <1>n, <1>u, <1>v, <1>w, <1>x, LockedKept DEF TypeOK, Open
  <1> QED
    BY <1>1, <1>2, <1>3, <1>4, <1>5, <1>6, <1>7, <1>8, <1>9, <1>10, <1>11

\* A new grant has been relied upon by nobody.
LEMMA CreateGrantInv ==
    ASSUME IInv, NEW c \in Client, CreateGrant(c)
    PROVE  IInv'
  <1> USE DEF IInv, RequestIds, GrantIds
  <1>n. PICK n \in 0..MaxGrants : /\ GrantIds = 1..n /\ Cardinality(GrantIds) = n
                                 /\ grant \in [1..n -> Grant]
    BY TableFacts
  <1>a. /\ n < MaxGrants
        /\ UNCHANGED <<policy, request, revoked, pc, who, what, pol, rid, adv, used, lapsed, basis>>
    BY <1>n DEF CreateGrant, locals
  <1>b. PICK d \in Client \ revoked, x \in Resource, m \in GrantCaps :
            grant' = Append1(grant, n + 1, [sig |-> c, to |-> d, res |-> x, max |-> m,
                                            uses |-> 0, live |-> TRUE])
    BY <1>n DEF CreateGrant
  <1> DEFINE new == [sig |-> c, to |-> d, res |-> x, max |-> m, uses |-> 0, live |-> TRUE]
  <1>c. new \in Grant /\ new.uses = 0
    BY DEF Grant
  <1> HIDE DEF new
  <1>d. n \in Nat /\ n + 1 \in 1..MaxGrants /\ n + 1 \notin 1..n /\ 1..(n + 1) = 1..n \cup {n + 1}
    BY <1>a, <1>n, GateAssumption
  <1>e. /\ GrantIds' = 1..n \cup {n + 1} /\ grant' \in [1..(n + 1) -> Grant]
        /\ grant'[n + 1] = new /\ \A h \in 1..n : grant'[h] = grant[h]
    BY <1>b, <1>c, <1>d, <1>n DEF Append1, new
  <1>f. \A q \in Read : adv[q] \subseteq 1..n
    BY <1>n DEF Found
  <1>g. \A q \in Read : Relied(q)' = Relied(q) /\ Relied(q) \subseteq adv[q]
    BY <1>a, <1>e, <1>f DEF Relied, Oldest
  <1>1. TypeOK'
    <2>1. policy' \in [Resource -> Policies] /\ revoked' \subseteq Client
      BY <1>a DEF TypeOK
    <2>2. \E k \in 0..MaxRequests : request' \in [1..k -> Request]
      BY <1>a DEF TypeOK
    <2>3. \E k \in 0..MaxGrants : grant' \in [1..k -> Grant]
      BY <1>d, <1>e, GateAssumption DEF TypeOK
    <2>4. /\ pc' \in [Read -> Pcs]
          /\ who' \in [Read -> Client] /\ what' \in [Read -> Resource]
          /\ pol' \in [Read -> Policies]
          /\ rid' \in [Read -> 1..MaxRequests \cup {NoRequest}]
          /\ adv' \in [Read -> SUBSET (1..MaxGrants)]
          /\ used' \in [Read -> SUBSET (1..MaxGrants)]
          /\ lapsed' \in [Read -> SUBSET (1..MaxGrants)]
          /\ basis' \in [Read -> SUBSET Client]
      BY <1>a DEF TypeOK, Pcs
    <2> QED
      BY <2>1, <2>2, <2>3, <2>4 DEF TypeOK
  <1>2. Found'
    <2>1. \A q \in Read : SigsOf(adv[q])' = SigsOf(adv[q])
      BY <1>a, <1>e, <1>f DEF SigsOf
    <2> QED
      BY <1>a, <1>e, <1>n, <2>1 DEF Found
  <1>3. Approved'
    BY <1>a DEF TypeOK, Approved
  <1>4. Rests'
    BY <1>a DEF TypeOK, Rests, Enough, Found
  <1>5. Consumed'
    BY <1>a DEF TypeOK, Consumed, Through, Found
  <1>6. ConsumedOnce'
    BY <1>a DEF TypeOK, ConsumedOnce, Through, Found
  <1>7. Due'
    BY <1>a, <1>g DEF Due
  <1>8. Counted'
    <2>1. \A g : Charged(g)' = Charged(g)
      BY <1>a, <1>g DEF Charged, Through
    <2>3. IsFiniteSet(Charged(n + 1)') /\ Cardinality(Charged(n + 1)') <= grant'[n + 1].uses
      <3>1. Charged(n + 1)' = {}
        BY <1>a, <1>d, <1>f, <1>g DEF Charged, Through
      <3>2. grant'[n + 1].uses = 0
        BY <1>c, <1>e
      <3> QED
        BY <3>1, <3>2, FS_EmptySet
    <2>4. \A g \in 1..n : IsFiniteSet(Charged(g)') /\ Cardinality(Charged(g)') <= grant'[g].uses
      BY <1>e, <1>n, <2>1 DEF Counted
    <2> QED
      BY <1>e, <2>3, <2>4 DEF Counted
  <1>9. OneOpenRequest'
    BY <1>a DEF TypeOK, OneOpenRequest, Open
  <1>10. Spared'
    <2>1. \A g : Finders(g)' = Finders(g) /\ Settled(g)' = Settled(g)
      BY <1>a DEF Finders, Settled
    <2>2. IsFiniteSet(Finders(n + 1)') /\ grant'[n + 1].uses <= Cardinality(Settled(n + 1)')
      <3>1. Finders(n + 1)' = {} /\ Settled(n + 1)' = {}
        BY <1>a, <1>d, <1>f DEF Finders, Settled
      <3>2. grant'[n + 1].uses = 0
        BY <1>c, <1>e
      <3> QED
        BY <3>1, <3>2, FS_EmptySet
    <2>3. \A g \in 1..n : IsFiniteSet(Finders(g)') /\ grant'[g].uses <= Cardinality(Settled(g)')
      BY <1>e, <1>n, <2>1 DEF Spared
    <2> QED
      BY <1>e, <2>2, <2>3 DEF Spared
  <1>11. Locked'
    BY <1>a, LockedKept DEF Open
  <1> QED
    BY <1>1, <1>2, <1>3, <1>4, <1>5, <1>6, <1>7, <1>8, <1>9, <1>10, <1>11

\* The pass is counted once by each grant it has to charge.
LEMMA ChargeGrantInv ==
    ASSUME IInv, NEW r \in Read, ChargeGrant(r)
    PROVE  IInv'
  <1> USE DEF IInv, RequestIds, GrantIds
  <1>a. /\ pc[r] = "charge"
        /\ UNCHANGED <<policy, request, revoked, pc, who, what, pol, rid, adv, lapsed, basis>>
    BY DEF ChargeGrant
  <1>b. PICK g \in used[r] : /\ grant' = [grant EXCEPT ![g].uses = @ + 1]
                             /\ used' = [used EXCEPT ![r] = @ \ {g}]
    BY DEF ChargeGrant
  <1>n. PICK n \in 0..MaxGrants : GrantIds = 1..n /\ grant \in [1..n -> Grant]
    BY TableFacts
  <1>m. g \in 1..n /\ grant[g] \in Grant /\ grant[g].uses \in Nat
    BY <1>n, RowFacts DEF Found
  <1>u. /\ grant' \in [1..n -> Grant] /\ \A h \in 1..n : h # g => grant'[h] = grant[h]
        /\ grant'[g] = [grant[g] EXCEPT !.uses = @ + 1]
    BY <1>b, <1>n, <1>m DEF Grant
  <1>v. GrantIds' = GrantIds
    BY <1>n, <1>u
  <1>w. \A h \in GrantIds : /\ grant'[h].sig = grant[h].sig
                            /\ grant'[h].uses = grant[h].uses + (IF h = g THEN 1 ELSE 0)
    BY <1>n, <1>m, <1>u, RowFacts DEF Grant
  <1>x. \A q \in Read : Relied(q)' = Relied(q)
    BY <1>a, <1>w DEF Relied, Oldest, Found
  <1>y. used'[r] = used[r] \ {g} /\ \A q \in Read : q # r => used'[q] = used[q]
    BY <1>b DEF TypeOK
  <1> HIDE DEF GrantIds
  <1>1. TypeOK'
    <2>1. policy' \in [Resource -> Policies] /\ revoked' \subseteq Client
      BY <1>a DEF TypeOK
    <2>2. \E k \in 0..MaxRequests : request' \in [1..k -> Request]
      BY <1>a DEF TypeOK
    <2>3. \E k \in 0..MaxGrants : grant' \in [1..k -> Grant]
      BY <1>n, <1>u DEF TypeOK
    <2>4. /\ pc' \in [Read -> Pcs]
          /\ who' \in [Read -> Client] /\ what' \in [Read -> Resource]
          /\ pol' \in [Read -> Policies]
          /\ rid' \in [Read -> 1..MaxRequests \cup {NoRequest}]
          /\ adv' \in [Read -> SUBSET (1..MaxGrants)]
          /\ used' \in [Read -> SUBSET (1..MaxGrants)]
          /\ lapsed' \in [Read -> SUBSET (1..MaxGrants)]
          /\ basis' \in [Read -> SUBSET Client]
      BY <1>a, <1>b DEF TypeOK, Pcs
    <2> QED
      BY <2>1, <2>2, <2>3, <2>4 DEF TypeOK
  <1>2. Found'
    <2>1. \A q \in Read : SigsOf(adv[q])' = SigsOf(adv[q])
      BY <1>a, <1>w DEF SigsOf, Found
    <2> QED
      BY <1>a, <1>v, <1>y, <2>1 DEF Found
  <1>3. Approved'
    BY <1>a, <1>b, <1>v, <1>w DEF TypeOK, Approved
  <1>4. Rests'
    BY <1>a, <1>b, <1>v, <1>w DEF TypeOK, Rests, Enough, Found
  <1>5. Consumed'
    BY <1>a, <1>b, <1>v, <1>w DEF TypeOK, Consumed, Through, Found
  <1>6. ConsumedOnce'
    BY <1>a, <1>b, <1>v, <1>w DEF TypeOK, ConsumedOnce, Through, Found
  <1>7. Due'
    BY <1>a, <1>x, <1>y DEF Due
  <1>8. Counted'
    <2> SUFFICES ASSUME NEW h \in GrantIds
                 PROVE  IsFiniteSet(Charged(h)') /\ Cardinality(Charged(h)') <= grant'[h].uses
      BY <1>v DEF Counted
    <2>1. /\ IsFiniteSet(Charged(h)) /\ Cardinality(Charged(h)) <= grant[h].uses
          /\ grant[h].uses \in Nat /\ Cardinality(Charged(h)) \in Nat
      BY RowFacts, FS_CardinalityType DEF Counted
    <2>2. CASE h # g
      <3>1. Charged(h)' = Charged(h)
        BY <1>a, <1>x, <1>y, <2>2 DEF Charged, Through
      <3> QED
        BY <1>w, <2>1, <2>2, <3>1
    <2>3. CASE h = g
      <3>1. Charged(g)' \in SUBSET (Charged(g) \cup {r})
        BY <1>a, <1>x, <1>y DEF Charged, Through
      <3>2. /\ IsFiniteSet(Charged(g) \cup {r})
            /\ Cardinality(Charged(g) \cup {r}) <= Cardinality(Charged(g)) + 1
        <4>1. IsFiniteSet(Charged(g)) /\ Cardinality(Charged(g)) \in Nat
          BY <2>1, <2>3
        <4>2. /\ IsFiniteSet(Charged(g) \cup {r})
              /\ Cardinality(Charged(g) \cup {r}) =
                    IF r \in Charged(g) THEN Cardinality(Charged(g))
                    ELSE Cardinality(Charged(g)) + 1
          BY <4>1, FS_AddElement
        <4> QED
          BY <4>1, <4>2
      <3>3. /\ IsFiniteSet(Charged(g)')
            /\ Cardinality(Charged(g)') <= Cardinality(Charged(g) \cup {r})
        BY <3>1, <3>2, FS_Subset
      <3>4. Cardinality(Charged(g)') \in Nat /\ Cardinality(Charged(g) \cup {r}) \in Nat
        BY <3>2, <3>3, FS_CardinalityType
      <3>5. grant'[g].uses = grant[g].uses + 1
        BY <1>w, <2>3
      <3> QED
        BY <2>1, <2>3, <3>2, <3>3, <3>4, <3>5
    <2> QED
      BY <2>2, <2>3
  <1>9. OneOpenRequest'
    BY <1>a, <1>b, <1>v, <1>w DEF TypeOK, OneOpenRequest, Open
  <1>10. Spared'
    <2> SUFFICES ASSUME NEW h \in GrantIds
                 PROVE  IsFiniteSet(Finders(h)') /\ grant'[h].uses <= Cardinality(Settled(h)')
      BY <1>v DEF Spared
    <2>1. Finders(h)' = Finders(h) /\ Settled(h) \in SUBSET Finders(h)
      BY <1>a DEF Finders, Settled
    <2>2. IsFiniteSet(Finders(h)) /\ grant[h].uses <= Cardinality(Settled(h))
          /\ grant[h].uses \in Nat
      BY RowFacts DEF Spared
    <2>3. IsFiniteSet(Settled(h)) /\ Cardinality(Settled(h)) \in Nat
      BY <2>1, <2>2, FS_Subset, FS_CardinalityType
    <2>4. CASE h # g
      <3>1. Settled(h)' = Settled(h)
        BY <1>a, <1>y, <2>4 DEF Settled
      <3> QED
        BY <1>w, <2>1, <2>2, <2>4, <3>1
    <2>5. CASE h = g
      <3>1. Settled(g)' = Settled(g) \cup {r} /\ r \notin Settled(g)
        BY <1>a, <1>b, <1>y DEF Settled, Found
      <3>2. Cardinality(Settled(g) \cup {r}) = Cardinality(Settled(g)) + 1
        BY <2>3, <2>5, <3>1, FS_AddElement
      <3>3. grant'[g].uses = grant[g].uses + 1
        BY <1>w, <2>5
      <3> QED
        BY <2>1, <2>2, <2>3, <2>5, <3>1, <3>2, <3>3
    <2> QED
      BY <2>4, <2>5
  <1>11. Locked'
    BY <1>a, <1>b, <1>m, <1>n, <1>u, <1>v, <1>w, <1>x, <1>y, LockedKept DEF TypeOK, Open
  <1> QED
    BY <1>1, <1>2, <1>3, <1>4, <1>5, <1>6, <1>7, <1>8, <1>9, <1>10, <1>11

\* A charge that fails is not asked for any more.
LEMMA ChargeFailsInv ==
    ASSUME IInv, NEW r \in Read, ChargeFails(r)
    PROVE  IInv'
  <1> USE DEF IInv, RequestIds, GrantIds
  <1>a. /\ pc[r] = "charge"
        /\ UNCHANGED <<policy, request, grant, revoked, pc, who, what, pol, rid, adv, basis>>
    BY DEF ChargeFails, tables
  <1>b. PICK g \in used[r] : /\ lapsed' = [lapsed EXCEPT ![r] = @ \cup {g}]
                             /\ used' = [used EXCEPT ![r] = @ \ {g}]
    BY DEF ChargeFails
  <1>x. \A q \in Read : Relied(q)' = Relied(q)
    BY <1>a DEF Relied, Oldest
  <1>y. /\ used'[r] = used[r] \ {g} /\ lapsed'[r] = lapsed[r] \cup {g}
        /\ \A q \in Read : q # r => used'[q] = used[q] /\ lapsed'[q] = lapsed[q]
    BY <1>b DEF TypeOK
  <1>1. TypeOK'
    <2>1. policy' \in [Resource -> Policies] /\ revoked' \subseteq Client
      BY <1>a DEF TypeOK
    <2>2. \E k \in 0..MaxRequests : request' \in [1..k -> Request]
      BY <1>a DEF TypeOK
    <2>3. \E k \in 0..MaxGrants : grant' \in [1..k -> Grant]
      BY <1>a DEF TypeOK
    <2>4. /\ pc' \in [Read -> Pcs]
          /\ who' \in [Read -> Client] /\ what' \in [Read -> Resource]
          /\ pol' \in [Read -> Policies]
          /\ rid' \in [Read -> 1..MaxRequests \cup {NoRequest}]
          /\ adv' \in [Read -> SUBSET (1..MaxGrants)]
          /\ used' \in [Read -> SUBSET (1..MaxGrants)]
          /\ lapsed' \in [Read -> SUBSET (1..MaxGrants)]
          /\ basis' \in [Read -> SUBSET Client]
      BY <1>a, <1>b DEF TypeOK, Pcs
    <2> QED
      BY <2>1, <2>2, <2>3, <2>4 DEF TypeOK
  <1>2. Found'
    <2>1. \A q \in Read : SigsOf(adv[q])' = SigsOf(adv[q])
      BY <1>a DEF SigsOf
    <2> QED
      BY <1>a, <1>y, <2>1 DEF Found
  <1>3. Approved'
    BY <1>a DEF TypeOK, Approved
  <1>4. Rests'
    BY <1>a DEF TypeOK, Rests, Enough, Found
  <1>5. Consumed'
    BY <1>a DEF TypeOK, Consumed, Through, Found
  <1>6. ConsumedOnce'
    BY <1>a DEF TypeOK, ConsumedOnce, Through, Found
  <1>7. Due'
    BY <1>a, <1>x, <1>y DEF Due
  <1>8. Counted'
    <2>1. \A h : Charged(h)' \in SUBSET Charged(h)
      BY <1>a, <1>x, <1>y DEF Charged, Through
    <2> SUFFICES ASSUME NEW h \in GrantIds
                 PROVE  IsFiniteSet(Charged(h)') /\ Cardinality(Charged(h)') <= grant'[h].uses
      BY <1>a DEF Counted
    <2>2. /\ IsFiniteSet(Charged(h)) /\ Cardinality(Charged(h)) <= grant[h].uses
          /\ grant[h].uses \in Nat
      BY RowFacts DEF Counted
    <2>3. IsFiniteSet(Charged(h)') /\ Cardinality(Charged(h)') <= Cardinality(Charged(h))
      BY <2>1, <2>2, FS_Subset
    <2>4. Cardinality(Charged(h)') \in Nat /\ Cardinality(Charged(h)) \in Nat
      BY <2>2, <2>3, FS_CardinalityType
    <2> QED
      BY <1>a, <2>2, <2>3, <2>4
  <1>9. OneOpenRequest'
    BY <1>a DEF TypeOK, OneOpenRequest, Open
  <1>10. Spared'
    BY <1>a, <1>y, SparedKept
  <1>11. Locked'
    BY <1>a, LockedKept DEF Open
  <1> QED
    BY <1>1, <1>2, <1>3, <1>4, <1>5, <1>6, <1>7, <1>8, <1>9, <1>10, <1>11

-----------------------------------------------------------------------------
(* The invariant, and what it implies *)

\* Before the first read there is nothing to get wrong.
LEMMA InitIInv == Init => IInv
  <1> SUFFICES ASSUME Init PROVE IInv
    OBVIOUS
  <1> USE DEF Init
  <1>1. RequestIds = {} /\ GrantIds = {}
    BY DEF RequestIds, GrantIds
  <1>2. TypeOK
    <2>1. 1..0 = {}
      OBVIOUS
    <2>2. request \in [1..0 -> Request] /\ 0 \in 0..MaxRequests
      BY <2>1, GateAssumption
    <2>3. grant \in [1..0 -> Grant] /\ 0 \in 0..MaxGrants
      BY <2>1, GateAssumption
    <2>4. pol \in [Read -> Policies]
      OBVIOUS
    <2>5. /\ pc \in [Read -> Pcs]
          /\ rid \in [Read -> 1..MaxRequests \cup {NoRequest}]
          /\ adv \in [Read -> SUBSET (1..MaxGrants)]
          /\ used \in [Read -> SUBSET (1..MaxGrants)]
          /\ lapsed \in [Read -> SUBSET (1..MaxGrants)]
          /\ basis \in [Read -> SUBSET Client]
      BY DEF Pcs
    <2> QED
      BY <2>2, <2>3, <2>4, <2>5 DEF TypeOK
  <1>3. Found /\ Approved /\ Rests /\ Due
    BY <1>1 DEF Found, Approved, Rests, Due
  <1>4. Consumed /\ ConsumedOnce /\ Counted /\ OneOpenRequest
    BY <1>1 DEF Consumed, ConsumedOnce, Through, Counted, OneOpenRequest
  <1>5. Spared /\ Locked
    BY <1>1 DEF Spared, Locked, InTransaction
  <1> QED
    BY <1>2, <1>3, <1>4, <1>5 DEF IInv

\* Every step of a read and of the world around keeps the invariant.
LEMMA NextIInv == IInv /\ [Next]_vars => IInv'
  <1> SUFFICES ASSUME IInv, [Next]_vars PROVE IInv'
    OBVIOUS
  <1>1. ASSUME NEW r \in Read, Gate(r) PROVE IInv'
    <2>1. CASE Consume(r)
      BY <2>1, ConsumeWinsInv, ConsumeLosesInv
    <2> QED
      BY <1>1, <2>1, EnterInv, AdvanceInv, LookupRequestInv, LookupInvalidInv,
         LockRequestInv, FindRequestInv, FindNoneInv, InsertRequestInv,
         RereadApproversInv, ChargeGrantInv, ChargeFailsInv, PassInv, AbortInv DEF Gate
  <1>2. ASSUME World PROVE IInv'
    BY <1>2, CreateGrantInv, RevokeClientInv, ApproveInv, EndGrantInv, ExpireRequestInv,
       RecreateResourceInv DEF World
  <1>3. CASE UNCHANGED vars
    <2>1. UNCHANGED <<policy, request, grant, revoked, pc, who, what, pol, rid, adv, used, lapsed, basis>>
      BY <1>3 DEF vars
    <2>2. TypeOK' /\ Approved' /\ OneOpenRequest'
      BY <2>1 DEF IInv, TypeOK, Approved, OneOpenRequest, Open, RequestIds
    <2>3. Found'
      BY <2>1 DEF IInv, Found, SigsOf, RequestIds, GrantIds
    <2>4. Rests'
      BY <2>1 DEF IInv, Rests, Enough
    <2>5. Through' = Through /\ GrantIds' = GrantIds
      BY <2>1 DEF Through, GrantIds
    <2>6. Consumed' /\ ConsumedOnce'
      BY <2>1, <2>5 DEF IInv, Consumed, ConsumedOnce
    <2>7. \A r \in Read : Relied(r)' = Relied(r)
      BY <2>1 DEF Relied, Oldest
    <2>8. Due'
      BY <2>1, <2>7 DEF IInv, Due
    <2>9. Counted'
      <3>1. \A g \in GrantIds : Charged(g)' = Charged(g)
        BY <2>1, <2>5, <2>7 DEF Charged, Through
      <3> QED
        BY <2>1, <2>5, <3>1 DEF IInv, Counted
    <2>10. Spared'
      BY <2>1, <2>5, SparedKept
    <2>11. Locked'
      BY <2>1, LockedKept DEF RequestIds, Open
    <2> QED
      BY <2>2, <2>3, <2>4, <2>6, <2>8, <2>9, <2>10, <2>11 DEF IInv
  <1> QED
    BY <1>1, <1>2, <1>3 DEF Next, Quiet

\* IInv holds in every reachable state of the gate.
THEOREM Invariance == Spec => []IInv
  BY InitIInv, NextIInv, PTL DEF Spec

\* Whatever mixture of live approvals and advance grants let a read through
\* threshold_gate, it rests on threshold_k distinct signatories of the policy
\* it was made for.
THEOREM QuorumSafety == Spec => []PassedHasQuorum
  <1>1. ASSUME IInv, NEW r \in Through, SamePolicy(r)
        PROVE  /\ Cardinality(basis[r]) >= policy[what[r]].k
               /\ basis[r] \subseteq policy[what[r]].sigs
    <2>1. Enough(r)
      BY <1>1 DEF IInv, Rests, Through
    <2> QED
      BY <1>1, <2>1 DEF Enough, SamePolicy
  <1>2. IInv => PassedHasQuorum
    BY <1>1 DEF PassedHasQuorum
  <1> QED
    BY <1>2, Invariance, PTL

\* However reads race, an approved request lets one through; every pass is
\* charged to every grant it relied upon, except where consume_grant_uses saw
\* the charge fail; and no read charges a grant twice.
THEOREM SpendingSafety == Spec => []ApprovalsSpent
  <1>1. ASSUME IInv, NEW g \in GrantIds
        PROVE  Cardinality({r \in Read : pc[r] = "passed" /\ g \in Relied(r) \ lapsed[r]})
                  <= grant[g].uses
    <2> DEFINE P == {r \in Read : pc[r] = "passed" /\ g \in Relied(r) \ lapsed[r]}
    <2>1. P \in SUBSET Charged(g)
      BY <1>1 DEF IInv, Due, Charged, Through
    <2>2. IsFiniteSet(Charged(g)) /\ Cardinality(Charged(g)) <= grant[g].uses
          /\ grant[g].uses \in Nat
      BY <1>1, RowFacts DEF IInv, Counted
    <2> HIDE DEF P
    <2>3. IsFiniteSet(P) /\ Cardinality(P) <= Cardinality(Charged(g))
      BY <2>1, <2>2, FS_Subset
    <2>4. Cardinality(P) \in Nat /\ Cardinality(Charged(g)) \in Nat
      BY <2>2, <2>3, FS_CardinalityType
    <2>5. Cardinality(P) <= grant[g].uses
      BY <2>2, <2>3, <2>4
    <2> QED
      BY <2>5 DEF P
  <1>2. ASSUME IInv, NEW g \in GrantIds PROVE grant[g].uses <= Cardinality(Finders(g))
    <2>1. Settled(g) \in SUBSET Finders(g)
      BY DEF Settled, Finders
    <2>2. IsFiniteSet(Finders(g)) /\ grant[g].uses <= Cardinality(Settled(g))
          /\ grant[g].uses \in Nat
      BY <1>2, RowFacts DEF IInv, Spared
    <2>3. IsFiniteSet(Settled(g)) /\ Cardinality(Settled(g)) <= Cardinality(Finders(g))
      BY <2>1, <2>2, FS_Subset
    <2>4. Cardinality(Settled(g)) \in Nat /\ Cardinality(Finders(g)) \in Nat
      BY <2>2, <2>3, FS_CardinalityType
    <2> QED
      BY <2>2, <2>3, <2>4
  <1>3. IInv => ApprovalsSpent
    BY <1>1, <1>2 DEF IInv, ApprovalsSpent, GrantsCharged
  <1> QED
    BY <1>3, Invariance, PTL

\* However first reads of one resource interleave the statements of
\* create_access_request, a reader never has two open requests for it: the
\* advisory lock keeps the search and the INSERT of one transaction together.
THEOREM RequestSafety == Spec => []OneOpenRequest
  <1>1. IInv => OneOpenRequest
    BY DEF IInv
  <1> QED
    BY <1>1, Invariance, PTL
=============================================================================
