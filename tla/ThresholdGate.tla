---------------------------- MODULE ThresholdGate ----------------------------
(***************************************************************************)
(* K-of-N approval of reads (server.rs: threshold_gate and what it calls,  *)
(* approve_access_request, create_access_grant, revoke_access_grant).      *)
(*                                                                         *)
(* A read of a resource with an access policy needs threshold_k distinct   *)
(* signatories: live approvers of an access request, advance grants given  *)
(* to the reader beforehand, or both.  Reads are handler invocations that  *)
(* give up control at every SQL statement, where a statement may fail or   *)
(* the handler be dropped; approvals run in a transaction that locks the   *)
(* request's row, so they are one step.                                    *)
(***************************************************************************)
EXTENDS Naturals, FiniteSets

CONSTANTS
    Read,        \* gate invocations, one for each read attempted
    Client,      \* client ids: readers and signatories
    Resource,    \* gated resources, each in a domain of its own
    NameOf,      \* name of a resource within its domain
    Policies,    \* access policies resources are stored with
    MaxRequests, \* bound on access requests created
    GrantCaps,   \* max_uses values grants may carry
    MaxGrants,   \* bound on advance grants created
    Recreate,    \* may a resource be deleted and stored anew?
    NoRequest    \* the read carries no X-Blackbook-Request-Id

Policy == [k : Nat \ {0}, sigs : SUBSET Client]

ASSUME GateAssumption ==
    /\ Policies \subseteq Policy
    /\ \A p \in Policies : IsFiniteSet(p.sigs) /\ p.k <= Cardinality(p.sigs)
    /\ NameOf \in [Resource -> STRING]
    /\ MaxRequests \in Nat /\ MaxGrants \in Nat
    /\ GrantCaps \subseteq Nat \ {0}
    /\ Recreate \in BOOLEAN
    /\ NoRequest \notin Nat

VARIABLES
    policy,    \* access_policy of each resource now
    request,   \* blackbook_access_requests, by creation order
    grant,     \* blackbook_access_grants, by creation order
    revoked,   \* clients whose revoked_at is set
    pc,
    who, what, \* the reader and the resource of an invocation
    pol,       \* the policy its SELECT of the resource returned
    rid,       \* the request it presents or was given
    adv,       \* the advance grants found, one for each signatory
    used,      \* the grants it will charge
    lapsed,    \* the grants whose charge failed and was only logged
    basis      \* the signatories its pass rests on

tables == <<policy, request, grant, revoked>>
vars == <<policy, request, grant, revoked, pc, who, what, pol, rid, adv, used, lapsed, basis>>

Request == [from : Client, res : Resource, k : Nat \ {0}, sigs : SUBSET Client,
            approvers : SUBSET Client, consumed : BOOLEAN, expired : BOOLEAN]
Grant == [sig : Client, to : Client, res : Resource, max : GrantCaps,
          uses : Nat, live : BOOLEAN]
Pcs == {"idle", "advance", "lookup", "create", "find", "insert", "reread",
        "consume", "charge", "passed", "refused"}

RequestIds == DOMAIN request
GrantIds == DOMAIN grant

\* Types of the tables and of the invocations' locals.
TypeOK ==
    /\ policy \in [Resource -> Policies]
    /\ \E n \in 0..MaxRequests : request \in [1..n -> Request]
    /\ \E n \in 0..MaxGrants : grant \in [1..n -> Grant]
    /\ revoked \subseteq Client
    /\ pc \in [Read -> Pcs]
    /\ who \in [Read -> Client] /\ what \in [Read -> Resource]
    /\ pol \in [Read -> Policies]
    /\ rid \in [Read -> 1..MaxRequests \cup {NoRequest}]
    /\ adv \in [Read -> SUBSET (1..MaxGrants)]
    /\ used \in [Read -> SUBSET (1..MaxGrants)]
    /\ lapsed \in [Read -> SUBSET (1..MaxGrants)]
    /\ basis \in [Read -> SUBSET Client]

Init ==
    /\ policy \in [Resource -> Policies]
    /\ request = [i \in {} |-> 0]
    /\ grant = [g \in {} |-> 0]
    /\ revoked = {}
    /\ pc = [r \in Read |-> "idle"]
    /\ who \in [Read -> Client] /\ what \in [Read -> Resource]
    /\ pol = [r \in Read |-> policy[what[r]]]
    /\ rid = [r \in Read |-> NoRequest]
    /\ adv = [r \in Read |-> {}]
    /\ used = [r \in Read |-> {}]
    /\ lapsed = [r \in Read |-> {}]
    /\ basis = [r \in Read |-> {}]

Goto(r, l) == pc' = [pc EXCEPT ![r] = l]
Append1(f, n, v) == [i \in DOMAIN f \cup {n} |-> IF i = n THEN v ELSE f[i]]

Open(i) == ~request[i].consumed /\ ~request[i].expired

\* In window, not revoked, under the use cap, for this reader and resource.
Usable(g, r) ==
    /\ grant[g].live /\ grant[g].to = who[r] /\ grant[g].res = what[r]
    /\ grant[g].uses < grant[g].max

\* advance_approvers: the oldest usable grant of each policy signatory.
AdvanceApprovers(r) ==
    {g \in GrantIds :
        /\ Usable(g, r) /\ grant[g].sig \in pol[r].sigs
        /\ \A h \in GrantIds :
              Usable(h, r) /\ grant[h].sig = grant[g].sig => g <= h}

SigsOf(G) == {grant[g].sig : g \in G}

\* The first n grants of G in creation order.
Oldest(n, G) == {g \in G : Cardinality({h \in G : h <= g}) <= n}

-----------------------------------------------------------------------------
(* threshold_gate *)

\* The caller has read the resource's row and enters the gate.
Enter(r) ==
    /\ pc[r] = "idle"
    /\ pol' = [pol EXCEPT ![r] = policy[what[r]]]
    /\ \E i \in RequestIds \cup {NoRequest} : rid' = [rid EXCEPT ![r] = i]
    /\ Goto(r, "advance")
    /\ UNCHANGED <<tables, who, what, adv, used, lapsed, basis>>

\* With no request id, grants alone may reach the threshold.
Advance(r) ==
    LET G == AdvanceApprovers(r)
        alone == rid[r] = NoRequest /\ Cardinality(G) >= pol[r].k
        take == Oldest(pol[r].k, G) IN
    /\ pc[r] = "advance"
    /\ adv' = [adv EXCEPT ![r] = G]
    /\ used' = [used EXCEPT ![r] = IF alone THEN take ELSE {}]
    /\ basis' = [basis EXCEPT ![r] = IF alone THEN SigsOf(take) ELSE {}]
    /\ Goto(r, IF alone THEN "charge"
               ELSE IF rid[r] = NoRequest THEN "create" ELSE "lookup")
    /\ UNCHANGED <<tables, who, what, pol, rid, lapsed>>

\* Faulty variant: approvals and grants are added up.
TallySum(r, k) ==
    LET live == request[rid[r]].approvers
        both == live \cup SigsOf(adv[r]) IN
    /\ used' = [used EXCEPT ![r] = {g \in adv[r] : grant[g].sig \notin live}]
    /\ basis' = [basis EXCEPT ![r] = both]
    /\ Goto(r, IF Cardinality(live) + Cardinality(adv[r]) >= k
               THEN "consume" ELSE "refused")

\* Count live approvers and advance grants together; charge the grants of
\* those who did not approve live.
Tally(r, k) ==
    LET live == request[rid[r]].approvers
        both == live \cup SigsOf(adv[r]) IN
    /\ used' = [used EXCEPT ![r] = {g \in adv[r] : grant[g].sig \notin live}]
    /\ basis' = [basis EXCEPT ![r] = both]
    /\ Goto(r, IF Cardinality(both) >= k THEN "consume" ELSE "refused")

\* The presented request must be open, the caller's, and of this name.
Presentable(r) ==
    /\ Open(rid[r]) /\ request[rid[r]].from = who[r]
    /\ NameOf[request[rid[r]].res] = NameOf[what[r]]

LookupRequest(r) ==
    /\ pc[r] = "lookup"
    /\ Presentable(r)
    /\ Tally(r, request[rid[r]].k)
    /\ UNCHANGED <<tables, who, what, pol, rid, adv, lapsed>>

LookupInvalid(r) ==
    /\ pc[r] = "lookup"
    /\ ~Presentable(r)
    /\ Goto(r, "refused")
    /\ UNCHANGED <<tables, who, what, pol, rid, adv, used, lapsed, basis>>

(* create_access_request: one transaction that takes the advisory lock of  *)
(* this reader and resource, looks for an open request and, if there is    *)
(* none, inserts one.  The lock is held until the transaction ends.        *)

Mine(r) == {i \in RequestIds : Open(i) /\ request[i].from = who[r]
                                       /\ request[i].res = what[r]}

InTransaction(r) == pc[r] \in {"find", "insert"}

\* Faulty variant: the transaction does without the advisory lock.
NoLock(r) ==
    /\ pc[r] = "create"
    /\ Goto(r, "find")
    /\ UNCHANGED <<tables, who, what, pol, rid, adv, used, lapsed, basis>>

\* pg_advisory_xact_lock: waits while another transaction holds the lock.
LockRequest(r) ==
    /\ pc[r] = "create"
    /\ ~\E q \in Read \ {r} :
          InTransaction(q) /\ who[q] = who[r] /\ what[q] = what[r]
    /\ Goto(r, "find")
    /\ UNCHANGED <<tables, who, what, pol, rid, adv, used, lapsed, basis>>

\* The newest open request is reused and the transaction commits.
FindRequest(r) ==
    /\ pc[r] = "find"
    /\ Mine(r) # {}
    /\ rid' = [rid EXCEPT ![r] = CHOOSE i \in Mine(r) : \A j \in Mine(r) : j <= i]
    /\ Goto(r, "reread")
    /\ UNCHANGED <<tables, who, what, pol, adv, used, lapsed, basis>>

FindNone(r) ==
    /\ pc[r] = "find"
    /\ Mine(r) = {}
    /\ Goto(r, "insert")
    /\ UNCHANGED <<tables, who, what, pol, rid, adv, used, lapsed, basis>>

NewRequest(r) ==
    [from |-> who[r], res |-> what[r], k |-> pol[r].k,
     sigs |-> pol[r].sigs \ revoked, approvers |-> {},
     consumed |-> FALSE, expired |-> FALSE]

\* INSERT, for the signatories that are not revoked, and commit.
InsertRequest(r) ==
    /\ pc[r] = "insert"
    /\ Cardinality(RequestIds) < MaxRequests
    /\ rid' = [rid EXCEPT ![r] = Cardinality(RequestIds) + 1]
    /\ request' = Append1(request, Cardinality(RequestIds) + 1, NewRequest(r))
    /\ Goto(r, "reread")
    /\ UNCHANGED <<policy, grant, revoked, who, what, pol, adv, used, lapsed, basis>>

RereadApprovers(r) ==
    /\ pc[r] = "reread"
    /\ Tally(r, pol[r].k)
    /\ UNCHANGED <<tables, who, what, pol, rid, adv, lapsed>>

\* Faulty variant: the UPDATE lacks AND consumed_at IS NULL.
ConsumeUnconditionally(r) ==
    /\ pc[r] = "consume"
    /\ request' = [request EXCEPT ![rid[r]].consumed = TRUE]
    /\ Goto(r, "charge")
    /\ UNCHANGED <<policy, grant, revoked, who, what, pol, rid, adv, used, lapsed, basis>>

\* UPDATE ... SET consumed_at WHERE id = $1 AND consumed_at IS NULL
Consume(r) ==
    /\ pc[r] = "consume"
    /\ IF request[rid[r]].consumed
       THEN Goto(r, "refused") /\ UNCHANGED request
       ELSE /\ request' = [request EXCEPT ![rid[r]].consumed = TRUE]
            /\ Goto(r, "charge")
    /\ UNCHANGED <<policy, grant, revoked, who, what, pol, rid, adv, used, lapsed, basis>>

\* consume_grant_uses: one UPDATE for each grant relied upon.
ChargeGrant(r) ==
    /\ pc[r] = "charge"
    /\ \E g \in used[r] :
         /\ grant' = [grant EXCEPT ![g].uses = @ + 1]
         /\ used' = [used EXCEPT ![r] = @ \ {g}]
    /\ UNCHANGED <<policy, request, revoked, pc, who, what, pol, rid, adv, lapsed, basis>>

\* An UPDATE that fails is logged and the loop goes on.
ChargeFails(r) ==
    /\ pc[r] = "charge"
    /\ \E g \in used[r] :
         /\ lapsed' = [lapsed EXCEPT ![r] = @ \cup {g}]
         /\ used' = [used EXCEPT ![r] = @ \ {g}]
    /\ UNCHANGED <<tables, pc, who, what, pol, rid, adv, basis>>

Pass(r) ==
    /\ pc[r] = "charge" /\ used[r] = {}
    /\ Goto(r, "passed")
    /\ UNCHANGED <<tables, who, what, pol, rid, adv, used, lapsed, basis>>

\* Any other statement fails, or the handler is dropped at an await: the
\* read gets nothing, an open transaction is rolled back and its lock freed.
Abort(r) ==
    /\ pc[r] \notin {"idle", "passed", "refused"}
    /\ Goto(r, "refused")
    /\ UNCHANGED <<tables, who, what, pol, rid, adv, used, lapsed, basis>>

-----------------------------------------------------------------------------
(* Approvals, grants, and the rest of the world *)

locals == <<pc, who, what, pol, rid, adv, used, lapsed, basis>>

\* approve_access_request: a signatory of an open request, once.
Approve(c, i) ==
    /\ c \notin revoked
    /\ Open(i) /\ c \in request[i].sigs /\ c \notin request[i].approvers
    /\ request' = [request EXCEPT ![i].approvers = @ \cup {c}]
    /\ UNCHANGED <<policy, grant, revoked, locals>>

\* create_access_grant: any client may give one; it counts only where its
\* author is a signatory.
CreateGrant(c) ==
    /\ c \notin revoked
    /\ Cardinality(GrantIds) < MaxGrants
    /\ \E d \in Client \ revoked, x \in Resource, m \in GrantCaps :
         grant' = Append1(grant, Cardinality(GrantIds) + 1,
                     [sig |-> c, to |-> d, res |-> x, max |-> m,
                      uses |-> 0, live |-> TRUE])
    /\ UNCHANGED <<policy, request, revoked, locals>>

\* revoke_access_grant, or the grant's expires_at passes.
EndGrant(g) ==
    /\ grant[g].live
    /\ grant' = [grant EXCEPT ![g].live = FALSE]
    /\ UNCHANGED <<policy, request, revoked, locals>>

\* REQUEST_TTL_HOURS have passed.
ExpireRequest(i) ==
    /\ Open(i)
    /\ request' = [request EXCEPT ![i].expired = TRUE]
    /\ UNCHANGED <<policy, grant, revoked, locals>>

\* An administrator revokes a client.
RevokeClient(c) ==
    /\ c \notin revoked
    /\ revoked' = revoked \cup {c}
    /\ UNCHANGED <<policy, request, grant, locals>>

\* The resource is deleted and stored again under another policy; its
\* requests are not touched.
RecreateResource(x) ==
    /\ Recreate
    /\ \E p \in Policies \ {policy[x]} : policy' = [policy EXCEPT ![x] = p]
    /\ UNCHANGED <<request, grant, revoked, locals>>

Gate(r) ==
    \/ Enter(r) \/ Advance(r) \/ LookupRequest(r) \/ LookupInvalid(r)
    \/ LockRequest(r) \/ FindRequest(r) \/ FindNone(r) \/ InsertRequest(r)
    \/ RereadApprovers(r) \/ Consume(r) \/ ChargeGrant(r) \/ ChargeFails(r)
    \/ Pass(r) \/ Abort(r)

World ==
    \/ \E c \in Client : CreateGrant(c) \/ RevokeClient(c)
    \/ \E c \in Client, i \in RequestIds : Approve(c, i)
    \/ \E g \in GrantIds : EndGrant(g)
    \/ \E i \in RequestIds : ExpireRequest(i)
    \/ \E x \in Resource : RecreateResource(x)

\* Every read has been decided and nothing is left to happen to the tables.
Quiet == (\A r \in Read : pc[r] \in {"passed", "refused"}) /\ UNCHANGED vars

Next == (\E r \in Read : Gate(r)) \/ World \/ Quiet

Spec == Init /\ [][Next]_vars

-----------------------------------------------------------------------------
(* Properties *)

Through == {r \in Read : pc[r] \in {"charge", "passed"}}

\* An approved request opens the gate once: of any reads that present it or
\* are handed it at the same moment, only one gets through.
ConsumedOnce ==
    \A r, q \in Through : rid[r] # NoRequest /\ rid[r] = rid[q] => r = q

\* The policy has not changed since the read, and the request it presents or
\* was given, were made.
SamePolicy(r) ==
    LET p == policy[what[r]] IN
    /\ pol[r] = p
    /\ rid[r] # NoRequest =>
          request[rid[r]].k = p.k /\ request[rid[r]].sigs \subseteq p.sigs

\* Whatever mixture of live approvals and grants let a read through, it rests
\* on threshold_k distinct signatories of the resource's policy, unless the
\* resource has been stored anew under another one meanwhile.
PassedHasQuorum ==
    \A r \in Through : SamePolicy(r) =>
        /\ Cardinality(basis[r]) >= policy[what[r]].k
        /\ basis[r] \subseteq policy[what[r]].sigs

\* However first reads of one resource interleave their search and their
\* INSERT, and wherever a transaction is broken off, a reader never has two
\* open requests for it between which its approvals would be divided.
OneOpenRequest ==
    \A i, j \in RequestIds :
        /\ Open(i) /\ Open(j)
        /\ request[i].from = request[j].from /\ request[i].res = request[j].res
        => i = j

\* The advance grants a read needed to get through.
Relied(r) ==
    IF rid[r] = NoRequest THEN Oldest(pol[r].k, adv[r])
    ELSE {g \in adv[r] : grant[g].sig \notin request[rid[r]].approvers}

\* The reads that found a grant usable.
Finders(g) == {r \in Read : g \in adv[r]}

\* Every pass is charged to every grant it relied upon, whether grants alone
\* or grants and live approvals made the quorum and whoever else uses them at
\* the time, except for the charges that failed (consume_grant_uses is
\* best-effort); and a grant is charged at most once for each read that found
\* it usable.
GrantsCharged ==
    \A g \in GrantIds :
        /\ Cardinality({r \in Read : pc[r] = "passed" /\ g \in Relied(r) \ lapsed[r]})
               <= grant[g].uses
        /\ grant[g].uses <= Cardinality(Finders(g))

\* However reads race, an approved request lets one through, and the uses of
\* a grant account for every pass that needed it and whose charge succeeded,
\* and for no more than one use by each read that had found it usable.
ApprovalsSpent == TypeOK /\ ConsumedOnce /\ GrantsCharged

\* "the request matches the resource being read".
RequestMatchesResource ==
    \A r \in Through : rid[r] # NoRequest => request[rid[r]].res = what[r]
=============================================================================
