------------------------------- MODULE Access -------------------------------
(***************************************************************************)
(* Domains, their members and the access rules (auth.rs, server.rs).       *)
(*                                                                         *)
(* A management request resolves its domain, checks that the caller        *)
(* administers it, looks up whom it is about and writes; an access passes  *)
(* the membership gate, then the two queries of acl_check, and is charged  *)
(* to its rule when it is done.  Each of these is a statement of its own,  *)
(* so other requests and time pass in between.  A rule's pattern is the    *)
(* set of names it matches and its schedule the set of times it is open    *)
(* (Algorithms has the matchers).                                          *)
(***************************************************************************)
EXTENDS Naturals, FiniteSets

CONSTANTS
    Slot,      \* handlers at work at the same time
    Client,    \* clients; Root is a global administrator
    Root,
    Domain,    \* names of domains
    Default,   \* the default domain
    Owner,     \* of a private domain ~n its client n, else NoOne
    Templates, \* rules that are granted
    Traffics,  \* requests made together: operations, domains, whom they are
               \* about and how many rules are granted
    Goals,     \* what accesses ask for: an action and a resource name
    Roles,     \* roles members are given
    MaxRule,   \* bound on rules granted
    MaxTime,   \* bound on the clock
    MaxCount,  \* bound on the counters of a rule
    NoOne, NoRule

Role == {"admin", "user", "guest"}
Action == {"create", "read", "update", "delete"}
Op == {"create_domain", "grant", "revoke", "add", "remove", "access"}
Pcs == {"idle", "resolve", "find", "authority", "target", "write", "gate", "admin",
        "candidates", "record"}
Time == 0..MaxTime
Ids == 1..MaxRule
Template == [acts : SUBSET Action \ {{}}, covers : SUBSET {g.name : g \in Goals},
             times : SUBSET Time, from : Time, until : 0..(MaxTime + 1),
             max : 0..MaxCount, rate : 0..MaxCount, period : 0..MaxTime]

ASSUME AccessAssumption ==
    /\ IsFiniteSet(Slot) /\ MaxRule \in Nat /\ MaxTime \in Nat /\ MaxCount \in Nat
    /\ Default \in Domain /\ Roles \subseteq Role
    /\ Root \in Client /\ NoOne \notin Client /\ NoOne \notin Goals
    /\ Client \cap Domain = {}
    /\ Owner \in [Domain -> Client \cup {NoOne}]
    /\ Templates \subseteq Template
    /\ \A f \in Traffics : f.ops \subseteq Op /\ f.doms \subseteq Domain
                           /\ f.rules \in 0..MaxRule
    /\ \A g \in Goals : g.act \in Action

VARIABLES
    domain,   \* blackbook_domains
    member,   \* blackbook_domain_members: the role, or "none"
    active,   \* clients that are not revoked
    rule,     \* blackbook_acl by id; ids follow granted_at
    granted,  \* rules granted so far
    clock,
    traffic,  \* the requests made in this behaviour
    pc, op, caller, dom, \* a slot's request
    arg,      \* whom or what it is about
    seen      \* history: what has been true for the request since it arrived

tables == <<domain, member, active, rule, granted>>
call == <<op, caller, traffic>>
vars == <<tables, clock, call, pc, dom, arg, seen>>

\* max 0: no limit on uses; rate 0: no rate limit; start is the time the rate
\* window was opened, MaxTime + 1 when there is none yet.
Rule == [dom : Domain, who : Client \cup Domain, t : Templates, uses : 0..MaxCount,
         count : 0..MaxCount, start : 0..(MaxTime + 1)]

ASSUME NoRuleAssumption == NoRule \notin Rule

Arg == [who : Client \cup Domain \cup {NoOne}, id : Ids \cup {0}, goal : Goals \cup {NoOne}]
NoArg == [who |-> NoOne, id |-> 0, goal |-> NoOne]

\* Types of the tables and of the handlers' locals.
TypeOK ==
    /\ domain \subseteq Domain /\ active \subseteq Client
    /\ member \in [Domain -> [Client -> Role \cup {"none"}]]
    /\ rule \in [Ids -> Rule \cup {NoRule}] /\ granted \in 0..MaxRule
    /\ clock \in Time /\ traffic \in Traffics
    /\ pc \in [Slot -> Pcs]
    /\ op \in [Slot -> Op]
    /\ caller \in [Slot -> Client] /\ dom \in [Slot -> Domain]
    /\ arg \in [Slot -> Arg]

AnyOp == "access"
AnyDomain == CHOOSE d \in Domain : TRUE

\* Every private domain is there with its owner, and every client but the
\* bootstrap administrator has joined the default domain (module Identity).
Init ==
    /\ domain = {Default} \cup {d \in Domain : Owner[d] # NoOne}
    /\ member = [d \in Domain |-> [c \in Client |->
                    IF Owner[d] = c THEN "admin"
                    ELSE IF d = Default /\ c # Root THEN "user" ELSE "none"]]
    /\ active = Client
    /\ rule = [i \in Ids |-> NoRule] /\ granted = 0
    /\ clock = 0
    /\ traffic \in Traffics
    /\ pc = [s \in Slot |-> "idle"]
    /\ op = [s \in Slot |-> AnyOp]
    /\ caller = [s \in Slot |-> Root]
    /\ dom = [s \in Slot |-> AnyDomain]
    /\ arg = [s \in Slot |-> NoArg]
    /\ seen = [s \in Slot |-> {}]

DomainMember(c, d) == c = Root \/ member[d][c] # "none"
DomainAdmin(c, d) == c = Root \/ member[d][c] = "admin"

Goto(s, l) == pc' = [pc EXCEPT ![s] = l]
End(s) ==
    /\ Goto(s, "idle")
    /\ op' = [op EXCEPT ![s] = AnyOp]
    /\ caller' = [caller EXCEPT ![s] = Root]
    /\ dom' = [dom EXCEPT ![s] = AnyDomain]
    /\ arg' = [arg EXCEPT ![s] = NoArg]
    /\ UNCHANGED traffic
Reads == UNCHANGED <<tables, clock>>

-----------------------------------------------------------------------------
(* Requests *)

\* A request of an authenticated client arrives.
Arrive(s) ==
    /\ pc[s] = "idle"
    /\ \E o \in traffic.ops, c \in active :
          /\ op' = [op EXCEPT ![s] = o]
          /\ caller' = [caller EXCEPT ![s] = c]
          /\ \/ /\ o = "revoke"
                /\ \E i \in 1..traffic.rules : arg' = [arg EXCEPT ![s].id = i]
                /\ Goto(s, "find") /\ UNCHANGED dom
             \/ /\ o # "revoke"
                /\ \E d \in traffic.doms : dom' = [dom EXCEPT ![s] = d]
                /\ IF o = "access"
                   THEN \E g \in Goals : arg' = [arg EXCEPT ![s].goal = g]
                   ELSE UNCHANGED arg
                /\ Goto(s, IF o = "create_domain" THEN "write" ELSE "resolve")
    /\ UNCHANGED traffic /\ Reads

\* resolve_domain
Resolve(s) ==
    /\ pc[s] = "resolve"
    /\ IF dom[s] \in domain
       THEN /\ Goto(s, IF op[s] = "access" THEN "gate" ELSE "authority")
            /\ UNCHANGED <<call, dom, arg>>
       ELSE End(s)
    /\ Reads

\* Faulty variant: the domain is the caller's choice, not the rule's.
FindRuleAnyDomain(s) ==
    /\ pc[s] = "find"
    /\ IF rule[arg[s].id] # NoRule
       THEN /\ \E d \in Domain : dom' = [dom EXCEPT ![s] = d]
            /\ Goto(s, "authority") /\ UNCHANGED <<call, arg>>
       ELSE End(s)
    /\ Reads

\* revoke_acl: the domain is that of the rule.
FindRule(s) ==
    /\ pc[s] = "find"
    /\ IF rule[arg[s].id] # NoRule
       THEN /\ dom' = [dom EXCEPT ![s] = rule[arg[s].id].dom]
            /\ Goto(s, "authority") /\ UNCHANGED <<call, arg>>
       ELSE End(s)
    /\ Reads

\* require_domain_admin; create_domain asks for a global administrator.
Authority(s) ==
    /\ pc[s] = "authority"
    /\ IF DomainAdmin(caller[s], dom[s])
       THEN /\ Goto(s, IF op[s] \in {"grant", "add"} THEN "target" ELSE "write")
            /\ UNCHANGED <<call, dom, arg>>
       ELSE End(s)
    /\ Reads

\* Whom a grant or a membership is for: a client that is not revoked, for a
\* grant also the members of a domain.  Unknown names end the request.
LookupTarget(s) ==
    /\ pc[s] = "target"
    /\ \/ /\ \E w \in traffic.who \cap (active \cup IF op[s] = "grant" THEN domain ELSE {}) :
                arg' = [arg EXCEPT ![s].who = w]
          /\ Goto(s, "write") /\ UNCHANGED <<call, dom>>
       \/ End(s)
    /\ Reads

\* create_domain: the INSERT, or 409.
CreateDomain(s) ==
    /\ pc[s] = "write" /\ op[s] = "create_domain"
    /\ domain' = IF caller[s] = Root /\ Owner[dom[s]] = NoOne
                 THEN domain \cup {dom[s]} ELSE domain
    /\ End(s)
    /\ UNCHANGED <<member, active, rule, granted, clock>>

FreshRule(d, w, t) == [dom |-> d, who |-> w, t |-> t, uses |-> 0, count |-> 0,
                       start |-> MaxTime + 1]

\* grant_acl: the INSERT.
Grant(s) ==
    /\ pc[s] = "write" /\ op[s] = "grant"
    /\ granted < traffic.rules
    /\ granted' = granted + 1
    /\ \E t \in Templates :
          rule' = [rule EXCEPT ![granted + 1] = FreshRule(dom[s], arg[s].who, t)]
    /\ End(s)
    /\ UNCHANGED <<domain, member, active, clock>>

\* revoke_acl: the DELETE by id.
RevokeRule(s) ==
    /\ pc[s] = "write" /\ op[s] = "revoke"
    /\ rule' = [rule EXCEPT ![arg[s].id] = NoRule]
    /\ End(s)
    /\ UNCHANGED <<domain, member, active, granted, clock>>

\* add_domain_member: insert or change of the role.
AddMember(s) ==
    /\ pc[s] = "write" /\ op[s] = "add"
    /\ \E r \in Roles : member' = [member EXCEPT ![dom[s]][arg[s].who] = r]
    /\ End(s)
    /\ UNCHANGED <<domain, active, rule, granted, clock>>

\* remove_domain_member: also the last administrator, also the caller.
RemoveMember(s) ==
    /\ pc[s] = "write" /\ op[s] = "remove"
    /\ \E c \in traffic.who \cap Client : member' = [member EXCEPT ![dom[s]][c] = "none"]
    /\ End(s)
    /\ UNCHANGED <<domain, active, rule, granted, clock>>

-----------------------------------------------------------------------------
(* Access *)

\* resolve_and_gate_domain: the membership.
Gate(s) ==
    /\ pc[s] = "gate"
    /\ IF DomainMember(caller[s], dom[s])
       THEN Goto(s, "admin") /\ UNCHANGED <<call, dom, arg>> ELSE End(s)
    /\ Reads

\* acl_check, first query: administrators need no rule.
AdminAllowed(s) ==
    /\ pc[s] = "admin"
    /\ IF DomainAdmin(caller[s], dom[s])
       THEN arg' = [arg EXCEPT ![s].goal = NoOne] /\ Goto(s, "record")
       ELSE Goto(s, "candidates") /\ UNCHANGED arg
    /\ UNCHANGED <<call, dom>> /\ Reads

\* rate_ok: no limit, no window, a window that has run out, or room in it.
RateOk(r) ==
    \/ r.t.rate = 0 \/ r.t.period = 0
    \/ r.start > MaxTime
    \/ clock - r.start >= r.t.period
    \/ r.count < r.t.rate

\* Faulty variant: the rules of all domains are searched.
CandidateAnyDomain(r, c, d, g) ==
    /\ r # NoRule
    /\ r.who = c \/ (r.who \in Domain /\ member[r.who][c] # "none")
    /\ g.act \in r.t.acts
    /\ clock < r.t.until /\ r.t.from <= clock
    /\ r.t.max = 0 \/ r.uses < r.t.max

\* The rows the second query selects.
Candidate(r, c, d, g) ==
    /\ r # NoRule /\ r.dom = d
    /\ r.who = c \/ (r.who \in Domain /\ member[r.who][c] # "none")
    /\ g.act \in r.t.acts
    /\ clock < r.t.until /\ r.t.from <= clock
    /\ r.t.max = 0 \/ r.uses < r.t.max

\* What the loop over the candidates asks of each: pattern, schedule, rate.
Admits(r, g) == g.name \in r.t.covers /\ clock \in r.t.times /\ RateOk(r)

\* acl_check, second query and loop: the newest rule that admits decides.
Decide(s) ==
    LET g == arg[s].goal
        ok == {i \in Ids : Candidate(rule[i], caller[s], dom[s], g) /\ Admits(rule[i], g)} IN
    /\ pc[s] = "candidates"
    /\ IF ok # {}
       THEN /\ arg' = [arg EXCEPT ![s].id = CHOOSE i \in ok : \A j \in ok : j <= i,
                                   ![s].goal = NoOne]
            /\ Goto(s, "record") /\ UNCHANGED <<call, dom>>
       ELSE End(s)
    /\ Reads

\* Faulty variant: the window that ends at this instant is kept.
ChargedLate(r) ==
    LET roll == r.start > MaxTime \/ r.start + r.t.period < clock IN
    [r EXCEPT !.uses = @ + 1,
              !.start = IF r.t.period > 0 /\ roll THEN clock ELSE @,
              !.count = IF r.t.period = 0 THEN @ ELSE IF roll THEN 1 ELSE @ + 1]

\* acl_record_use: the use and, for a rule with a period, the window.
Charged(r) ==
    LET roll == r.start > MaxTime \/ r.start + r.t.period <= clock IN
    [r EXCEPT !.uses = @ + 1,
              !.start = IF r.t.period > 0 /\ roll THEN clock ELSE @,
              !.count = IF r.t.period = 0 THEN @ ELSE IF roll THEN 1 ELSE @ + 1]

\* The access has succeeded and is charged, if its rule is still there.
RecordUse(s) ==
    LET i == arg[s].id IN
    /\ pc[s] = "record"
    /\ IF i \in Ids /\ rule[i] # NoRule
       THEN /\ rule[i].uses < MaxCount
            /\ rule' = [rule EXCEPT ![i] = Charged(@)]
       ELSE UNCHANGED rule
    /\ End(s)
    /\ UNCHANGED <<domain, member, active, granted, clock>>

\* The request ends early: a statement fails, the access is refused elsewhere
\* or the connection closes.
Drop(s) == pc[s] # "idle" /\ End(s) /\ Reads

-----------------------------------------------------------------------------
\* Time matters to accesses only.
Tick ==
    /\ clock < MaxTime /\ "access" \in traffic.ops
    /\ clock' = clock + 1
    /\ UNCHANGED <<tables, call, pc, dom, arg>>

\* revoke_client_endpoint (module Identity); memberships and rules stay.
RevokeClient(c) ==
    /\ c \in (active \cap traffic.who) \ {Root}
    /\ active' = active \ {c}
    /\ UNCHANGED <<domain, member, rule, granted, clock, call, pc, dom, arg>>

Handle(s) ==
    \/ Arrive(s) \/ Resolve(s) \/ FindRule(s) \/ Authority(s) \/ LookupTarget(s)
    \/ CreateDomain(s) \/ Grant(s) \/ RevokeRule(s) \/ AddMember(s) \/ RemoveMember(s)
    \/ Gate(s) \/ AdminAllowed(s) \/ Decide(s) \/ RecordUse(s) \/ Drop(s)

\* Whether some rule of domain d, for c or for a group of c, covers the goal g
\* and is open at this time.
Entitles(c, d, g) ==
    \E i \in Ids :
        /\ rule[i] # NoRule
        /\ rule[i].dom = d
        /\ c = rule[i].who \/ \E e \in Domain : e = rule[i].who /\ member[e][c] # "none"
        /\ g.act \in rule[i].t.acts /\ g.name \in rule[i].t.covers
        /\ clock \in rule[i].t.times /\ clock \in rule[i].t.from..(rule[i].t.until - 1)

Facts(s) ==
    LET c == caller[s] d == dom[s] IN
    IF op[s] # "access" THEN {f \in {"admin"} : DomainAdmin(c, d)}
    ELSE {f \in {"member"} : DomainMember(c, d)} \cup
         {f \in {"allowed"} : \/ DomainAdmin(c, d)
                              \/ arg[s].goal # NoOne /\ Entitles(c, d, arg[s].goal)}

Watch == seen' = [s \in Slot |-> IF pc'[s] = "idle" THEN {} ELSE seen[s] \cup Facts(s)']

Next ==
    /\ Tick \/ (\E c \in Client : RevokeClient(c)) \/ \E s \in Slot : Handle(s)
    /\ Watch

Spec == Init /\ [][Next]_vars

-----------------------------------------------------------------------------
(* Properties *)

\* A membership or a rule of a domain changes only by a request whose caller
\* administered that very domain at some moment since the request arrived
\* (require_domain_admin: "confined to their own domain").
ScopedAuthority ==
    [][\A d \in Domain :
          (\/ \E c \in Client : member'[d][c] # member[d][c]
           \/ \E i \in Ids : \/ rule[i] = NoRule /\ rule'[i] # NoRule /\ rule'[i].dom = d
                             \/ rule[i] # NoRule /\ rule'[i] = NoRule /\ rule[i].dom = d)
          => \E s \in Slot : pc[s] = "write" /\ pc'[s] = "idle"
                             /\ dom[s] = d /\ "admin" \in seen[s]]_vars

\* An access that goes ahead is one of a client who, since the request arrived,
\* was a member of the domain and was its administrator or had a rule there
\* that was open; the three are tested one after the other.
GrantedWasAllowed ==
    TypeOK /\ \A s \in Slot :
        pc[s] = "record" => seen[s] = {"member", "allowed"}

\* max_uses is tested before an access and charged after it; the excess is
\* never more than the other requests in flight.
BoundedUses ==
    \A i \in Ids :
        rule[i] # NoRule /\ rule[i].t.max > 0 =>
            rule[i].uses <= rule[i].t.max + Cardinality(Slot) - 1

\* The same for the accesses of one rate window, whenever the window rolls over.
BoundedRate ==
    \A i \in Ids :
        rule[i] # NoRule /\ rule[i].t.rate > 0 /\ rule[i].t.period > 0 =>
            rule[i].count <= rule[i].t.rate + Cardinality(Slot) - 1

\* Limits are tested before an access and charged after it; the counters exceed
\* them by fewer than the requests in flight.  What is bounded is what was
\* charged: an access whose handler is dropped before the charge is not counted.
BoundedExcess == BoundedUses /\ BoundedRate
=============================================================================
