--------------------------- MODULE IdentityProofs ---------------------------
(***************************************************************************)
(* The invariants of Identity, proved for every set of names and of        *)
(* handlers at work at the same time, every mix of operations and every    *)
(* bound.  None of the three is inductive: what a request may present      *)
(* rests on the order in which a rotation writes the row and answers, and  *)
(* what a boot finds on the volume on the order in which every earlier     *)
(* boot wrote it.  IInv states both.                                       *)
(***************************************************************************)
EXTENDS Identity, TLAPS

-----------------------------------------------------------------------------
(* The volume *)

\* A later file is on the volume only when the earlier ones are, and belongs
\* to the same CA: a boot that finds one missing writes every later one anew.
Volume ==
    /\ disk["ca_cert"] # None => disk["ca_key"] > 0 /\ disk["ca_cert"] \in {Torn, disk["ca_key"]}
    /\ disk["server_cert"] # None =>
          disk["ca_cert"] # None /\ disk["server_cert"] \in {Torn, disk["ca_key"]}
    /\ disk["server_key"] # None =>
          /\ disk["server_cert"] # None /\ disk["server_cert"] = disk["ca_key"]
          /\ disk["server_key"] \in {Torn, disk["ca_key"]}
    /\ disk["admin_bundle"] # None =>
          /\ disk["server_key"] # None /\ disk["admin_bundle"] \in {Torn, disk["ca_key"]}
          /\ Known("admin")

Admins == {"admin", "insert_admin", "admin_domain", "admin_member", "admin_bundle",
           "default", "serve", "up"}
Provisioned == {"load_server", "server_cert", "server_key"} \cup Admins

\* What the running boot has established at each of its stages.
Booting ==
    /\ boot # "down" => boots > 0
    /\ boot = "ca_key" => disk["ca_cert"] = None /\ ca = boots
    /\ boot = "ca_cert" => disk["ca_cert"] \in {None, Torn} /\ ca = boots /\ disk["ca_key"] = ca
                           /\ disk["server_cert"] = None
    /\ boot \in Provisioned => ca = disk["ca_key"] /\ disk["ca_cert"] # None
    /\ boot = "server_cert" => disk["server_key"] = None
    /\ boot = "server_key" => disk["server_cert"] = ca /\ disk["server_key"] \in {None, Torn}
    /\ boot \in Admins => disk["server_key"] # None
    /\ boot = "up" => disk["ca_cert"] > 0
    /\ boot # "up" => \A s \in Slot : pc[s] = "idle"

-----------------------------------------------------------------------------
(* Bundles *)

\* A row's bundle and secret have been issued, and so has every bundle held.
Issued ==
    /\ \A n \in Name : Known(n) => /\ 1 <= issued[n] /\ client[n].gen <= issued[n]
                                   /\ client[n].totp <= secrets[n]
    /\ \A b \in held : /\ Known(b.name) /\ b.gen <= issued[b.name]
                       /\ b.ca = disk["ca_key"] /\ disk["server_key"] # None

\* The bundle of a row has reached someone, is on its way or is on the volume.
Reached(n) ==
    \/ [name |-> n, gen |-> client[n].gen, ca |-> disk["ca_key"]] \in held
    \/ \E s \in Slot : Pending(s) /\ Target(s) = n /\ val[s] = client[n].gen
    \/ n = "admin" /\ client[n].gen = 1 /\ disk["admin_bundle"] > 0
    \/ n = "admin" /\ client[n].gen = 1 /\ Bootstrapping

Administered ==
    /\ boot = "insert_admin" => \A n \in Name : ~ActiveAdmin(n)
    /\ boot \in {"admin_domain", "admin_member", "admin_bundle", "default", "serve"} =>
          \E n \in Name : ActiveAdmin(n)
    /\ Bootstrapping => Known("admin") /\ client["admin"].gen = 1
    /\ ~mishap =>
          /\ \A n \in Name : Known(n) => Reached(n)
          /\ boot = "up" => \E n \in Name : ActiveAdmin(n)

-----------------------------------------------------------------------------
(* Requests *)

\* A request before its token is looked up: only if it brought one live
\* bundle can it get past the factors that are still to be looked at.
Presented(s) ==
    pc[s] \in {"cert", "token"} =>
        /\ req[s] \in Request /\ req[s].cert \in held /\ req[s].token \in held
        /\ pc[s] = "cert" /\ Accepted(req[s].cert) /\ req[s].cert = req[s].token => req[s].live
        /\ pc[s] = "token" /\ Accepted(req[s].token) /\ req[s].cert.name = req[s].token.name
              => req[s].live

Creating == {"join", "domain", "member"}

\* An authenticated request.
Ordered(s) ==
    pc[s] \in {"act", "update", "check", "answer"} \cup Creating =>
        /\ req[s] \in Order /\ req[s].live /\ Known(Caller(s))
        /\ pc[s] \in Creating => req[s].op = "create" /\ val[s] = 1
        /\ pc[s] = "update" => req[s].op = "rotate"
        /\ pc[s] = "answer" => req[s].op \in {"create", "rotate"}
        /\ pc[s] = "check" => /\ 1 <= val[s] /\ val[s] <= secrets[Caller(s)]
                              /\ val[s] = client[Caller(s)].totp => proved[Caller(s)] = val[s]

\* A bundle on its way to a client: the first one goes out when the client
\* has its domain, a later one is in nobody's hands before the row has it.
Bringing(s) ==
    pc[s] \in {"update", "answer"} \cup Creating =>
        /\ Known(Target(s)) /\ val[s] <= issued[Target(s)]
        /\ req[s].op = "create" =>
              /\ val[s] = 1
              /\ pc[s] \in {"member", "answer"} => Target(s) \in domain
              /\ pc[s] = "answer" => <<Target(s), Target(s)>> \in member
        /\ req[s].op = "rotate" =>
              /\ 2 <= val[s]
              /\ pc[s] = "update" =>
                    \A b \in held : b.name = Target(s) => b.gen # val[s]

Rotating(s) == pc[s] \in {"update", "answer"} /\ req[s].op = "rotate"

\* No two rotations of a client issue the same bundle.
Distinct ==
    \A s, t \in Slot :
        s # t /\ Rotating(s) /\ Rotating(t) /\ Target(s) = Target(t) => val[s] # val[t]

Sound(s) == Presented(s) /\ Ordered(s) /\ Bringing(s)
Requests == \A s \in Slot : Sound(s)

\* The inductive invariant.
IInv ==
    /\ TypeOK /\ Volume /\ Booting /\ FailsOnlyTorn
    /\ Issued /\ Administered /\ EnrolledProved /\ DeliveredWithDomain
    /\ Requests /\ Distinct

-----------------------------------------------------------------------------
(* Frames *)

FileTypes ==
    /\ disk \in [Files -> -1..MaxBoot]
    /\ boot \in Stages \cup {"up", "down", "failed"}
    /\ boots \in 0..MaxBoot /\ ca \in 0..MaxBoot

TableTypes ==
    /\ client \in [Name -> Row \cup {NoClient}]
    /\ domain \subseteq Name \cup {"default"}
    /\ member \subseteq (Name \cup {"default"}) \X Name
    /\ issued \in [Name -> 0..MaxGen] /\ secrets \in [Name -> 0..MaxSecret]
    /\ held \subseteq Bundle
    /\ mishap \in BOOLEAN
    /\ proved \in [Name -> 0..MaxSecret] /\ overtaken \subseteq Name

SlotTypes ==
    /\ pc \in [Slot -> Pcs]
    /\ req \in [Slot -> Request \cup Order \cup {NoBundle}]
    /\ traffic \in Traffics
    /\ val \in [Slot -> 0..(MaxGen + MaxSecret)]

\* A slot keeps what it holds.
Same(t) == pc'[t] = pc[t] /\ req'[t] = req[t] /\ val'[t] = val[t]

\* What the other requests under way may rely on in every step of a handler:
\* nothing is taken back, a bundle that is not accepted stays so, a secret
\* that replaces another one is new, and a bundle that goes out was not the
\* one a rotation is about to write.
Evolves ==
    /\ \A n \in Name : Known(n) => /\ Known(n)' /\ issued[n] <= issued'[n]
                                   /\ secrets[n] <= secrets'[n]
    /\ domain \subseteq domain' /\ member \subseteq member' /\ held \subseteq held'
    /\ \A b \in held : Accepted(b)' => Accepted(b)
    /\ \A n \in Name : Known(n) =>
          \A v \in 1..secrets[n] :
             (v = client[n].totp => proved[n] = v) => (v = client'[n].totp => proved'[n] = v)
    /\ \A t \in Slot : pc[t] = "update" =>
          \A b \in held' : b.name = Target(t) => b \in held \/ b.gen # val[t]

\* The type invariant, split into its parts.
LEMMA Types ==
    TypeOK <=> FileTypes /\ TableTypes /\ SlotTypes
  BY DEF TypeOK, FileTypes, TableTypes, SlotTypes

\* The same for the next state.
LEMMA TypesNext ==
    TypeOK' <=> FileTypes' /\ TableTypes' /\ SlotTypes'
  BY DEF TypeOK, FileTypes, TableTypes, SlotTypes

\* The row of a client.
LEMMA RowFacts ==
    ASSUME TableTypes, NEW n \in Name
    PROVE  /\ issued[n] \in 0..MaxGen /\ secrets[n] \in 0..MaxSecret
           /\ proved[n] \in 0..MaxSecret
           /\ Known(n) => client[n] \in Row
           /\ Known(n) => /\ client[n].gen \in 1..MaxGen /\ client[n].totp \in 0..MaxSecret
                          /\ client[n].role \in Role /\ client[n].revoked \in BOOLEAN
                          /\ client[n].expired \in BOOLEAN /\ client[n].enrolled \in BOOLEAN
  BY DEF TableTypes, Known, Row

\* A bundle that is held names a client, a generation and a CA.
LEMMA BundleFacts ==
    ASSUME TableTypes, NEW b \in held
    PROVE  /\ b \in Bundle /\ b.name \in Name /\ b.gen \in 1..MaxGen /\ b.ca \in 1..MaxBoot
           /\ b = [name |-> b.name, gen |-> b.gen, ca |-> b.ca]
  BY DEF TableTypes, Bundle

\* What the invariant says of one slot and its order.
LEMMA SlotFacts ==
    ASSUME IInv, NEW s \in Slot
    PROVE  /\ Sound(s) /\ FileTypes /\ TableTypes /\ SlotTypes
           /\ pc[s] # "idle" => boot = "up"
           /\ val[s] \in Nat
           /\ pc[s] \in {"act", "update", "check", "answer"} \cup Creating =>
                 /\ req[s] \in Order /\ Caller(s) \in Name /\ Target(s) \in Name
                 /\ req[s].op \in UNION Traffics /\ req[s].role \in Role
                 /\ Known(Caller(s)) /\ req[s].live
  <1>1. Sound(s) /\ FileTypes /\ TableTypes /\ SlotTypes
    BY Types DEF IInv, Requests
  <1>2. pc[s] # "idle" => boot = "up"
    BY DEF IInv, Booting
  <1>3. val[s] \in Nat
    BY <1>1, IdentityAssumption DEF SlotTypes
  <1> QED
    BY <1>1, <1>2, <1>3 DEF Sound, Ordered, Order, Caller, Target

\* A request whose slot does not move stays sound.
LEMMA SlotKept ==
    ASSUME IInv, Evolves, TableTypes', NEW t \in Slot, Same(t)
    PROVE  Sound(t)'
  <1>1. Sound(t) /\ TableTypes /\ val[t] \in Nat
    BY SlotFacts
  <1>2. pc'[t] = pc[t] /\ req'[t] = req[t] /\ val'[t] = val[t]
    BY DEF Same
  <1>3. Caller(t)' = Caller(t) /\ Target(t)' = Target(t)
    BY <1>2 DEF Caller, Target
  <1>4. Presented(t)'
    <2>1. CASE pc[t] \in {"cert", "token"}
      <3>1. /\ req[t] \in Request /\ req[t].cert \in held /\ req[t].token \in held
            /\ pc[t] = "cert" /\ Accepted(req[t].cert) /\ req[t].cert = req[t].token => req[t].live
            /\ pc[t] = "token" /\ Accepted(req[t].token) /\ req[t].cert.name = req[t].token.name
                 => req[t].live
        BY <1>1, <2>1 DEF Sound, Presented
      <3>2. /\ Accepted(req[t].cert)' => Accepted(req[t].cert)
            /\ Accepted(req[t].token)' => Accepted(req[t].token)
        <4>1. PICK c \in held, k \in held : c = req[t].cert /\ k = req[t].token
          BY <3>1
        <4>2. Accepted(c)' => Accepted(c)
          BY DEF Evolves
        <4>3. Accepted(k)' => Accepted(k)
          BY DEF Evolves
        <4>4. Accepted(req[t].cert)' <=> Accepted(c)'
          BY <1>2, <4>1 DEF Accepted, Known
        <4>5. Accepted(req[t].token)' <=> Accepted(k)'
          BY <1>2, <4>1 DEF Accepted, Known
        <4> QED
          BY <4>1, <4>2, <4>3, <4>4, <4>5
      <3>3. req[t].cert \in held' /\ req[t].token \in held'
        BY <3>1 DEF Evolves
      <3>4. Request' = Request
        BY DEF Request, Bundle
      <3> QED
        BY <1>2, <3>1, <3>2, <3>3 DEF Presented, Request, Bundle
    <2>2. CASE pc[t] \notin {"cert", "token"}
      BY <1>2, <2>2 DEF Presented
    <2> QED
      BY <2>1, <2>2
  <1>5. pc[t] \in {"act", "update", "check", "answer"} \cup Creating =>
          /\ req[t] \in Order /\ Caller(t) \in Name /\ Target(t) \in Name
    BY SlotFacts
  <1>6. Ordered(t)'
    <2> SUFFICES ASSUME pc[t] \in {"act", "update", "check", "answer"} \cup Creating
                 PROVE  Ordered(t)'
      BY <1>2 DEF Ordered, Creating
    <2>1. Caller(t) \in Name /\ Known(Caller(t)) /\ Ordered(t)
      BY <1>1, <1>5 DEF Sound, Ordered
    <2>2. Known(Caller(t))'
      BY <1>3, <2>1 DEF Evolves, Known
    <2>3. pc[t] = "check" =>
            /\ val[t] <= secrets'[Caller(t)]
            /\ val[t] = client'[Caller(t)].totp => proved'[Caller(t)] = val[t]
      <3> SUFFICES ASSUME pc[t] = "check"
                   PROVE  /\ val[t] <= secrets'[Caller(t)]
                          /\ val[t] = client'[Caller(t)].totp => proved'[Caller(t)] = val[t]
        OBVIOUS
      <3>1. PICK n \in Name : n = Caller(t)
        BY <2>1
      <3>2. /\ 1 <= val[t] /\ val[t] <= secrets[n] /\ Known(n)
            /\ val[t] = client[n].totp => proved[n] = val[t]
        BY <2>1, <3>1 DEF Ordered
      <3>3. secrets[n] \in Nat /\ val[t] \in 1..secrets[n]
        BY <1>1, <3>2, RowFacts, IdentityAssumption
      <3>4. secrets'[n] \in Nat
        BY IdentityAssumption DEF TableTypes
      <3>5. secrets[n] <= secrets'[n]
        BY <3>2 DEF Evolves
      <3>6. (val[t] = client'[n].totp => proved'[n] = val[t])
        BY <3>2, <3>3 DEF Evolves
      <3>7. val[t] <= secrets'[n]
        BY <3>2, <3>3, <3>4, <3>5
      <3> QED
        BY <3>1, <3>6, <3>7
    <2> QED
      BY <1>2, <1>3, <2>1, <2>2, <2>3 DEF Ordered, Order, Creating
  <1>7. Bringing(t)'
    <2> SUFFICES ASSUME pc[t] \in {"update", "answer"} \cup Creating
                 PROVE  Bringing(t)'
      BY <1>2 DEF Bringing, Creating
    <2>1. Target(t) \in Name /\ Bringing(t) /\ Known(Target(t)) /\ val[t] <= issued[Target(t)]
      BY <1>1, <1>5 DEF Sound, Bringing
    <2>2. Known(Target(t))' /\ val[t] <= issued'[Target(t)]
      <3>1. PICK n \in Name : n = Target(t)
        BY <2>1
      <3>2. Known(n)' /\ issued[n] <= issued'[n]
        BY <2>1, <3>1 DEF Evolves
      <3>3. issued[n] \in Nat /\ issued'[n] \in Nat
        BY <1>1, RowFacts, IdentityAssumption DEF TableTypes
      <3> QED
        BY <1>1, <1>3, <2>1, <3>1, <3>2, <3>3 DEF Known
    <2>3. pc[t] = "update" /\ req[t].op = "rotate" =>
            \A b \in held' : b.name = Target(t) => b.gen # val[t]
      BY <2>1 DEF Bringing, Evolves
    <2>4. domain \subseteq domain' /\ member \subseteq member'
      BY DEF Evolves
    <2> QED
      BY <1>2, <1>3, <2>1, <2>2, <2>3, <2>4 DEF Bringing, Creating
  <1> QED
    BY <1>4, <1>6, <1>7 DEF Sound

\* One slot moves.
LEMMA OneSlot ==
    ASSUME IInv, NEW s \in Slot, traffic' = traffic,
           pc' = [pc EXCEPT ![s] = pc'[s]], req' = [req EXCEPT ![s] = req'[s]],
           val' = [val EXCEPT ![s] = val'[s]],
           pc'[s] \in Pcs, req'[s] \in Request \cup Order \cup {NoBundle},
           val'[s] \in 0..(MaxGen + MaxSecret)
    PROVE  SlotTypes' /\ \A t \in Slot : t # s => Same(t)
  <1>1. SlotTypes
    BY Types DEF IInv
  <1>2. SlotTypes'
    BY <1>1 DEF SlotTypes
  <1>3. \A t \in Slot : t # s => Same(t)
    BY <1>1 DEF SlotTypes, Same
  <1> QED
    BY <1>2, <1>3

\* The bundles that rotations issue stay distinct when none is added.
LEMMA DistinctKept ==
    ASSUME IInv, NEW s \in Slot, \A t \in Slot : t # s => Same(t),
           Rotating(s)' => Rotating(s) /\ Target(s)' = Target(s) /\ val'[s] = val[s]
    PROVE  Distinct'
  <1> SUFFICES ASSUME NEW t \in Slot, NEW u \in Slot, t # u, Rotating(t)', Rotating(u)',
                      Target(t)' = Target(u)'
               PROVE  val'[t] # val'[u]
    BY DEF Distinct
  <1>1. ASSUME NEW v \in Slot, Rotating(v)'
        PROVE  Rotating(v) /\ Target(v)' = Target(v) /\ val'[v] = val[v]
    BY <1>1 DEF Same, Rotating, Target
  <1> QED
    BY <1>1 DEF IInv, Distinct

\* A request ends.
LEMMA EndFacts ==
    ASSUME IInv, NEW s \in Slot, End(s), traffic' = traffic
    PROVE  /\ SlotTypes' /\ (\A t \in Slot : t # s => Same(t)) /\ pc'[s] = "idle"
           /\ Sound(s)' /\ Distinct' /\ ~Pending(s)'
  <1>1. SlotTypes
    BY Types DEF IInv
  <1>2. pc'[s] = "idle" /\ req'[s] = NoBundle /\ val'[s] = 0
    BY <1>1 DEF End, Goto, SlotTypes
  <1>3. SlotTypes' /\ \A t \in Slot : t # s => Same(t)
    <2>1. "idle" \in Pcs /\ 0 \in 0..(MaxGen + MaxSecret)
      BY IdentityAssumption DEF Pcs
    <2> QED
      BY <1>2, <2>1, OneSlot DEF End, Goto
  <1>4. Sound(s)'
    BY <1>2 DEF Sound, Presented, Ordered, Bringing, Creating
  <1>5. Distinct'
    BY <1>2, <1>3, DistinctKept DEF Rotating
  <1> QED
    BY <1>2, <1>3, <1>4, <1>5 DEF Pending

\* A step of a running server, put together.
LEMMA HandlerInv ==
    ASSUME IInv, boot = "up", UNCHANGED files, TableTypes', SlotTypes', Evolves,
           \A t \in Slot : Same(t) \/ Sound(t)',
           Distinct', Issued', EnrolledProved', DeliveredWithDomain',
           ~mishap' => /\ \A n \in Name : Known(n)' => Reached(n)'
                       /\ \E n \in Name : ActiveAdmin(n)'
    PROVE  IInv'
  <1>1. disk' = disk /\ boot' = "up" /\ boots' = boots /\ ca' = ca
    BY DEF files
  <1>2. FileTypes'
    BY <1>1, Types DEF IInv, FileTypes
  <1>3. Volume'
    <2>1. Known("admin") => Known("admin")'
      BY IdentityAssumption DEF Evolves
    <2> QED
      BY <1>1, <2>1 DEF IInv, Volume
  <1>4. Booting'
    BY <1>1 DEF IInv, Booting, Provisioned, Admins
  <1>5. FailsOnlyTorn' /\ Administered'
    BY <1>1 DEF FailsOnlyTorn, Administered, Bootstrapping
  <1>6. Requests'
    BY SlotKept DEF Requests
  <1>7. TypeOK'
    BY <1>2, TypesNext
  <1> QED
    BY <1>3, <1>4, <1>5, <1>6, <1>7 DEF IInv

\* A bundle that can be reached stays so.
LEMMA ReachedKept ==
    ASSUME IInv, boot = "up", UNCHANGED files, NEW n \in Name, Known(n), ~mishap,
           client'[n].gen = client[n].gen, held \subseteq held',
           \A t \in Slot : Pending(t) /\ Target(t) = n /\ val[t] = client[n].gen =>
               \/ Pending(t)' /\ Target(t)' = n /\ val'[t] = val[t]
               \/ [name |-> n, gen |-> val[t], ca |-> ca] \in held'
    PROVE  Reached(n)'
  <1>1. Reached(n) /\ ca = disk["ca_key"] /\ disk' = disk
    BY DEF IInv, Administered, Booting, Provisioned, Admins, files
  <1>2. CASE [name |-> n, gen |-> client[n].gen, ca |-> disk["ca_key"]] \in held
    BY <1>1, <1>2 DEF Reached
  <1>3. CASE \E s \in Slot : Pending(s) /\ Target(s) = n /\ val[s] = client[n].gen
    BY <1>1, <1>3 DEF Reached
  <1>4. CASE n = "admin" /\ client[n].gen = 1 /\ disk["admin_bundle"] > 0
    BY <1>1, <1>4 DEF Reached
  <1> QED
    BY <1>1, <1>2, <1>3, <1>4 DEF Reached, Bootstrapping

\* Slots that keep what they hold stay pending.
LEMMA PendingKept ==
    ASSUME NEW t \in Slot, Same(t), Pending(t)
    PROVE  Pending(t)' /\ Target(t)' = Target(t) /\ val'[t] = val[t]
  BY DEF Same, Pending, Target

\* The tables do not change, except for the history of proofs.
LEMMA TablesSame ==
    ASSUME IInv, UNCHANGED <<tables, held, overtaken, disk>>, mishap' \in BOOLEAN,
           proved' \in [Name -> 0..MaxSecret],
           \A n \in Name : Known(n) => proved'[n] = proved[n] \/ proved'[n] = client[n].totp
    PROVE  /\ TableTypes' /\ Evolves /\ Issued' /\ EnrolledProved' /\ DeliveredWithDomain'
           /\ \A n \in Name : (Known(n)' <=> Known(n)) /\ (ActiveAdmin(n)' <=> ActiveAdmin(n))
  <1>1. /\ client' = client /\ domain' = domain /\ member' = member /\ issued' = issued
        /\ secrets' = secrets /\ held' = held /\ overtaken' = overtaken /\ disk' = disk
    BY DEF tables
  <1>2. TableTypes
    BY Types DEF IInv
  <1>3. TableTypes'
    BY <1>1, <1>2 DEF TableTypes
  <1>4. \A n \in Name : (Known(n)' <=> Known(n)) /\ (ActiveAdmin(n)' <=> ActiveAdmin(n))
    BY <1>1 DEF Known, ActiveAdmin
  <1>5. Evolves
    <2>1. \A n \in Name : issued[n] <= issued'[n] /\ secrets[n] <= secrets'[n]
      BY <1>1, <1>2, RowFacts
    <2>2. \A b \in held : Accepted(b)' => Accepted(b)
      BY <1>1 DEF Accepted, Known
    <2> QED
      BY <1>1, <1>4, <2>1, <2>2 DEF Evolves
  <1>6. Issued'
    BY <1>1 DEF IInv, Issued, Known
  <1>7. EnrolledProved'
    BY <1>1 DEF IInv, EnrolledProved, Known
  <1>8. DeliveredWithDomain'
    BY <1>1 DEF IInv, DeliveredWithDomain
  <1> QED
    BY <1>3, <1>4, <1>5, <1>6, <1>7, <1>8

\* A request moves on or ends and leaves the tables alone.
LEMMA QuietInv ==
    ASSUME IInv, boot = "up", NEW s \in Slot, UNCHANGED files,
           UNCHANGED <<tables, held, overtaken>>,
           mishap' \in BOOLEAN, mishap => mishap', Pending(s) => mishap',
           proved' \in [Name -> 0..MaxSecret],
           \A n \in Name : Known(n) => proved'[n] = proved[n] \/ proved'[n] = client[n].totp,
           SlotTypes', \A t \in Slot : t # s => Same(t), Sound(s)', Distinct'
    PROVE  IInv'
  <1>1. UNCHANGED <<tables, held, overtaken, disk>> /\ client' = client /\ held' = held
    BY DEF files, tables
  <1>2. /\ TableTypes' /\ Evolves /\ Issued' /\ EnrolledProved' /\ DeliveredWithDomain'
        /\ \A n \in Name : (Known(n)' <=> Known(n)) /\ (ActiveAdmin(n)' <=> ActiveAdmin(n))
    BY <1>1, TablesSame
  <1>3. ~mishap' => /\ \A n \in Name : Known(n)' => Reached(n)'
                    /\ \E n \in Name : ActiveAdmin(n)'
    <2> SUFFICES ASSUME ~mishap'
                 PROVE  /\ \A n \in Name : Known(n) => Reached(n)'
                        /\ \E n \in Name : ActiveAdmin(n)
      BY <1>2
    <2>1. \E n \in Name : ActiveAdmin(n)
      BY DEF IInv, Administered
    <2>2. ASSUME NEW n \in Name, Known(n) PROVE Reached(n)'
      BY <1>1, <2>2, ReachedKept, PendingKept
    <2> QED
      BY <2>1, <2>2
  <1> QED
    BY <1>2, <1>3, HandlerInv

-----------------------------------------------------------------------------
(* Authentication *)

LEMMA ArriveInv == ASSUME IInv, NEW s \in Slot, Arrive(s) PROVE IInv'
  <1>1. /\ pc[s] = "idle" /\ boot = "up" /\ pc' = [pc EXCEPT ![s] = "cert"]
        /\ UNCHANGED files /\ traffic' = traffic /\ val' = val
        /\ UNCHANGED <<tables, held, overtaken>> /\ mishap' = mishap /\ proved' = proved
    BY DEF Arrive, HandlerUnchanged, Goto
  <1>2. PICK c \in held, t \in held :
          req' = [req EXCEPT ![s] = [cert |-> c, token |-> t, live |-> c = t /\ Accepted(c)]]
    BY DEF Arrive
  <1>3. SlotTypes /\ TableTypes
    BY SlotFacts
  <1>4. PICK q : q = [cert |-> c, token |-> t, live |-> c = t /\ Accepted(c)]
    OBVIOUS
  <1>5. /\ q \in Request /\ q.cert = c /\ q.token = t /\ (q.live <=> c = t /\ Accepted(c))
    <2>1. (c = t /\ Accepted(c)) \in BOOLEAN
      OBVIOUS
    <2>2. c \in Bundle /\ t \in Bundle
      BY <1>3, BundleFacts
    <2> QED
      BY <1>4, <2>1, <2>2 DEF Request
  <1>6. pc'[s] = "cert" /\ req'[s] = q /\ val'[s] = val[s] /\ val[s] \in 0..(MaxGen + MaxSecret)
    BY <1>1, <1>2, <1>3, <1>4 DEF SlotTypes
  <1>7. SlotTypes' /\ \A u \in Slot : u # s => Same(u)
    <2>1. "cert" \in Pcs /\ val' = [val EXCEPT ![s] = val'[s]]
      BY <1>1, <1>3 DEF Pcs, SlotTypes
    <2> QED
      BY <1>1, <1>2, <1>4, <1>5, <1>6, <2>1, OneSlot
  <1>8. Sound(s)'
    <2>1. held' = held /\ (Accepted(c)' <=> Accepted(c))
      BY <1>1 DEF Accepted, Known, tables
    <2>2. Accepted(req[s].cert)' <=> Accepted(c)'
      BY <1>5, <1>6 DEF Accepted, Known
    <2>3. Presented(s)'
      BY <1>5, <1>6, <2>1, <2>2 DEF Presented, Request, Bundle
    <2> QED
      BY <1>6, <2>3 DEF Sound, Ordered, Bringing, Creating
  <1>9. Distinct'
    BY <1>6, <1>7, DistinctKept DEF Rotating
  <1>10. ~Pending(s) /\ mishap \in BOOLEAN /\ proved \in [Name -> 0..MaxSecret]
    BY <1>1, <1>3 DEF Pending, TableTypes
  <1> QED
    BY <1>1, <1>7, <1>8, <1>9, <1>10, QuietInv

\* A request ends without having done anything.
LEMMA EndInv ==
    ASSUME IInv, NEW s \in Slot, pc[s] # "idle", End(s), UNCHANGED <<files, traffic>>,
           UNCHANGED <<tables, held, proved, overtaken>>,
           mishap' \in BOOLEAN, mishap => mishap', Pending(s) => mishap'
    PROVE  IInv'
  <1>1. boot = "up" /\ TableTypes
    BY SlotFacts
  <1>2. /\ SlotTypes' /\ (\A t \in Slot : t # s => Same(t)) /\ Sound(s)' /\ Distinct'
    BY EndFacts
  <1>3. proved' = proved /\ proved' \in [Name -> 0..MaxSecret]
    BY <1>1 DEF TableTypes
  <1> QED
    BY <1>1, <1>2, <1>3, QuietInv

\* A request moves on without having done anything.
LEMMA PassInv ==
    ASSUME IInv, NEW s \in Slot, pc[s] # "idle", ~Pending(s), NEW l \in Pcs, Goto(s, l),
           UNCHANGED <<files, traffic>>, UNCHANGED <<tables, held, mishap, proved, overtaken>>,
           val' = val, req' = [req EXCEPT ![s] = req'[s]],
           req'[s] \in Request \cup Order \cup {NoBundle}, Sound(s)', l \notin {"update", "answer"}
    PROVE  IInv'
  <1>1. boot = "up" /\ TableTypes /\ SlotTypes
    BY SlotFacts
  <1>2. /\ pc' = [pc EXCEPT ![s] = pc'[s]] /\ pc'[s] = l /\ val' = [val EXCEPT ![s] = val'[s]]
        /\ val'[s] \in 0..(MaxGen + MaxSecret)
    BY <1>1 DEF Goto, SlotTypes
  <1>3. SlotTypes' /\ \A t \in Slot : t # s => Same(t)
    BY <1>2, OneSlot
  <1>4. Distinct'
    BY <1>2, <1>3, DistinctKept DEF Rotating
  <1>5. /\ proved' = proved /\ proved' \in [Name -> 0..MaxSecret]
        /\ mishap' = mishap /\ mishap \in BOOLEAN
    BY <1>1 DEF TableTypes
  <1> QED
    BY <1>1, <1>3, <1>4, <1>5, QuietInv

\* LookupByCn keeps the invariant.
LEMMA LookupByCnInv == ASSUME IInv, NEW s \in Slot, LookupByCn(s) PROVE IInv'
  <1>1. /\ pc[s] = "cert" /\ UNCHANGED <<files, traffic>>
        /\ UNCHANGED <<tables, held, mishap, proved, overtaken>>
    BY DEF LookupByCn, HandlerUnchanged
  <1>2. ~Pending(s) /\ mishap \in BOOLEAN /\ SlotTypes
    BY <1>1, SlotFacts DEF Pending, TableTypes
  <1>3. CASE Accepted(req[s].cert)
    <2>1. Goto(s, "token") /\ req' = req /\ val' = val
      BY <1>3 DEF LookupByCn
    <2>2. /\ req[s] \in Request /\ req[s].cert \in held /\ req[s].token \in held
          /\ req[s].cert = req[s].token => req[s].live
      BY <1>1, <1>3, SlotFacts DEF Sound, Presented
    <2>3. pc'[s] = "token" /\ req'[s] = req[s] /\ "token" \in Pcs
          /\ req' = [req EXCEPT ![s] = req'[s]]
      BY <1>2, <2>1 DEF Goto, SlotTypes, Pcs
    <2>4. PICK c \in held, k \in held : c = req[s].cert /\ k = req[s].token
      BY <2>2
    <2>5. Accepted(k) /\ c.name = k.name => c = k
      <3>1. c.ca = k.ca
        BY DEF IInv, Issued
      <3>2. client[c.name].gen = c.gen
        BY <1>3, <2>4 DEF Accepted
      <3>3. TableTypes
        BY SlotFacts
      <3>4. c = [name |-> c.name, gen |-> c.gen, ca |-> c.ca]
        BY <3>3, BundleFacts
      <3>5. k = [name |-> k.name, gen |-> k.gen, ca |-> k.ca]
        BY <3>3, BundleFacts
      <3> QED
        BY <3>1, <3>2, <3>4, <3>5 DEF Accepted
    <2>6. Accepted(req[s].token)' <=> Accepted(k)
      BY <1>1, <2>3, <2>4 DEF Accepted, Known, tables
    <2>7. Presented(s)'
      BY <1>1, <2>2, <2>3, <2>4, <2>5, <2>6 DEF Presented, Request, Bundle
    <2>8. Sound(s)'
      BY <2>3, <2>7 DEF Sound, Ordered, Bringing, Creating
    <2> QED
      BY <1>1, <1>2, <2>1, <2>2, <2>3, <2>8, PassInv
  <1>4. CASE ~Accepted(req[s].cert)
    BY <1>1, <1>2, <1>4, EndInv DEF LookupByCn
  <1> QED
    BY <1>3, <1>4

\* LookupByToken keeps the invariant.
LEMMA LookupByTokenInv == ASSUME IInv, NEW s \in Slot, LookupByToken(s) PROVE IInv'
  <1>1. /\ pc[s] = "token" /\ UNCHANGED <<files, traffic>>
        /\ UNCHANGED <<tables, held, mishap, proved, overtaken>>
    BY DEF LookupByToken, HandlerUnchanged
  <1>2. ~Pending(s) /\ mishap \in BOOLEAN /\ SlotTypes /\ TableTypes
    BY <1>1, SlotFacts DEF Pending, TableTypes
  <1>3. CASE Accepted(req[s].token) /\ req[s].token.name = req[s].cert.name
    <2>1. PICK k \in held : k = req[s].token /\ req[s].live /\ req[s] \in Request
      BY <1>1, <1>3, SlotFacts DEF Sound, Presented
    <2>2. k.name \in Name /\ Known(k.name)
      BY <1>2, <1>3, <2>1, BundleFacts DEF Accepted
    <2>3. PICK o \in traffic, n \in Name, r \in Role :
            req' = [req EXCEPT ![s] = [op |-> o, caller |-> k.name, target |-> n, role |-> r,
                                       live |-> req[s].live]]
      BY <1>3, <2>1 DEF LookupByToken
    <2>4. Goto(s, "act") /\ val' = val
      BY <1>3 DEF LookupByToken
    <2>5. PICK q : q = [op |-> o, caller |-> k.name, target |-> n, role |-> r,
                        live |-> req[s].live]
      OBVIOUS
    <2>6. q \in Order /\ q.caller = k.name /\ q.live
      <3>1. o \in UNION Traffics
        BY <1>2 DEF SlotTypes
      <3>2. req[s].live \in BOOLEAN
        BY <2>1 DEF Request
      <3> QED
        BY <2>1, <2>2, <2>5, <3>1, <3>2 DEF Order
    <2>7. pc'[s] = "act" /\ req'[s] = q /\ "act" \in Pcs /\ req' = [req EXCEPT ![s] = req'[s]]
      BY <1>2, <2>3, <2>4, <2>5 DEF Goto, SlotTypes, Pcs
    <2>8. Caller(s)' = k.name /\ client' = client
      BY <1>1, <2>6, <2>7 DEF Caller, tables
    <2>9. Sound(s)'
      BY <2>2, <2>6, <2>7, <2>8 DEF Sound, Presented, Ordered, Bringing, Creating, Known, Order
    <2> QED
      BY <1>1, <1>2, <2>4, <2>6, <2>7, <2>9, PassInv
  <1>4. CASE ~(Accepted(req[s].token) /\ req[s].token.name = req[s].cert.name)
    BY <1>1, <1>2, <1>4, EndInv DEF LookupByToken
  <1> QED
    BY <1>3, <1>4

\* NotAdmin keeps the invariant.
LEMMA NotAdminInv == ASSUME IInv, NEW s \in Slot, NotAdmin(s) PROVE IInv'
  <1>1. pc[s] = "act" /\ ~Pending(s) /\ mishap \in BOOLEAN
    BY SlotFacts DEF NotAdmin, Pending, TableTypes
  <1> QED
    BY <1>1, EndInv DEF NotAdmin, HandlerUnchanged

\* Drop keeps the invariant.
LEMMA DropInv == ASSUME IInv, NEW s \in Slot, Drop(s) PROVE IInv'
  <1>1. mishap \in BOOLEAN
    BY SlotFacts DEF TableTypes
  <1>2. mishap' \in BOOLEAN /\ (mishap => mishap') /\ (Pending(s) => mishap')
    BY <1>1 DEF Drop
  <1> QED
    BY <1>2, EndInv DEF Drop, HandlerUnchanged

-----------------------------------------------------------------------------
(* Rows *)

\* A row is inserted or updated, its secret left alone.
LEMMA RowStep ==
    ASSUME IInv, NEW n \in Name, NEW w \in Row, client' = [client EXCEPT ![n] = w],
           UNCHANGED <<domain, member, held, secrets, proved, overtaken, disk>>,
           issued' \in [Name -> 0..MaxGen], mishap' \in BOOLEAN,
           \A m \in Name : m # n => issued'[m] = issued[m],
           1 <= issued'[n], w.gen <= issued'[n],
           Known(n) => /\ issued[n] <= issued'[n] /\ w.totp = client[n].totp
                       /\ (w.enrolled <=> client[n].enrolled)
                       /\ \A b \in held : b.name = n /\ b.gen = w.gen /\ ~w.revoked /\ ~w.expired
                                             => Accepted(b),
           ~Known(n) => ~w.enrolled /\ w.totp = 0
    PROVE  /\ TableTypes' /\ Evolves /\ Issued' /\ EnrolledProved' /\ DeliveredWithDomain'
           /\ client'[n] = w /\ Known(n)'
           /\ \A m \in Name : m # n => client'[m] = client[m] /\ (Known(m)' <=> Known(m))
  <1>1. TableTypes
    BY Types DEF IInv
  <1>2. /\ client' \in [Name -> Row \cup {NoClient}] /\ client'[n] = w
        /\ \A m \in Name : m # n => client'[m] = client[m]
    BY <1>1 DEF TableTypes
  <1>3. Known(n)' /\ \A m \in Name : m # n => (Known(m)' <=> Known(m))
    BY <1>2, NoClientAssumption DEF Known
  <1>4. TableTypes'
    BY <1>1, <1>2 DEF TableTypes
  <1>5. \A m \in Name : issued[m] \in Nat /\ issued'[m] \in Nat /\ secrets[m] \in Nat
    BY <1>1, IdentityAssumption DEF TableTypes
  <1>6. w.gen \in Nat /\ w.totp \in Nat
    BY IdentityAssumption DEF Row
  <1>7. Evolves
    <2>1. \A m \in Name : Known(m) => /\ Known(m)' /\ issued[m] <= issued'[m]
                                      /\ secrets[m] <= secrets'[m]
      BY <1>3, <1>5
    <2>2. ASSUME NEW b \in held, Accepted(b)' PROVE Accepted(b)
      <3>1. b.name \in Name /\ Known(b.name)
        BY <1>1, BundleFacts DEF IInv, Issued
      <3>2. CASE b.name = n
        BY <1>2, <2>2, <3>1, <3>2 DEF Accepted
      <3>3. CASE b.name # n
        BY <1>2, <1>3, <2>2, <3>1, <3>3 DEF Accepted
      <3> QED
        BY <3>2, <3>3
    <2>3. \A m \in Name : Known(m) => client'[m].totp = client[m].totp
      BY <1>2
    <2> QED
      BY <2>1, <2>2, <2>3 DEF Evolves
  <1>8. Issued'
    <2>1. \A m \in Name : Known(m)' => /\ 1 <= issued'[m] /\ client'[m].gen <= issued'[m]
                                       /\ client'[m].totp <= secrets[m]
      <3> SUFFICES ASSUME NEW m \in Name, Known(m)'
                   PROVE  /\ 1 <= issued'[m] /\ client'[m].gen <= issued'[m]
                          /\ client'[m].totp <= secrets[m]
        OBVIOUS
      <3>1. CASE m = n
        <4>1. w.totp <= secrets[n]
          BY <1>5 DEF IInv, Issued
        <4> QED
          BY <1>2, <3>1, <4>1
      <3>2. CASE m # n
        BY <1>2, <1>3, <3>2 DEF IInv, Issued
      <3> QED
        BY <3>1, <3>2
    <2>2. ASSUME NEW b \in held
          PROVE  /\ Known(b.name)' /\ b.gen <= issued'[b.name]
                 /\ b.ca = disk["ca_key"] /\ disk["server_key"] # None
      <3>1. /\ b.name \in Name /\ Known(b.name) /\ b.gen <= issued[b.name] /\ b.gen \in Nat
            /\ b.ca = disk["ca_key"] /\ disk["server_key"] # None
        BY <1>1, BundleFacts, IdentityAssumption DEF IInv, Issued
      <3>2. issued[b.name] <= issued'[b.name]
        BY <1>5, <3>1
      <3> QED
        BY <1>3, <1>5, <3>1, <3>2
    <2>3. held' = held /\ disk' = disk /\ secrets' = secrets
      OBVIOUS
    <2> QED
      BY <2>1, <2>2, <2>3 DEF Issued
  <1>9. EnrolledProved'
    <2> SUFFICES ASSUME NEW m \in Name, Known(m)', client'[m].enrolled
                 PROVE  proved[m] = client'[m].totp \/ m \in overtaken
      BY DEF EnrolledProved
    <2>1. CASE m = n
      BY <1>2, <2>1 DEF IInv, EnrolledProved
    <2>2. CASE m # n
      BY <1>2, <1>3, <2>2 DEF IInv, EnrolledProved
    <2> QED
      BY <2>1, <2>2
  <1>10. DeliveredWithDomain'
    BY DEF IInv, DeliveredWithDomain
  <1> QED
    BY <1>2, <1>3, <1>4, <1>7, <1>8, <1>9, <1>10

\* The first row of a client.
LEMMA NewRowFacts ==
    ASSUME NEW r \in Role
    PROVE  /\ NewRow(r, 1) \in Row /\ NewRow(r, 1).gen = 1 /\ NewRow(r, 1).role = r
           /\ ~NewRow(r, 1).revoked /\ ~NewRow(r, 1).enrolled /\ NewRow(r, 1).totp = 0
  <1>1. 1 \in 1..MaxGen /\ 0 \in 0..MaxSecret
    BY IdentityAssumption
  <1> QED
    BY <1>1 DEF NewRow, Row

\* CreateInsert keeps the invariant.
LEMMA CreateInsertInv == ASSUME IInv, NEW s \in Slot, CreateInsert(s) PROVE IInv'
  <1>1. /\ pc[s] = "act" /\ req[s].op = "create" /\ UNCHANGED <<files, traffic>>
        /\ UNCHANGED <<domain, member, secrets, held, mishap, proved, overtaken>>
    BY DEF CreateInsert, Doing, HandlerUnchanged
  <1>2. /\ ~Pending(s) /\ mishap \in BOOLEAN /\ SlotTypes /\ TableTypes /\ boot = "up"
        /\ req[s] \in Order /\ Target(s) \in Name /\ req[s].role \in Role
        /\ Known(Caller(s)) /\ req[s].live /\ Caller(s) \in Name
    BY <1>1, SlotFacts DEF Pending, TableTypes
  <1>3. PICK n \in Name : n = Target(s)
    BY <1>2
  <1>4. CASE Known(n)
    <2>1. End(s) /\ UNCHANGED <<client, issued>>
      BY <1>3, <1>4 DEF CreateInsert
    <2> QED
      BY <1>1, <1>2, <2>1, EndInv DEF tables
  <1>5. CASE ~Known(n)
    <2>1. /\ client' = [client EXCEPT ![n] = NewRow(req[s].role, 1)]
          /\ issued' = [issued EXCEPT ![n] = 1]
          /\ val' = [val EXCEPT ![s] = 1] /\ Goto(s, "join") /\ req' = req
      BY <1>3, <1>5 DEF CreateInsert
    <2>2. PICK w \in Row : /\ w = NewRow(req[s].role, 1) /\ w.gen = 1 /\ ~w.revoked
                           /\ ~w.enrolled /\ w.totp = 0
      BY <1>2, NewRowFacts
    <2>3. /\ issued' \in [Name -> 0..MaxGen] /\ issued'[n] = 1
          /\ \A m \in Name : m # n => issued'[m] = issued[m]
      BY <1>2, <2>1, IdentityAssumption DEF TableTypes
    <2>4. /\ TableTypes' /\ Evolves /\ Issued' /\ EnrolledProved' /\ DeliveredWithDomain'
          /\ client'[n] = w /\ Known(n)'
          /\ \A m \in Name : m # n => client'[m] = client[m] /\ (Known(m)' <=> Known(m))
      <3>1. /\ UNCHANGED <<domain, member, held, secrets, proved, overtaken, disk>>
            /\ mishap' \in BOOLEAN /\ client' = [client EXCEPT ![n] = w]
        BY <1>1, <1>2, <2>1, <2>2 DEF files
      <3>2. 1 <= issued'[n] /\ w.gen <= issued'[n]
        BY <2>2, <2>3
      <3> QED
        BY <1>5, <2>2, <2>3, <3>1, <3>2, RowStep
    <2>5. /\ pc'[s] = "join" /\ req'[s] = req[s] /\ val'[s] = 1
          /\ Caller(s)' = Caller(s) /\ Target(s)' = n
      BY <1>2, <1>3, <2>1 DEF SlotTypes, Goto, Caller, Target
    <2>6. SlotTypes' /\ \A t \in Slot : t # s => Same(t)
      <3>1. "join" \in Pcs /\ 1 \in 0..(MaxGen + MaxSecret) /\ req' = [req EXCEPT ![s] = req'[s]]
        BY <1>2, <2>1, IdentityAssumption DEF Pcs, SlotTypes
      <3> QED
        BY <1>1, <1>2, <2>1, <2>5, <3>1, OneSlot DEF Goto
    <2>7. Sound(s)'
      <3>1. Known(Caller(s))'
        BY <1>2, <2>4, <2>5 DEF Known, Evolves
      <3>2. Ordered(s)'
        BY <1>1, <1>2, <2>5, <3>1 DEF Ordered, Creating, Order
      <3>3. Bringing(s)'
        BY <1>1, <2>3, <2>4, <2>5 DEF Bringing, Creating, Known
      <3> QED
        BY <2>5, <3>2, <3>3 DEF Sound, Presented
    <2>8. Distinct'
      BY <2>5, <2>6, DistinctKept DEF Rotating
    <2>9. ASSUME ~mishap' PROVE /\ \A m \in Name : Known(m)' => Reached(m)'
                                /\ \E m \in Name : ActiveAdmin(m)'
      <3>1. ~mishap
        BY <1>1, <2>9
      <3>2. PICK a \in Name : ActiveAdmin(a)
        BY <1>2, <3>1 DEF IInv, Administered
      <3>3. ActiveAdmin(a)'
        BY <1>5, <2>4, <3>2 DEF ActiveAdmin
      <3>4. Reached(n)'
        BY <1>1, <2>2, <2>4, <2>5 DEF Reached, Pending
      <3>5. ASSUME NEW m \in Name, m # n, Known(m)' PROVE Reached(m)'
        BY <1>1, <1>2, <2>4, <2>6, <3>1, <3>5, ReachedKept, PendingKept
      <3> QED
        BY <3>3, <3>4, <3>5
    <2> QED
      BY <1>1, <1>2, <2>4, <2>6, <2>7, <2>8, <2>9, HandlerInv
  <1> QED
    BY <1>4, <1>5

\* Domains and memberships are added.
LEMMA DomainsStep ==
    ASSUME IInv, UNCHANGED <<client, issued, secrets, held, mishap, proved, overtaken, disk>>,
           domain \subseteq domain', member \subseteq member',
           domain' \subseteq Name \cup {"default"},
           member' \subseteq (Name \cup {"default"}) \X Name
    PROVE  /\ TableTypes' /\ Evolves /\ Issued' /\ EnrolledProved' /\ DeliveredWithDomain'
           /\ \A n \in Name : (Known(n)' <=> Known(n)) /\ (ActiveAdmin(n)' <=> ActiveAdmin(n))
  <1>1. TableTypes
    BY Types DEF IInv
  <1>2. TableTypes'
    BY <1>1 DEF TableTypes
  <1>3. \A n \in Name : (Known(n)' <=> Known(n)) /\ (ActiveAdmin(n)' <=> ActiveAdmin(n))
    BY DEF Known, ActiveAdmin
  <1>4. Evolves
    <2>1. \A n \in Name : issued[n] <= issued[n] /\ secrets[n] <= secrets[n]
      BY <1>1, RowFacts
    <2>2. \A b \in held : Accepted(b)' => Accepted(b)
      BY DEF Accepted, Known
    <2> QED
      BY <1>3, <2>1, <2>2 DEF Evolves
  <1>5. Issued' /\ EnrolledProved' /\ DeliveredWithDomain'
    BY DEF IInv, Issued, EnrolledProved, DeliveredWithDomain, Known
  <1> QED
    BY <1>2, <1>3, <1>4, <1>5

\* A creation goes on.
LEMMA CreateStepInv ==
    ASSUME IInv, NEW s \in Slot, pc[s] \in Creating, NEW l \in {"domain", "member", "answer"},
           Goto(s, l), UNCHANGED <<files, traffic>>,
           UNCHANGED <<client, issued, secrets, held, req, val, mishap, proved, overtaken>>,
           domain \subseteq domain', member \subseteq member',
           domain' \subseteq Name \cup {"default"},
           member' \subseteq (Name \cup {"default"}) \X Name,
           l \in {"member", "answer"} => Target(s) \in domain',
           l = "answer" => <<Target(s), Target(s)>> \in member'
    PROVE  IInv'
  <1>1. /\ mishap \in BOOLEAN /\ SlotTypes /\ TableTypes /\ boot = "up" /\ Sound(s)
        /\ req[s] \in Order /\ Known(Caller(s)) /\ req[s].live /\ Caller(s) \in Name
        /\ Target(s) \in Name
    BY SlotFacts DEF TableTypes, Creating
  <1>2. req[s].op = "create" /\ val[s] = 1 /\ Known(Target(s)) /\ 1 <= issued[Target(s)]
    BY <1>1 DEF Sound, Ordered, Bringing, Creating
  <1>3. /\ TableTypes' /\ Evolves /\ Issued' /\ EnrolledProved' /\ DeliveredWithDomain'
        /\ \A n \in Name : (Known(n)' <=> Known(n)) /\ (ActiveAdmin(n)' <=> ActiveAdmin(n))
    BY DomainsStep DEF files
  <1>4. /\ pc'[s] = l /\ req'[s] = req[s] /\ val'[s] = val[s] /\ l \in Pcs
        /\ Caller(s)' = Caller(s) /\ Target(s)' = Target(s)
    BY <1>1 DEF Goto, SlotTypes, Caller, Target, Pcs
  <1>5. SlotTypes' /\ \A t \in Slot : t # s => Same(t)
    <2>1. /\ req' = [req EXCEPT ![s] = req'[s]] /\ val' = [val EXCEPT ![s] = val'[s]]
          /\ val'[s] \in 0..(MaxGen + MaxSecret)
      BY <1>1 DEF SlotTypes
    <2> QED
      BY <1>1, <1>4, <2>1, OneSlot DEF Goto
  <1>6. Sound(s)'
    <2>1. Known(Caller(s))' /\ Known(Target(s))'
      BY <1>1, <1>2, <1>4 DEF Known
    <2>2. Ordered(s)'
      BY <1>1, <1>2, <1>4, <2>1 DEF Ordered, Creating, Order
    <2>3. Bringing(s)'
      BY <1>1, <1>2, <1>4, <2>1 DEF Bringing, Creating
    <2> QED
      BY <1>4, <2>2, <2>3 DEF Sound, Presented
  <1>7. Distinct'
    BY <1>2, <1>4, <1>5, DistinctKept DEF Rotating
  <1>8. ASSUME ~mishap' PROVE /\ \A m \in Name : Known(m)' => Reached(m)'
                              /\ \E m \in Name : ActiveAdmin(m)'
    <2>1. ~mishap
      BY <1>8
    <2>2. \E a \in Name : ActiveAdmin(a)'
      BY <1>1, <1>3, <2>1 DEF IInv, Administered
    <2>3. Pending(s) => Pending(s)' /\ Target(s)' = Target(s) /\ val'[s] = val[s]
      BY <1>2, <1>4 DEF Pending
    <2>4. ASSUME NEW m \in Name, Known(m)' PROVE Reached(m)'
      BY <1>1, <1>3, <1>5, <2>1, <2>3, <2>4, ReachedKept, PendingKept
    <2> QED
      BY <2>2, <2>4
  <1> QED
    BY <1>1, <1>3, <1>5, <1>6, <1>7, <1>8, HandlerInv

\* CreateJoin keeps the invariant.
LEMMA CreateJoinInv == ASSUME IInv, NEW s \in Slot, CreateJoin(s) PROVE IInv'
  <1>1. pc[s] \in Creating /\ Target(s) \in Name /\ TableTypes
    BY SlotFacts DEF CreateJoin, Creating
  <1>2. member' \subseteq (Name \cup {"default"}) \X Name /\ domain' = domain
    BY <1>1 DEF CreateJoin, TableTypes
  <1>3. domain' \subseteq Name \cup {"default"} /\ member \subseteq member'
    BY <1>1, <1>2 DEF CreateJoin, TableTypes
  <1> QED
    BY <1>1, <1>2, <1>3, CreateStepInv DEF CreateJoin, HandlerUnchanged

\* CreateDomain keeps the invariant.
LEMMA CreateDomainInv == ASSUME IInv, NEW s \in Slot, CreateDomain(s) PROVE IInv'
  <1>1. pc[s] \in Creating /\ Target(s) \in Name /\ TableTypes
    BY SlotFacts DEF CreateDomain, Creating
  <1>2. /\ domain' \subseteq Name \cup {"default"} /\ domain \subseteq domain'
        /\ Target(s) \in domain' /\ member' = member
        /\ member' \subseteq (Name \cup {"default"}) \X Name
    BY <1>1 DEF CreateDomain, TableTypes
  <1> QED
    BY <1>1, <1>2, CreateStepInv DEF CreateDomain, HandlerUnchanged

\* CreateMember keeps the invariant.
LEMMA CreateMemberInv == ASSUME IInv, NEW s \in Slot, CreateMember(s) PROVE IInv'
  <1>1. pc[s] \in Creating /\ pc[s] = "member" /\ Target(s) \in Name /\ TableTypes /\ Sound(s)
    BY SlotFacts DEF CreateMember, Creating
  <1>2. Target(s) \in domain
    BY <1>1 DEF Sound, Ordered, Bringing
  <1>3. /\ domain' \subseteq Name \cup {"default"} /\ domain' = domain
        /\ <<Target(s), Target(s)>> \in member' /\ member \subseteq member'
        /\ member' \subseteq (Name \cup {"default"}) \X Name
    BY <1>1 DEF CreateMember, TableTypes
  <1> QED
    BY <1>1, <1>2, <1>3, CreateStepInv DEF CreateMember, HandlerUnchanged

\* The answer brings the bundle into someone's hands.
LEMMA AnswerBundleInv == ASSUME IInv, NEW s \in Slot, AnswerBundle(s) PROVE IInv'
  <1>1. /\ pc[s] = "answer" /\ End(s) /\ UNCHANGED <<files, traffic>>
        /\ UNCHANGED <<tables, mishap, proved, overtaken>>
    BY DEF AnswerBundle, HandlerUnchanged
  <1>2. /\ SlotTypes /\ TableTypes /\ FileTypes /\ boot = "up" /\ Sound(s)
        /\ req[s] \in Order /\ Target(s) \in Name /\ val[s] \in Nat
    BY <1>1, SlotFacts
  <1>3. PICK n \in Name : n = Target(s)
    BY <1>2
  <1>4. /\ Known(n) /\ val[s] <= issued[n] /\ 1 <= val[s] /\ req[s].op \in {"create", "rotate"}
        /\ req[s].op = "create" => val[s] = 1 /\ n \in domain /\ <<n, n>> \in member
        /\ req[s].op = "rotate" => 2 <= val[s]
    BY <1>1, <1>2, <1>3 DEF Sound, Ordered, Bringing
  <1>5. ca = disk["ca_key"] /\ disk["server_key"] # None /\ disk' = disk /\ ca \in 1..MaxBoot
    <2>1. ca = disk["ca_key"] /\ disk["server_key"] # None /\ disk' = disk /\ disk["ca_key"] > 0
      BY <1>1, <1>2 DEF IInv, Booting, Volume, Provisioned, Admins, files
    <2> QED
      BY <1>2, <2>1, IdentityAssumption DEF FileTypes
  <1>6. PICK b : b = [name |-> n, gen |-> val[s], ca |-> ca]
    OBVIOUS
  <1>7. b \in Bundle /\ b.name = n /\ b.gen = val[s] /\ b.ca = ca
    <2>1. issued[n] \in 0..MaxGen
      BY <1>2, RowFacts
    <2>2. val[s] \in 1..MaxGen
      BY <1>2, <1>4, <2>1, IdentityAssumption
    <2> QED
      BY <1>5, <1>6, <2>2 DEF Bundle
  <1>8. held' = held \cup {b} /\ UNCHANGED <<client, domain, member, issued, secrets>>
    BY <1>1, <1>3, <1>6 DEF AnswerBundle, tables
  <1>9. /\ SlotTypes' /\ (\A t \in Slot : t # s => Same(t)) /\ Sound(s)' /\ Distinct'
    BY <1>1, EndFacts
  <1>10. TableTypes'
    BY <1>1, <1>2, <1>7, <1>8 DEF TableTypes
  <1>11. Evolves
    <2>1. \A m \in Name : issued[m] <= issued[m] /\ secrets[m] <= secrets[m]
      BY <1>2, RowFacts
    <2>2. \A c \in held : Accepted(c)' => Accepted(c)
      BY <1>8 DEF Accepted, Known
    <2>3. ASSUME NEW t \in Slot, pc[t] = "update", n = Target(t) PROVE val[s] # val[t]
      <3>1. req[t].op = "rotate" /\ Sound(t) /\ s # t
        BY <1>1, <2>3, SlotFacts DEF Sound, Ordered
      <3>2. 2 <= val[t]
        BY <2>3, <3>1 DEF Sound, Bringing
      <3>3. CASE req[s].op = "create"
        BY <1>4, <3>2, <3>3
      <3>4. CASE req[s].op = "rotate"
        BY <1>1, <1>3, <2>3, <3>1, <3>4 DEF IInv, Distinct, Rotating
      <3> QED
        BY <1>4, <3>3, <3>4
    <2>4. \A m \in Name : Known(m)' <=> Known(m)
      BY <1>8 DEF Known
    <2> QED
      BY <1>1, <1>7, <1>8, <2>1, <2>2, <2>3, <2>4 DEF Evolves
  <1>12. Issued'
    BY <1>4, <1>5, <1>7, <1>8 DEF IInv, Issued, Known
  <1>13. EnrolledProved'
    BY <1>1, <1>8 DEF IInv, EnrolledProved, Known
  <1>14. DeliveredWithDomain'
    <2>1. b.name # "admin" /\ b.gen = 1 => b.name \in domain /\ <<b.name, b.name>> \in member
      BY <1>4, <1>7
    <2> QED
      BY <1>8, <2>1 DEF IInv, DeliveredWithDomain
  <1>15. ASSUME ~mishap' PROVE /\ \A m \in Name : Known(m)' => Reached(m)'
                               /\ \E m \in Name : ActiveAdmin(m)'
    <2>1. ~mishap
      BY <1>1, <1>15
    <2>2. \E a \in Name : ActiveAdmin(a)'
      BY <1>2, <1>8, <2>1 DEF IInv, Administered, ActiveAdmin, Known
    <2>3. ASSUME NEW m \in Name, Known(m)' PROVE Reached(m)'
      <3>1. Known(m) /\ client'[m].gen = client[m].gen /\ held \subseteq held'
        BY <1>8, <2>3 DEF Known
      <3>2. \A t \in Slot : Pending(t) /\ Target(t) = m /\ val[t] = client[m].gen =>
               \/ Pending(t)' /\ Target(t)' = m /\ val'[t] = val[t]
               \/ [name |-> m, gen |-> val[t], ca |-> ca] \in held'
        BY <1>3, <1>6, <1>8, <1>9, PendingKept
      <3> QED
        BY <1>1, <1>2, <2>1, <3>1, <3>2, ReachedKept
    <2> QED
      BY <2>2, <2>3
  <1> QED
    BY <1>1, <1>2, <1>9, <1>10, <1>11, <1>12, <1>13, <1>14, <1>15, HandlerInv

\* RotateSelect keeps the invariant.
LEMMA RotateSelectInv == ASSUME IInv, NEW s \in Slot, RotateSelect(s) PROVE IInv'
  <1>1. /\ pc[s] = "act" /\ req[s].op = "rotate" /\ UNCHANGED <<files, traffic>>
        /\ UNCHANGED <<client, domain, member, secrets, held, mishap, proved, overtaken>>
    BY DEF RotateSelect, Doing, HandlerUnchanged
  <1>2. /\ ~Pending(s) /\ mishap \in BOOLEAN /\ SlotTypes /\ TableTypes /\ boot = "up"
        /\ req[s] \in Order /\ Target(s) \in Name
        /\ Known(Caller(s)) /\ req[s].live /\ Caller(s) \in Name
    BY <1>1, SlotFacts DEF Pending, TableTypes
  <1>3. PICK n \in Name : n = Target(s)
    BY <1>2
  <1>4. CASE ~(Known(n) /\ ~client[n].revoked)
    <2>1. End(s) /\ issued' = issued
      BY <1>3, <1>4 DEF RotateSelect
    <2> QED
      BY <1>1, <1>2, <2>1, EndInv DEF tables
  <1>5. CASE Known(n) /\ ~client[n].revoked
    <2>1. /\ issued[n] < MaxGen /\ issued' = [issued EXCEPT ![n] = issued[n] + 1]
          /\ val' = [val EXCEPT ![s] = issued[n] + 1] /\ Goto(s, "update") /\ req' = req
      BY <1>3, <1>5 DEF RotateSelect
    <2>2. /\ issued[n] \in Nat /\ 1 <= issued[n] /\ issued \in [Name -> Nat]
          /\ \A m \in Name : secrets[m] \in Nat
      BY <1>2, <1>5, RowFacts, IdentityAssumption DEF IInv, Issued, TableTypes
    <2>3. /\ issued'[n] = issued[n] + 1 /\ issued' \in [Name -> 0..MaxGen]
          /\ \A m \in Name : issued[m] <= issued'[m]
      BY <1>2, <2>1, <2>2, IdentityAssumption DEF TableTypes
    <2>4. /\ pc'[s] = "update" /\ req'[s] = req[s] /\ val'[s] = issued[n] + 1
          /\ Caller(s)' = Caller(s) /\ Target(s)' = n
      BY <1>2, <1>3, <2>1 DEF SlotTypes, Goto, Caller, Target
    <2>5. SlotTypes' /\ \A t \in Slot : t # s => Same(t)
      <3>1. /\ "update" \in Pcs /\ issued[n] + 1 \in 0..(MaxGen + MaxSecret)
            /\ req' = [req EXCEPT ![s] = req'[s]]
        BY <1>2, <2>1, <2>2, IdentityAssumption DEF Pcs, SlotTypes
      <3> QED
        BY <1>1, <1>2, <2>1, <2>4, <3>1, OneSlot DEF Goto
    <2>6. TableTypes'
      BY <1>1, <1>2, <2>3 DEF TableTypes
    <2>7. \A m \in Name : (Known(m)' <=> Known(m)) /\ (ActiveAdmin(m)' <=> ActiveAdmin(m))
      BY <1>1 DEF Known, ActiveAdmin
    <2>8. Evolves
      <3>1. \A b \in held : Accepted(b)' => Accepted(b)
        BY <1>1 DEF Accepted, Known
      <3> QED
        BY <1>1, <2>2, <2>3, <2>7, <3>1 DEF Evolves
    <2>9. Issued'
      <3>1. \A m \in Name : Known(m)' => /\ 1 <= issued'[m] /\ client'[m].gen <= issued'[m]
                                         /\ client'[m].totp <= secrets'[m]
        <4> SUFFICES ASSUME NEW m \in Name, Known(m)
                     PROVE  /\ 1 <= issued'[m] /\ client[m].gen <= issued'[m]
                            /\ client[m].totp <= secrets[m]
          BY <1>1, <2>7
        <4>1. /\ 1 <= issued[m] /\ client[m].gen <= issued[m] /\ client[m].totp <= secrets[m]
          BY DEF IInv, Issued
        <4>2. issued[m] \in Nat /\ issued'[m] \in Nat /\ client[m].gen \in Nat
          BY <1>2, <2>2, <2>3, RowFacts, IdentityAssumption
        <4> QED
          BY <2>3, <4>1, <4>2
      <3>2. ASSUME NEW b \in held' PROVE Known(b.name)' /\ b.gen <= issued'[b.name]
        <4>1. b \in held /\ b.name \in Name /\ Known(b.name) /\ b.gen <= issued[b.name]
              /\ b.gen \in Nat
          BY <1>1, <1>2, <3>2, BundleFacts, IdentityAssumption DEF IInv, Issued
        <4>2. PICK m \in Name : m = b.name
          BY <4>1
        <4>3. issued[m] \in Nat /\ issued'[m] \in Nat
          BY <2>2, <2>3, IdentityAssumption
        <4> QED
          BY <2>3, <2>7, <4>1, <4>2, <4>3
      <3> QED
        BY <1>1, <3>1, <3>2 DEF IInv, Issued, files
    <2>10. EnrolledProved' /\ DeliveredWithDomain'
      BY <1>1 DEF IInv, EnrolledProved, DeliveredWithDomain, Known
    <2>11. Sound(s)'
      <3>1. Known(Caller(s))' /\ Known(Target(s))'
        BY <1>1, <1>2, <1>5, <2>4 DEF Known
      <3>2. Ordered(s)'
        BY <1>1, <1>2, <2>4, <3>1 DEF Ordered, Creating, Order
      <3>3. \A b \in held' : b.name = n => b.gen # issued[n] + 1
        <4>1. \A b \in held : b.gen \in Nat
          BY <1>2, BundleFacts, IdentityAssumption
        <4> QED
          BY <1>1, <2>2, <4>1 DEF IInv, Issued
      <3>4. Bringing(s)'
        BY <1>1, <2>2, <2>3, <2>4, <3>1, <3>3 DEF Bringing, Creating
      <3> QED
        BY <2>4, <3>2, <3>4 DEF Sound, Presented
    <2>12. Distinct'
      <3>1. ASSUME NEW t \in Slot, t # s, Rotating(t)', Target(t)' = n
            PROVE  val'[t] # val'[s]
        <4>1. Rotating(t) /\ Target(t) = n /\ val'[t] = val[t] /\ val[t] \in Nat
          BY <2>5, <3>1, SlotFacts DEF Same, Rotating, Target
        <4>2. val[t] <= issued[n]
          BY <4>1, SlotFacts DEF Sound, Bringing, Rotating
        <4> QED
          BY <2>2, <2>4, <4>1, <4>2
      <3>2. ASSUME NEW t \in Slot, NEW u \in Slot, t # u, t # s, u # s, Rotating(t)', Rotating(u)',
                   Target(t)' = Target(u)'
            PROVE  val'[t] # val'[u]
        <4>1. /\ Rotating(t) /\ Rotating(u) /\ Target(t) = Target(u)
              /\ val'[t] = val[t] /\ val'[u] = val[u]
          BY <2>5, <3>2 DEF Same, Rotating, Target
        <4> QED
          BY <3>2, <4>1 DEF IInv, Distinct
      <3> QED
        BY <2>4, <3>1, <3>2 DEF Distinct
    <2>13. ASSUME ~mishap' PROVE /\ \A m \in Name : Known(m)' => Reached(m)'
                                 /\ \E m \in Name : ActiveAdmin(m)'
      <3>1. ~mishap
        BY <1>1, <2>13
      <3>2. \E a \in Name : ActiveAdmin(a)'
        BY <1>2, <2>7, <3>1 DEF IInv, Administered
      <3>3. ASSUME NEW m \in Name, Known(m)' PROVE Reached(m)'
        BY <1>1, <1>2, <2>5, <2>7, <3>1, <3>3, ReachedKept, PendingKept
      <3> QED
        BY <3>2, <3>3
    <2> QED
      BY <1>1, <1>2, <2>5, <2>6, <2>8, <2>9, <2>10, <2>11, <2>12, <2>13, HandlerInv
  <1> QED
    BY <1>4, <1>5

\* The row gets the bundle that the rotation has issued and nobody holds.
LEMMA RotateUpdateInv == ASSUME IInv, NEW s \in Slot, RotateUpdate(s) PROVE IInv'
  <1>1. /\ pc[s] = "update" /\ Goto(s, "answer") /\ UNCHANGED <<files, traffic>>
        /\ UNCHANGED <<domain, member, issued, secrets, held, req, val, mishap, proved, overtaken>>
        /\ client' = [client EXCEPT ![Target(s)].gen = val[s], ![Target(s)].expired = FALSE]
    BY DEF RotateUpdate, HandlerUnchanged
  <1>2. /\ ~Pending(s) /\ mishap \in BOOLEAN /\ SlotTypes /\ TableTypes /\ boot = "up" /\ Sound(s)
        /\ req[s] \in Order /\ Target(s) \in Name /\ val[s] \in Nat
        /\ Known(Caller(s)) /\ req[s].live /\ Caller(s) \in Name
    BY <1>1, SlotFacts DEF Pending, TableTypes
  <1>3. PICK n \in Name : n = Target(s)
    BY <1>2
  <1>4. /\ req[s].op = "rotate" /\ Known(n) /\ val[s] <= issued[n] /\ 2 <= val[s]
        /\ \A b \in held : b.name = n => b.gen # val[s]
    BY <1>1, <1>2, <1>3 DEF Sound, Ordered, Bringing
  <1>5. /\ client[n] \in Row /\ issued[n] \in 0..MaxGen /\ issued[n] \in Nat
        /\ val[s] \in 1..MaxGen
    <2>1. client[n] \in Row /\ issued[n] \in 0..MaxGen
      BY <1>2, <1>4, RowFacts
    <2> QED
      BY <1>2, <1>4, <2>1, IdentityAssumption
  <1>w. PICK w : w = [client[n] EXCEPT !.gen = val[s], !.expired = FALSE]
    OBVIOUS
  <1>6. /\ w \in Row /\ w = [client[n] EXCEPT !.gen = val[s], !.expired = FALSE]
        /\ w.gen = val[s] /\ w.totp = client[n].totp /\ w.role = client[n].role
        /\ (w.enrolled <=> client[n].enrolled) /\ (w.revoked <=> client[n].revoked)
    BY <1>w, <1>5 DEF Row
  <1>7. client' = [client EXCEPT ![n] = w]
    BY <1>1, <1>2, <1>3, <1>6 DEF TableTypes
  <1>8. /\ TableTypes' /\ Evolves /\ Issued' /\ EnrolledProved' /\ DeliveredWithDomain'
        /\ client'[n] = w /\ Known(n)'
        /\ \A m \in Name : m # n => client'[m] = client[m] /\ (Known(m)' <=> Known(m))
    <2>1. /\ UNCHANGED <<domain, member, held, secrets, proved, overtaken, disk>>
          /\ mishap' \in BOOLEAN /\ issued' = issued /\ issued' \in [Name -> 0..MaxGen]
      BY <1>1, <1>2 DEF files, TableTypes
    <2>2. 1 <= issued'[n] /\ w.gen <= issued'[n] /\ issued[n] <= issued'[n]
      BY <1>1, <1>2, <1>4, <1>5, <1>6
    <2>3. Known(n) => /\ issued[n] <= issued'[n] /\ w.totp = client[n].totp
                      /\ (w.enrolled <=> client[n].enrolled)
                      /\ \A b \in held : b.name = n /\ b.gen = w.gen /\ ~w.revoked /\ ~w.expired
                                            => Accepted(b)
      BY <1>4, <1>6, <2>2
    <2> QED
      BY <1>4, <1>6, <1>7, <2>1, <2>2, <2>3, RowStep
  <1>9. /\ pc'[s] = "answer" /\ req'[s] = req[s] /\ val'[s] = val[s]
        /\ Caller(s)' = Caller(s) /\ Target(s)' = n
    BY <1>1, <1>2, <1>3 DEF SlotTypes, Goto, Caller, Target
  <1>10. SlotTypes' /\ \A t \in Slot : t # s => Same(t)
    <2>1. /\ "answer" \in Pcs /\ req' = [req EXCEPT ![s] = req'[s]]
          /\ val' = [val EXCEPT ![s] = val'[s]] /\ val'[s] \in 0..(MaxGen + MaxSecret)
      BY <1>1, <1>2 DEF Pcs, SlotTypes
    <2> QED
      BY <1>1, <1>2, <1>9, <2>1, OneSlot DEF Goto
  <1>11. Sound(s)'
    <2>1. Known(Caller(s))'
      BY <1>2, <1>8, <1>9 DEF Known, Evolves
    <2>2. Ordered(s)'
      BY <1>2, <1>4, <1>9, <2>1 DEF Ordered, Creating, Order
    <2>3. Bringing(s)'
      BY <1>1, <1>4, <1>8, <1>9 DEF Bringing, Creating, Known
    <2> QED
      BY <1>9, <2>2, <2>3 DEF Sound, Presented
  <1>12. Distinct'
    BY <1>1, <1>3, <1>4, <1>9, <1>10, DistinctKept DEF Rotating
  <1>13. ASSUME ~mishap' PROVE /\ \A m \in Name : Known(m)' => Reached(m)'
                               /\ \E m \in Name : ActiveAdmin(m)'
    <2>1. ~mishap
      BY <1>1, <1>13
    <2>2. PICK a \in Name : ActiveAdmin(a)
      BY <1>2, <2>1 DEF IInv, Administered
    <2>3. ActiveAdmin(a)'
      BY <1>6, <1>8, <2>2 DEF ActiveAdmin
    <2>4. Reached(n)'
      <3>1. val'[s] > 0 /\ Pending(s)'
        BY <1>2, <1>4, <1>9 DEF Pending
      <3> QED
        BY <1>6, <1>8, <1>9, <3>1 DEF Reached
    <2>5. ASSUME NEW m \in Name, m # n, Known(m)' PROVE Reached(m)'
      BY <1>1, <1>2, <1>8, <1>10, <2>1, <2>5, ReachedKept, PendingKept
    <2> QED
      BY <2>3, <2>4, <2>5
  <1> QED
    BY <1>1, <1>2, <1>8, <1>10, <1>11, <1>12, <1>13, HandlerInv

\* A row is revoked or expires: what is not accepted stays so.
LEMMA MarkFacts ==
    ASSUME IInv, NEW n \in Name, Known(n), mishap' \in BOOLEAN, NEW w \in Row,
           client' = [client EXCEPT ![n] = w],
           UNCHANGED <<domain, member, issued, held, secrets, proved, overtaken, disk>>,
           w.gen = client[n].gen, w.totp = client[n].totp, (w.enrolled <=> client[n].enrolled),
           client[n].revoked => w.revoked, client[n].expired => w.expired
    PROVE  /\ TableTypes' /\ Evolves /\ Issued' /\ EnrolledProved' /\ DeliveredWithDomain'
           /\ client'[n] = w /\ Known(n)'
           /\ \A m \in Name : /\ m # n => client'[m] = client[m]
                              /\ (Known(m)' <=> Known(m))
                              /\ Known(m) => client'[m].gen = client[m].gen
  <1>1. TableTypes
    BY Types DEF IInv
  <1>2. /\ issued' = issued /\ issued' \in [Name -> 0..MaxGen]
        /\ 1 <= issued'[n] /\ w.gen <= issued'[n] /\ issued[n] <= issued'[n]
    BY <1>1, RowFacts DEF IInv, Issued, TableTypes
  <1>3. \A b \in held : b.name = n /\ b.gen = w.gen /\ ~w.revoked /\ ~w.expired => Accepted(b)
    BY DEF Accepted
  <1>4. Known(n) => /\ issued[n] <= issued'[n] /\ w.totp = client[n].totp
                    /\ (w.enrolled <=> client[n].enrolled)
                    /\ \A b \in held : b.name = n /\ b.gen = w.gen /\ ~w.revoked /\ ~w.expired
                                          => Accepted(b)
    BY <1>2, <1>3
  <1>5. /\ TableTypes' /\ Evolves /\ Issued' /\ EnrolledProved' /\ DeliveredWithDomain'
        /\ client'[n] = w /\ Known(n)'
        /\ \A m \in Name : m # n => client'[m] = client[m] /\ (Known(m)' <=> Known(m))
    BY <1>2, <1>4, RowStep
  <1> QED
    BY <1>5

\* Revoke keeps the invariant.
LEMMA RevokeInv == ASSUME IInv, NEW s \in Slot, Revoke(s) PROVE IInv'
  <1>1. /\ pc[s] = "act" /\ req[s].op = "revoke" /\ UNCHANGED <<files, traffic>> /\ End(s)
        /\ UNCHANGED <<domain, member, issued, secrets, held, proved, overtaken>>
        /\ mishap' = (mishap \/ client[Caller(s)].revoked) /\ IsAdmin(s)
    BY DEF Revoke, Doing, HandlerUnchanged
  <1>2. /\ ~Pending(s) /\ mishap \in BOOLEAN /\ SlotTypes /\ TableTypes /\ boot = "up"
        /\ Target(s) \in Name /\ Known(Caller(s)) /\ Caller(s) \in Name
    BY <1>1, SlotFacts DEF Pending, TableTypes
  <1>3. PICK n \in Name, c \in Name : n = Target(s) /\ c = Caller(s)
    BY <1>2
  <1>4. mishap' \in BOOLEAN /\ (mishap => mishap') /\ (client[c].revoked => mishap')
    BY <1>1, <1>2, <1>3
  <1>5. CASE n # c /\ Known(n)
    <2>1. client' = [client EXCEPT ![n].revoked = TRUE]
      BY <1>3, <1>5 DEF Revoke
    <2>2. client[n] \in Row
      BY <1>2, <1>5, RowFacts
    <2>w. PICK w : w = [client[n] EXCEPT !.revoked = TRUE]
      OBVIOUS
    <2>3. /\ w \in Row /\ w = [client[n] EXCEPT !.revoked = TRUE] /\ w.revoked
          /\ w.gen = client[n].gen /\ w.totp = client[n].totp
          /\ (w.enrolled <=> client[n].enrolled) /\ (w.expired <=> client[n].expired)
      BY <2>w, <2>2 DEF Row
    <2>4. client' = [client EXCEPT ![n] = w]
      BY <1>2, <2>1, <2>3 DEF TableTypes
    <2>5. UNCHANGED <<domain, member, issued, held, secrets, proved, overtaken, disk>>
      BY <1>1 DEF files
    <2>6. /\ TableTypes' /\ Evolves /\ Issued' /\ EnrolledProved' /\ DeliveredWithDomain'
          /\ client'[n] = w /\ Known(n)'
          /\ \A m \in Name : /\ m # n => client'[m] = client[m]
                             /\ (Known(m)' <=> Known(m))
                             /\ Known(m) => client'[m].gen = client[m].gen
      BY <1>4, <1>5, <2>3, <2>4, <2>5, MarkFacts
    <2>7. /\ SlotTypes' /\ (\A t \in Slot : t # s => Same(t)) /\ Sound(s)' /\ Distinct'
      BY <1>1, EndFacts
    <2>8. ASSUME ~mishap' PROVE /\ \A m \in Name : Known(m)' => Reached(m)'
                                /\ \E m \in Name : ActiveAdmin(m)'
      <3>1. ~mishap /\ ~client[c].revoked
        BY <1>4, <2>8
      <3>2. ActiveAdmin(c)'
        BY <1>1, <1>2, <1>3, <1>5, <2>6, <3>1 DEF ActiveAdmin, IsAdmin
      <3>3. ASSUME NEW m \in Name, Known(m)' PROVE Reached(m)'
        BY <1>1, <1>2, <2>6, <2>7, <3>1, <3>3, ReachedKept, PendingKept
      <3> QED
        BY <3>2, <3>3
    <2> QED
      BY <1>1, <1>2, <2>6, <2>7, <2>8, HandlerInv
  <1>6. CASE ~(n # c /\ Known(n))
    <2>1. client' = client
      BY <1>3, <1>6 DEF Revoke
    <2> QED
      BY <1>1, <1>2, <1>4, <2>1, EndInv DEF tables
  <1> QED
    BY <1>5, <1>6

\* Expire keeps the invariant.
LEMMA ExpireInv == ASSUME IInv, NEW n \in Name, Expire(n) PROVE IInv'
  <1>1. /\ boot = "up" /\ Known(n) /\ UNCHANGED files /\ UNCHANGED local
        /\ client' = [client EXCEPT ![n].expired = TRUE]
        /\ mishap' = (mishap \/ client[n].role = "admin")
        /\ UNCHANGED <<domain, member, issued, secrets, held, proved, overtaken>>
    BY DEF Expire
  <1>2. TableTypes /\ SlotTypes /\ mishap \in BOOLEAN
    BY Types DEF IInv, TableTypes
  <1>3. mishap' \in BOOLEAN /\ (mishap => mishap')
    BY <1>1, <1>2
  <1>4. client[n] \in Row
    BY <1>1, <1>2, RowFacts
  <1>w. PICK w : w = [client[n] EXCEPT !.expired = TRUE]
    OBVIOUS
  <1>5. /\ w \in Row /\ w = [client[n] EXCEPT !.expired = TRUE] /\ w.expired
        /\ w.gen = client[n].gen /\ w.totp = client[n].totp
        /\ (w.enrolled <=> client[n].enrolled) /\ (w.revoked <=> client[n].revoked)
        /\ w.role = client[n].role
    BY <1>w, <1>4 DEF Row
  <1>6. client' = [client EXCEPT ![n] = w]
    BY <1>1, <1>2, <1>5 DEF TableTypes
  <1>7. UNCHANGED <<domain, member, issued, held, secrets, proved, overtaken, disk>>
    BY <1>1 DEF files
  <1>8. /\ TableTypes' /\ Evolves /\ Issued' /\ EnrolledProved' /\ DeliveredWithDomain'
        /\ client'[n] = w /\ Known(n)'
        /\ \A m \in Name : /\ m # n => client'[m] = client[m]
                           /\ (Known(m)' <=> Known(m))
                           /\ Known(m) => client'[m].gen = client[m].gen
    BY <1>1, <1>3, <1>5, <1>6, <1>7, MarkFacts
  <1>9. SlotTypes' /\ (\A t \in Slot : Same(t)) /\ Distinct'
    BY <1>1, <1>2 DEF SlotTypes, Same, IInv, Distinct, Rotating, Target, local
  <1>10. ASSUME ~mishap' PROVE /\ \A m \in Name : Known(m)' => Reached(m)'
                               /\ \E m \in Name : ActiveAdmin(m)'
    <2>1. ~mishap
      BY <1>3, <1>10
    <2>2. PICK a \in Name : ActiveAdmin(a)
      BY <1>1, <2>1 DEF IInv, Administered
    <2>3. ActiveAdmin(a)'
      BY <1>5, <1>8, <2>2 DEF ActiveAdmin
    <2>4. ASSUME NEW m \in Name, Known(m)' PROVE Reached(m)'
      BY <1>1, <1>8, <1>9, <2>1, <2>4, ReachedKept, PendingKept
    <2> QED
      BY <2>3, <2>4
  <1> QED
    BY <1>1, <1>8, <1>9, <1>10, HandlerInv

-----------------------------------------------------------------------------
(* TOTP *)

\* A secret is stored or confirmed.
LEMMA TotpStep ==
    ASSUME IInv, NEW s \in Slot, pc[s] # "idle", ~Pending(s), End(s), UNCHANGED <<files, traffic>>,
           NEW n \in Name, Known(n), NEW w \in Row, client' = [client EXCEPT ![n] = w],
           UNCHANGED <<domain, member, issued, held, mishap, proved>>,
           secrets' \in [Name -> 0..MaxSecret], overtaken' \subseteq Name,
           \A m \in Name : m # n => secrets'[m] = secrets[m],
           \A m \in Name : m # n => (m \in overtaken' <=> m \in overtaken),
           w.gen = client[n].gen, (w.revoked <=> client[n].revoked), (w.expired <=> client[n].expired),
           w.role = client[n].role, secrets[n] <= secrets'[n], w.totp <= secrets'[n],
           w.totp = client[n].totp \/ w.totp > secrets[n],
           w.enrolled => proved[n] = w.totp \/ n \in overtaken'
    PROVE  IInv'
  <1>1. TableTypes /\ boot = "up" /\ mishap \in BOOLEAN
    BY SlotFacts DEF TableTypes
  <1>2. /\ client' \in [Name -> Row \cup {NoClient}] /\ client'[n] = w
        /\ \A m \in Name : m # n => client'[m] = client[m]
    BY <1>1 DEF TableTypes
  <1>3. \A m \in Name : (Known(m)' <=> Known(m)) /\ (ActiveAdmin(m)' <=> ActiveAdmin(m))
    BY <1>2, NoClientAssumption DEF Known, ActiveAdmin
  <1>4. TableTypes'
    BY <1>1, <1>2 DEF TableTypes
  <1>5. \A m \in Name : Known(m) => client'[m].gen = client[m].gen
    BY <1>2
  <1>6. \A m \in Name : secrets[m] \in Nat /\ secrets'[m] \in Nat /\ secrets[m] <= secrets'[m]
                        /\ issued[m] \in Nat
    BY <1>1, IdentityAssumption DEF TableTypes
  <1>7. w.totp \in Nat
    BY IdentityAssumption DEF Row
  <1>8. Evolves
    <2>1. ASSUME NEW b \in held, Accepted(b)' PROVE Accepted(b)
      <3>1. b.name \in Name
        BY <1>1, BundleFacts
      <3> QED
        BY <1>2, <1>3, <2>1, <3>1 DEF Accepted
    <2>2. ASSUME NEW m \in Name, Known(m), NEW v \in 1..secrets[m],
                 v = client[m].totp => proved[m] = v, v = client'[m].totp
          PROVE  proved'[m] = v
      <3>1. CASE m = n
        BY <1>2, <1>6, <1>7, <2>2, <3>1
      <3>2. CASE m # n
        BY <1>2, <2>2, <3>2
      <3> QED
        BY <3>1, <3>2
    <2> QED
      BY <1>3, <1>6, <2>1, <2>2 DEF Evolves
  <1>9. Issued'
    <2>1. \A m \in Name : Known(m) => /\ 1 <= issued[m] /\ client'[m].gen <= issued[m]
                                      /\ client'[m].totp <= secrets'[m]
      BY <1>2, <1>5 DEF IInv, Issued
    <2>2. \A b \in held : b.name \in Name
      BY <1>1, BundleFacts
    <2> QED
      BY <1>3, <2>1, <2>2 DEF IInv, Issued, files
  <1>10. EnrolledProved'
    <2> SUFFICES ASSUME NEW m \in Name, Known(m), client'[m].enrolled
                 PROVE  proved[m] = client'[m].totp \/ m \in overtaken'
      BY <1>3 DEF EnrolledProved
    <2>1. CASE m = n
      BY <1>2, <2>1
    <2>2. CASE m # n
      BY <1>2, <2>2 DEF IInv, EnrolledProved
    <2> QED
      BY <2>1, <2>2
  <1>11. DeliveredWithDomain'
    BY DEF IInv, DeliveredWithDomain
  <1>12. /\ SlotTypes' /\ (\A t \in Slot : t # s => Same(t)) /\ Sound(s)' /\ Distinct'
    BY EndFacts
  <1>13. ASSUME ~mishap' PROVE /\ \A m \in Name : Known(m)' => Reached(m)'
                               /\ \E m \in Name : ActiveAdmin(m)'
    <2>1. ~mishap
      BY <1>13
    <2>2. \E a \in Name : ActiveAdmin(a)'
      BY <1>1, <1>3, <2>1 DEF IInv, Administered
    <2>3. ASSUME NEW m \in Name, Known(m)' PROVE Reached(m)'
      BY <1>1, <1>3, <1>5, <1>12, <2>1, <2>3, ReachedKept, PendingKept
    <2> QED
      BY <2>2, <2>3
  <1> QED
    BY <1>1, <1>4, <1>8, <1>9, <1>10, <1>11, <1>12, <1>13, HandlerInv

\* Enroll keeps the invariant.
LEMMA EnrollInv == ASSUME IInv, NEW s \in Slot, Enroll(s) PROVE IInv'
  <1>1. /\ pc[s] = "act" /\ UNCHANGED <<files, traffic>> /\ End(s)
        /\ UNCHANGED <<domain, member, issued, held, mishap, proved>>
    BY DEF Enroll, Doing, HandlerUnchanged
  <1>2. /\ ~Pending(s) /\ TableTypes /\ Known(Caller(s)) /\ Caller(s) \in Name
    BY <1>1, SlotFacts DEF Pending
  <1>3. PICK n \in Name : n = Caller(s)
    BY <1>2
  <1>4. /\ secrets[n] < MaxSecret /\ secrets' = [secrets EXCEPT ![n] = secrets[n] + 1]
        /\ client' = [client EXCEPT ![n].totp = secrets[n] + 1, ![n].enrolled = FALSE]
        /\ overtaken' = overtaken \ {n}
    BY <1>3 DEF Enroll
  <1>5. Known(n) /\ client[n] \in Row /\ secrets[n] \in Nat /\ secrets[n] + 1 \in 0..MaxSecret
    <2>1. secrets[n] \in 0..MaxSecret
      BY <1>2, RowFacts
    <2> QED
      BY <1>2, <1>3, <1>4, <2>1, RowFacts, IdentityAssumption
  <1>w. PICK w : w = [client[n] EXCEPT !.totp = secrets[n] + 1, !.enrolled = FALSE]
    OBVIOUS
  <1>6. /\ w \in Row /\ w = [client[n] EXCEPT !.totp = secrets[n] + 1, !.enrolled = FALSE]
        /\ w.gen = client[n].gen /\ w.totp = secrets[n] + 1 /\ ~w.enrolled
        /\ (w.expired <=> client[n].expired) /\ (w.revoked <=> client[n].revoked)
        /\ w.role = client[n].role
    BY <1>w, <1>5 DEF Row
  <1>7. client' = [client EXCEPT ![n] = w]
    BY <1>2, <1>4, <1>6 DEF TableTypes
  <1>8. /\ secrets' \in [Name -> 0..MaxSecret] /\ secrets'[n] = secrets[n] + 1
        /\ \A m \in Name : m # n => secrets'[m] = secrets[m]
        /\ overtaken' \subseteq Name
        /\ \A m \in Name : m # n => (m \in overtaken' <=> m \in overtaken)
    BY <1>2, <1>4, <1>5 DEF TableTypes
  <1>9. secrets[n] <= secrets'[n] /\ w.totp <= secrets'[n] /\ w.totp > secrets[n]
    BY <1>5, <1>6, <1>8
  <1> QED
    BY <1>1, <1>2, <1>5, <1>6, <1>7, <1>8, <1>9, TotpStep

\* VerifySelect keeps the invariant.
LEMMA VerifySelectInv == ASSUME IInv, NEW s \in Slot, VerifySelect(s) PROVE IInv'
  <1>1. /\ pc[s] = "act" /\ req[s].op = "verify" /\ UNCHANGED <<files, traffic>>
        /\ UNCHANGED <<tables, held, mishap, overtaken>>
    BY DEF VerifySelect, Doing, HandlerUnchanged
  <1>2. /\ ~Pending(s) /\ mishap \in BOOLEAN /\ SlotTypes /\ TableTypes /\ boot = "up"
        /\ req[s] \in Order /\ Known(Caller(s)) /\ Caller(s) \in Name /\ req[s].live
    BY <1>1, SlotFacts DEF Pending, TableTypes
  <1>3. CASE End(s) /\ proved' = proved
    BY <1>1, <1>2, <1>3, EndInv
  <1>4. CASE ~(End(s) /\ proved' = proved)
    <2>1. PICK n \in Name : n = Caller(s)
      BY <1>2
    <2>2. /\ client[n].totp > 0 /\ val' = [val EXCEPT ![s] = client[n].totp]
          /\ proved' = [proved EXCEPT ![n] = client[n].totp]
          /\ Goto(s, "check") /\ req' = req
      BY <1>4, <2>1 DEF VerifySelect
    <2>3. /\ client[n].totp \in 0..MaxSecret /\ client[n].totp <= secrets[n]
          /\ client[n].totp \in 0..(MaxGen + MaxSecret) /\ 1 <= client[n].totp
      <3>1. client[n].totp \in 0..MaxSecret /\ client[n].totp <= secrets[n]
        BY <1>2, <2>1, RowFacts DEF IInv, Issued
      <3> QED
        BY <2>2, <3>1, IdentityAssumption
    <2>4. /\ pc'[s] = "check" /\ req'[s] = req[s] /\ val'[s] = client[n].totp
          /\ Caller(s)' = n /\ client' = client /\ secrets' = secrets
      BY <1>1, <1>2, <2>1, <2>2 DEF SlotTypes, Goto, Caller, tables
    <2>5. SlotTypes' /\ \A t \in Slot : t # s => Same(t)
      <3>1. "check" \in Pcs /\ req' = [req EXCEPT ![s] = req'[s]]
        BY <1>2, <2>2 DEF Pcs, SlotTypes
      <3> QED
        BY <1>1, <1>2, <2>2, <2>3, <2>4, <3>1, OneSlot DEF Goto
    <2>6. /\ proved' \in [Name -> 0..MaxSecret] /\ proved'[n] = client[n].totp
          /\ \A m \in Name : m # n => proved'[m] = proved[m]
      BY <1>2, <2>2, <2>3 DEF TableTypes
    <2>7. Sound(s)'
      <3>1. Known(Caller(s))'
        BY <1>2, <2>1, <2>4 DEF Known
      <3>2. Ordered(s)'
        BY <1>2, <2>3, <2>4, <2>6, <3>1 DEF Ordered, Creating, Order
      <3> QED
        BY <2>4, <3>2 DEF Sound, Presented, Bringing, Creating
    <2>8. Distinct'
      BY <2>4, <2>5, DistinctKept DEF Rotating
    <2> QED
      BY <1>1, <1>2, <2>5, <2>6, <2>7, <2>8, QuietInv
  <1> QED
    BY <1>3, <1>4

\* VerifyFlag keeps the invariant.
LEMMA VerifyFlagInv == ASSUME IInv, NEW s \in Slot, VerifyFlag(s) PROVE IInv'
  <1>1. /\ pc[s] = "check" /\ UNCHANGED <<files, traffic>> /\ End(s)
        /\ UNCHANGED <<domain, member, issued, secrets, held, mishap, proved>>
    BY DEF VerifyFlag, HandlerUnchanged
  <1>2. /\ ~Pending(s) /\ TableTypes /\ Known(Caller(s)) /\ Caller(s) \in Name /\ Sound(s)
        /\ mishap \in BOOLEAN
    BY <1>1, SlotFacts DEF Pending, TableTypes
  <1>3. PICK n \in Name : n = Caller(s)
    BY <1>2
  <1>4. Known(n) /\ client[n] \in Row /\ (val[s] = client[n].totp => proved[n] = val[s])
    BY <1>1, <1>2, <1>3, RowFacts DEF Sound, Ordered
  <1>5. CASE UNCHANGED <<client, overtaken>>
    BY <1>1, <1>2, <1>5, EndInv DEF tables
  <1>6. CASE ~UNCHANGED <<client, overtaken>>
    <2>1. /\ client' = [client EXCEPT ![n].enrolled = TRUE]
          /\ overtaken' = IF client[n].totp = val[s] THEN overtaken ELSE overtaken \cup {n}
      BY <1>3, <1>6 DEF VerifyFlag
    <2>w. PICK w : w = [client[n] EXCEPT !.enrolled = TRUE]
      OBVIOUS
    <2>2. /\ w \in Row /\ w = [client[n] EXCEPT !.enrolled = TRUE]
          /\ w.gen = client[n].gen /\ w.totp = client[n].totp
          /\ (w.expired <=> client[n].expired) /\ (w.revoked <=> client[n].revoked)
          /\ w.role = client[n].role
      BY <2>w, <1>4 DEF Row
    <2>3. client' = [client EXCEPT ![n] = w]
      BY <1>2, <2>1, <2>2 DEF TableTypes
    <2>4. /\ secrets' = secrets /\ secrets' \in [Name -> 0..MaxSecret]
          /\ overtaken' \subseteq Name
          /\ \A m \in Name : m # n => (m \in overtaken' <=> m \in overtaken)
      BY <1>1, <1>2, <2>1 DEF TableTypes
    <2>5. proved[n] = w.totp \/ n \in overtaken'
      BY <1>4, <2>1, <2>2
    <2>6. secrets[n] <= secrets'[n] /\ w.totp <= secrets'[n]
      BY <1>2, <1>4, <2>2, <2>4, RowFacts DEF IInv, Issued
    <2> QED
      BY <1>1, <1>2, <1>4, <2>2, <2>3, <2>4, <2>5, <2>6, TotpStep
  <1> QED
    BY <1>5, <1>6

-----------------------------------------------------------------------------
(* Boot *)

LEMMA DiskFacts ==
    ASSUME IInv, NEW f \in Files, NEW v, disk' = [disk EXCEPT ![f] = v]
    PROVE  /\ disk'[f] = v /\ \A g \in Files : g # f => disk'[g] = disk[g]
           /\ v \in -1..MaxBoot => disk' \in [Files -> -1..MaxBoot]
  BY Types DEF IInv, FileTypes

\* Nothing that needs the CA is there before it, and nobody holds a bundle
\* before the server's certificate is complete.
LEMMA EmptyFacts ==
    ASSUME IInv
    PROVE  /\ disk["ca_cert"] = None => disk["server_cert"] = None
           /\ disk["server_cert"] = None => disk["server_key"] = None
           /\ disk["server_key"] = None => disk["admin_bundle"] = None /\ held = {}
  BY DEF IInv, Volume, Issued

\* A server that is starting works on no request.
LEMMA StartingFacts ==
    ASSUME IInv, boot # "up"
    PROVE  \A s \in Slot : pc[s] = "idle" /\ ~Pending(s)
  BY DEF IInv, Booting, Pending

\* A step of a boot, put together.
LEMMA BootInv ==
    ASSUME FileTypes', TableTypes', SlotTypes', \A s \in Slot : pc'[s] = "idle",
           Volume', Booting', FailsOnlyTorn', Issued', Administered', EnrolledProved',
           DeliveredWithDomain'
    PROVE  IInv'
  <1>1. TypeOK'
    BY TypesNext
  <1>2. Requests'
    BY DEF Requests, Sound, Presented, Ordered, Bringing, Creating
  <1>3. Distinct'
    BY DEF Distinct, Rotating
  <1> QED
    BY <1>1, <1>2, <1>3 DEF IInv

\* The tables stay what they are in most steps of a boot.
LEMMA BootStep ==
    ASSUME IInv, boot # "up", UNCHANGED <<tables, held, local, proved, overtaken>>,
           mishap' \in BOOLEAN, mishap => mishap',
           FileTypes', Volume', Booting', FailsOnlyTorn',
           held = {} \/ (disk'["ca_key"] = disk["ca_key"] /\ disk'["server_key"] # None),
           disk["admin_bundle"] > 0 => disk'["admin_bundle"] > 0 \/ Bootstrapping',
           Bootstrapping => Bootstrapping' \/ mishap' \/ disk'["admin_bundle"] > 0,
           boot' = "insert_admin" => \A n \in Name : ~ActiveAdmin(n),
           boot' \in {"admin_domain", "admin_member", "admin_bundle", "default", "serve", "up"} =>
               \E n \in Name : ActiveAdmin(n),
           Bootstrapping' => Bootstrapping
    PROVE  IInv'
  <1>1. TableTypes /\ SlotTypes
    BY Types DEF IInv
  <1>2. /\ client' = client /\ domain' = domain /\ member' = member /\ issued' = issued
        /\ secrets' = secrets /\ pc' = pc /\ req' = req /\ val' = val /\ traffic' = traffic
    BY DEF tables, local
  <1>3. TableTypes' /\ SlotTypes'
    BY <1>1, <1>2 DEF TableTypes, SlotTypes
  <1>4. \A s \in Slot : pc'[s] = "idle"
    BY <1>2, StartingFacts
  <1>5. Issued'
    BY <1>2 DEF IInv, Issued, Known
  <1>6. EnrolledProved' /\ DeliveredWithDomain'
    BY <1>2 DEF IInv, EnrolledProved, DeliveredWithDomain, Known
  <1>7. Administered'
    <2>1. ASSUME NEW n \in Name, Known(n), ~mishap' PROVE Reached(n)'
      <3>1. Reached(n) /\ client'[n].gen = client[n].gen
        BY <1>2, <2>1 DEF IInv, Administered
      <3>2. CASE [name |-> n, gen |-> client[n].gen, ca |-> disk["ca_key"]] \in held
        BY <1>2, <3>2 DEF Reached
      <3>3. CASE n = "admin" /\ client[n].gen = 1 /\ disk["admin_bundle"] > 0
        BY <1>2, <3>3 DEF Reached
      <3>4. CASE n = "admin" /\ client[n].gen = 1 /\ Bootstrapping
        BY <1>2, <2>1, <3>4 DEF Reached
      <3> QED
        BY <3>1, <3>2, <3>3, <3>4, StartingFacts DEF Reached
    <2>2. \A n \in Name : (Known(n)' <=> Known(n)) /\ (ActiveAdmin(n)' <=> ActiveAdmin(n))
      BY <1>2 DEF Known, ActiveAdmin
    <2>3. Bootstrapping' => Known("admin")' /\ client'["admin"].gen = 1
      BY <1>2 DEF IInv, Administered, Known
    <2>4. boot' = "insert_admin" => \A n \in Name : ~ActiveAdmin(n)'
      BY <2>2
    <2>5. boot' \in {"admin_domain", "admin_member", "admin_bundle", "default", "serve", "up"} =>
             \E n \in Name : ActiveAdmin(n)'
      BY <2>2
    <2>6. ~mishap' => \A n \in Name : Known(n)' => Reached(n)'
      BY <2>1, <2>2
    <2> QED
      BY <2>3, <2>4, <2>5, <2>6 DEF Administered
  <1> QED
    BY <1>3, <1>4, <1>5, <1>6, <1>7, BootInv

\* A step before the administrator is looked for.
LEMMA EarlyStep ==
    ASSUME IInv, BootUnchanged, boot \notin Admins, ~Bootstrapping, ~Bootstrapping',
           boot' \notin {"insert_admin", "admin_domain", "admin_member", "admin_bundle", "default",
                         "serve", "up", "failed"},
           FileTypes', Volume', Booting',
           held = {} \/ (disk'["ca_key"] = disk["ca_key"] /\ disk'["server_key"] # None),
           disk'["admin_bundle"] = disk["admin_bundle"]
    PROVE  IInv'
  <1>1. mishap' = mishap /\ mishap \in BOOLEAN /\ UNCHANGED <<tables, held, local, proved, overtaken>>
    BY Types DEF BootUnchanged, IInv, TableTypes
  <1>2. FailsOnlyTorn' /\ boot # "up"
    BY DEF FailsOnlyTorn, Admins
  <1> QED
    BY <1>1, <1>2, BootStep

\* Start keeps the invariant.
LEMMA StartInv == ASSUME IInv, Start PROVE IInv'
  <1>1. /\ boot = "down" /\ boots < MaxBoot /\ boots' = boots + 1 /\ boot' = "load_ca"
        /\ disk' = disk /\ ca' = ca /\ BootUnchanged
    BY DEF Start
  <1>2. FileTypes' /\ boots' > 0
    BY <1>1, Types, IdentityAssumption DEF IInv, FileTypes, Stages
  <1>3. client' = client /\ pc' = pc
    BY <1>1 DEF BootUnchanged, tables, local
  <1>4. Volume'
    BY <1>1, <1>3 DEF IInv, Volume, Known
  <1>5. Booting'
    BY <1>1, <1>2, <1>3 DEF IInv, Booting, Provisioned, Admins
  <1>6. held = {} \/ disk["server_key"] # None
    BY EmptyFacts
  <1>e. /\ boot \notin Admins /\ ~Bootstrapping /\ ~Bootstrapping'
        /\ boot' \notin {"insert_admin", "admin_domain", "admin_member", "admin_bundle",
                          "default", "serve", "up", "failed"}
    BY <1>1, <1>2, <1>4, <1>5, <1>6 DEF Admins, Bootstrapping
  <1>f. held = {} \/ (disk'["ca_key"] = disk["ca_key"] /\ disk'["server_key"] # None)
    BY <1>1, <1>2, <1>4, <1>5, <1>6
  <1>g. disk'["admin_bundle"] = disk["admin_bundle"]
    BY <1>1, <1>2, <1>4, <1>5, <1>6
  <1> QED
    BY <1>1, <1>2, <1>4, <1>5, <1>6, <1>e, <1>f, <1>g, EarlyStep

\* LoadCa keeps the invariant.
LEMMA LoadCaInv == ASSUME IInv, LoadCa PROVE IInv'
  <1>1. boot = "load_ca" /\ disk' = disk /\ boots' = boots /\ BootUnchanged
    BY DEF LoadCa
  <1>2. client' = client /\ pc' = pc /\ FileTypes
    BY <1>1, Types DEF BootUnchanged, tables, local, IInv
  <1>3. Volume'
    BY <1>1, <1>2 DEF IInv, Volume, Known
  <1>4. boots > 0 /\ \A s \in Slot : pc[s] = "idle"
    BY <1>1 DEF IInv, Booting
  <1>5. held = {} \/ disk["server_key"] # None
    BY EmptyFacts
  <1>6. CASE disk["ca_cert"] # None
    <2>1. disk["ca_key"] > 0
      BY <1>6 DEF IInv, Volume
    <2>2. boot' = "load_server" /\ ca' = disk["ca_key"]
      BY <1>2, <1>6, <2>1 DEF LoadCa, Exists, None, Torn, FileTypes, Files
    <2>3. FileTypes'
      <3>1. disk["ca_key"] \in 0..MaxBoot
        BY <1>2, <2>1 DEF FileTypes, Files
      <3> QED
        BY <1>1, <1>2, <2>2, <3>1 DEF FileTypes, Stages
    <2>4. Booting'
      BY <1>1, <1>2, <1>4, <1>6, <2>2 DEF Booting, Provisioned, Admins
    <2>e. /\ boot \notin Admins /\ ~Bootstrapping /\ ~Bootstrapping'
          /\ boot' \notin {"insert_admin", "admin_domain", "admin_member", "admin_bundle",
                            "default", "serve", "up", "failed"}
      BY <1>1, <1>3, <1>5, <2>2, <2>3, <2>4 DEF Admins, Bootstrapping
    <2>f. held = {} \/ (disk'["ca_key"] = disk["ca_key"] /\ disk'["server_key"] # None)
      BY <1>1, <1>3, <1>5, <2>2, <2>3, <2>4
    <2>g. disk'["admin_bundle"] = disk["admin_bundle"]
      BY <1>1, <1>3, <1>5, <2>2, <2>3, <2>4
    <2> QED
      BY <1>1, <1>3, <1>5, <2>2, <2>3, <2>4, <2>e, <2>f, <2>g, EarlyStep
  <1>7. CASE disk["ca_cert"] = None
    <2>1. boot' = "ca_key" /\ ca' = boots
      BY <1>7 DEF LoadCa, Exists
    <2>2. FileTypes'
      BY <1>1, <1>2, <2>1 DEF FileTypes, Stages
    <2>3. Booting'
      BY <1>1, <1>2, <1>4, <1>7, <2>1 DEF Booting, Provisioned, Admins
    <2>e. /\ boot \notin Admins /\ ~Bootstrapping /\ ~Bootstrapping'
          /\ boot' \notin {"insert_admin", "admin_domain", "admin_member", "admin_bundle",
                            "default", "serve", "up", "failed"}
      BY <1>1, <1>3, <1>5, <2>1, <2>2, <2>3 DEF Admins, Bootstrapping
    <2>f. held = {} \/ (disk'["ca_key"] = disk["ca_key"] /\ disk'["server_key"] # None)
      BY <1>1, <1>3, <1>5, <2>1, <2>2, <2>3
    <2>g. disk'["admin_bundle"] = disk["admin_bundle"]
      BY <1>1, <1>3, <1>5, <2>1, <2>2, <2>3
    <2> QED
      BY <1>1, <1>3, <1>5, <2>1, <2>2, <2>3, <2>e, <2>f, <2>g, EarlyStep
  <1> QED
    BY <1>6, <1>7

\* WriteCaKey keeps the invariant.
LEMMA WriteCaKeyInv == ASSUME IInv, WriteCaKey PROVE IInv'
  <1>1. PICK v, l : /\ boot = "ca_key" /\ disk' = [disk EXCEPT !["ca_key"] = v] /\ boot' = l
                    /\ boots' = boots /\ ca' = ca /\ BootUnchanged
                    /\ \/ v = Torn /\ l = "ca_key"
                       \/ v = ca /\ l = "ca_cert"
    BY DEF WriteCaKey, WriteBegin, WriteEnd
  <1>2. /\ client' = client /\ pc' = pc /\ FileTypes /\ disk["ca_cert"] = None /\ ca = boots
        /\ boots > 0 /\ \A s \in Slot : pc[s] = "idle"
    BY <1>1, Types DEF BootUnchanged, tables, local, IInv, Booting
  <1>3. /\ disk["server_cert"] = None /\ disk["server_key"] = None
        /\ disk["admin_bundle"] = None /\ held = {}
    BY <1>2, EmptyFacts
  <1>4. disk'["ca_key"] = v /\ \A g \in Files : g # "ca_key" => disk'[g] = disk[g]
    BY <1>1, DiskFacts DEF Files
  <1>5. FileTypes'
    <2>1. v \in -1..MaxBoot
      BY <1>1, <1>2, IdentityAssumption DEF FileTypes, Torn
    <2>2. disk' \in [Files -> -1..MaxBoot]
      BY <1>1, <2>1, DiskFacts DEF Files
    <2> QED
      BY <1>1, <1>2, <2>2 DEF FileTypes, Stages
  <1>6. /\ disk'["ca_cert"] = None /\ disk'["server_cert"] = None /\ disk'["server_key"] = None
        /\ disk'["admin_bundle"] = None
    BY <1>2, <1>3, <1>4 DEF Files
  <1>7. Volume'
    BY <1>6 DEF Volume
  <1>8. Booting'
    BY <1>1, <1>2, <1>4, <1>6 DEF Booting, Provisioned, Admins
  <1>e. /\ boot \notin Admins /\ ~Bootstrapping /\ ~Bootstrapping'
        /\ boot' \notin {"insert_admin", "admin_domain", "admin_member", "admin_bundle",
                          "default", "serve", "up", "failed"}
    BY <1>1, <1>3, <1>5, <1>6, <1>7, <1>8 DEF Admins, Bootstrapping
  <1>f. held = {} \/ (disk'["ca_key"] = disk["ca_key"] /\ disk'["server_key"] # None)
    BY <1>1, <1>3, <1>5, <1>6, <1>7, <1>8
  <1>g. disk'["admin_bundle"] = disk["admin_bundle"]
    BY <1>1, <1>3, <1>5, <1>6, <1>7, <1>8
  <1> QED
    BY <1>1, <1>3, <1>5, <1>6, <1>7, <1>8, <1>e, <1>f, <1>g, EarlyStep

\* WriteCaCert keeps the invariant.
LEMMA WriteCaCertInv == ASSUME IInv, WriteCaCert PROVE IInv'
  <1>1. PICK v, l : /\ boot = "ca_cert" /\ disk' = [disk EXCEPT !["ca_cert"] = v] /\ boot' = l
                    /\ boots' = boots /\ ca' = ca /\ BootUnchanged
                    /\ \/ v = Torn /\ l = "ca_cert"
                       \/ v = ca /\ l = "load_server"
    BY DEF WriteCaCert, WriteBegin, WriteEnd
  <1>2. /\ client' = client /\ pc' = pc /\ FileTypes /\ disk["server_cert"] = None /\ ca = boots
        /\ disk["ca_key"] = ca /\ boots > 0 /\ \A s \in Slot : pc[s] = "idle"
    BY <1>1, Types DEF BootUnchanged, tables, local, IInv, Booting
  <1>3. disk["server_key"] = None /\ disk["admin_bundle"] = None /\ held = {}
    BY <1>2, EmptyFacts
  <1>4. disk'["ca_cert"] = v /\ \A g \in Files : g # "ca_cert" => disk'[g] = disk[g]
    BY <1>1, DiskFacts DEF Files
  <1>5. FileTypes' /\ v # None
    <2>1. v \in -1..MaxBoot /\ v # None
      BY <1>1, <1>2, IdentityAssumption DEF FileTypes, Torn, None
    <2>2. disk' \in [Files -> -1..MaxBoot]
      BY <1>1, <2>1, DiskFacts DEF Files
    <2> QED
      BY <1>1, <1>2, <2>1, <2>2 DEF FileTypes, Stages
  <1>6. /\ disk'["ca_key"] = ca /\ disk'["server_cert"] = None /\ disk'["server_key"] = None
        /\ disk'["admin_bundle"] = None
    BY <1>2, <1>3, <1>4 DEF Files
  <1>7. Volume'
    BY <1>1, <1>2, <1>4, <1>6 DEF Volume
  <1>8. Booting'
    BY <1>1, <1>2, <1>4, <1>5, <1>6 DEF Booting, Provisioned, Admins
  <1>e. /\ boot \notin Admins /\ ~Bootstrapping /\ ~Bootstrapping'
        /\ boot' \notin {"insert_admin", "admin_domain", "admin_member", "admin_bundle",
                          "default", "serve", "up", "failed"}
    BY <1>1, <1>3, <1>5, <1>6, <1>7, <1>8 DEF Admins, Bootstrapping
  <1>f. held = {} \/ (disk'["ca_key"] = disk["ca_key"] /\ disk'["server_key"] # None)
    BY <1>1, <1>3, <1>5, <1>6, <1>7, <1>8
  <1>g. disk'["admin_bundle"] = disk["admin_bundle"]
    BY <1>1, <1>3, <1>5, <1>6, <1>7, <1>8
  <1> QED
    BY <1>1, <1>3, <1>5, <1>6, <1>7, <1>8, <1>e, <1>f, <1>g, EarlyStep

\* LoadServerCert keeps the invariant.
LEMMA LoadServerCertInv == ASSUME IInv, LoadServerCert PROVE IInv'
  <1>1. /\ boot = "load_server" /\ disk' = disk /\ boots' = boots /\ ca' = ca /\ BootUnchanged
        /\ boot' = IF disk["server_cert"] # None /\ disk["server_key"] # None
                   THEN "admin" ELSE "server_cert"
    BY DEF LoadServerCert, Exists
  <1>2. client' = client /\ pc' = pc /\ FileTypes
    BY <1>1, Types DEF BootUnchanged, tables, local, IInv
  <1>3. Volume'
    BY <1>1, <1>2 DEF IInv, Volume, Known
  <1>4. FileTypes'
    BY <1>1, <1>2 DEF FileTypes, Stages
  <1>5. Booting'
    BY <1>1, <1>2, EmptyFacts DEF IInv, Booting, Provisioned, Admins
  <1>6. held = {} \/ disk["server_key"] # None
    BY EmptyFacts
  <1>e. /\ boot \notin Admins /\ ~Bootstrapping /\ ~Bootstrapping'
        /\ boot' \notin {"insert_admin", "admin_domain", "admin_member", "admin_bundle",
                          "default", "serve", "up", "failed"}
    BY <1>1, <1>3, <1>4, <1>5, <1>6 DEF Admins, Bootstrapping
  <1>f. held = {} \/ (disk'["ca_key"] = disk["ca_key"] /\ disk'["server_key"] # None)
    BY <1>1, <1>3, <1>4, <1>5, <1>6
  <1>g. disk'["admin_bundle"] = disk["admin_bundle"]
    BY <1>1, <1>3, <1>4, <1>5, <1>6
  <1> QED
    BY <1>1, <1>3, <1>4, <1>5, <1>6, <1>e, <1>f, <1>g, EarlyStep

\* WriteServerCert keeps the invariant.
LEMMA WriteServerCertInv == ASSUME IInv, WriteServerCert PROVE IInv'
  <1>1. PICK v, l : /\ boot = "server_cert" /\ disk' = [disk EXCEPT !["server_cert"] = v]
                    /\ boot' = l /\ boots' = boots /\ ca' = ca /\ BootUnchanged
                    /\ \/ v = Torn /\ l = "server_cert"
                       \/ v = ca /\ l = "server_key"
    BY DEF WriteServerCert, WriteBegin, WriteEnd
  <1>2. /\ client' = client /\ pc' = pc /\ FileTypes /\ disk["server_key"] = None
        /\ disk["ca_key"] = ca /\ disk["ca_cert"] # None /\ boots > 0
        /\ \A s \in Slot : pc[s] = "idle"
    BY <1>1, Types DEF BootUnchanged, tables, local, IInv, Booting, Provisioned
  <1>3. disk["admin_bundle"] = None /\ held = {}
    BY <1>2, EmptyFacts
  <1>4. disk'["server_cert"] = v /\ \A g \in Files : g # "server_cert" => disk'[g] = disk[g]
    BY <1>1, DiskFacts DEF Files
  <1>5. FileTypes'
    <2>1. v \in -1..MaxBoot
      BY <1>1, <1>2, IdentityAssumption DEF FileTypes, Torn
    <2>2. disk' \in [Files -> -1..MaxBoot]
      BY <1>1, <2>1, DiskFacts DEF Files
    <2> QED
      BY <1>1, <1>2, <2>2 DEF FileTypes, Stages
  <1>6. /\ disk'["ca_key"] = ca /\ disk'["ca_cert"] = disk["ca_cert"]
        /\ disk'["server_key"] = None /\ disk'["admin_bundle"] = None
    BY <1>2, <1>3, <1>4 DEF Files
  <1>7. Volume'
    BY <1>1, <1>2, <1>4, <1>6 DEF IInv, Volume
  <1>8. Booting'
    BY <1>1, <1>2, <1>4, <1>6 DEF Booting, Provisioned, Admins
  <1>e. /\ boot \notin Admins /\ ~Bootstrapping /\ ~Bootstrapping'
        /\ boot' \notin {"insert_admin", "admin_domain", "admin_member", "admin_bundle",
                          "default", "serve", "up", "failed"}
    BY <1>1, <1>3, <1>5, <1>6, <1>7, <1>8 DEF Admins, Bootstrapping
  <1>f. held = {} \/ (disk'["ca_key"] = disk["ca_key"] /\ disk'["server_key"] # None)
    BY <1>1, <1>3, <1>5, <1>6, <1>7, <1>8
  <1>g. disk'["admin_bundle"] = disk["admin_bundle"]
    BY <1>1, <1>3, <1>5, <1>6, <1>7, <1>8
  <1> QED
    BY <1>1, <1>3, <1>5, <1>6, <1>7, <1>8, <1>e, <1>f, <1>g, EarlyStep

\* WriteServerKey keeps the invariant.
LEMMA WriteServerKeyInv == ASSUME IInv, WriteServerKey PROVE IInv'
  <1>1. PICK v, l : /\ boot = "server_key" /\ disk' = [disk EXCEPT !["server_key"] = v]
                    /\ boot' = l /\ boots' = boots /\ ca' = ca /\ BootUnchanged
                    /\ \/ v = Torn /\ l = "server_key"
                       \/ v = ca /\ l = "admin"
    BY DEF WriteServerKey, WriteBegin, WriteEnd
  <1>2. /\ client' = client /\ pc' = pc /\ FileTypes /\ disk["server_cert"] = ca
        /\ disk["ca_key"] = ca /\ disk["ca_cert"] # None /\ boots > 0
        /\ \A s \in Slot : pc[s] = "idle"
    BY <1>1, Types DEF BootUnchanged, tables, local, IInv, Booting, Provisioned
  <1>3. disk["ca_key"] > 0 /\ disk["ca_cert"] \in {Torn, disk["ca_key"]}
    BY <1>2 DEF IInv, Volume
  <1>4. disk'["server_key"] = v /\ \A g \in Files : g # "server_key" => disk'[g] = disk[g]
    BY <1>1, DiskFacts DEF Files
  <1>5. FileTypes' /\ v # None /\ ca # None
    <2>1. v \in -1..MaxBoot /\ v # None /\ ca # None
      BY <1>1, <1>2, <1>3, IdentityAssumption DEF FileTypes, Torn, None
    <2>2. disk' \in [Files -> -1..MaxBoot]
      BY <1>1, <2>1, DiskFacts DEF Files
    <2> QED
      BY <1>1, <1>2, <2>1, <2>2 DEF FileTypes, Stages
  <1>6. /\ disk'["ca_key"] = ca /\ disk'["ca_cert"] = disk["ca_cert"]
        /\ disk'["server_cert"] = ca /\ disk'["admin_bundle"] = disk["admin_bundle"]
    BY <1>2, <1>4 DEF Files
  <1>7. Volume'
    <2>1. disk["admin_bundle"] # None => disk["admin_bundle"] \in {Torn, ca} /\ Known("admin")'
      BY <1>2 DEF IInv, Volume, Known
    <2> QED
      BY <1>1, <1>2, <1>3, <1>4, <1>5, <1>6, <2>1 DEF Volume
  <1>8. Booting'
    BY <1>1, <1>2, <1>4, <1>5, <1>6 DEF Booting, Provisioned, Admins
  <1>9. disk'["ca_key"] = disk["ca_key"] /\ disk'["server_key"] # None
    BY <1>2, <1>4, <1>5, <1>6
  <1>e. /\ boot \notin Admins /\ ~Bootstrapping /\ ~Bootstrapping'
        /\ boot' \notin {"insert_admin", "admin_domain", "admin_member", "admin_bundle",
                          "default", "serve", "up", "failed"}
    BY <1>1, <1>5, <1>6, <1>7, <1>8, <1>9 DEF Admins, Bootstrapping
  <1>f. held = {} \/ (disk'["ca_key"] = disk["ca_key"] /\ disk'["server_key"] # None)
    BY <1>1, <1>5, <1>6, <1>7, <1>8, <1>9
  <1>g. disk'["admin_bundle"] = disk["admin_bundle"]
    BY <1>1, <1>5, <1>6, <1>7, <1>8, <1>9
  <1> QED
    BY <1>1, <1>5, <1>6, <1>7, <1>8, <1>9, <1>e, <1>f, <1>g, EarlyStep

\* The boot moves on and the volume stays what it is.
LEMMA AdminStep ==
    ASSUME IInv, boot \in Admins \ {"up"}, boot' \in Admins \ {"up"},
           UNCHANGED <<disk, boots, ca, tables, held, local, proved, overtaken>>,
           mishap' \in BOOLEAN, mishap => mishap',
           Bootstrapping => Bootstrapping' \/ mishap',
           boot' = "insert_admin" => \A n \in Name : ~ActiveAdmin(n),
           boot' \in {"admin_domain", "admin_member", "admin_bundle", "default", "serve"} =>
               \E n \in Name : ActiveAdmin(n),
           Bootstrapping' => Bootstrapping
    PROVE  IInv'
  <1>1. client' = client /\ pc' = pc /\ FileTypes
    BY Types DEF tables, local, IInv
  <1>2. FileTypes' /\ boot # "up" /\ boot' # "up" /\ boot' # "failed"
    BY <1>1 DEF FileTypes, Stages, Admins
  <1>3. Volume'
    BY <1>1 DEF IInv, Volume, Known
  <1>4. Booting'
    BY <1>1 DEF IInv, Booting, Provisioned, Admins
  <1>5. FailsOnlyTorn'
    BY <1>2 DEF FailsOnlyTorn
  <1>6. disk'["ca_key"] = disk["ca_key"] /\ disk'["server_key"] # None
    BY DEF IInv, Booting
  <1> QED
    BY <1>2, <1>3, <1>4, <1>5, <1>6, BootStep

\* CheckAdmin keeps the invariant.
LEMMA CheckAdminInv == ASSUME IInv, CheckAdmin PROVE IInv'
  <1>1. /\ boot = "admin" /\ UNCHANGED <<disk, boots, ca>> /\ BootUnchanged
        /\ boot' = IF \E n \in Name : ActiveAdmin(n) THEN "default" ELSE "insert_admin"
    BY DEF CheckAdmin
  <1>2. boot \in Admins \ {"up"} /\ boot' \in Admins \ {"up"} /\ ~Bootstrapping /\ ~Bootstrapping'
    BY <1>1 DEF Admins, Bootstrapping
  <1>3. mishap' = mishap /\ mishap \in BOOLEAN
        /\ UNCHANGED <<disk, boots, ca, tables, held, local, proved, overtaken>>
    BY <1>1, Types DEF BootUnchanged, IInv, TableTypes
  <1> QED
    BY <1>1, <1>2, <1>3, AdminStep

\* InsertAdmin keeps the invariant.
LEMMA InsertAdminInv == ASSUME IInv, InsertAdmin PROVE IInv'
  <1>1. /\ boot = "insert_admin"
        /\ UNCHANGED <<disk, boots, ca, held, local, mishap, proved, overtaken>>
    BY DEF InsertAdmin
  <1>2. /\ FileTypes /\ TableTypes /\ SlotTypes /\ \A n \in Name : ~ActiveAdmin(n)
        /\ disk["server_key"] # None /\ "admin" \in Name /\ boot # "up"
    BY <1>1, Types, IdentityAssumption DEF IInv, Administered, Booting, Admins
  <1>3. CASE Known("admin")
    <2>1. boot' = "failed" /\ UNCHANGED tables
      BY <1>3 DEF InsertAdmin
    <2>2. client' = client /\ pc' = pc
      BY <1>1, <2>1 DEF tables, local
    <2>3. FileTypes'
      BY <1>1, <1>2, <2>1 DEF FileTypes
    <2>4. Volume'
      BY <1>1, <2>2 DEF IInv, Volume, Known
    <2>5. Booting'
      BY <1>1, <2>1, <2>2 DEF IInv, Booting, Provisioned, Admins
    <2>6. FailsOnlyTorn'
      BY <1>2, <1>3, <2>2 DEF FailsOnlyTorn, Known, ActiveAdmin
    <2>7. /\ disk'["ca_key"] = disk["ca_key"] /\ disk'["server_key"] # None
          /\ disk'["admin_bundle"] = disk["admin_bundle"]
          /\ ~Bootstrapping /\ ~Bootstrapping' /\ mishap' = mishap /\ mishap \in BOOLEAN
      BY <1>1, <1>2, <2>1 DEF Bootstrapping, TableTypes
    <2>8. UNCHANGED <<tables, held, local, proved, overtaken>>
      BY <1>1, <2>1
    <2> QED
      BY <1>2, <2>1, <2>3, <2>4, <2>5, <2>6, <2>7, <2>8, BootStep
  <1>4. CASE ~Known("admin")
    <2>1. /\ boot' = "admin_domain" /\ client' = [client EXCEPT !["admin"] = NewRow("admin", 1)]
          /\ issued' = [issued EXCEPT !["admin"] = 1] /\ UNCHANGED <<domain, member, secrets>>
      BY <1>4 DEF InsertAdmin
    <2>2. PICK w \in Row : /\ w = NewRow("admin", 1) /\ w.gen = 1 /\ w.role = "admin" /\ ~w.revoked
                           /\ ~w.enrolled /\ w.totp = 0
      BY NewRowFacts DEF Role
    <2>3. /\ issued' \in [Name -> 0..MaxGen] /\ issued'["admin"] = 1
          /\ \A m \in Name : m # "admin" => issued'[m] = issued[m]
      BY <1>2, <2>1, IdentityAssumption DEF TableTypes
    <2>4. /\ TableTypes' /\ Issued' /\ EnrolledProved' /\ DeliveredWithDomain'
          /\ client'["admin"] = w /\ Known("admin")'
          /\ \A m \in Name : m # "admin" => client'[m] = client[m] /\ (Known(m)' <=> Known(m))
      <3>1. /\ UNCHANGED <<domain, member, held, secrets, proved, overtaken, disk>>
            /\ mishap' \in BOOLEAN /\ client' = [client EXCEPT !["admin"] = w]
        BY <1>1, <1>2, <2>1, <2>2 DEF TableTypes
      <3>2. 1 <= issued'["admin"] /\ w.gen <= issued'["admin"]
        BY <2>2, <2>3
      <3> QED
        BY <1>2, <1>4, <2>2, <2>3, <3>1, <3>2, RowStep
    <2>5. FileTypes' /\ SlotTypes' /\ \A s \in Slot : pc'[s] = "idle" /\ ~Pending(s)
      BY <1>1, <1>2, <2>1, StartingFacts DEF FileTypes, SlotTypes, Stages, local
    <2>6. Volume'
      BY <1>1, <2>4 DEF IInv, Volume
    <2>7. Booting'
      BY <1>1, <2>1, <2>5 DEF IInv, Booting, Provisioned, Admins
    <2>8. FailsOnlyTorn'
      BY <2>1 DEF FailsOnlyTorn
    <2>9. Administered'
      <3>1. ActiveAdmin("admin")'
        BY <2>2, <2>4 DEF ActiveAdmin
      <3>2. Bootstrapping' /\ ~Bootstrapping
        BY <1>1, <2>1 DEF Bootstrapping
      <3>3. Reached("admin")'
        BY <2>2, <2>4, <3>2 DEF Reached
      <3>4. ASSUME ~mishap', NEW n \in Name, n # "admin", Known(n)' PROVE Reached(n)'
        <4>1. Known(n) /\ client'[n] = client[n] /\ Reached(n)
          BY <1>1, <2>4, <3>4 DEF IInv, Administered
        <4>2. [name |-> n, gen |-> client[n].gen, ca |-> disk["ca_key"]] \in held
          BY <2>5, <3>4, <4>1 DEF Reached
        <4> QED
          BY <1>1, <4>1, <4>2 DEF Reached
      <3> QED
        BY <1>2, <2>1, <2>2, <2>4, <3>1, <3>2, <3>3, <3>4 DEF Administered
    <2> QED
      BY <2>4, <2>5, <2>6, <2>7, <2>8, <2>9, BootInv
  <1> QED
    BY <1>3, <1>4

\* A boot adds a domain or a membership.
LEMMA BootDomains ==
    ASSUME IInv, boot \in Admins \ {"up"}, boot' \in Admins \ {"up"},
           UNCHANGED <<disk, boots, ca, client, issued, secrets, held, local, mishap, proved,
                       overtaken>>,
           domain \subseteq domain', member \subseteq member',
           domain' \subseteq Name \cup {"default"},
           member' \subseteq (Name \cup {"default"}) \X Name,
           Bootstrapping => Bootstrapping', Bootstrapping' => Bootstrapping,
           boot \in {"admin_domain", "admin_member", "default"}, boot' # "insert_admin"
    PROVE  IInv'
  <1>1. /\ TableTypes' /\ Issued' /\ EnrolledProved' /\ DeliveredWithDomain'
        /\ \A n \in Name : (Known(n)' <=> Known(n)) /\ (ActiveAdmin(n)' <=> ActiveAdmin(n))
    BY DomainsStep
  <1>2. /\ SlotTypes' /\ pc' = pc /\ val' = val /\ \A s \in Slot : pc[s] = "idle" /\ ~Pending(s)
    BY Types, StartingFacts DEF IInv, SlotTypes, local
  <1>3. FileTypes' /\ FailsOnlyTorn'
    BY Types DEF IInv, FileTypes, Stages, Admins, FailsOnlyTorn
  <1>4. Volume'
    BY DEF IInv, Volume, Known
  <1>5. Booting'
    BY <1>2 DEF IInv, Booting, Provisioned, Admins
  <1>6. Administered'
    <2>1. \E n \in Name : ActiveAdmin(n)'
      BY <1>1 DEF IInv, Administered
    <2>2. ASSUME ~mishap', NEW n \in Name, Known(n)' PROVE Reached(n)'
      <3>1. Reached(n)
        BY <1>1, <2>2 DEF IInv, Administered
      <3> QED
        BY <1>2, <3>1 DEF Reached
    <2>3. Bootstrapping' => Known("admin")' /\ client'["admin"].gen = 1
      BY DEF IInv, Administered, Known
    <2> QED
      BY <2>1, <2>2, <2>3 DEF Administered
  <1> QED
    BY <1>1, <1>2, <1>3, <1>4, <1>5, <1>6, BootInv

\* AdminDomain keeps the invariant.
LEMMA AdminDomainInv == ASSUME IInv, AdminDomain PROVE IInv'
  <1>1. TableTypes /\ "admin" \in Name
    BY Types, IdentityAssumption DEF IInv
  <1>2. /\ boot = "admin_domain" /\ boot' = "admin_member" /\ domain' = domain \cup {"admin"}
        /\ UNCHANGED <<disk, boots, ca, client, member, issued, secrets, held, local, mishap,
                       proved, overtaken>>
    BY DEF AdminDomain
  <1>3. /\ domain' \subseteq Name \cup {"default"} /\ domain \subseteq domain'
        /\ member' \subseteq (Name \cup {"default"}) \X Name
    BY <1>1, <1>2 DEF TableTypes
  <1>4. boot \in Admins \ {"up"} /\ boot' \in Admins \ {"up"} /\ Bootstrapping /\ Bootstrapping'
    BY <1>2 DEF Admins, Bootstrapping
  <1> QED
    BY <1>2, <1>3, <1>4, BootDomains

\* AdminMember keeps the invariant.
LEMMA AdminMemberInv == ASSUME IInv, AdminMember PROVE IInv'
  <1>1. TableTypes /\ "admin" \in Name
    BY Types, IdentityAssumption DEF IInv
  <1>2. /\ boot = "admin_member" /\ boot' = "admin_bundle"
        /\ member' = member \cup {<<"admin", "admin">>}
        /\ UNCHANGED <<disk, boots, ca, client, domain, issued, secrets, held, local, mishap,
                       proved, overtaken>>
    BY DEF AdminMember
  <1>3. /\ domain' \subseteq Name \cup {"default"} /\ member \subseteq member'
        /\ member' \subseteq (Name \cup {"default"}) \X Name
    BY <1>1, <1>2 DEF TableTypes
  <1>4. boot \in Admins \ {"up"} /\ boot' \in Admins \ {"up"} /\ Bootstrapping /\ Bootstrapping'
    BY <1>2 DEF Admins, Bootstrapping
  <1> QED
    BY <1>2, <1>3, <1>4, BootDomains

\* DefaultDomain keeps the invariant.
LEMMA DefaultDomainInv == ASSUME IInv, DefaultDomain PROVE IInv'
  <1>1. TableTypes
    BY Types DEF IInv
  <1>2. /\ boot = "default" /\ boot' = "serve" /\ domain' = domain \cup {"default"}
        /\ UNCHANGED <<disk, boots, ca, client, member, issued, secrets, held, local, mishap,
                       proved, overtaken>>
    BY DEF DefaultDomain
  <1>3. /\ domain' \subseteq Name \cup {"default"} /\ domain \subseteq domain'
        /\ member' \subseteq (Name \cup {"default"}) \X Name
    BY <1>1, <1>2 DEF TableTypes
  <1>4. boot \in Admins \ {"up"} /\ boot' \in Admins \ {"up"} /\ ~Bootstrapping /\ ~Bootstrapping'
    BY <1>2 DEF Admins, Bootstrapping
  <1> QED
    BY <1>2, <1>3, <1>4, BootDomains

\* WriteBundle keeps the invariant.
LEMMA WriteBundleInv == ASSUME IInv, WriteBundle PROVE IInv'
  <1>1. PICK v, l : /\ boot = "admin_bundle" /\ disk' = [disk EXCEPT !["admin_bundle"] = v]
                    /\ boot' = l /\ boots' = boots /\ ca' = ca /\ BootUnchanged
                    /\ \/ v = Torn /\ l = "admin_bundle"
                       \/ v = ca /\ l = "default"
    BY DEF WriteBundle, WriteBegin, WriteEnd
  <1>2. /\ FileTypes /\ client' = client /\ pc' = pc /\ mishap' = mishap /\ mishap \in BOOLEAN
        /\ UNCHANGED <<tables, held, local, proved, overtaken>> /\ boot # "up"
    BY <1>1, Types DEF BootUnchanged, IInv, TableTypes, tables, local
  <1>3. /\ ca = disk["ca_key"] /\ disk["ca_cert"] # None /\ disk["server_key"] # None
        /\ boots > 0 /\ \A s \in Slot : pc[s] = "idle"
    BY <1>1 DEF IInv, Booting, Provisioned, Admins
  <1>4. disk["ca_key"] > 0
    BY <1>3 DEF IInv, Volume
  <1>5. /\ Known("admin") /\ \E n \in Name : ActiveAdmin(n)
    BY <1>1 DEF IInv, Administered, Bootstrapping
  <1>6. disk'["admin_bundle"] = v /\ \A g \in Files : g # "admin_bundle" => disk'[g] = disk[g]
    BY <1>1, DiskFacts DEF Files
  <1>7. FileTypes'
    <2>1. v \in -1..MaxBoot
      BY <1>1, <1>2, IdentityAssumption DEF FileTypes, Torn
    <2>2. disk' \in [Files -> -1..MaxBoot]
      BY <1>1, <2>1, DiskFacts DEF Files
    <2> QED
      BY <1>1, <1>2, <2>2 DEF FileTypes, Stages
  <1>8. /\ disk'["ca_key"] = disk["ca_key"] /\ disk'["ca_cert"] = disk["ca_cert"]
        /\ disk'["server_cert"] = disk["server_cert"] /\ disk'["server_key"] = disk["server_key"]
    BY <1>6 DEF Files
  <1>9. Volume'
    BY <1>1, <1>2, <1>3, <1>5, <1>6, <1>8 DEF IInv, Volume, Known
  <1>10. Booting'
    BY <1>1, <1>2, <1>3, <1>8 DEF IInv, Booting, Provisioned, Admins
  <1>11. FailsOnlyTorn' /\ boot' # "insert_admin" /\ Bootstrapping
    BY <1>1 DEF FailsOnlyTorn, Bootstrapping
  <1>12. CASE l = "admin_bundle"
    <2>1. Bootstrapping'
      BY <1>1, <1>12 DEF Bootstrapping
    <2> QED
      BY <1>2, <1>3, <1>5, <1>7, <1>8, <1>9, <1>10, <1>11, <2>1, BootStep
  <1>13. CASE l = "default"
    <2>1. ~Bootstrapping' /\ disk'["admin_bundle"] > 0
      BY <1>1, <1>3, <1>4, <1>6, <1>13 DEF Bootstrapping, Torn
    <2> QED
      BY <1>2, <1>3, <1>5, <1>7, <1>8, <1>9, <1>10, <1>11, <2>1, BootStep
  <1> QED
    BY <1>1, <1>12, <1>13

\* BundleFails keeps the invariant.
LEMMA BundleFailsInv == ASSUME IInv, BundleFails PROVE IInv'
  <1>1. /\ boot = "admin_bundle" /\ boot' = "default" /\ mishap' = TRUE
        /\ UNCHANGED <<disk, boots, ca, tables, held, local, proved, overtaken>>
    BY DEF BundleFails
  <1>2. boot \in Admins \ {"up"} /\ boot' \in Admins \ {"up"} /\ Bootstrapping /\ ~Bootstrapping'
    BY <1>1 DEF Admins, Bootstrapping
  <1>3. \E n \in Name : ActiveAdmin(n)
    BY <1>1 DEF IInv, Administered
  <1> QED
    BY <1>1, <1>2, <1>3, AdminStep

\* Serve keeps the invariant.
LEMMA ServeInv == ASSUME IInv, Serve PROVE IInv'
  <1>1. /\ boot = "serve" /\ UNCHANGED <<disk, boots, ca>> /\ BootUnchanged
        /\ boot' = IF /\ disk["ca_cert"] > 0 /\ disk["server_cert"] > 0
                      /\ disk["server_key"] = disk["server_cert"]
                   THEN "up" ELSE "failed"
    BY DEF Serve
  <1>2. /\ FileTypes /\ client' = client /\ pc' = pc /\ mishap' = mishap /\ mishap \in BOOLEAN
        /\ UNCHANGED <<tables, held, local, proved, overtaken>> /\ boot # "up"
    BY <1>1, Types DEF BootUnchanged, IInv, TableTypes, tables, local
  <1>3. /\ ca = disk["ca_key"] /\ disk["ca_cert"] # None /\ disk["server_key"] # None
        /\ boots > 0 /\ \A s \in Slot : pc[s] = "idle"
    BY <1>1 DEF IInv, Booting, Provisioned, Admins
  <1>4. /\ disk["ca_key"] > 0 /\ disk["ca_cert"] \in {Torn, disk["ca_key"]}
        /\ disk["server_cert"] = disk["ca_key"] /\ disk["server_key"] \in {Torn, disk["ca_key"]}
    BY <1>3 DEF IInv, Volume
  <1>5. FileTypes'
    BY <1>1, <1>2 DEF FileTypes
  <1>6. Volume'
    BY <1>1, <1>2 DEF IInv, Volume, Known
  <1>7. Booting'
    BY <1>1, <1>2, <1>3 DEF Booting, Provisioned, Admins
  <1>8. FailsOnlyTorn'
    BY <1>1, <1>4 DEF FailsOnlyTorn
  <1>9. ~Bootstrapping /\ ~Bootstrapping' /\ boot' # "insert_admin"
    BY <1>1 DEF Bootstrapping
  <1>10. \E n \in Name : ActiveAdmin(n)
    BY <1>1 DEF IInv, Administered
  <1>11. /\ disk'["ca_key"] = disk["ca_key"] /\ disk'["server_key"] # None
         /\ disk'["admin_bundle"] = disk["admin_bundle"]
    BY <1>1, <1>3
  <1> QED
    BY <1>2, <1>5, <1>6, <1>7, <1>8, <1>9, <1>10, <1>11, BootStep

\* TakeBundle keeps the invariant.
LEMMA TakeBundleInv == ASSUME IInv, TakeBundle PROVE IInv'
  <1>1. /\ disk["admin_bundle"] > 0 /\ UNCHANGED files
        /\ UNCHANGED <<tables, local, mishap, proved, overtaken>>
    BY DEF TakeBundle
  <1>2. FileTypes /\ TableTypes /\ SlotTypes /\ "admin" \in Name
    BY Types, IdentityAssumption DEF IInv
  <1>3. /\ disk["admin_bundle"] = disk["ca_key"] /\ disk["server_key"] # None /\ Known("admin")
        /\ disk["ca_key"] \in 1..MaxBoot
    <2>1. /\ disk["admin_bundle"] \in {Torn, disk["ca_key"]} /\ disk["server_key"] # None
          /\ Known("admin")
      BY <1>1 DEF IInv, Volume, None
    <2> QED
      BY <1>1, <1>2, <2>1, IdentityAssumption DEF FileTypes, Files, Torn
  <1>4. PICK b : b = [name |-> "admin", gen |-> 1, ca |-> disk["ca_key"]]
    OBVIOUS
  <1>5. b \in Bundle /\ b.name = "admin" /\ b.gen = 1 /\ b.ca = disk["ca_key"]
    <2>1. 1 \in 1..MaxGen
      BY IdentityAssumption
    <2> QED
      BY <1>2, <1>3, <1>4, <2>1 DEF Bundle
  <1>6. /\ held' = held \cup {b} /\ UNCHANGED <<client, domain, member, issued, secrets>>
        /\ UNCHANGED <<disk, boot, boots, ca>> /\ UNCHANGED <<pc, req, val, traffic>>
    BY <1>1, <1>3, <1>4 DEF TakeBundle, tables, files, local
  <1>7. TableTypes' /\ SlotTypes' /\ FileTypes'
    BY <1>1, <1>2, <1>5, <1>6 DEF TableTypes, SlotTypes, FileTypes
  <1>8. 1 <= issued["admin"]
    BY <1>2, <1>3 DEF IInv, Issued
  <1>9. Evolves
    <2>1. \A m \in Name : issued[m] <= issued[m] /\ secrets[m] <= secrets[m]
      BY <1>2, RowFacts
    <2>2. \A c \in held : Accepted(c)' => Accepted(c)
      BY <1>6 DEF Accepted, Known
    <2>3. ASSUME NEW t \in Slot, pc[t] = "update" PROVE 1 # val[t]
      <3>1. Sound(t) /\ val[t] \in Nat
        BY SlotFacts
      <3>2. 2 <= val[t]
        BY <2>3, <3>1 DEF Sound, Ordered, Bringing
      <3> QED
        BY <3>1, <3>2
    <2>4. \A m \in Name : Known(m)' <=> Known(m)
      BY <1>6 DEF Known
    <2> QED
      BY <1>1, <1>5, <1>6, <2>1, <2>2, <2>3, <2>4 DEF Evolves
  <1>10. Issued'
    BY <1>3, <1>5, <1>6, <1>8 DEF IInv, Issued, Known
  <1>11. EnrolledProved' /\ DeliveredWithDomain'
    BY <1>1, <1>5, <1>6 DEF IInv, EnrolledProved, DeliveredWithDomain, Known
  <1>12. Requests'
    <2>1. \A t \in Slot : Same(t)
      BY <1>6 DEF Same
    <2> QED
      BY <1>7, <1>9, <2>1, SlotKept DEF Requests
  <1>13. Distinct'
    BY <1>6 DEF IInv, Distinct, Rotating, Target
  <1>14. Volume' /\ FailsOnlyTorn'
    BY <1>6 DEF IInv, Volume, FailsOnlyTorn, Known, ActiveAdmin
  <1>15. Booting'
    BY <1>6 DEF IInv, Booting
  <1>16. Administered'
    <2>1. ASSUME ~mishap', NEW n \in Name, Known(n)' PROVE Reached(n)'
      <3>1. Reached(n)
        BY <1>1, <1>6, <2>1 DEF IInv, Administered, Known
      <3> QED
        BY <1>6, <3>1 DEF Reached, Pending, Target, Bootstrapping
    <2> QED
      BY <1>1, <1>6, <2>1 DEF IInv, Administered, Known, ActiveAdmin, Bootstrapping
  <1>17. TypeOK'
    BY <1>7, TypesNext
  <1> QED
    BY <1>10, <1>11, <1>12, <1>13, <1>14, <1>15, <1>16, <1>17 DEF IInv

\* A kill loses a bundle that is on its way, and says so.
LEMMA KillInv == ASSUME IInv, Kill PROVE IInv'
  <1>1. /\ boot' = "down" /\ pc' = [s \in Slot |-> "idle"] /\ req' = [s \in Slot |-> NoBundle]
        /\ val' = [s \in Slot |-> 0]
        /\ mishap' = (mishap \/ Bootstrapping \/ \E s \in Slot : Pending(s))
        /\ UNCHANGED <<disk, boots, ca, held, traffic, proved, overtaken>>
        /\ UNCHANGED <<client, domain, member, issued, secrets>>
    BY DEF Kill, tables
  <1>2. FileTypes /\ TableTypes /\ SlotTypes /\ mishap \in BOOLEAN
    BY Types DEF IInv, TableTypes
  <1>3. TableTypes' /\ SlotTypes' /\ FileTypes'
    <2>1. mishap' \in BOOLEAN
      BY <1>1, <1>2
    <2>2. 0 \in 0..(MaxGen + MaxSecret) /\ "idle" \in Pcs
      BY IdentityAssumption DEF Pcs
    <2> QED
      BY <1>1, <1>2, <2>1, <2>2 DEF TableTypes, SlotTypes, FileTypes
  <1>4. \A s \in Slot : pc'[s] = "idle"
    BY <1>1
  <1>5. Volume' /\ FailsOnlyTorn' /\ Issued' /\ EnrolledProved' /\ DeliveredWithDomain'
    BY <1>1 DEF IInv, Volume, FailsOnlyTorn, Issued, EnrolledProved, DeliveredWithDomain, Known
  <1>6. Booting'
    BY <1>1, <1>4 DEF Booting, Provisioned, Admins
  <1>7. Administered'
    <2>1. ASSUME ~mishap', NEW n \in Name, Known(n)' PROVE Reached(n)'
      <3>1. ~mishap /\ ~Bootstrapping /\ ~\E s \in Slot : Pending(s)
        BY <1>1, <2>1
      <3>2. Reached(n)
        BY <1>1, <2>1, <3>1 DEF IInv, Administered, Known
      <3> QED
        BY <1>1, <3>1, <3>2 DEF Reached
    <2> QED
      BY <1>1, <2>1 DEF Administered, Bootstrapping
  <1> QED
    BY <1>3, <1>4, <1>5, <1>6, <1>7, BootInv

-----------------------------------------------------------------------------
(* The invariant, and what it implies *)

LEMMA InitIInv == Init => IInv
  <1> SUFFICES ASSUME Init PROVE IInv
    OBVIOUS
  <1>1. /\ disk = [f \in Files |-> None] /\ boot = "down" /\ boots = 0 /\ ca = 0
        /\ client = [n \in Name |-> NoClient] /\ domain = {} /\ member = {} /\ held = {}
        /\ issued = [n \in Name |-> 0] /\ secrets = [n \in Name |-> 0]
        /\ pc = [s \in Slot |-> "idle"] /\ req = [s \in Slot |-> NoBundle]
        /\ val = [s \in Slot |-> 0] /\ traffic \in Traffics /\ mishap = FALSE
        /\ proved = [n \in Name |-> 0] /\ overtaken = {}
    BY DEF Init
  <1>2. /\ 0 \in -1..MaxBoot /\ 0 \in 0..MaxBoot /\ 0 \in 0..MaxGen /\ 0 \in 0..MaxSecret
        /\ 0 \in 0..(MaxGen + MaxSecret)
    BY IdentityAssumption
  <1>3. TypeOK
    BY <1>1, <1>2 DEF TypeOK, None, Pcs
  <1>4. /\ \A f \in Files : disk[f] = None
        /\ \A n \in Name : ~Known(n)
        /\ \A s \in Slot : pc[s] = "idle"
    BY <1>1 DEF Known
  <1>5. Volume
    BY <1>4 DEF Volume, Files
  <1>6. Booting /\ FailsOnlyTorn /\ Administered
    BY <1>1, <1>4 DEF Booting, FailsOnlyTorn, Administered, Bootstrapping, Provisioned, Admins
  <1>7. Issued /\ EnrolledProved /\ DeliveredWithDomain
    BY <1>1, <1>4 DEF Issued, EnrolledProved, DeliveredWithDomain
  <1>8. Requests /\ Distinct
    BY <1>4 DEF Requests, Sound, Presented, Ordered, Bringing, Creating, Distinct, Rotating
  <1> QED
    BY <1>3, <1>5, <1>6, <1>7, <1>8 DEF IInv

\* Nothing moves.
LEMMA StutterInv == ASSUME IInv, UNCHANGED vars PROVE IInv'
  <1>1. /\ UNCHANGED <<disk, boot, boots, ca>> /\ UNCHANGED <<pc, req, val, traffic>>
        /\ UNCHANGED <<client, domain, member, issued, secrets, held>>
        /\ UNCHANGED <<mishap, proved, overtaken>>
    BY DEF vars, files, tables, local
  <1>2. TypeOK'
    BY <1>1 DEF IInv, TypeOK
  <1>3. Volume' /\ FailsOnlyTorn' /\ Issued' /\ EnrolledProved' /\ DeliveredWithDomain'
    BY <1>1 DEF IInv, Volume, FailsOnlyTorn, Issued, EnrolledProved, DeliveredWithDomain, Known,
       ActiveAdmin
  <1>4. Booting'
    BY <1>1 DEF IInv, Booting
  <1>5. Administered'
    BY <1>1 DEF IInv, Administered, Known, ActiveAdmin, Bootstrapping, Reached, Pending, Target
  <1>6. Requests' /\ Distinct'
    BY <1>1 DEF IInv, Requests, Sound, Presented, Ordered, Bringing, Distinct, Rotating, Target,
       Caller, Accepted, Known
  <1> QED
    BY <1>2, <1>3, <1>4, <1>5, <1>6 DEF IInv

\* Every step of a boot and of a handler keeps the invariant.
LEMMA NextIInv == IInv /\ [Next]_vars => IInv'
  <1> SUFFICES ASSUME IInv, [Next]_vars PROVE IInv'
    OBVIOUS
  <1>1. CASE Boot
    BY <1>1, StartInv, LoadCaInv, WriteCaKeyInv, WriteCaCertInv, LoadServerCertInv,
       WriteServerCertInv, WriteServerKeyInv, CheckAdminInv, InsertAdminInv, AdminDomainInv,
       AdminMemberInv, WriteBundleInv, BundleFailsInv, DefaultDomainInv, ServeInv,
       TakeBundleInv, KillInv DEF Boot
  <1>2. ASSUME NEW s \in Slot, Handle(s) PROVE IInv'
    BY <1>2, ArriveInv, LookupByCnInv, LookupByTokenInv, NotAdminInv, CreateInsertInv,
       CreateJoinInv, CreateDomainInv, CreateMemberInv, RotateSelectInv, RotateUpdateInv,
       AnswerBundleInv, RevokeInv, EnrollInv, VerifySelectInv, VerifyFlagInv, DropInv
       DEF Handle, CreateClient, RotateClient, MfaVerify
  <1> QED
    BY <1>1, <1>2, ExpireInv, StutterInv DEF Next

\* IInv holds in every reachable state.
THEOREM Invariance == Spec => []IInv
  BY InitIInv, NextIInv, PTL DEF Spec

\* A running server always has an administrator whose bundle somebody holds, is
\* being given or finds on the volume, unless a kill, an error, an expiry or a
\* revocation by one who was revoked came in between (bootstrap_admin_if_needed,
\* create_client, rotate_client, revoke_client_endpoint).
THEOREM AdminSafety == Spec => []AdminReachable
  <1>1. IInv => AdminReachable
    <2> SUFFICES ASSUME IInv, boot = "up", ~mishap
                 PROVE  \E n \in Name :
                          /\ ActiveAdmin(n)
                          /\ \/ [name |-> n, gen |-> client[n].gen, ca |-> ca] \in held
                             \/ \E s \in Slot : /\ Pending(s) /\ Target(s) = n
                                                /\ val[s] = client[n].gen
                             \/ n = "admin" /\ client[n].gen = 1 /\ disk["admin_bundle"] = ca
      BY DEF AdminReachable, IInv
    <2>1. PICK n \in Name : ActiveAdmin(n) /\ Reached(n)
      BY DEF IInv, Administered, ActiveAdmin
    <2>2. ca = disk["ca_key"] /\ ~Bootstrapping
      BY DEF IInv, Booting, Provisioned, Admins, Bootstrapping
    <2>3. disk["admin_bundle"] > 0 => disk["admin_bundle"] = ca
      BY <2>2 DEF IInv, Volume, None, Torn
    <2> QED
      BY <2>1, <2>2, <2>3 DEF Reached
  <1> QED
    BY <1>1, Invariance, PTL

\* A request gets past authentication only with one whole bundle that was
\* valid when it arrived; a client marked as enrolled has proved the secret
\* that is stored; a first bundle goes out only when its client has its domain
\* (from_request, verify_totp, create_client), whatever ran at the same time.
THEOREM CredentialSafety == Spec => []CredentialsSound
  <1>1. IInv => CredentialsSound
    <2>1. IInv => OnlyLiveBundles
      <3> SUFFICES ASSUME IInv, NEW s \in Slot, pc[s] \notin {"idle", "cert", "token"}
                   PROVE  req[s].live
        BY DEF OnlyLiveBundles
      <3>1. pc[s] \in Pcs
        BY DEF IInv, TypeOK
      <3>2. pc[s] \in {"act", "update", "check", "answer"} \cup Creating
        BY <3>1 DEF Pcs, Creating
      <3> QED
        BY <3>2, SlotFacts
    <2> QED
      BY <2>1 DEF IInv, CredentialsSound
  <1> QED
    BY <1>1, Invariance, PTL

\* Whatever was killed where, a boot fails only on a torn file or a taken name,
\* and a server that comes up has the CA and the certificate that every bundle
\* out there was issued for (load_or_init_ca, load_or_init_server_cert).
THEOREM BootSafety == Spec => []BootsSound
  <1>1. IInv => BootsSound
    <2> SUFFICES ASSUME IInv, boot = "up"
                 PROVE  /\ disk["ca_cert"] = ca /\ disk["server_cert"] = ca
                        /\ \A b \in held : b.ca = ca
      BY DEF BootsSound, OneTrustAnchor, IInv
    <2>1. ca = disk["ca_key"] /\ disk["ca_cert"] > 0 /\ disk["server_key"] # None
      BY DEF IInv, Booting, Provisioned, Admins
    <2>2. disk["ca_cert"] = ca
      BY <2>1 DEF IInv, Volume, None, Torn
    <2>3. disk["server_cert"] = ca
      BY <2>1 DEF IInv, Volume
    <2> QED
      BY <2>1, <2>2, <2>3 DEF IInv, Issued
  <1> QED
    BY <1>1, Invariance, PTL
=============================================================================
