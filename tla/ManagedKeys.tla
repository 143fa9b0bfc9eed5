----------------------------- MODULE ManagedKeys -----------------------------
(***************************************************************************)
(* Named, versioned keys held by the server (keys_api.rs).                 *)
(*                                                                         *)
(* Each slot is a handler that works on one request at a time.  It reads   *)
(* the key's row first (find_key) and everything later, the ACL, the MFA,  *)
(* the choice of a version and the statements on the tables, uses that     *)
(* copy.  Creation and rotation are transactions: what they write is seen  *)
(* at their commit, until then they hold the name's entry in the unique    *)
(* index or the lock of the row.  Material is opaque: two materials are    *)
(* equal only when the server generated them as one, or the caller         *)
(* imported them.                                                          *)
(***************************************************************************)
EXTENDS Naturals, FiniteSets

CONSTANTS
    Slot,        \* handlers at work at the same time
    Name,        \* key names of one domain
    Types,       \* key types that are created
    MfaFlags,    \* values of mfa_required keys are created with
    Imported,    \* materials callers may bring along
    MaxId,       \* bound on keys created
    MaxVersion,  \* bound on versions of a key
    MaxGenerated,\* bound on materials generated
    MaxOut,      \* bound on outputs handed out
    NoKey, NoSlot, NoMaterial, NoOutput

KeyTypes == {"aes256-gcm", "ed25519", "hmac"}

ASSUME KeysAssumption ==
    /\ Types \subseteq KeyTypes /\ MfaFlags \subseteq BOOLEAN
    /\ MaxId \in Nat /\ MaxVersion \in Nat \ {0} /\ MaxOut \in Nat
    /\ MaxGenerated \in Nat
    /\ Imported \cap Nat = {}
    /\ NoSlot \notin Slot

VARIABLES
    key,      \* blackbook_keys by name
    mat,      \* blackbook_key_versions: material by id and version
    nextId,   \* the next Id::new
    nextMat,  \* the next material generated
    index,    \* who holds a name's entry of the unique index, uncommitted
    lock,     \* who holds the lock of a key's row
    out,      \* ciphertexts, signatures, MACs and tokens handed out
    pc, ep, name, arg, \* request of a slot: endpoint, key name, input
    snap,     \* the row find_key returned
    res       \* how the last request of the slot ended

tables == <<key, mat, nextId, nextMat, index, lock, out>>
call == <<ep, name, arg>>
vars == <<key, mat, nextId, nextMat, index, lock, out, pc, ep, name, arg, snap, res>>

Ids == 1..MaxId
Versions == 1..MaxVersion
Generated == 1..MaxGenerated
Material == Generated \cup Imported
NoVersions == [v \in Versions |-> NoMaterial]
Row == [id : Ids, type : KeyTypes, latest : Versions, mfa : BOOLEAN]

\* An output carries its version (bbk:v<N>, or the kid of a token, which also
\* has the key's name); id, mat and type stand for what its bytes are made of.
Output == [kind : {"versioned", "token"}, name : Name, id : Ids,
           v : Versions, mat : Material, type : KeyTypes]

\* There is a name, and the NULLs are none of the values.
ASSUME NullsAssumption ==
    /\ Name # {}
    /\ NoKey \notin Row /\ NoMaterial \notin Material /\ NoOutput \notin Output

\* Endpoints that use a key: the types they apply to, the types for which they
\* touch secret material, what they hand out and what they are handed.
Endpoint(op, types, secret, makes, takes) ==
    [op |-> op, types |-> types, secret |-> secret, makes |-> makes, takes |-> takes]
Use(types, secret, makes, takes) == Endpoint("use", types, secret, makes, takes)

Encrypt == Use({"aes256-gcm"}, KeyTypes, "versioned", "nothing")
Decrypt == Use({"aes256-gcm"}, KeyTypes, "nothing", "versioned")
Datakey == Use({"aes256-gcm"}, KeyTypes, "versioned", "nothing")
Sign == Use({"ed25519"}, KeyTypes, "versioned", "nothing")
Hmac == Use({"hmac"}, KeyTypes, "versioned", "nothing")
Verify == Use({"ed25519", "hmac"}, {"hmac"}, "nothing", "versioned")
IssueToken == Use({"ed25519", "hmac"}, KeyTypes, "token", "nothing")
VerifyToken == Use({"ed25519", "hmac"}, {"hmac"}, "nothing", "token")

Uses == {Encrypt, Decrypt, Datakey, Sign, Hmac, Verify, IssueToken, VerifyToken}
Lifecycle == {Endpoint(op, KeyTypes, {}, "nothing", "nothing") :
                 op \in {"create", "rotate", "delete", "show"}}

Pcs == {"idle", "find", "gate", "insert", "insertCommit", "bump", "bumpCommit",
        "remove", "load", "reread"}
Reply == [code : {"none", "ok", "unknown_version", "invalid", "internal"},
          id : Ids \cup {0}, given : Output \cup {NoOutput}]

AnyName == CHOOSE n \in Name : TRUE
NoAnswer == [code |-> "none", id |-> 0, given |-> NoOutput]

Live == {key[n].id : n \in {m \in Name : key[m] # NoKey}}

\* Types of the tables and of the handlers' locals.
TypeOK ==
    /\ key \in [Name -> Row \cup {NoKey}]
    /\ mat \in [Ids -> [Versions -> Material \cup {NoMaterial}]]
    /\ nextId \in 1..(MaxId + 1) /\ nextMat \in Nat \ {0}
    /\ index \in [Name -> Slot \cup {NoSlot}]
    /\ lock \in [Ids -> Slot \cup {NoSlot}]
    /\ out \subseteq Output
    /\ pc \in [Slot -> Pcs]
    /\ ep \in [Slot -> Uses \cup Lifecycle]
    /\ name \in [Slot -> Name]
    /\ arg \in [Slot -> Output \cup {NoOutput}]
    /\ snap \in [Slot -> Row \cup {NoKey}]
    /\ res \in [Slot -> Reply]

Init ==
    /\ key = [n \in Name |-> NoKey]
    /\ mat = [i \in Ids |-> NoVersions]
    /\ nextId = 1 /\ nextMat = 1
    /\ index = [n \in Name |-> NoSlot]
    /\ lock = [i \in Ids |-> NoSlot]
    /\ out = {}
    /\ pc = [s \in Slot |-> "idle"]
    /\ ep = [s \in Slot |-> Encrypt]
    /\ name = [s \in Slot |-> AnyName]
    /\ arg = [s \in Slot |-> NoOutput]
    /\ snap = [s \in Slot |-> NoKey]
    /\ res = [s \in Slot |-> NoAnswer]

Goto(s, l) == pc' = [pc EXCEPT ![s] = l]
\* The handler ends and forgets its locals; of the answer is remembered which
\* key it was about and what had been presented to it.
End(s) ==
    /\ Goto(s, "idle")
    /\ ep' = [ep EXCEPT ![s] = Encrypt]
    /\ name' = [name EXCEPT ![s] = AnyName]
    /\ arg' = [arg EXCEPT ![s] = NoOutput]
    /\ snap' = [snap EXCEPT ![s] = NoKey]
Answer(s, r) ==
    /\ End(s)
    /\ res' = [res EXCEPT ![s] = [code |-> r, id |-> snap[s].id, given |-> arg[s]]]
Finish(s) == End(s) /\ res' = [res EXCEPT ![s] = NoAnswer]

-----------------------------------------------------------------------------
(* Requests *)

\* A request arrives.  What it presents was handed out before.
Request(s) ==
    /\ pc[s] = "idle"
    /\ \E e \in Uses \cup Lifecycle, n \in Name, o \in out \cup {NoOutput} :
          /\ IF e.takes = "nothing" THEN o = NoOutput
             ELSE o # NoOutput /\ o.kind = e.takes
          /\ ep' = [ep EXCEPT ![s] = e]
          /\ name' = [name EXCEPT ![s] = n]
          /\ arg' = [arg EXCEPT ![s] = o]
    /\ Goto(s, "find")
    /\ snap' = [snap EXCEPT ![s] = NoKey]
    /\ res' = [res EXCEPT ![s] = NoAnswer]
    /\ UNCHANGED tables

\* find_key: the row is copied; a creation wants none, the others want one.
FindKey(s) ==
    LET row == key[name[s]] IN
    /\ pc[s] = "find"
    /\ IF (row = NoKey) = (ep[s].op = "create")
       THEN /\ Goto(s, "gate")
            /\ snap' = [snap EXCEPT ![s] = row]
            /\ UNCHANGED <<call, res>>
       ELSE Finish(s)
    /\ UNCHANGED tables

Fits(s) == ep[s].op # "create" => snap[s].type \in ep[s].types

\* acl_check refuses or the type does not fit.
GateRefuses(s) ==
    /\ pc[s] = "gate"
    /\ Finish(s)
    /\ UNCHANGED tables

\* mfa_gate: the key wants a code for its secret material, and the request has
\* none or a wrong one.
MfaRefuses(s) ==
    /\ pc[s] = "gate"
    /\ Fits(s) /\ ep[s].op = "use"
    /\ snap[s].mfa /\ snap[s].type \in ep[s].secret
    /\ Finish(s)
    /\ UNCHANGED tables

\* The gate lets the request through.
GatePasses(s) ==
    /\ pc[s] = "gate"
    /\ Fits(s)
    /\ Goto(s, CASE ep[s].op = "create" -> "insert"
                 [] ep[s].op = "rotate" -> "bump"
                 [] ep[s].op = "delete" -> "remove"
                 [] ep[s].op = "show" -> "reread"
                 [] ep[s].op = "use" -> "load")
    /\ UNCHANGED <<tables, call, snap, res>>

-----------------------------------------------------------------------------
(* create_key *)

\* Another row of that name is there: unique violation.
CreateConflict(s) ==
    /\ pc[s] = "insert"
    /\ key[name[s]] # NoKey
    /\ Finish(s)
    /\ UNCHANGED tables

\* The INSERT of the key; a concurrent one of that name waits for our commit.
CreateInsert(s) ==
    /\ pc[s] = "insert"
    /\ key[name[s]] = NoKey /\ index[name[s]] = NoSlot
    /\ index' = [index EXCEPT ![name[s]] = s]
    /\ Goto(s, "insertCommit")
    /\ UNCHANGED <<key, mat, nextId, nextMat, lock, out, call, snap, res>>

\* The INSERT of version 1 and the commit.  The request is then looked up again
\* to be described (reread).
CreateCommit(s) ==
    /\ pc[s] = "insertCommit"
    /\ nextId <= MaxId /\ nextMat <= MaxGenerated
    /\ \E t \in Types, m \in Imported \cup {nextMat}, f \in MfaFlags :
          /\ key' = [key EXCEPT ![name[s]] =
                        [id |-> nextId, type |-> t, latest |-> 1, mfa |-> f]]
          /\ mat' = [mat EXCEPT ![nextId][1] = m]
          /\ nextMat' = IF m \in Imported THEN nextMat ELSE nextMat + 1
    /\ nextId' = nextId + 1
    /\ index' = [index EXCEPT ![name[s]] = NoSlot]
    /\ Goto(s, "reread")
    /\ UNCHANGED <<lock, out, call, snap, res>>

\* summary: the versions are read for the answer, and after a creation the row
\* too, which may have gone again.
Reread(s) ==
    /\ pc[s] = "reread"
    /\ Finish(s)
    /\ UNCHANGED tables

-----------------------------------------------------------------------------
(* rotate_key *)

\* The key was deleted since find_key: fetch_one finds no row.
RotateGone(s) ==
    /\ pc[s] = "bump"
    /\ snap[s].id \notin Live
    /\ Answer(s, "internal")
    /\ UNCHANGED tables

\* The UPDATE of latest_version locks the row.
RotateBump(s) ==
    /\ pc[s] = "bump"
    /\ snap[s].id \in Live /\ lock[snap[s].id] = NoSlot
    /\ key[name[s]].latest < MaxVersion
    /\ lock' = [lock EXCEPT ![snap[s].id] = s]
    /\ Goto(s, "bumpCommit")
    /\ UNCHANGED <<key, mat, nextId, nextMat, index, out, call, snap, res>>

\* Faulty variant: the number of the new version is taken from the copy.
RotateCommitStale(s) ==
    LET v == snap[s].latest + 1 IN
    /\ pc[s] = "bumpCommit" /\ nextMat <= MaxGenerated
    /\ key' = [key EXCEPT ![name[s]].latest = v]
    /\ mat' = [mat EXCEPT ![snap[s].id][v] = nextMat]
    /\ nextMat' = nextMat + 1
    /\ lock' = [lock EXCEPT ![snap[s].id] = NoSlot]
    /\ Goto(s, "reread")
    /\ UNCHANGED <<nextId, index, out, call, snap, res>>

\* The INSERT of the version that RETURNING gave and the commit.
RotateCommit(s) ==
    LET v == key[name[s]].latest + 1 IN
    /\ pc[s] = "bumpCommit" /\ nextMat <= MaxGenerated
    /\ key' = [key EXCEPT ![name[s]].latest = v]
    /\ mat' = [mat EXCEPT ![snap[s].id][v] = nextMat]
    /\ nextMat' = nextMat + 1
    /\ lock' = [lock EXCEPT ![snap[s].id] = NoSlot]
    /\ Goto(s, "reread")
    /\ UNCHANGED <<nextId, index, out, call, snap, res>>

-----------------------------------------------------------------------------
(* delete_key *)

\* Faulty variant: the row of that name is deleted, whichever it is by now.
DeleteByName(s) ==
    /\ pc[s] = "remove"
    /\ key[name[s]] # NoKey => lock[key[name[s]].id] = NoSlot
    /\ key' = [key EXCEPT ![name[s]] = NoKey]
    /\ mat' = IF key[name[s]] = NoKey THEN mat
              ELSE [mat EXCEPT ![key[name[s]].id] = NoVersions]
    /\ Answer(s, "ok")
    /\ UNCHANGED <<nextId, nextMat, index, lock, out>>

\* DELETE by id; the versions go by cascade.  Answered ok also when the row
\* has gone already.
Delete(s) ==
    LET i == snap[s].id IN
    /\ pc[s] = "remove"
    /\ lock[i] = NoSlot
    /\ key' = IF i \in Live THEN [key EXCEPT ![name[s]] = NoKey] ELSE key
    /\ mat' = [mat EXCEPT ![i] = NoVersions]
    /\ Answer(s, "ok")
    /\ UNCHANGED <<nextId, nextMat, index, lock, out>>

-----------------------------------------------------------------------------
(* Use of a key *)

\* load_material, load_public: what the table has for a version of the key.
Loaded(r, v) == mat[r.id][v]

\* Faulty variant: the output is labelled with the version of the moment.
MakeRelabelled(s) ==
    LET r == snap[s]
        m == Loaded(r, r.latest)
        v == IF key[name[s]] # NoKey THEN key[name[s]].latest ELSE r.latest IN
    /\ pc[s] = "load" /\ ep[s].makes # "nothing"
    /\ Cardinality(out) < MaxOut
    /\ IF m = NoMaterial
       THEN Answer(s, "internal") /\ UNCHANGED out
       ELSE /\ Answer(s, "ok")
            /\ out' = out \cup {[kind |-> ep[s].makes, name |-> name[s], id |-> r.id,
                                 v |-> v, mat |-> m, type |-> r.type]}
    /\ UNCHANGED <<key, mat, nextId, nextMat, index, lock>>

\* Something is made with the latest version the copy knows of.
Make(s) ==
    LET r == snap[s]
        m == Loaded(r, r.latest) IN
    /\ pc[s] = "load" /\ ep[s].makes # "nothing"
    /\ Cardinality(out) < MaxOut
    /\ IF m = NoMaterial
       THEN Answer(s, "internal") /\ UNCHANGED out
       ELSE /\ Answer(s, "ok")
            /\ out' = out \cup {[kind |-> ep[s].makes, name |-> name[s], id |-> r.id,
                                 v |-> r.latest, mat |-> m, type |-> r.type]}
    /\ UNCHANGED <<key, mat, nextId, nextMat, index, lock>>

\* Faulty variant: the newest version is not accepted.
KnownVersionShort(r, v) == v >= 1 /\ v < r.latest

\* check_version
KnownVersion(r, v) == v >= 1 /\ v <= r.latest

\* token_version: the kid must name this key.
KidFits(s) == arg[s].kind = "token" => arg[s].name = name[s]

\* Authentication succeeds under the material the output was made with, used
\* by the same algorithm.
Opens(o, r, m) == o.mat = m /\ o.type = r.type

\* Decryption and verification go by the version the output carries.
Take(s) ==
    LET r == snap[s]
        o == arg[s]
        m == Loaded(r, o.v) IN
    /\ pc[s] = "load" /\ ep[s].takes # "nothing"
    /\ Answer(s, IF ~KidFits(s) THEN "invalid"
                 ELSE IF ~KnownVersion(r, o.v) THEN "unknown_version"
                 ELSE IF m = NoMaterial THEN "internal"
                 ELSE IF Opens(o, r, m) THEN "ok" ELSE "invalid")
    /\ UNCHANGED tables

\* The connection goes away or a statement fails: the handler is dropped and
\* its transaction rolled back.
Drop(s) ==
    /\ pc[s] # "idle"
    /\ Finish(s)
    /\ index' = [n \in Name |-> IF index[n] = s THEN NoSlot ELSE index[n]]
    /\ lock' = [i \in Ids |-> IF lock[i] = s THEN NoSlot ELSE lock[i]]
    /\ UNCHANGED <<key, mat, nextId, nextMat, out>>

Step(s) ==
    \/ FindKey(s) \/ GateRefuses(s) \/ MfaRefuses(s) \/ GatePasses(s)
    \/ CreateConflict(s) \/ CreateInsert(s) \/ CreateCommit(s) \/ Reread(s)
    \/ RotateGone(s) \/ RotateBump(s) \/ RotateCommit(s) \/ Delete(s)
    \/ Make(s) \/ Take(s)

Next == \E s \in Slot : Request(s) \/ Step(s) \/ Drop(s)

Spec == Init /\ [][Next]_vars

-----------------------------------------------------------------------------
(* Properties *)

\* As long as a key exists, everything it ever handed out can be opened: the
\* version is known and its material is the one used (rotate_key: "older
\* versions keep decrypting/verifying").
OutputsOpen ==
    TypeOK /\ \A o \in out, n \in Name :
        key[n] # NoKey /\ key[n].id = o.id =>
            o.v <= key[n].latest /\ mat[o.id][o.v] = o.mat

\* A request that finds its key's material missing (500) lost it to a deletion
\* after find_key, never to a half-done creation or rotation.
MissingOnlyDeleted ==
    \A s \in Slot : res[s].code = "internal" => res[s].id \notin Live

\* Nothing that the key found by a request made is turned away by it, although
\* the request works from a copy that rotations may have overtaken.
GenuineAccepted ==
    \A s \in Slot :
        res[s].code \in {"unknown_version", "invalid"} => res[s].given.id # res[s].id

\* A deleted key does not come back: what it made opens under a later key only
\* when the caller imported the material of both.
DeletedStaysClosed ==
    \A s \in Slot :
        res[s].code = "ok" /\ res[s].given # NoOutput /\ res[s].given.id # res[s].id
        => res[s].given.mat \in Imported

\* Whatever happened to the key between find_key and the answer, the answer is
\* one a request alone at that moment could have had.
AnswersRight == MissingOnlyDeleted /\ GenuineAccepted /\ DeletedStaysClosed

\* A row changes only by a request that had found that very key, never by one
\* that had found an earlier key of the name.
ActsOnSeen ==
    [][\A n \in Name :
          key[n] # NoKey /\ key'[n] # key[n] =>
             \E s \in Slot : pc[s] \in {"bumpCommit", "remove"} /\ pc'[s] # pc[s]
                             /\ snap[s].id = key[n].id]_vars

\* The tables as an abstract ring of keys.
Materials(n) ==
    IF key[n] = NoKey THEN <<>>
    ELSE [v \in 1..key[n].latest |-> mat[key[n].id][v]]

Ring == INSTANCE KeyRing WITH
    ring <- [n \in Name |-> Materials(n)],
    spent <- 1..(nextMat - 1)

\* The keys implement KeyRing: no version is skipped, replaced or shared by
\* two rotations, and a deletion takes all versions at once.
RefinesKeyRing == Ring!Spec
=============================================================================
