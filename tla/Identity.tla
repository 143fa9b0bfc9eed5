------------------------------ MODULE Identity ------------------------------
(***************************************************************************)
(* Clients and their credentials (auth.rs, server.rs), and the boot that   *)
(* provisions a volume: the CA, the server certificate and the first       *)
(* administrator (main.rs, persistence.rs, tls.rs).                        *)
(*                                                                         *)
(* A bundle is a certificate and a token; both are replaced together, so a *)
(* generation number per client stands for them.  Rows are never removed   *)
(* and names are unique, so a name stands for the row's id.  The server    *)
(* can be killed anywhere.  A file that is being written is Torn until the *)
(* write is complete.                                                      *)
(***************************************************************************)
EXTENDS Integers, FiniteSets

CONSTANTS
    Slot,       \* handlers at work at the same time
    Name,       \* names of clients; "admin" is the bootstrap administrator
    Traffics,   \* sets of operations that are requested together
    MaxGen,     \* bound on bundles issued per client
    MaxSecret,  \* bound on TOTP secrets per client
    MaxBoot,    \* bound on starts of the server
    NoClient, NoBundle

ASSUME IdentityAssumption ==
    /\ "admin" \in Name /\ "default" \notin Name
    /\ Traffics \subseteq SUBSET {"create", "rotate", "revoke", "enroll", "verify"}
    /\ MaxGen \in Nat \ {0} /\ MaxSecret \in Nat /\ MaxBoot \in Nat \ {0}

VARIABLES
    disk,     \* files of the data directory: None, Torn or a generation
    boot,     \* where the starting server is, "up", "down" or "failed"
    boots,    \* starts so far
    ca,       \* the CA the running server issues with
    client,   \* blackbook_clients by name
    domain,   \* names in blackbook_domains; ~n is written n
    member,   \* blackbook_domain_members: pairs of a domain and a client
    issued,   \* bundles generated for a name
    held,     \* bundles that reached someone outside
    secrets,  \* TOTP secrets generated for a name
    traffic,  \* the operations requested in this behaviour
    pc, req,  \* a slot's request: what it presents, then what it asks for
    val,      \* its new bundle's generation, or the TOTP secret it selected
    mishap,   \* history: an event after which nobody may hold an admin bundle
    proved,   \* history: the TOTP secret a client last proved to possess
    overtaken \* history: clients whose verification an enrolment overtook

files == <<disk, boot, boots, ca>>
tables == <<client, domain, member, issued, secrets>>
local == <<pc, req, val, traffic>>
vars == <<files, tables, held, local, mishap, proved, overtaken>>

None == 0
Torn == -1
Files == {"ca_key", "ca_cert", "server_cert", "server_key", "admin_bundle"}
Role == {"admin", "user"}
Row == [role : Role, gen : 1..MaxGen, revoked : BOOLEAN, expired : BOOLEAN,
        totp : 0..MaxSecret, enrolled : BOOLEAN]
Bundle == [name : Name, gen : 1..MaxGen, ca : 1..MaxBoot]
\* A request before and after authentication; live records whether cert and
\* token were one valid bundle at arrival.
Request == [cert : Bundle, token : Bundle, live : BOOLEAN]
Order == [op : UNION Traffics, caller : Name, target : Name, role : Role, live : BOOLEAN]

ASSUME NoClientAssumption == NoClient \notin Row

NewRow(r, g) == [role |-> r, gen |-> g, revoked |-> FALSE, expired |-> FALSE,
                 totp |-> 0, enrolled |-> FALSE]

Stages == {"load_ca", "ca_key", "ca_cert", "load_server", "server_cert", "server_key",
           "admin", "insert_admin", "admin_domain", "admin_member", "admin_bundle",
           "default", "serve"}
Pcs == {"idle", "cert", "token", "act", "join", "domain", "member", "update", "check",
        "answer"}

\* Types of the files, the tables and the handlers' locals.
TypeOK ==
    /\ disk \in [Files -> -1..MaxBoot]
    /\ boot \in Stages \cup {"up", "down", "failed"}
    /\ boots \in 0..MaxBoot /\ ca \in 0..MaxBoot
    /\ client \in [Name -> Row \cup {NoClient}]
    /\ domain \subseteq Name \cup {"default"}
    /\ member \subseteq (Name \cup {"default"}) \X Name
    /\ issued \in [Name -> 0..MaxGen] /\ secrets \in [Name -> 0..MaxSecret]
    /\ held \subseteq Bundle
    /\ pc \in [Slot -> Pcs]
    /\ req \in [Slot -> Request \cup Order \cup {NoBundle}]
    /\ traffic \in Traffics
    /\ val \in [Slot -> 0..(MaxGen + MaxSecret)]
    /\ mishap \in BOOLEAN
    /\ proved \in [Name -> 0..MaxSecret] /\ overtaken \subseteq Name

Init ==
    /\ disk = [f \in Files |-> None]
    /\ boot = "down" /\ boots = 0 /\ ca = 0
    /\ client = [n \in Name |-> NoClient]
    /\ domain = {} /\ member = {} /\ held = {}
    /\ issued = [n \in Name |-> 0] /\ secrets = [n \in Name |-> 0]
    /\ pc = [s \in Slot |-> "idle"]
    /\ req = [s \in Slot |-> NoBundle]
    /\ val = [s \in Slot |-> 0]
    /\ traffic \in Traffics
    /\ mishap = FALSE
    /\ proved = [n \in Name |-> 0] /\ overtaken = {}

Exists(f) == disk[f] # None
Known(n) == client[n] # NoClient
ActiveAdmin(n) == Known(n) /\ client[n].role = "admin" /\ ~client[n].revoked

-----------------------------------------------------------------------------
(* Boot *)

BootUnchanged == UNCHANGED <<tables, held, local, mishap, proved, overtaken>>

Start ==
    /\ boot = "down" /\ boots < MaxBoot
    /\ boots' = boots + 1
    /\ boot' = "load_ca"
    /\ UNCHANGED <<disk, ca>> /\ BootUnchanged

\* A file is opened and truncated, then filled; the boot is at the stage named
\* after the file.
WriteBegin(f) ==
    /\ boot = f /\ disk[f] # Torn
    /\ disk' = [disk EXCEPT ![f] = Torn]
    /\ UNCHANGED <<boot, boots, ca>> /\ BootUnchanged
WriteEnd(f, v, next) ==
    /\ boot = f /\ disk[f] = Torn
    /\ disk' = [disk EXCEPT ![f] = v]
    /\ boot' = next
    /\ UNCHANGED <<boots, ca>> /\ BootUnchanged

\* Faulty variant: a CA per start.
LoadCaAlwaysNew ==
    /\ boot = "load_ca"
    /\ ca' = boots /\ boot' = "ca_key"
    /\ disk' = [disk EXCEPT !["ca_key"] = None, !["ca_cert"] = None]
    /\ UNCHANGED boots /\ BootUnchanged

\* load_or_init_ca: a new CA unless both files are there.  Of the pair only the
\* key is parsed here.
LoadCa ==
    /\ boot = "load_ca"
    /\ IF Exists("ca_cert") /\ Exists("ca_key")
       THEN /\ boot' = IF disk["ca_key"] = Torn THEN "failed" ELSE "load_server"
            /\ ca' = IF disk["ca_key"] = Torn THEN ca ELSE disk["ca_key"]
       ELSE ca' = boots /\ boot' = "ca_key"
    /\ UNCHANGED <<disk, boots>> /\ BootUnchanged

WriteCaKey == WriteBegin("ca_key") \/ WriteEnd("ca_key", ca, "ca_cert")
WriteCaCert == WriteBegin("ca_cert") \/ WriteEnd("ca_cert", ca, "load_server")

\* load_or_init_server_cert
LoadServerCert ==
    /\ boot = "load_server"
    /\ boot' = IF Exists("server_cert") /\ Exists("server_key")
               THEN "admin" ELSE "server_cert"
    /\ UNCHANGED <<disk, boots, ca>> /\ BootUnchanged

WriteServerCert == WriteBegin("server_cert") \/ WriteEnd("server_cert", ca, "server_key")
WriteServerKey == WriteBegin("server_key") \/ WriteEnd("server_key", ca, "admin")

\* bootstrap_admin_if_needed: is there an administrator who is not revoked?
\* Whether its bundle has expired is not asked.
CheckAdmin ==
    /\ boot = "admin"
    /\ boot' = IF \E n \in Name : ActiveAdmin(n) THEN "default" ELSE "insert_admin"
    /\ UNCHANGED <<disk, boots, ca>> /\ BootUnchanged

\* The INSERT; the name may belong to a revoked client, and the boot ends.
InsertAdmin ==
    /\ boot = "insert_admin"
    /\ IF Known("admin")
       THEN boot' = "failed" /\ UNCHANGED tables
       ELSE /\ boot' = "admin_domain"
            /\ client' = [client EXCEPT !["admin"] = NewRow("admin", 1)]
            /\ issued' = [issued EXCEPT !["admin"] = 1]
            /\ UNCHANGED <<domain, member, secrets>>
    /\ UNCHANGED <<disk, boots, ca, held, local, mishap, proved, overtaken>>

\* ensure_user_domain for the administrator, in two statements.
AdminDomain ==
    /\ boot = "admin_domain"
    /\ domain' = domain \cup {"admin"}
    /\ boot' = "admin_member"
    /\ UNCHANGED <<disk, boots, ca, client, member, issued, secrets, held, local,
                   mishap, proved, overtaken>>
AdminMember ==
    /\ boot = "admin_member"
    /\ member' = member \cup {<<"admin", "admin">>}
    /\ boot' = "admin_bundle"
    /\ UNCHANGED <<disk, boots, ca, client, domain, issued, secrets, held, local,
                   mishap, proved, overtaken>>

\* write_admin_bundle; an error is only logged and the boot goes on.
WriteBundle == WriteBegin("admin_bundle") \/ WriteEnd("admin_bundle", ca, "default")
BundleFails ==
    /\ boot = "admin_bundle"
    /\ boot' = "default"
    /\ mishap' = TRUE
    /\ UNCHANGED <<disk, boots, ca, tables, held, local, proved, overtaken>>

\* ensure_default_domain
DefaultDomain ==
    /\ boot = "default"
    /\ domain' = domain \cup {"default"}
    /\ boot' = "serve"
    /\ UNCHANGED <<disk, boots, ca, client, member, issued, secrets, held, local,
                   mishap, proved, overtaken>>

\* build_ssl_acceptor reads the three PEM files and compares certificate and key.
Serve ==
    /\ boot = "serve"
    /\ boot' = IF /\ disk["ca_cert"] > 0
                  /\ disk["server_cert"] > 0
                  /\ disk["server_key"] = disk["server_cert"]
               THEN "up" ELSE "failed"
    /\ UNCHANGED <<disk, boots, ca>> /\ BootUnchanged

\* The operator takes the bundle off the volume.
TakeBundle ==
    /\ disk["admin_bundle"] > 0
    /\ held' = held \cup {[name |-> "admin", gen |-> 1, ca |-> disk["admin_bundle"]]}
    /\ UNCHANGED <<files, tables, local, mishap, proved, overtaken>>

\* The first administrator's row is there and its bundle not yet complete.
Bootstrapping == boot \in {"admin_domain", "admin_member", "admin_bundle"}
Pending(s) == pc[s] \in {"join", "domain", "member", "answer"} /\ val[s] > 0
              /\ req[s].op \in {"create", "rotate"}

\* The process ends, with every request it was working on; of a failed boot
\* the next attempt starts over.
Kill ==
    /\ boot # "down"
    /\ boot' = "down"
    /\ pc' = [s \in Slot |-> "idle"]
    /\ req' = [s \in Slot |-> NoBundle]
    /\ val' = [s \in Slot |-> 0]
    /\ mishap' = (mishap \/ Bootstrapping \/ \E s \in Slot : Pending(s))
    /\ UNCHANGED <<disk, boots, ca, tables, held, traffic, proved, overtaken>>

Boot ==
    \/ Start \/ LoadCa \/ WriteCaKey \/ WriteCaCert \/ LoadServerCert
    \/ WriteServerCert \/ WriteServerKey \/ CheckAdmin \/ InsertAdmin \/ AdminDomain
    \/ AdminMember \/ WriteBundle \/ BundleFails \/ DefaultDomain \/ Serve
    \/ TakeBundle \/ Kill

-----------------------------------------------------------------------------
(* Authentication *)

HandlerUnchanged == UNCHANGED <<files, traffic>>
Goto(s, l) == pc' = [pc EXCEPT ![s] = l]
End(s) ==
    /\ Goto(s, "idle")
    /\ req' = [req EXCEPT ![s] = NoBundle]
    /\ val' = [val EXCEPT ![s] = 0]

\* A certificate or token of a bundle is accepted: the generation is the row's
\* (fingerprint, token hash), the client neither revoked nor expired.
Accepted(b) ==
    /\ Known(b.name)
    /\ client[b.name].gen = b.gen
    /\ ~client[b.name].revoked /\ ~client[b.name].expired

\* A request arrives.  The TLS handshake has verified the certificate's chain.
Arrive(s) ==
    /\ pc[s] = "idle" /\ boot = "up"
    /\ \E c \in held, t \in held :
          /\ c.ca = disk["ca_cert"]
          /\ req' = [req EXCEPT ![s] =
                        [cert |-> c, token |-> t, live |-> c = t /\ Accepted(c)]]
    /\ Goto(s, "cert")
    /\ UNCHANGED <<tables, held, val, mishap, proved, overtaken>> /\ HandlerUnchanged

\* Faulty variant: the fingerprint is not compared.
LookupByCnNameOnly(s) ==
    LET b == req[s].cert IN
    /\ pc[s] = "cert"
    /\ IF Known(b.name) /\ ~client[b.name].revoked /\ ~client[b.name].expired
       THEN Goto(s, "token") /\ UNCHANGED <<req, val>> ELSE End(s)
    /\ UNCHANGED <<tables, held, mishap, proved, overtaken>> /\ HandlerUnchanged

\* from_request, first factor.
LookupByCn(s) ==
    /\ pc[s] = "cert"
    /\ IF Accepted(req[s].cert)
       THEN Goto(s, "token") /\ UNCHANGED <<req, val>> ELSE End(s)
    /\ UNCHANGED <<tables, held, mishap, proved, overtaken>> /\ HandlerUnchanged

\* Second factor: the token, of the same client.  What the request asks for
\* matters from here on.
LookupByToken(s) ==
    LET b == req[s].token IN
    /\ pc[s] = "token"
    /\ IF Accepted(b) /\ b.name = req[s].cert.name
       THEN /\ \E o \in traffic, n \in Name, r \in Role :
                  /\ o # "create" => r = "user"
                  /\ o \in {"enroll", "verify"} => n = b.name
                  /\ req' = [req EXCEPT ![s] =
                                [op |-> o, caller |-> b.name, target |-> n, role |-> r,
                                 live |-> req[s].live]]
            /\ Goto(s, "act") /\ UNCHANGED val
       ELSE End(s)
    /\ UNCHANGED <<tables, held, mishap, proved, overtaken>> /\ HandlerUnchanged

Caller(s) == req[s].caller
Target(s) == req[s].target
Doing(s, o) == pc[s] = "act" /\ req[s].op = o
IsAdmin(s) == client[Caller(s)].role = "admin"

\* require_admin
NotAdmin(s) ==
    /\ pc[s] = "act" /\ req[s].op \in {"create", "rotate", "revoke"}
    /\ ~IsAdmin(s)
    /\ End(s)
    /\ UNCHANGED <<tables, held, mishap, proved, overtaken>> /\ HandlerUnchanged

-----------------------------------------------------------------------------
(* Clients *)

\* create_client: the INSERT, or 409 when the name is taken.
CreateInsert(s) ==
    LET n == Target(s) IN
    /\ Doing(s, "create") /\ IsAdmin(s)
    /\ IF Known(n)
       THEN End(s) /\ UNCHANGED <<client, issued>>
       ELSE /\ client' = [client EXCEPT ![n] = NewRow(req[s].role, 1)]
            /\ issued' = [issued EXCEPT ![n] = 1]
            /\ val' = [val EXCEPT ![s] = 1]
            /\ Goto(s, "join") /\ UNCHANGED req
    /\ UNCHANGED <<domain, member, secrets, held, mishap, proved, overtaken>>
    /\ HandlerUnchanged

\* The membership of the default domain; a failure is ignored.
CreateJoin(s) ==
    /\ pc[s] = "join"
    /\ member' \in {member, member \cup {<<"default", Target(s)>>}}
    /\ Goto(s, "domain")
    /\ UNCHANGED <<client, domain, issued, secrets, held, req, val, mishap, proved,
                   overtaken>>
    /\ HandlerUnchanged

\* ensure_user_domain: the domain, then the membership.
CreateDomain(s) ==
    /\ pc[s] = "domain"
    /\ domain' = domain \cup {Target(s)}
    /\ Goto(s, "member")
    /\ UNCHANGED <<client, member, issued, secrets, held, req, val, mishap, proved,
                   overtaken>>
    /\ HandlerUnchanged

CreateMember(s) ==
    /\ pc[s] = "member"
    /\ member' = member \cup {<<Target(s), Target(s)>>}
    /\ Goto(s, "answer")
    /\ UNCHANGED <<client, domain, issued, secrets, held, req, val, mishap, proved,
                   overtaken>>
    /\ HandlerUnchanged

\* The bundle is generated from the CA in memory and goes out with the answer.
AnswerBundle(s) ==
    /\ pc[s] = "answer"
    /\ held' = held \cup {[name |-> Target(s), gen |-> val[s], ca |-> ca]}
    /\ End(s)
    /\ UNCHANGED <<tables, mishap, proved, overtaken>> /\ HandlerUnchanged

\* rotate_client: the SELECT of an active row; the bundle is generated.
RotateSelect(s) ==
    LET n == Target(s) IN
    /\ Doing(s, "rotate") /\ IsAdmin(s)
    /\ IF Known(n) /\ ~client[n].revoked
       THEN /\ issued[n] < MaxGen
            /\ issued' = [issued EXCEPT ![n] = @ + 1]
            /\ val' = [val EXCEPT ![s] = issued[n] + 1]
            /\ Goto(s, "update") /\ UNCHANGED req
       ELSE End(s) /\ UNCHANGED issued
    /\ UNCHANGED <<client, domain, member, secrets, held, mishap, proved, overtaken>>
    /\ HandlerUnchanged

\* The UPDATE goes by id: hash, fingerprint and expiry, whatever the row is.
RotateUpdate(s) ==
    /\ pc[s] = "update"
    /\ client' = [client EXCEPT ![Target(s)].gen = val[s], ![Target(s)].expired = FALSE]
    /\ Goto(s, "answer")
    /\ UNCHANGED <<domain, member, issued, secrets, held, req, val, mishap, proved,
                   overtaken>>
    /\ HandlerUnchanged

\* Faulty variant: a client may revoke itself.
RevokeAnyone(s) ==
    LET n == Target(s) IN
    /\ Doing(s, "revoke") /\ IsAdmin(s)
    /\ client' = IF Known(n) THEN [client EXCEPT ![n].revoked = TRUE] ELSE client
    /\ End(s)
    /\ UNCHANGED <<domain, member, issued, secrets, held, mishap, proved, overtaken>>
    /\ HandlerUnchanged

\* revoke_client_endpoint: never the caller.  Two administrators who revoke
\* each other at once both succeed.
Revoke(s) ==
    LET n == Target(s) IN
    /\ Doing(s, "revoke") /\ IsAdmin(s)
    /\ client' = IF n # Caller(s) /\ Known(n)
                 THEN [client EXCEPT ![n].revoked = TRUE] ELSE client
    /\ mishap' = (mishap \/ client[Caller(s)].revoked)
    /\ End(s)
    /\ UNCHANGED <<domain, member, issued, secrets, held, proved, overtaken>>
    /\ HandlerUnchanged

\* The bundle of a client runs out.
Expire(n) ==
    /\ boot = "up"
    /\ Known(n) /\ ~client[n].expired
    /\ client' = [client EXCEPT ![n].expired = TRUE]
    /\ mishap' = (mishap \/ client[n].role = "admin")
    /\ UNCHANGED <<files, domain, member, issued, secrets, held, local, proved, overtaken>>

-----------------------------------------------------------------------------
(* TOTP *)

\* enroll_totp: a new secret, not yet confirmed, whether there was one or not.
Enroll(s) ==
    LET n == Caller(s) IN
    /\ Doing(s, "enroll") /\ secrets[n] < MaxSecret
    /\ secrets' = [secrets EXCEPT ![n] = @ + 1]
    /\ client' = [client EXCEPT ![n].totp = secrets[n] + 1, ![n].enrolled = FALSE]
    /\ overtaken' = overtaken \ {n}
    /\ End(s)
    /\ UNCHANGED <<domain, member, issued, held, mishap, proved>> /\ HandlerUnchanged

\* verify_totp: the stored secret is selected.  The code shown may be right or
\* wrong for it.
VerifySelect(s) ==
    LET n == Caller(s) IN
    /\ Doing(s, "verify")
    /\ \/ /\ client[n].totp > 0
          /\ val' = [val EXCEPT ![s] = client[n].totp]
          /\ proved' = [proved EXCEPT ![n] = client[n].totp]
          /\ Goto(s, "check") /\ UNCHANGED req
       \/ End(s) /\ UNCHANGED proved
    /\ UNCHANGED <<tables, held, mishap, overtaken>> /\ HandlerUnchanged

\* The code was right: the flag is set on the row, whatever secret it has now;
\* a failure is ignored.
VerifyFlag(s) ==
    LET n == Caller(s) IN
    /\ pc[s] = "check"
    /\ \/ /\ client' = [client EXCEPT ![n].enrolled = TRUE]
          /\ overtaken' = IF client[n].totp = val[s] THEN overtaken
                          ELSE overtaken \cup {n}
       \/ UNCHANGED <<client, overtaken>>
    /\ End(s)
    /\ UNCHANGED <<domain, member, issued, secrets, held, mishap, proved>>
    /\ HandlerUnchanged

-----------------------------------------------------------------------------
\* The connection closes or a statement fails: the handler is dropped.
Drop(s) ==
    /\ pc[s] # "idle"
    /\ mishap' = (mishap \/ Pending(s))
    /\ End(s)
    /\ UNCHANGED <<tables, held, proved, overtaken>> /\ HandlerUnchanged

CreateClient(s) ==
    CreateInsert(s) \/ CreateJoin(s) \/ CreateDomain(s) \/ CreateMember(s)
RotateClient(s) == RotateSelect(s) \/ RotateUpdate(s)
MfaVerify(s) == VerifySelect(s) \/ VerifyFlag(s)

Handle(s) ==
    \/ Arrive(s) \/ LookupByCn(s) \/ LookupByToken(s) \/ NotAdmin(s)
    \/ CreateClient(s) \/ RotateClient(s) \/ AnswerBundle(s) \/ Revoke(s)
    \/ Enroll(s) \/ MfaVerify(s) \/ Drop(s)

Next == Boot \/ (\E n \in Name : Expire(n)) \/ \E s \in Slot : Handle(s)

Spec == Init /\ [][Next]_vars

-----------------------------------------------------------------------------
(* Properties *)

\* Of a running server somebody holds, or is about to be given, a valid bundle
\* of an administrator, although bootstrap, creation and rotation replace the
\* bundle first and deliver it later.  Lost otherwise only by a kill or an error
\* between the two, by expiry, or by administrators who revoke each other.
AdminReachable ==
    TypeOK /\ (boot = "up" /\ ~mishap =>
        \E n \in Name :
            /\ ActiveAdmin(n)
            /\ \/ [name |-> n, gen |-> client[n].gen, ca |-> ca] \in held
               \/ \E s \in Slot : Pending(s) /\ Target(s) = n /\ val[s] = client[n].gen
               \/ n = "admin" /\ client[n].gen = 1 /\ disk["admin_bundle"] = ca)

\* A request that gets past authentication had brought one whole bundle that
\* was valid when it arrived: not the certificate of one rotation with the
\* token of another, nor a bundle rotated, revoked or expired before (auth.rs:
\* "a full bundle is the only accepted credential").
OnlyLiveBundles ==
    \A s \in Slot : pc[s] \notin {"idle", "cert", "token"} => req[s].live

\* The boot fails for good only on a file torn by a kill, or because no
\* administrator is left and the name of the first one is taken.
FailsOnlyTorn ==
    boot = "failed" =>
        \/ Torn \in {disk["ca_cert"], disk["server_key"]}
        \/ Known("admin") /\ \A n \in Name : ~ActiveAdmin(n)

\* Every bundle ever handed out is signed by the CA of the running server, and
\* so is the server's own certificate: no restart replaces the trust anchor.
OneTrustAnchor ==
    boot = "up" =>
        /\ disk["ca_cert"] = ca /\ disk["server_cert"] = ca
        /\ \A b \in held : b.ca = ca

\* A client that is marked as enrolled has proved to possess the very secret
\* that is stored, unless a new enrolment overtook the verification.
EnrolledProved ==
    \A n \in Name :
        Known(n) /\ client[n].enrolled => proved[n] = client[n].totp \/ n \in overtaken

\* Whoever holds the bundle a creation answered with has its own domain and
\* administers it; a client whose creation was cut off and that is given a
\* rotated bundle need not.
DeliveredWithDomain ==
    \A b \in held :
        b.name # "admin" /\ b.gen = 1 => b.name \in domain /\ <<b.name, b.name>> \in member

\* Credentials stand for what was proved and provisioned, although each is
\* read, issued and replaced by several statements.
CredentialsSound == OnlyLiveBundles /\ EnrolledProved /\ DeliveredWithDomain

\* Kills and restarts never replace what the volume was provisioned with, and
\* keep it from booting only where they tore a file or, by crossed revocations,
\* no administrator is left.
BootsSound == FailsOnlyTorn /\ OneTrustAnchor
=============================================================================
