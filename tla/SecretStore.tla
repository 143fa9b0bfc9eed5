----------------------------- MODULE SecretStore -----------------------------
(***************************************************************************)
(* The secret store: the handlers store_data, retrieve_data, delete_data   *)
(* and cleanup_secrets of server.rs over the table blackbook_secrets, with *)
(* the ACL check and use count of auth.rs they are wrapped in.             *)
(*                                                                         *)
(* The handlers are async: between two SQL statements any other request    *)
(* may run.  One action is one SQL statement together with the local code  *)
(* up to the next one.  A request is a member of Req and is handled once,  *)
(* so |Req| is the number of requests a run explores; the proofs hold for  *)
(* any set Req.                                                            *)
(***************************************************************************)
EXTENDS Integers, FiniteSets

CONSTANTS
    Req,          \* requests, each served by one handler invocation
    Id,           \* resource ids (Id::new(32) never repeats)
    Name,         \* resource names of the domain, seen through name_id
    Data,         \* plaintexts
    Rule,         \* rows of blackbook_acl
    RuleActions,  \* the actions bit set of a rule
    RuleMaxUses,  \* max_uses of a rule, or NoMax
    FlagChoices,  \* the flags a store may carry
    Faults,       \* may statements fail and handlers be dropped half way?
    NoMax,        \* SQL NULL for max_reads and max_uses
    Scrubbed,     \* the empty ciphertext a tombstone holds
    NoId,         \* the lookup found no row
    NoRow,        \* no snapshot taken
    Admin         \* AclDecision::AllowedAdmin / AllowedDomainAdmin

\* ResourceFlags, plus gated: the row has mfa_required or an access_policy,
\* so a gate of its own decides between the ACL check and the claim.
Flags == [maxReads : Int \cup {NoMax}, deleteOnRead : BOOLEAN,
          noOverwrite : BOOLEAN, preserve : BOOLEAN, gated : BOOLEAN]

AclAction == {"create", "read", "update", "delete"}

ASSUME ConstantsAssumption ==
    /\ NoMax \notin Int
    /\ Scrubbed \notin Data
    /\ NoId \notin Id
    /\ Admin \notin Rule
    /\ FlagChoices \subseteq Flags
    /\ RuleActions \in [Rule -> SUBSET AclAction]
    /\ RuleMaxUses \in [Rule -> Nat \cup {NoMax}]
    /\ Faults \in BOOLEAN

\* A row of blackbook_secrets.  data stands for data_layer1/2, wrapped_key
\* and external_envelope, which are always written together.
Row == [name : Name, data : Data \cup {Scrubbed}, flags : FlagChoices,
        readCount : Nat, exhausted : BOOLEAN]

ASSUME NoRowAssumption == NoRow \notin Row

VARIABLES
    rows,      \* the resource ids now in the table
    sec,       \* last content of every row ever inserted
    useCount,  \* blackbook_acl.use_count
    pc,        \* where each request's handler is
    op,        \* which handler it is
    rid,       \* the resource id its lookup returned
    row,       \* the row it read (retrieve) or means to write (store)
    rule,      \* the AclDecision it holds
    ticket,    \* the read_count its claim returned, 0 if none
    todo       \* the ids cleanup has selected and not yet deleted

tableVars == <<rows, sec, useCount>>
vars == <<rows, sec, useCount, pc, op, rid, row, rule, ticket, todo>>

PcStates == {"idle", "acl", "gate", "claim", "post", "write", "delete", "sweep",
             "record", "respond", "served", "ok", "refused", "aborted"}
Ops == {"none", "store", "retrieve", "delete", "cleanup"}
Finished == {"served", "ok", "refused", "aborted"}

\* Types of every variable; sec keeps a row for each id ever inserted.
TypeOK ==
    /\ rows \subseteq DOMAIN sec
    /\ DOMAIN sec \subseteq Id
    /\ sec \in [DOMAIN sec -> Row]
    /\ useCount \in [Rule -> Nat]
    /\ pc \in [Req -> PcStates]
    /\ op \in [Req -> Ops]
    /\ rid \in [Req -> Id \cup {NoId}]
    /\ row \in [Req -> Row \cup {NoRow}]
    /\ rule \in [Req -> Rule \cup {Admin}]
    /\ ticket \in [Req -> Nat]
    /\ todo \in [Req -> SUBSET Id]

\* Faulty variant: read_count has no default.
FreshRowNullCount(n, d, f) ==
    [name |-> n, data |-> d, flags |-> f, readCount |-> NoMax, exhausted |-> FALSE]

FreshRow(n, d, f) ==
    [name |-> n, data |-> d, flags |-> f, readCount |-> 0, exhausted |-> FALSE]

FreshRows == {FreshRow(n, d, f) : n \in Name, d \in Data, f \in FlagChoices}

\* Some secrets are already stored, no request has arrived.
Init ==
    /\ rows \in SUBSET Id
    /\ sec \in [rows -> FreshRows]
    /\ \A i, j \in rows : sec[i].name = sec[j].name => i = j
    /\ useCount = [u \in Rule |-> 0]
    /\ pc = [r \in Req |-> "idle"]
    /\ op = [r \in Req |-> "none"]
    /\ rid = [r \in Req |-> NoId]
    /\ row = [r \in Req |-> NoRow]
    /\ rule = [r \in Req |-> Admin]
    /\ ticket = [r \in Req |-> 0]
    /\ todo = [r \in Req |-> {}]

-----------------------------------------------------------------------------
(* Helpers *)

\* SELECT ... WHERE domain_id = $1 AND name_id = $2
Lookup(n) == {i \in rows : sec[i].name = n}

\* The rules that may authorize act: action bit set, uses left.
Candidates(act) ==
    {u \in Rule : act \in RuleActions[u] /\
                  (RuleMaxUses[u] = NoMax \/ useCount[u] < RuleMaxUses[u])}

\* The tightest of max_reads and (1 for delete_on_read); NoMax is "uncapped".
Cap(f) ==
    CASE f.deleteOnRead /\ f.maxReads = NoMax -> 1
      [] f.deleteOnRead /\ f.maxReads # NoMax ->
             IF f.maxReads > 1 THEN 1 ELSE f.maxReads
      [] OTHER -> f.maxReads

\* Faulty variant: the claim forgets to compare the counter.
ClaimableNoCount(i, cap) == i \in rows /\ ~sec[i].exhausted

\* The claim's WHERE clause, evaluated on the row as it is now.
Claimable(i, cap) ==
    i \in rows /\ ~sec[i].exhausted /\ sec[i].readCount < cap

Goto(r, l) == pc' = [pc EXCEPT ![r] = l]

Receive(r, o) == pc[r] = "idle" /\ op' = [op EXCEPT ![r] = o]

-----------------------------------------------------------------------------
(* store_data *)

StoreSelectNew(r) ==
    /\ Receive(r, "store")
    /\ \E n \in Name, d \in Data, f \in FlagChoices :
         /\ Lookup(n) = {}
         /\ row' = [row EXCEPT ![r] = FreshRow(n, d, f)]
    /\ Goto(r, "acl")
    /\ UNCHANGED <<rows, sec, useCount, rid, rule, ticket, todo>>

\* Faulty variant: the immutable test is missing.
StoreSelectExistingNoCheck(r) ==
    /\ Receive(r, "store")
    /\ \E n \in Name, d \in Data, f \in FlagChoices : \E i \in Lookup(n) :
         /\ rid' = [rid EXCEPT ![r] = i]
         /\ row' = [row EXCEPT ![r] = FreshRow(n, d, f)]
    /\ Goto(r, "acl")
    /\ UNCHANGED <<rows, sec, useCount, rule, ticket, todo>>

\* An overwrite is accepted when the row found is not no_overwrite.
StoreSelectExisting(r) ==
    /\ Receive(r, "store")
    /\ \E n \in Name, d \in Data, f \in FlagChoices : \E i \in Lookup(n) :
         /\ ~sec[i].flags.noOverwrite
         /\ rid' = [rid EXCEPT ![r] = i]
         /\ row' = [row EXCEPT ![r] = FreshRow(n, d, f)]
    /\ Goto(r, "acl")
    /\ UNCHANGED <<rows, sec, useCount, rule, ticket, todo>>

\* 409: immutable, or already exists and overwrite not requested.
StoreConflict(r) ==
    /\ Receive(r, "store")
    /\ \E n \in Name : Lookup(n) # {}
    /\ Goto(r, "refused")
    /\ UNCHANGED <<rows, sec, useCount, rid, row, rule, ticket, todo>>

\* Faulty variant: an overwrite clears exhausted_at.
StoreUpdateResurrects(r) ==
    /\ pc[r] = "write" /\ rid[r] # NoId
    /\ sec' = IF rid[r] \in rows
              THEN [sec EXCEPT ![rid[r]].data = row[r].data,
                               ![rid[r]].exhausted = FALSE] ELSE sec
    /\ Goto(r, "record")
    /\ UNCHANGED <<rows, useCount, op, rid, row, rule, ticket, todo>>

\* Faulty variant: an overwrite replaces the flags as well.
StoreUpdateFlags(r) ==
    /\ pc[r] = "write" /\ rid[r] # NoId
    /\ sec' = IF rid[r] \in rows
              THEN [sec EXCEPT ![rid[r]].data = row[r].data,
                               ![rid[r]].flags = row[r].flags] ELSE sec
    /\ Goto(r, "record")
    /\ UNCHANGED <<rows, useCount, op, rid, row, rule, ticket, todo>>

\* UPDATE ... WHERE resource_id: touches data only, nothing if the row has
\* gone meanwhile; both are answered 201 "updated".
StoreUpdate(r) ==
    /\ pc[r] = "write" /\ rid[r] # NoId
    /\ sec' = IF rid[r] \in rows
              THEN [sec EXCEPT ![rid[r]].data = row[r].data] ELSE sec
    /\ Goto(r, "record")
    /\ UNCHANGED <<rows, useCount, op, rid, row, rule, ticket, todo>>

\* INSERT under a new id.
StoreInsert(r) ==
    /\ pc[r] = "write" /\ rid[r] = NoId
    /\ Lookup(row[r].name) = {}
    /\ \E i \in Id \ DOMAIN sec :
         /\ rows' = rows \cup {i}
         /\ sec' = [j \in DOMAIN sec \cup {i} |->
                       IF j = i THEN row[r] ELSE sec[j]]
         /\ rid' = [rid EXCEPT ![r] = i]
    /\ Goto(r, "record")
    /\ UNCHANGED <<useCount, op, row, rule, ticket, todo>>

\* The loser of two creates of one name violates UNIQUE (domain_id, name_id)
\* (500); an invalid access policy is refused before the INSERT (400).
StoreInsertRefused(r) ==
    /\ pc[r] = "write" /\ rid[r] = NoId
    /\ Lookup(row[r].name) # {} \/ row[r].flags.gated
    /\ Goto(r, "refused")
    /\ UNCHANGED <<rows, sec, useCount, op, rid, row, rule, ticket, todo>>

-----------------------------------------------------------------------------
(* retrieve_data *)

\* The row, by id or by name, is copied; it is what will be served.
RetrieveSelect(r) ==
    /\ Receive(r, "retrieve")
    /\ \E i \in rows : /\ rid' = [rid EXCEPT ![r] = i]
                       /\ row' = [row EXCEPT ![r] = sec[i]]
    /\ Goto(r, "acl")
    /\ UNCHANGED <<rows, sec, useCount, rule, ticket, todo>>

\* The tombstone test and the soft max_reads test, both on the snapshot.
SnapshotReadable(s) ==
    /\ ~s.exhausted
    /\ s.flags.maxReads # NoMax => s.readCount < s.flags.maxReads

\* The threshold gate and the MFA check let the read pass.
RetrieveGate(r) ==
    /\ pc[r] = "gate"
    /\ Goto(r, "claim")
    /\ UNCHANGED <<rows, sec, useCount, op, rid, row, rule, ticket, todo>>

RetrieveGateRefuse(r) ==
    /\ pc[r] = "gate"
    /\ Goto(r, "refused")
    /\ UNCHANGED <<rows, sec, useCount, op, rid, row, rule, ticket, todo>>

\* UPDATE ... SET read_count = read_count + 1 WHERE <Claimable> RETURNING
RetrieveClaim(r) ==
    LET i == rid[r]
        cap == Cap(row[r].flags) IN
    /\ pc[r] = "claim" /\ cap # NoMax
    /\ Claimable(i, cap)
    /\ sec' = [sec EXCEPT ![i].readCount = @ + 1]
    /\ ticket' = [ticket EXCEPT ![r] = sec[i].readCount + 1]
    /\ Goto(r, "post")
    /\ UNCHANGED <<rows, useCount, op, rid, row, rule, todo>>

RetrieveClaimRefused(r) ==
    LET cap == Cap(row[r].flags) IN
    /\ pc[r] = "claim" /\ cap # NoMax
    /\ ~Claimable(rid[r], cap)
    /\ Goto(r, "refused")
    /\ UNCHANGED <<rows, sec, useCount, op, rid, row, rule, ticket, todo>>

\* An uncapped read only bumps the counter, best effort, and is served from
\* the snapshot even if the row has gone.
RetrieveCount(r) ==
    /\ pc[r] = "claim" /\ Cap(row[r].flags) = NoMax
    /\ \/ sec' = IF rid[r] \in rows
                 THEN [sec EXCEPT ![rid[r]].readCount = @ + 1] ELSE sec
       \/ Faults /\ UNCHANGED sec
    /\ Goto(r, "post")
    /\ UNCHANGED <<rows, useCount, op, rid, row, rule, ticket, todo>>

\* delete_on_read wins over tombstoning.
RetrieveDelete(r) ==
    /\ pc[r] = "post" /\ op[r] = "retrieve" /\ row[r].flags.deleteOnRead
    /\ rows' = rows \ {rid[r]}
    /\ Goto(r, "record")
    /\ UNCHANGED <<sec, useCount, op, rid, row, rule, ticket, todo>>

\* Faulty variant: the count before the claim decides.
ReachedMaxOnSnapshot(r) ==
    row[r].flags.maxReads # NoMax /\ row[r].readCount >= row[r].flags.maxReads

ReachedMax(r) ==
    row[r].flags.maxReads # NoMax /\ ticket[r] >= row[r].flags.maxReads

\* Faulty variant: every counted read scrubs, only the last one marks.
RetrieveTombstoneEager(r) ==
    /\ pc[r] = "post" /\ op[r] = "retrieve"
    /\ ~row[r].flags.deleteOnRead /\ row[r].flags.maxReads # NoMax
    /\ sec' = IF rid[r] \in rows
              THEN [sec EXCEPT ![rid[r]].data = Scrubbed,
                               ![rid[r]].exhausted = @ \/ ReachedMax(r)] ELSE sec
    /\ Goto(r, "record")
    /\ UNCHANGED <<rows, useCount, op, rid, row, rule, ticket, todo>>

\* The final read scrubs the row in place.
RetrieveTombstone(r) ==
    /\ pc[r] = "post" /\ op[r] = "retrieve"
    /\ ~row[r].flags.deleteOnRead /\ ReachedMax(r)
    /\ sec' = IF rid[r] \in rows
              THEN [sec EXCEPT ![rid[r]].data = Scrubbed,
                               ![rid[r]].exhausted = TRUE] ELSE sec
    /\ Goto(r, "record")
    /\ UNCHANGED <<rows, useCount, op, rid, row, rule, ticket, todo>>

\* Not the final read; or a fault swallowed the DELETE / the scrub.
RetrieveKeep(r) ==
    /\ pc[r] = "post" /\ op[r] = "retrieve"
    /\ Faults \/ (~row[r].flags.deleteOnRead /\ ~ReachedMax(r))
    /\ Goto(r, "record")
    /\ UNCHANGED <<rows, sec, useCount, op, rid, row, rule, ticket, todo>>

-----------------------------------------------------------------------------
(* delete_data *)

DeleteSelect(r) ==
    /\ Receive(r, "delete")
    /\ \E i \in rows : rid' = [rid EXCEPT ![r] = i]
    /\ Goto(r, "acl")
    /\ UNCHANGED <<rows, sec, useCount, row, rule, ticket, todo>>

DeleteRow(r) ==
    /\ pc[r] = "delete"
    /\ rows' = rows \ {rid[r]}
    /\ Goto(r, "record")
    /\ UNCHANGED <<sec, useCount, op, rid, row, rule, ticket, todo>>

-----------------------------------------------------------------------------
(* cleanup_secrets *)

\* Faulty variant: cleanup goes by the counter instead of exhausted_at.
CleanupSelectSpent(r) ==
    /\ Receive(r, "cleanup")
    /\ todo' = [todo EXCEPT ![r] =
           {i \in rows : /\ sec[i].flags.maxReads # NoMax
                         /\ sec[i].readCount >= sec[i].flags.maxReads
                         /\ ~sec[i].flags.preserve}]
    /\ Goto(r, "sweep")
    /\ UNCHANGED <<rows, sec, useCount, rid, row, rule, ticket>>

\* Tombstoned rows that are not preserved.
CleanupSelect(r) ==
    /\ Receive(r, "cleanup")
    /\ todo' = [todo EXCEPT ![r] =
           {i \in rows : sec[i].exhausted /\ ~sec[i].flags.preserve}]
    /\ Goto(r, "sweep")
    /\ UNCHANGED <<rows, sec, useCount, rid, row, rule, ticket>>

\* One DELETE per selected id, by id alone, best effort.
CleanupDelete(r) ==
    /\ pc[r] = "sweep"
    /\ \E i \in todo[r] :
         /\ todo' = [todo EXCEPT ![r] = @ \ {i}]
         /\ rows' = rows \ {i} \/ (Faults /\ rows' = rows)
    /\ UNCHANGED <<sec, useCount, pc, op, rid, row, rule, ticket>>

CleanupDone(r) ==
    /\ pc[r] = "sweep" /\ todo[r] = {}
    /\ Goto(r, "ok")
    /\ UNCHANGED <<rows, sec, useCount, op, rid, row, rule, ticket, todo>>

-----------------------------------------------------------------------------
(* Shared by the handlers *)

\* A lookup that finds nothing (404).
NotFound(r) ==
    /\ pc[r] = "idle"
    /\ \E o \in {"retrieve", "delete"} : op' = [op EXCEPT ![r] = o]
    /\ Goto(r, "refused")
    /\ UNCHANGED <<rows, sec, useCount, rid, row, rule, ticket, todo>>

ActionOf(r) ==
    CASE op[r] = "retrieve" -> "read"
      [] op[r] = "delete" -> "delete"
      [] op[r] = "store" /\ rid[r] = NoId -> "create"
      [] OTHER -> "update"

AfterAcl(r) ==
    CASE op[r] = "store" -> "write"
      [] op[r] = "delete" -> "delete"
      [] OTHER -> IF ~SnapshotReadable(row[r]) THEN "refused"
                  ELSE IF row[r].flags.gated THEN "gate" ELSE "claim"

\* acl_check: an administrator, or one of the matching rules.
AclAllow(r) ==
    /\ pc[r] = "acl"
    /\ \E d \in {Admin} \cup Candidates(ActionOf(r)) :
         rule' = [rule EXCEPT ![r] = d]
    /\ Goto(r, AfterAcl(r))
    /\ UNCHANGED <<rows, sec, useCount, op, rid, row, ticket, todo>>

AclDeny(r) ==
    /\ pc[r] = "acl"
    /\ Goto(r, "refused")
    /\ UNCHANGED <<rows, sec, useCount, op, rid, row, rule, ticket, todo>>

\* Faulty variant: a read that consumed its secret is not charged.
RecordUseOfLiveRows(r) ==
    /\ pc[r] = "record"
    /\ useCount' = [u \in Rule |-> IF u = rule[r] /\ rid[r] \in rows
                                   THEN useCount[u] + 1 ELSE useCount[u]]
    /\ Goto(r, "respond")
    /\ UNCHANGED <<rows, sec, op, rid, row, rule, ticket, todo>>

\* acl_record_use, best effort.
RecordUse(r) ==
    /\ pc[r] = "record"
    /\ \/ useCount' = [u \in Rule |->
              IF u = rule[r] THEN useCount[u] + 1 ELSE useCount[u]]
       \/ Faults /\ UNCHANGED useCount
    /\ Goto(r, "respond")
    /\ UNCHANGED <<rows, sec, op, rid, row, rule, ticket, todo>>

\* The response leaves; a retrieve's carries the snapshot's data.
Respond(r) ==
    /\ pc[r] = "respond"
    /\ Goto(r, IF op[r] = "retrieve" THEN "served" ELSE "ok")
    /\ UNCHANGED <<rows, sec, useCount, op, rid, row, rule, ticket, todo>>

\* The handler ends early at an await: the client went away and the future
\* is dropped, a statement failed (500), or the server stopped.
Abort(r) ==
    /\ Faults
    /\ pc[r] \notin Finished \cup {"idle"}
    /\ Goto(r, "aborted")
    /\ UNCHANGED <<rows, sec, useCount, op, rid, row, rule, ticket, todo>>

-----------------------------------------------------------------------------
Store(r) ==
    \/ StoreSelectNew(r) \/ StoreSelectExisting(r) \/ StoreConflict(r)
    \/ StoreUpdate(r) \/ StoreInsert(r) \/ StoreInsertRefused(r)

Retrieve(r) ==
    \/ RetrieveSelect(r) \/ RetrieveGate(r) \/ RetrieveGateRefuse(r)
    \/ RetrieveClaim(r) \/ RetrieveClaimRefused(r) \/ RetrieveCount(r)
    \/ RetrieveDelete(r) \/ RetrieveTombstone(r) \/ RetrieveKeep(r)

Delete(r) == DeleteSelect(r) \/ DeleteRow(r)

Cleanup(r) == CleanupSelect(r) \/ CleanupDelete(r) \/ CleanupDone(r)

Shared(r) ==
    NotFound(r) \/ AclAllow(r) \/ AclDeny(r) \/ RecordUse(r) \/ Respond(r)

\* A step the server takes by itself once the request has arrived.
Step(r) ==
    (Store(r) \/ Retrieve(r) \/ Delete(r) \/ Cleanup(r) \/ Shared(r))

\* Every request has been answered or dropped.
Terminated == (\A r \in Req : pc[r] \in Finished) /\ UNCHANGED vars

Next == (\E r \in Req : Step(r) \/ Abort(r)) \/ Terminated

Spec == Init /\ [][Next]_vars

\* A request that has arrived keeps running: the executor polls ready tasks
\* and the database answers.
FairSpec == Spec /\ \A r \in Req : WF_vars(pc[r] # "idle" /\ Step(r))
-----------------------------------------------------------------------------
(* Properties *)

\* The reads of resource i whose data has left, or can no longer be stopped
\* from leaving, the server.
Claimed(i) ==
    {r \in Req : op[r] = "retrieve" /\ rid[r] = i /\
                 pc[r] \in {"post", "record", "respond", "served"}}

\* However reads of one secret interleave with each other, with overwrites,
\* deletes, cleanups, lost statements and dropped handlers, no more of them
\* get past the claim than its tightest cap allows: max_reads in all, one if
\* it is delete_on_read.
CappedReads ==
    \A i \in DOMAIN sec :
        LET cap == Cap(sec[i].flags) IN
        cap # NoMax => Cardinality(Claimed(i)) <= (IF cap > 0 THEN cap ELSE 0)

\* A secret becomes a tombstone only once exactly max_reads reads have been
\* claimed: the final read is the one that scrubs.
TombstoneMeansSpent ==
    \A i \in DOMAIN sec :
        sec[i].exhausted => /\ sec[i].flags.maxReads # NoMax
                            /\ sec[i].readCount = sec[i].flags.maxReads

\* A read that is answered with data never carries the scrubbed ciphertext,
\* although it is served from a snapshot that concurrent final reads scrub.
NeverServesScrubbed ==
    \A r \in Req : pc[r] = "served" => row[r].data \in Data

\* no_overwrite: while such a row exists its data is never replaced by other
\* data, whatever store requests were in flight when it was created.
Immutable ==
    [][\A i \in rows \cap rows' :
          sec[i].flags.noOverwrite =>
             sec'[i].data \in {sec[i].data, Scrubbed}]_vars

\* cleanup selects ids first and deletes them later without looking again;
\* still it only ever removes tombstones, and never a preserved row.
CleanupSparesLive ==
    [][\A r \in Req : todo'[r] # todo[r] /\ pc[r] = "sweep" =>
          \A i \in rows \ rows' :
             sec[i].exhausted /\ ~sec[i].flags.preserve]_vars

\* A tombstone is final: no later overwrite or read revives or counts it.
TombstoneIsFinal ==
    [][\A i \in DOMAIN sec : sec[i].exhausted =>
          sec'[i].exhausted /\ sec'[i].readCount = sec[i].readCount]_vars

\* With no fault, a delete_on_read secret is gone from the table by the time
\* the answer to its one read is sent.
GoneWhenServed ==
    \A r \in Req : pc[r] = "served" /\ row[r].flags.deleteOnRead
                      => rid[r] \notin rows

\* With no fault, every acknowledged operation a rule authorized has been
\* charged to that rule.
UsesCharged ==
    \A u \in Rule :
        Cardinality({r \in Req : rule[r] = u /\ pc[r] \in {"served", "ok"}})
            <= useCount[u]

\* What an answered request owes the store has been paid by then.
ServedIsSettled == GoneWhenServed /\ UsesCharged

\* With no fault, a secret whose last read has been claimed does not keep its
\* data: it becomes a tombstone or disappears.
SpentIsScrubbed ==
    \A i \in Id :
        (i \in rows /\ Cap(sec[i].flags) # NoMax /\ sec[i].readCount > 0
                    /\ sec[i].readCount = Cap(sec[i].flags))
          ~> (i \notin rows \/ sec[i].exhausted)
=============================================================================
