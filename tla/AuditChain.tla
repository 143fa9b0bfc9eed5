------------------------------ MODULE AuditChain ------------------------------
(***************************************************************************)
(* The audit log: audit of auth.rs appends rows to a hash chain,           *)
(* verify_audit of server.rs recomputes it, audit_archive_create exports   *)
(* its oldest rows to an archive file and may prune them, leaving an       *)
(* anchor from which verification resumes.                                 *)
(*                                                                         *)
(* A row's hash is identified with its id, the hash before the first row   *)
(* with 0: the keyed SHA3 of distinct rows is taken to be distinct, so a   *)
(* row is what its prev_hash says it continues.  A process is one call: an *)
(* audited request, a verification or an archival; the last two end with   *)
(* an audit row of their own.                                              *)
(***************************************************************************)
EXTENDS Naturals, FiniteSets, FiniteSetsExt

CONSTANTS
    Call,      \* calls, each running once
    MaxRows,   \* bound on the rows a log starts with
    Prune,     \* may an archival prune?
    CutOffs,   \* may a call be cut off between two statements?
    NoCall     \* nobody holds the advisory lock

ASSUME AuditAssumption ==
    /\ MaxRows \in Nat
    /\ Prune \in BOOLEAN /\ CutOffs \in BOOLEAN
    /\ NoCall \notin Call

VARIABLES
    live,      \* ids of the rows in blackbook_audit
    prev,      \* prev_hash of every row ever committed
    nextId,    \* the sequence behind blackbook_audit.id
    anchors,   \* blackbook_audit_anchors: id and hash of the last row pruned
    archives,  \* row sets of the archive files on the data volume
    lock,      \* holder of pg_advisory_xact_lock(7919001)
    stage,     \* what a call is about to do
    start,     \* chain value a call continues from
    sel        \* rows a call has selected

table == <<live, prev, nextId>>
auditVars == <<live, prev, nextId, anchors, archives, lock, stage, start, sel>>

Stages == {"idle", "append", "head", "insert", "select", "file", "delete", "anchor",
        "check", "done", "refused", "alarm", "dead", "cut"}
Ended == {"done", "refused", "alarm", "dead", "cut"}
Committed == DOMAIN prev

\* Types of the tables and of the calls' locals.
AuditTypeOK ==
    /\ Committed \subseteq 1..(nextId - 1) /\ prev \in [Committed -> Nat]
    /\ live \subseteq Committed
    /\ nextId \in Nat \ {0}
    /\ anchors \subseteq Committed
    /\ archives \subseteq SUBSET Committed
    /\ lock \in Call \cup {NoCall}
    /\ stage \in [Call -> Stages]
    /\ start \in [Call -> Nat]
    /\ sel \in [Call -> SUBSET Committed]

\* A log of some rows, nothing archived yet.
AuditInit ==
    /\ \E n \in 0..MaxRows :
         /\ live = 1..n
         /\ prev = [i \in 1..n |-> i - 1]
         /\ nextId = n + 1
    /\ anchors = {} /\ archives = {} /\ lock = NoCall
    /\ stage = [p \in Call |-> "idle"]
    /\ start = [p \in Call |-> 0]
    /\ sel = [p \in Call |-> {}]

MoveTo(p, l) == stage' = [stage EXCEPT ![p] = l]

\* The greatest of a set of ids, 0 when there is none.
Last(S) == IF S = {} THEN 0 ELSE Max(S)

\* The rows S, in id order, form a chain that continues from a: what
\* verify_audit and verify_archive recompute.
Chains(S, a) ==
    \A i \in S : LET before == {j \in S : j < i} IN
        prev[i] = IF before = {} THEN a ELSE Max(before)

\* latest_audit_anchor, or the genesis value.
LatestAnchor == Last(anchors)

-----------------------------------------------------------------------------
(* audit: one transaction, serialized by the advisory lock *)

Request(p) ==
    /\ stage[p] = "idle"
    /\ MoveTo(p, "append")
    /\ UNCHANGED <<table, anchors, archives, lock, start, sel>>

\* Faulty variant: no lock is taken.
AppendNoLock(p) ==
    /\ stage[p] = "append"
    /\ MoveTo(p, "head")
    /\ UNCHANGED <<table, anchors, archives, lock, start, sel>>

AppendLock(p) ==
    /\ stage[p] = "append" /\ lock = NoCall
    /\ lock' = p
    /\ MoveTo(p, "head")
    /\ UNCHANGED <<table, anchors, archives, start, sel>>

\* SELECT row_hash ... ORDER BY id DESC LIMIT 1, or zeros.
AppendHead(p) ==
    /\ stage[p] = "head"
    /\ start' = [start EXCEPT ![p] = Last(live)]
    /\ MoveTo(p, "insert")
    /\ UNCHANGED <<table, anchors, archives, lock, sel>>

\* INSERT and COMMIT; the lock goes with the transaction.
AppendInsert(p) ==
    /\ stage[p] = "insert"
    /\ prev' = [i \in Committed \cup {nextId} |->
                   IF i = nextId THEN start[p] ELSE prev[i]]
    /\ live' = live \cup {nextId}
    /\ nextId' = nextId + 1
    /\ lock' = NoCall
    /\ MoveTo(p, "done")
    /\ UNCHANGED <<anchors, archives, start, sel>>

\* The INSERT or the COMMIT fails: logged and ignored, the id is used up.
AppendFail(p) ==
    /\ CutOffs
    /\ stage[p] = "insert"
    /\ nextId' = nextId + 1
    /\ lock' = NoCall
    /\ MoveTo(p, "done")
    /\ UNCHANGED <<live, prev, anchors, archives, start, sel>>

-----------------------------------------------------------------------------
(* verify_audit: the rows, then in another statement the anchor *)

VerifyRows(p) ==
    /\ stage[p] = "idle"
    /\ sel' = [sel EXCEPT ![p] = live]
    /\ MoveTo(p, "check")
    /\ UNCHANGED <<table, anchors, archives, lock, start>>

VerifyChain(p) ==
    /\ stage[p] = "check"
    /\ MoveTo(p, IF Chains(sel[p], LatestAnchor) THEN "append" ELSE "alarm")
    /\ UNCHANGED <<table, anchors, archives, lock, start, sel>>

-----------------------------------------------------------------------------
(* audit_archive_create *)

ArchiveAnchor(p) ==
    /\ stage[p] = "idle"
    /\ start' = [start EXCEPT ![p] = LatestAnchor]
    /\ MoveTo(p, "select")
    /\ UNCHANGED <<table, anchors, archives, lock, sel>>

\* The oldest rows up to a cutoff that leaves at least the newest one.
Cutoffs(S) ==
    {T \in SUBSET S : Max(S) \notin T /\ \A i \in T, j \in S : j < i => j \in T}

\* The rows beyond the anchor are read and a cutoff chosen; nothing to do, a
\* bad argument and a range that does not verify are answered at once.
ArchiveSelect(p) ==
    LET S == {i \in live : i > start[p]} IN
    /\ stage[p] = "select"
    /\ \/ /\ Cardinality(S) > 1
          /\ \E T \in Cutoffs(S) \ {{}} :
               /\ Chains(T, start[p])
               /\ sel' = [sel EXCEPT ![p] = T]
          /\ MoveTo(p, "file")
       \/ MoveTo(p, "refused") /\ UNCHANGED sel
    /\ UNCHANGED <<table, anchors, archives, lock, start>>

ArchiveFile(p) ==
    /\ stage[p] = "file"
    /\ archives' = archives \cup {sel[p]}
    /\ \/ MoveTo(p, "append")
       \/ Prune /\ MoveTo(p, "delete")
    /\ UNCHANGED <<table, anchors, lock, start, sel>>

\* Faulty variant: everything up to the newest row goes.
PruneDeleteToHead(p) ==
    /\ stage[p] = "delete"
    /\ live' = {i \in live : ~(i > start[p] /\ i < Max(live))}
    /\ MoveTo(p, "anchor")
    /\ UNCHANGED <<prev, nextId, anchors, archives, lock, start, sel>>

\* DELETE ... WHERE id > anchor AND id <= last_id
PruneDelete(p) ==
    /\ stage[p] = "delete"
    /\ live' = {i \in live : ~(i > start[p] /\ i <= Max(sel[p]))}
    /\ MoveTo(p, "anchor")
    /\ UNCHANGED <<prev, nextId, anchors, archives, lock, start, sel>>

\* Faulty variant: the anchor is the first row of the archive.
PruneAnchorFirst(p) ==
    /\ stage[p] = "anchor"
    /\ anchors' = anchors \cup {Min(sel[p])}
    /\ MoveTo(p, "append")
    /\ UNCHANGED <<table, archives, lock, start, sel>>

PruneAnchor(p) ==
    /\ stage[p] = "anchor"
    /\ anchors' = anchors \cup {Max(sel[p])}
    /\ MoveTo(p, "append")
    /\ UNCHANGED <<table, archives, lock, start, sel>>

-----------------------------------------------------------------------------
\* Faulty variant: a session lock outlives the call.
CutOffKeepsLock(p) ==
    /\ CutOffs
    /\ stage[p] \notin Ended \cup {"idle"}
    /\ MoveTo(p, IF stage[p] = "anchor" THEN "cut" ELSE "dead")
    /\ UNCHANGED <<table, anchors, archives, lock, start, sel>>

\* A call is cut off: the server stops, the client is gone, a statement
\* fails.  An open transaction is rolled back and its lock released; a prune
\* has no transaction and may be cut between its two statements.
CutOff(p) ==
    /\ CutOffs
    /\ stage[p] \notin Ended \cup {"idle"}
    /\ lock' = IF lock = p THEN NoCall ELSE lock
    /\ MoveTo(p, IF stage[p] = "anchor" THEN "cut" ELSE "dead")
    /\ UNCHANGED <<table, anchors, archives, start, sel>>

Audit(p) == Request(p) \/ AppendLock(p) \/ AppendHead(p) \/ AppendInsert(p)
            \/ AppendFail(p)
Verify(p) == VerifyRows(p) \/ VerifyChain(p)
Archive(p) == ArchiveAnchor(p) \/ ArchiveSelect(p) \/ ArchiveFile(p)
              \/ PruneDelete(p) \/ PruneAnchor(p)

Terminated == (\A p \in Call : stage[p] \in Ended) /\ UNCHANGED auditVars

CallStep(p) == Audit(p) \/ Verify(p) \/ Archive(p)

AuditNext == (\E p \in Call : CallStep(p) \/ CutOff(p)) \/ Terminated

AuditSpec == AuditInit /\ [][AuditNext]_auditVars

\* A call that has begun keeps running; the database grants a free lock.
FairAuditSpec == AuditSpec /\ \A p \in Call : WF_auditVars(stage[p] # "idle" /\ CallStep(p))

-----------------------------------------------------------------------------
(* Properties *)

\* However appends, archivals and aborted calls interleave, the rows ever
\* committed form one chain without a fork or a gap.
OneChain == AuditTypeOK /\ Chains(Committed, 0)

\* The newest row is never pruned, even by two archivals at once, so that the
\* next append finds the true end of the chain.
HeadKept == Committed # {} => Max(Committed) \in live

\* A committed row is in the table or in an archive file, whatever was cut
\* off: a prune removes only what its archive holds.
NothingLost == \A i \in Committed : i \in live \/ \E f \in archives : i \in f

\* Archival with prune takes no row away that something still needs: the next
\* append the newest, an auditor any.
PruneKeeps == HeadKept /\ NothingLost

\* Is a prune between its DELETE and its INSERT, or was one cut off there?
HalfPruned == \E p \in Call : stage[p] \in {"anchor", "cut"}

\* Whatever appends, archivals and aborted calls went on, the rows in the table
\* continue from the latest anchor: the log verifies.  Only a prune cut in
\* half breaks that.
Verifiable == ~HalfPruned => Chains(live, LatestAnchor)

\* Nobody tampers with the log here, so a verification raises an alarm only
\* when prunes have been at work beside it.
NoFalseAlarm ==
    anchors = {} /\ ~HalfPruned => \A p \in Call : stage[p] # "alarm"

\* An honest log verifies, at rest and while it is being verified.
VerifiesHonest == Verifiable /\ NoFalseAlarm

\* A call that has to write its audit row does so or is cut off; a call that
\* died holding the lock does not block the others.
AppendsEnd == \A p \in Call : stage[p] = "append" ~> stage[p] \in Ended
=============================================================================
