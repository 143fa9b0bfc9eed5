-------------------------- MODULE SecretStoreProofs --------------------------
(***************************************************************************)
(* Proofs about SecretStore, for every set of requests, ids, names, rules  *)
(* and flags.  IInv is the inductive invariant; its conjuncts say what a   *)
(* handler may rely on after it has given up control at an await.          *)
(***************************************************************************)
EXTENDS SecretStoreRefines, FiniteSetTheorems, TLAPS

Reading == {"acl", "gate", "claim", "post", "record", "respond", "served"}
PastTests == {"gate", "claim", "post", "record", "respond", "served"}
PastClaim == {"post", "record", "respond", "served"}

\* A handler's pc fits its kind.
Kinds ==
    \A r \in Req :
        /\ pc[r] \in {"gate", "claim", "post", "served"} => op[r] = "retrieve"
        /\ pc[r] = "write" => op[r] = "store"
        /\ pc[r] = "delete" => op[r] = "delete"
        /\ pc[r] = "acl" => op[r] \in {"store", "retrieve", "delete"}
        /\ pc[r] = "idle" => rid[r] = NoId

\* A reader's snapshot is of a row that was inserted, whose flags are still
\* those of the snapshot; past the tests its data is real.
Snapshots ==
    \A r \in Req :
        op[r] = "retrieve" /\ pc[r] \in Reading =>
            /\ rid[r] \in DOMAIN sec
            /\ row[r] \in Row
            /\ row[r].flags = sec[rid[r]].flags
            /\ ~row[r].exhausted => row[r].data \in Data
            /\ pc[r] \in PastTests => row[r].data \in Data

\* A writer holds a row to write, and overwrites no immutable row.
Writers ==
    \A r \in Req :
        op[r] = "store" /\ pc[r] \in {"acl", "write"} =>
            /\ row[r] \in Row /\ row[r].data \in Data
            /\ row[r].readCount = 0 /\ ~row[r].exhausted
            /\ rid[r] # NoId =>
                  rid[r] \in DOMAIN sec /\ ~sec[rid[r]].flags.noOverwrite

\* The read_counts handed out by claims are distinct and lie within the
\* row's counter.
Tickets ==
    /\ \A r \in Req : ticket[r] # 0 =>
           /\ rid[r] \in DOMAIN sec
           /\ ticket[r] <= sec[rid[r]].readCount
           /\ op[r] = "retrieve" /\ pc[r] \in PastClaim \cup {"aborted"}
    /\ \A r, q \in Req : ticket[r] # 0 /\ ticket[r] = ticket[q]
                            /\ rid[r] = rid[q] => r = q

\* Who is past the claim of a capped row has a ticket.
Holders ==
    \A r \in Req : op[r] = "retrieve" /\ pc[r] \in PastClaim
                      /\ Cap(row[r].flags) # NoMax => ticket[r] # 0

\* A capped row's counter stays within its cap; a negative cap counts as 0.
Counts ==
    \A i \in DOMAIN sec :
        Cap(sec[i].flags) # NoMax =>
            sec[i].readCount <= (IF Cap(sec[i].flags) > 0
                                 THEN Cap(sec[i].flags) ELSE 0)

\* Only a tombstone is scrubbed.
LiveData == \A i \in DOMAIN sec : ~sec[i].exhausted => sec[i].data \in Data

\* What cleanup has selected stays an unpreserved tombstone.
Sweeps ==
    \A r \in Req : \A i \in todo[r] :
        i \in DOMAIN sec /\ sec[i].exhausted /\ ~sec[i].flags.preserve

IInv ==
    /\ TypeOK /\ Kinds /\ Snapshots /\ Writers /\ Tickets /\ Holders
    /\ Counts /\ TombstoneMeansSpent /\ LiveData /\ Sweeps
-----------------------------------------------------------------------------
(* Facts about the constants and operators *)

\* Cap returns a bound or NoMax; it is max_reads unless delete_on_read.
LEMMA CapFacts ==
    ASSUME NEW f \in FlagChoices
    PROVE  /\ Cap(f) \in Int \cup {NoMax}
           /\ ~f.deleteOnRead => Cap(f) = f.maxReads
           /\ f.maxReads # NoMax => Cap(f) # NoMax
           /\ f.deleteOnRead => Cap(f) # NoMax
  <1>1. f \in Flags
    BY ConstantsAssumption
  <1>2. f.maxReads \in Int \cup {NoMax} /\ f.deleteOnRead \in BOOLEAN
    BY <1>1 DEF Flags
  <1>3. CASE f.deleteOnRead /\ f.maxReads = NoMax
    BY <1>2, <1>3, ConstantsAssumption DEF Cap
  <1>4. CASE f.deleteOnRead /\ f.maxReads # NoMax
    BY <1>2, <1>4, ConstantsAssumption DEF Cap
  <1>5. CASE ~f.deleteOnRead
    BY <1>2, <1>5, ConstantsAssumption DEF Cap
  <1> QED
    BY <1>2, <1>3, <1>4, <1>5

\* A row about to be inserted is a row.
LEMMA FreshRowFacts ==
    ASSUME NEW n \in Name, NEW d \in Data, NEW f \in FlagChoices
    PROVE  /\ FreshRow(n, d, f) \in Row
           /\ FreshRow(n, d, f).name = n
           /\ FreshRow(n, d, f).data = d
           /\ FreshRow(n, d, f).flags = f
           /\ FreshRow(n, d, f).readCount = 0
           /\ ~FreshRow(n, d, f).exhausted
  BY DEF FreshRow, Row

\* The invariant holds of a store in which no request has arrived.
LEMMA InitIInv == Init => IInv
  <1> SUFFICES ASSUME Init PROVE IInv
    OBVIOUS
  <1>1. \A i \in rows : \E n \in Name, d \in Data, f \in FlagChoices :
            sec[i] = FreshRow(n, d, f)
    BY DEF Init, FreshRows
  <1>2. \A i \in rows : sec[i] \in Row /\ sec[i].readCount = 0
                        /\ ~sec[i].exhausted /\ sec[i].data \in Data
    <2> TAKE i \in rows
    <2>1. PICK n \in Name, d \in Data, f \in FlagChoices :
              sec[i] = FreshRow(n, d, f)
      BY <1>1
    <2> QED
      BY <2>1, FreshRowFacts
  <1>3. TypeOK
    BY <1>2, ConstantsAssumption DEF Init, TypeOK, PcStates, Ops
  <1>4. DOMAIN sec = rows
    BY DEF Init
  <1>5. Counts
    <2> SUFFICES ASSUME NEW i \in rows, Cap(sec[i].flags) # NoMax
                 PROVE  0 <= (IF Cap(sec[i].flags) > 0
                                 THEN Cap(sec[i].flags) ELSE 0)
      BY <1>2, <1>4 DEF Counts
    <2>1. sec[i].flags \in FlagChoices
      BY <1>2 DEF Row
    <2> QED
      BY <2>1, CapFacts
  <1>6. TombstoneMeansSpent /\ LiveData
    BY <1>2, <1>4 DEF TombstoneMeansSpent, LiveData
  <1>7. Kinds /\ Snapshots /\ Writers /\ Tickets /\ Holders /\ Sweeps
    BY DEF Init, Kinds, Snapshots, Writers, Tickets, Holders, Sweeps,
           Reading, PastClaim
  <1> QED
    BY <1>3, <1>5, <1>6, <1>7 DEF IInv

-----------------------------------------------------------------------------
(* One lemma for each handler *)

\* A handler that ends without serving data.
LEMMA Leave ==
    ASSUME IInv, NEW r \in Req, NEW l \in {"refused", "ok", "aborted"},
           NEW o \in Ops,
           pc' = [pc EXCEPT ![r] = l], op' = [op EXCEPT ![r] = o],
           l # "aborted" => ticket[r] = 0,
           o = op[r] \/ pc[r] = "idle",
           UNCHANGED <<rows, sec, useCount, rid, row, rule, ticket, todo>>
    PROVE  IInv'
  <1>1. TypeOK'
    BY DEF IInv, TypeOK, PcStates
  <1>2. Counts' /\ TombstoneMeansSpent' /\ LiveData' /\ Sweeps'
    BY DEF IInv, Counts, TombstoneMeansSpent, LiveData, Sweeps
  <1>3. Kinds'
    BY DEF IInv, TypeOK, Kinds
  <1>4. Snapshots'
    BY DEF IInv, TypeOK, Snapshots, Reading, PastTests
  <1>5. Writers'
    BY DEF IInv, TypeOK, Writers
  <1>6. Tickets'
    BY DEF IInv, TypeOK, Tickets, PastClaim
  <1>7. Holders'
    BY DEF IInv, TypeOK, Holders, PastClaim
  <1> QED
    BY <1>1, <1>2, <1>3, <1>4, <1>5, <1>6, <1>7 DEF IInv

\* A reader that goes on without a change to the tables.
LEMMA Advance ==
    ASSUME IInv, NEW r \in Req, NEW l \in PcStates,
           <<pc[r], l>> \in {<<"gate", "claim">>, <<"post", "record">>,
                             <<"respond", "served">>},
           op[r] = "retrieve", pc' = [pc EXCEPT ![r] = l],
           UNCHANGED <<rows, sec, useCount, op, rid, row, rule, ticket, todo>>
    PROVE  IInv'
  <1>1. TypeOK'
    BY DEF IInv, TypeOK
  <1>2. Counts' /\ TombstoneMeansSpent' /\ LiveData' /\ Sweeps'
    BY DEF IInv, Counts, TombstoneMeansSpent, LiveData, Sweeps
  <1>3. Kinds'
    BY DEF IInv, TypeOK, Kinds
  <1>4. Snapshots'
    BY DEF IInv, TypeOK, Snapshots, Reading, PastTests
  <1>5. Writers'
    BY DEF IInv, TypeOK, Writers
  <1>6. Tickets'
    BY DEF IInv, TypeOK, Tickets, PastClaim
  <1>7. Holders'
    BY DEF IInv, TypeOK, Holders, PastClaim
  <1> QED
    BY <1>1, <1>2, <1>3, <1>4, <1>5, <1>6, <1>7 DEF IInv
\* A store of a new name proposes a fresh row.
LEMMA StoreSelectNewInv ==
    ASSUME IInv, NEW r \in Req, StoreSelectNew(r)
    PROVE  IInv'
  <1>0. rid[r] = NoId
    BY DEF IInv, Kinds, StoreSelectNew, Receive
  <1>1. TypeOK'
    BY <1>0, FreshRowFacts DEF IInv, TypeOK, PcStates, Ops, Row, StoreSelectNew, Receive, Goto
  <1>2. Kinds'
    BY <1>0, FreshRowFacts DEF IInv, TypeOK, Kinds, StoreSelectNew, Receive, Goto
  <1>3. Snapshots'
    BY <1>0, FreshRowFacts DEF IInv, TypeOK, Row, Snapshots, Reading, PastTests, StoreSelectNew, Receive, Goto
  <1>4. Writers'
    BY <1>0, FreshRowFacts DEF IInv, TypeOK, Row, Writers, StoreSelectNew, Receive, Goto
  <1>5. Tickets'
    BY <1>0, FreshRowFacts DEF IInv, TypeOK, Row, Tickets, PastClaim, StoreSelectNew, Receive, Goto
  <1>6. Holders'
    BY <1>0, FreshRowFacts DEF IInv, TypeOK, Holders, PastClaim, StoreSelectNew, Receive, Goto
  <1>7. Counts'
    BY <1>0, FreshRowFacts DEF IInv, TypeOK, Row, Counts, StoreSelectNew, Receive, Goto
  <1>8. TombstoneMeansSpent'
    BY <1>0, FreshRowFacts DEF IInv, TypeOK, Row, TombstoneMeansSpent, StoreSelectNew, Receive, Goto
  <1>9. LiveData'
    BY <1>0, FreshRowFacts DEF IInv, TypeOK, Row, LiveData, StoreSelectNew, Receive, Goto
  <1>10. Sweeps'
    BY <1>0, FreshRowFacts DEF IInv, TypeOK, Row, Sweeps, StoreSelectNew, Receive, Goto
  <1> QED
    BY <1>1, <1>2, <1>3, <1>4, <1>5, <1>6, <1>7, <1>8, <1>9, <1>10 DEF IInv

\* A store that overwrites has seen a row that may be overwritten.
LEMMA StoreSelectExistingInv ==
    ASSUME IInv, NEW r \in Req, StoreSelectExisting(r)
    PROVE  IInv'
  <1>1. TypeOK'
    BY FreshRowFacts DEF IInv, TypeOK, PcStates, Ops, Row, StoreSelectExisting, Receive, Goto, Lookup
  <1>2. Kinds'
    BY FreshRowFacts DEF IInv, TypeOK, Kinds, StoreSelectExisting, Receive, Goto, Lookup
  <1>3. Snapshots'
    BY FreshRowFacts DEF IInv, TypeOK, Row, Snapshots, Reading, PastTests, StoreSelectExisting, Receive, Goto, Lookup
  <1>4. Writers'
    BY FreshRowFacts DEF IInv, TypeOK, Row, Writers, StoreSelectExisting, Receive, Goto, Lookup
  <1>5. Tickets'
    BY FreshRowFacts DEF IInv, TypeOK, Row, Tickets, PastClaim, StoreSelectExisting, Receive, Goto, Lookup
  <1>6. Holders'
    BY FreshRowFacts DEF IInv, TypeOK, Holders, PastClaim, StoreSelectExisting, Receive, Goto, Lookup
  <1>7. Counts'
    BY FreshRowFacts DEF IInv, TypeOK, Row, Counts, StoreSelectExisting, Receive, Goto, Lookup
  <1>8. TombstoneMeansSpent'
    BY FreshRowFacts DEF IInv, TypeOK, Row, TombstoneMeansSpent, StoreSelectExisting, Receive, Goto, Lookup
  <1>9. LiveData'
    BY FreshRowFacts DEF IInv, TypeOK, Row, LiveData, StoreSelectExisting, Receive, Goto, Lookup
  <1>10. Sweeps'
    BY FreshRowFacts DEF IInv, TypeOK, Row, Sweeps, StoreSelectExisting, Receive, Goto, Lookup
  <1> QED
    BY <1>1, <1>2, <1>3, <1>4, <1>5, <1>6, <1>7, <1>8, <1>9, <1>10 DEF IInv

\* The snapshot of a reader is the row itself.
LEMMA RetrieveSelectInv ==
    ASSUME IInv, NEW r \in Req, RetrieveSelect(r)
    PROVE  IInv'
  <1>1. TypeOK'
    BY DEF IInv, TypeOK, PcStates, Ops, Row, RetrieveSelect, Receive, Goto, LiveData
  <1>2. Kinds'
    BY DEF IInv, TypeOK, Kinds, RetrieveSelect, Receive, Goto, LiveData
  <1>3. Snapshots'
    BY DEF IInv, TypeOK, Row, Snapshots, Reading, PastTests, RetrieveSelect, Receive, Goto, LiveData
  <1>4. Writers'
    BY DEF IInv, TypeOK, Row, Writers, RetrieveSelect, Receive, Goto, LiveData
  <1>5. Tickets'
    <2>1. ticket[r] = 0 /\ ticket' = ticket /\ sec' = sec
      BY DEF IInv, Tickets, PastClaim, RetrieveSelect, Receive
    <2>2. \A q \in Req \ {r} : rid'[q] = rid[q] /\ pc'[q] = pc[q] /\ op'[q] = op[q]
      BY DEF IInv, TypeOK, RetrieveSelect, Receive, Goto
    <2> QED
      BY <2>1, <2>2 DEF IInv, Tickets
  <1>6. Holders'
    BY DEF IInv, TypeOK, Holders, PastClaim, RetrieveSelect, Receive, Goto, LiveData
  <1>7. Counts'
    BY DEF IInv, TypeOK, Row, Counts, RetrieveSelect, Receive, Goto, LiveData
  <1>8. TombstoneMeansSpent'
    BY DEF IInv, TypeOK, Row, TombstoneMeansSpent, RetrieveSelect, Receive, Goto, LiveData
  <1>9. LiveData'
    BY DEF IInv, TypeOK, Row, LiveData, RetrieveSelect, Receive, Goto, LiveData
  <1>10. Sweeps'
    BY DEF IInv, TypeOK, Row, Sweeps, RetrieveSelect, Receive, Goto, LiveData
  <1> QED
    BY <1>1, <1>2, <1>3, <1>4, <1>5, <1>6, <1>7, <1>8, <1>9, <1>10 DEF IInv

\* The lookup of delete_data.
LEMMA DeleteSelectInv ==
    ASSUME IInv, NEW r \in Req, DeleteSelect(r)
    PROVE  IInv'
  <1>1. TypeOK'
    BY DEF IInv, TypeOK, PcStates, Ops, Row, DeleteSelect, Receive, Goto
  <1>2. Kinds'
    BY DEF IInv, TypeOK, Kinds, DeleteSelect, Receive, Goto
  <1>3. Snapshots'
    BY DEF IInv, TypeOK, Row, Snapshots, Reading, PastTests, DeleteSelect, Receive, Goto
  <1>4. Writers'
    BY DEF IInv, TypeOK, Row, Writers, DeleteSelect, Receive, Goto
  <1>5. Tickets'
    BY DEF IInv, TypeOK, Row, Tickets, PastClaim, DeleteSelect, Receive, Goto
  <1>6. Holders'
    BY DEF IInv, TypeOK, Holders, PastClaim, DeleteSelect, Receive, Goto
  <1>7. Counts'
    BY DEF IInv, TypeOK, Row, Counts, DeleteSelect, Receive, Goto
  <1>8. TombstoneMeansSpent'
    BY DEF IInv, TypeOK, Row, TombstoneMeansSpent, DeleteSelect, Receive, Goto
  <1>9. LiveData'
    BY DEF IInv, TypeOK, Row, LiveData, DeleteSelect, Receive, Goto
  <1>10. Sweeps'
    BY DEF IInv, TypeOK, Row, Sweeps, DeleteSelect, Receive, Goto
  <1> QED
    BY <1>1, <1>2, <1>3, <1>4, <1>5, <1>6, <1>7, <1>8, <1>9, <1>10 DEF IInv

\* The lookup of cleanup_secrets takes tombstones only.
LEMMA CleanupSelectInv ==
    ASSUME IInv, NEW r \in Req, CleanupSelect(r)
    PROVE  IInv'
  <1>1. TypeOK'
    BY DEF IInv, TypeOK, PcStates, Ops, Row, CleanupSelect, Receive, Goto
  <1>2. Kinds'
    BY DEF IInv, TypeOK, Kinds, CleanupSelect, Receive, Goto
  <1>3. Snapshots'
    BY DEF IInv, TypeOK, Row, Snapshots, Reading, PastTests, CleanupSelect, Receive, Goto
  <1>4. Writers'
    BY DEF IInv, TypeOK, Row, Writers, CleanupSelect, Receive, Goto
  <1>5. Tickets'
    BY DEF IInv, TypeOK, Row, Tickets, PastClaim, CleanupSelect, Receive, Goto
  <1>6. Holders'
    BY DEF IInv, TypeOK, Holders, PastClaim, CleanupSelect, Receive, Goto
  <1>7. Counts'
    BY DEF IInv, TypeOK, Row, Counts, CleanupSelect, Receive, Goto
  <1>8. TombstoneMeansSpent'
    BY DEF IInv, TypeOK, Row, TombstoneMeansSpent, CleanupSelect, Receive, Goto
  <1>9. LiveData'
    BY DEF IInv, TypeOK, Row, LiveData, CleanupSelect, Receive, Goto
  <1>10. Sweeps'
    BY DEF IInv, TypeOK, Row, Sweeps, CleanupSelect, Receive, Goto
  <1> QED
    BY <1>1, <1>2, <1>3, <1>4, <1>5, <1>6, <1>7, <1>8, <1>9, <1>10 DEF IInv

\* Past the ACL check a reader's snapshot is no tombstone.
LEMMA AclAllowInv ==
    ASSUME IInv, NEW r \in Req, AclAllow(r)
    PROVE  IInv'
  <1>1. TypeOK'
    BY DEF IInv, TypeOK, PcStates, Ops, Row, Kinds, AclAllow, Goto, AfterAcl, SnapshotReadable, Candidates
  <1>2. Kinds'
    BY DEF IInv, TypeOK, Kinds, Kinds, AclAllow, Goto, AfterAcl, SnapshotReadable, Candidates
  <1>3. Snapshots'
    BY DEF IInv, TypeOK, Row, Snapshots, Reading, PastTests, Kinds, AclAllow, Goto, AfterAcl, SnapshotReadable, Candidates
  <1>4. Writers'
    BY DEF IInv, TypeOK, Row, Writers, Kinds, AclAllow, Goto, AfterAcl, SnapshotReadable, Candidates
  <1>5. Tickets'
    BY DEF IInv, TypeOK, Row, Tickets, PastClaim, Kinds, AclAllow, Goto, AfterAcl, SnapshotReadable, Candidates
  <1>6. Holders'
    BY DEF IInv, TypeOK, Holders, PastClaim, Kinds, AclAllow, Goto, AfterAcl, SnapshotReadable, Candidates
  <1>7. Counts'
    BY DEF IInv, TypeOK, Row, Counts, Kinds, AclAllow, Goto, AfterAcl, SnapshotReadable, Candidates
  <1>8. TombstoneMeansSpent'
    BY DEF IInv, TypeOK, Row, TombstoneMeansSpent, Kinds, AclAllow, Goto, AfterAcl, SnapshotReadable, Candidates
  <1>9. LiveData'
    BY DEF IInv, TypeOK, Row, LiveData, Kinds, AclAllow, Goto, AfterAcl, SnapshotReadable, Candidates
  <1>10. Sweeps'
    BY DEF IInv, TypeOK, Row, Sweeps, Kinds, AclAllow, Goto, AfterAcl, SnapshotReadable, Candidates
  <1> QED
    BY <1>1, <1>2, <1>3, <1>4, <1>5, <1>6, <1>7, <1>8, <1>9, <1>10 DEF IInv

\* Charging a rule leaves the secrets alone.
LEMMA RecordUseInv ==
    ASSUME IInv, NEW r \in Req, RecordUse(r)
    PROVE  IInv'
  <1>1. TypeOK'
    BY DEF IInv, TypeOK, PcStates, Ops, Row, RecordUse, Goto
  <1>2. Kinds'
    BY DEF IInv, TypeOK, Kinds, RecordUse, Goto
  <1>3. Snapshots'
    BY DEF IInv, TypeOK, Row, Snapshots, Reading, PastTests, RecordUse, Goto
  <1>4. Writers'
    BY DEF IInv, TypeOK, Row, Writers, RecordUse, Goto
  <1>5. Tickets'
    BY DEF IInv, TypeOK, Row, Tickets, PastClaim, RecordUse, Goto
  <1>6. Holders'
    BY DEF IInv, TypeOK, Holders, PastClaim, RecordUse, Goto
  <1>7. Counts'
    BY DEF IInv, TypeOK, Row, Counts, RecordUse, Goto
  <1>8. TombstoneMeansSpent'
    BY DEF IInv, TypeOK, Row, TombstoneMeansSpent, RecordUse, Goto
  <1>9. LiveData'
    BY DEF IInv, TypeOK, Row, LiveData, RecordUse, Goto
  <1>10. Sweeps'
    BY DEF IInv, TypeOK, Row, Sweeps, RecordUse, Goto
  <1> QED
    BY <1>1, <1>2, <1>3, <1>4, <1>5, <1>6, <1>7, <1>8, <1>9, <1>10 DEF IInv

\* An overwrite changes data only.
LEMMA StoreUpdateInv ==
    ASSUME IInv, NEW r \in Req, StoreUpdate(r)
    PROVE  IInv'
  <1>0. /\ op[r] = "store" /\ rid[r] \in DOMAIN sec
        /\ row[r] \in Row /\ row[r].data \in Data
    BY DEF IInv, Kinds, Writers, StoreUpdate
  <1>1. TypeOK'
    BY <1>0 DEF IInv, TypeOK, PcStates, Ops, Row, StoreUpdate, Goto
  <1>2. Kinds'
    BY <1>0 DEF IInv, TypeOK, Kinds, StoreUpdate, Goto
  <1>3. Snapshots'
    BY <1>0 DEF IInv, TypeOK, Row, Snapshots, Reading, PastTests, StoreUpdate, Goto
  <1>4. Writers'
    BY <1>0 DEF IInv, TypeOK, Row, Writers, StoreUpdate, Goto
  <1>5. Tickets'
    BY <1>0 DEF IInv, TypeOK, Row, Tickets, PastClaim, StoreUpdate, Goto
  <1>6. Holders'
    BY <1>0 DEF IInv, TypeOK, Holders, PastClaim, StoreUpdate, Goto
  <1>7. Counts'
    BY <1>0 DEF IInv, TypeOK, Row, Counts, StoreUpdate, Goto
  <1>8. TombstoneMeansSpent'
    BY <1>0 DEF IInv, TypeOK, Row, TombstoneMeansSpent, StoreUpdate, Goto
  <1>9. LiveData'
    BY <1>0 DEF IInv, TypeOK, Row, LiveData, StoreUpdate, Goto
  <1>10. Sweeps'
    BY <1>0 DEF IInv, TypeOK, Row, Sweeps, StoreUpdate, Goto
  <1> QED
    BY <1>1, <1>2, <1>3, <1>4, <1>5, <1>6, <1>7, <1>8, <1>9, <1>10 DEF IInv

\* An insert adds a row nobody refers to yet.
LEMMA StoreInsertInv ==
    ASSUME IInv, NEW r \in Req, StoreInsert(r)
    PROVE  IInv'
  <1>0. /\ op[r] = "store" /\ row[r] \in Row /\ row[r].data \in Data
        /\ row[r].readCount = 0 /\ ~row[r].exhausted
    BY DEF IInv, Kinds, Writers, StoreInsert
  <1>c. Cap(row[r].flags) \in Int \cup {NoMax}
    BY <1>0, CapFacts DEF Row
  <1>1. TypeOK'
    BY <1>0, <1>c DEF IInv, TypeOK, PcStates, Ops, Row, StoreInsert, Goto, Lookup
  <1>2. Kinds'
    BY <1>0, <1>c DEF IInv, TypeOK, Kinds, StoreInsert, Goto, Lookup
  <1>3. Snapshots'
    BY <1>0, <1>c DEF IInv, TypeOK, Row, Snapshots, Reading, PastTests, StoreInsert, Goto, Lookup
  <1>4. Writers'
    BY <1>0, <1>c DEF IInv, TypeOK, Row, Writers, StoreInsert, Goto, Lookup
  <1>5. Tickets'
    BY <1>0, <1>c DEF IInv, TypeOK, Row, Tickets, PastClaim, StoreInsert, Goto, Lookup
  <1>6. Holders'
    BY <1>0, <1>c DEF IInv, TypeOK, Holders, PastClaim, StoreInsert, Goto, Lookup
  <1>7. Counts'
    BY <1>0, <1>c DEF IInv, TypeOK, Row, Counts, StoreInsert, Goto, Lookup
  <1>8. TombstoneMeansSpent'
    BY <1>0, <1>c DEF IInv, TypeOK, Row, TombstoneMeansSpent, StoreInsert, Goto, Lookup
  <1>9. LiveData'
    BY <1>0, <1>c DEF IInv, TypeOK, Row, LiveData, StoreInsert, Goto, Lookup
  <1>10. Sweeps'
    BY <1>0, <1>c DEF IInv, TypeOK, Row, Sweeps, StoreInsert, Goto, Lookup
  <1> QED
    BY <1>1, <1>2, <1>3, <1>4, <1>5, <1>6, <1>7, <1>8, <1>9, <1>10 DEF IInv

\* The claim hands out the next ticket of the row.
LEMMA RetrieveClaimInv ==
    ASSUME IInv, NEW r \in Req, RetrieveClaim(r)
    PROVE  IInv'
  <1>0. /\ op[r] = "retrieve" /\ rid[r] \in rows /\ rid[r] \in DOMAIN sec
        /\ row[r] \in Row /\ row[r].flags = sec[rid[r]].flags
        /\ Cap(row[r].flags) \in Int
    <2>1. pc[r] = "claim" /\ Cap(row[r].flags) # NoMax /\ rid[r] \in rows
      BY DEF RetrieveClaim, Claimable
    <2>2. op[r] = "retrieve"
      BY <2>1 DEF IInv, Kinds
    <2>3. /\ rid[r] \in DOMAIN sec
          /\ row[r] \in Row /\ row[r].flags = sec[rid[r]].flags
      BY <2>1, <2>2 DEF IInv, Snapshots, Reading
    <2>4. row[r].flags \in FlagChoices
      BY <2>3 DEF Row
    <2> QED
      BY <2>1, <2>2, <2>3, <2>4, CapFacts
  <1>1. TypeOK'
    BY <1>0 DEF IInv, TypeOK, PcStates, Ops, Row, RetrieveClaim, Claimable, Goto
  <1>2. Kinds'
    BY <1>0 DEF IInv, TypeOK, Kinds, RetrieveClaim, Claimable, Goto
  <1>3. Snapshots'
    BY <1>0 DEF IInv, TypeOK, Row, Snapshots, Reading, PastTests, RetrieveClaim, Claimable, Goto
  <1>4. Writers'
    BY <1>0 DEF IInv, TypeOK, Row, Writers, RetrieveClaim, Claimable, Goto
  <1>5. Tickets'
    BY <1>0 DEF IInv, TypeOK, Row, Tickets, PastClaim, RetrieveClaim, Claimable, Goto
  <1>6. Holders'
    BY <1>0 DEF IInv, TypeOK, Row, Holders, PastClaim, RetrieveClaim, Claimable, Goto
  <1>7. Counts'
    BY <1>0 DEF IInv, TypeOK, Row, Counts, RetrieveClaim, Claimable, Goto
  <1>8. TombstoneMeansSpent'
    BY <1>0 DEF IInv, TypeOK, Row, TombstoneMeansSpent, RetrieveClaim, Claimable, Goto
  <1>9. LiveData'
    BY <1>0 DEF IInv, TypeOK, Row, LiveData, RetrieveClaim, Claimable, Goto
  <1>10. Sweeps'
    BY <1>0 DEF IInv, TypeOK, Row, Sweeps, RetrieveClaim, Claimable, Goto
  <1> QED
    BY <1>1, <1>2, <1>3, <1>4, <1>5, <1>6, <1>7, <1>8, <1>9, <1>10 DEF IInv

\* Counting an uncapped read touches no capped row.
LEMMA RetrieveCountInv ==
    ASSUME IInv, NEW r \in Req, RetrieveCount(r)
    PROVE  IInv'
  <1>0. /\ op[r] = "retrieve" /\ rid[r] \in DOMAIN sec
        /\ row[r] \in Row /\ row[r].flags = sec[rid[r]].flags
        /\ sec[rid[r]].flags.maxReads = NoMax
    <2>1. op[r] = "retrieve"
      BY DEF IInv, Kinds, RetrieveCount
    <2>2. /\ rid[r] \in DOMAIN sec
          /\ row[r] \in Row /\ row[r].flags = sec[rid[r]].flags
      BY <2>1 DEF IInv, Snapshots, Reading, RetrieveCount
    <2>3. row[r].flags \in FlagChoices
      BY <2>2 DEF Row
    <2> QED
      BY <2>1, <2>2, <2>3, CapFacts DEF RetrieveCount
  <1>a. /\ DOMAIN sec' = DOMAIN sec
        /\ \A i \in DOMAIN sec : \/ sec'[i] = sec[i]
                               \/ /\ i = rid[r]
                                  /\ sec'[i] = [sec[i] EXCEPT !.readCount = @ + 1]
    BY <1>0 DEF IInv, TypeOK, RetrieveCount
  <1>b. \A i \in DOMAIN sec :
            /\ sec'[i] \in Row /\ sec'[i].flags = sec[i].flags
            /\ sec'[i].data = sec[i].data /\ sec'[i].exhausted = sec[i].exhausted
            /\ sec'[i].readCount >= sec[i].readCount
            /\ sec[i].flags.maxReads # NoMax => sec'[i] = sec[i]
    BY <1>0, <1>a DEF IInv, TypeOK, Row
  <1>1. TypeOK'
    <2>1. sec' \in [DOMAIN sec' -> Row]
      <3>1. sec' = [i \in DOMAIN sec' |-> sec'[i]]
        BY DEF IInv, TypeOK, RetrieveCount
      <3> QED
        BY <1>a, <1>b, <3>1
    <2> QED
      BY <1>a, <2>1 DEF IInv, TypeOK, PcStates, RetrieveCount, Goto
  <1>2. Kinds'
    BY <1>0 DEF IInv, TypeOK, Kinds, RetrieveCount, Goto
  <1>3. Snapshots'
    BY <1>0 DEF IInv, TypeOK, Row, Snapshots, Reading, PastTests, RetrieveCount, Goto
  <1>4. Writers'
    BY <1>0 DEF IInv, TypeOK, Row, Writers, RetrieveCount, Goto
  <1>5. Tickets'
    BY <1>0 DEF IInv, TypeOK, Row, Tickets, PastClaim, RetrieveCount, Goto
  <1>6. Holders'
    BY <1>0 DEF IInv, TypeOK, Holders, PastClaim, RetrieveCount, Goto
  <1>7. Counts'
    BY <1>0 DEF IInv, TypeOK, Row, Counts, RetrieveCount, Goto
  <1>8. TombstoneMeansSpent'
    BY <1>a, <1>b DEF IInv, TypeOK, Row, TombstoneMeansSpent
  <1>9. LiveData'
    BY <1>a, <1>b DEF IInv, LiveData
  <1>10. Sweeps'
    BY <1>a, <1>b DEF IInv, Sweeps, RetrieveCount
  <1> QED
    BY <1>1, <1>2, <1>3, <1>4, <1>5, <1>6, <1>7, <1>8, <1>9, <1>10 DEF IInv

\* delete_on_read removes the row.
LEMMA RetrieveDeleteInv ==
    ASSUME IInv, NEW r \in Req, RetrieveDelete(r)
    PROVE  IInv'
  <1>1. TypeOK'
    BY DEF IInv, TypeOK, PcStates, Ops, Row, RetrieveDelete, Goto
  <1>2. Kinds'
    BY DEF IInv, TypeOK, Kinds, RetrieveDelete, Goto
  <1>3. Snapshots'
    BY DEF IInv, TypeOK, Row, Snapshots, Reading, PastTests, RetrieveDelete, Goto
  <1>4. Writers'
    BY DEF IInv, TypeOK, Row, Writers, RetrieveDelete, Goto
  <1>5. Tickets'
    BY DEF IInv, TypeOK, Row, Tickets, PastClaim, RetrieveDelete, Goto
  <1>6. Holders'
    BY DEF IInv, TypeOK, Holders, PastClaim, RetrieveDelete, Goto
  <1>7. Counts'
    BY DEF IInv, TypeOK, Row, Counts, RetrieveDelete, Goto
  <1>8. TombstoneMeansSpent'
    BY DEF IInv, TypeOK, Row, TombstoneMeansSpent, RetrieveDelete, Goto
  <1>9. LiveData'
    BY DEF IInv, TypeOK, Row, LiveData, RetrieveDelete, Goto
  <1>10. Sweeps'
    BY DEF IInv, TypeOK, Row, Sweeps, RetrieveDelete, Goto
  <1> QED
    BY <1>1, <1>2, <1>3, <1>4, <1>5, <1>6, <1>7, <1>8, <1>9, <1>10 DEF IInv

\* Only the holder of the last ticket scrubs the row.
LEMMA RetrieveTombstoneInv ==
    ASSUME IInv, NEW r \in Req, RetrieveTombstone(r)
    PROVE  IInv'
  <1>0. /\ rid[r] \in DOMAIN sec /\ row[r].flags = sec[rid[r]].flags
        /\ sec[rid[r]].flags.maxReads # NoMax
        /\ sec[rid[r]].readCount = sec[rid[r]].flags.maxReads
    <2>1. /\ rid[r] \in DOMAIN sec
          /\ row[r] \in Row /\ row[r].flags = sec[rid[r]].flags
      BY DEF IInv, Snapshots, Reading, RetrieveTombstone
    <2>2. row[r].flags \in FlagChoices
      BY <2>1 DEF Row
    <2>3. /\ row[r].flags.maxReads # NoMax
          /\ Cap(row[r].flags) = row[r].flags.maxReads
          /\ Cap(row[r].flags) \in Int
      BY <2>2, CapFacts DEF RetrieveTombstone, ReachedMax
    <2>4. ticket[r] # 0
      BY <2>3 DEF IInv, Holders, PastClaim, RetrieveTombstone
    <2>5. ticket[r] <= sec[rid[r]].readCount /\ ticket[r] \in Nat
      BY <2>4 DEF IInv, TypeOK, Tickets
    <2>6. sec[rid[r]].readCount <= (IF Cap(row[r].flags) > 0
                                    THEN Cap(row[r].flags) ELSE 0)
      BY <2>1, <2>3 DEF IInv, Counts
    <2>7. sec[rid[r]].readCount \in Nat
      BY <2>1 DEF IInv, TypeOK, Row
    <2>8. ticket[r] >= row[r].flags.maxReads
      BY DEF RetrieveTombstone, ReachedMax
    <2> QED
      BY <2>1, <2>3, <2>4, <2>5, <2>6, <2>7, <2>8
  <1>1. TypeOK'
    BY <1>0 DEF IInv, TypeOK, PcStates, Ops, Row, RetrieveTombstone, ReachedMax, Goto
  <1>2. Kinds'
    BY <1>0 DEF IInv, TypeOK, Kinds, RetrieveTombstone, ReachedMax, Goto
  <1>3. Snapshots'
    BY <1>0 DEF IInv, TypeOK, Row, Snapshots, Reading, PastTests, RetrieveTombstone, ReachedMax, Goto
  <1>4. Writers'
    BY <1>0 DEF IInv, TypeOK, Row, Writers, RetrieveTombstone, ReachedMax, Goto
  <1>5. Tickets'
    BY <1>0 DEF IInv, TypeOK, Row, Tickets, PastClaim, RetrieveTombstone, ReachedMax, Goto
  <1>6. Holders'
    BY <1>0 DEF IInv, TypeOK, Holders, PastClaim, RetrieveTombstone, ReachedMax, Goto
  <1>7. Counts'
    BY <1>0 DEF IInv, TypeOK, Row, Counts, RetrieveTombstone, ReachedMax, Goto
  <1>8. TombstoneMeansSpent'
    BY <1>0 DEF IInv, TypeOK, Row, TombstoneMeansSpent, RetrieveTombstone, ReachedMax, Goto
  <1>9. LiveData'
    BY <1>0 DEF IInv, TypeOK, Row, LiveData, RetrieveTombstone, ReachedMax, Goto
  <1>10. Sweeps'
    BY <1>0 DEF IInv, TypeOK, Row, Sweeps, RetrieveTombstone, ReachedMax, Goto
  <1> QED
    BY <1>1, <1>2, <1>3, <1>4, <1>5, <1>6, <1>7, <1>8, <1>9, <1>10 DEF IInv

\* delete_data removes the row.
LEMMA DeleteRowInv ==
    ASSUME IInv, NEW r \in Req, DeleteRow(r)
    PROVE  IInv'
  <1>0. op[r] = "delete"
    BY DEF IInv, Kinds, DeleteRow
  <1>1. TypeOK'
    BY <1>0 DEF IInv, TypeOK, PcStates, Ops, Row, DeleteRow, Goto
  <1>2. Kinds'
    BY <1>0 DEF IInv, TypeOK, Kinds, DeleteRow, Goto
  <1>3. Snapshots'
    BY <1>0 DEF IInv, TypeOK, Row, Snapshots, Reading, PastTests, DeleteRow, Goto
  <1>4. Writers'
    BY <1>0 DEF IInv, TypeOK, Row, Writers, DeleteRow, Goto
  <1>5. Tickets'
    BY <1>0 DEF IInv, TypeOK, Row, Tickets, PastClaim, DeleteRow, Goto
  <1>6. Holders'
    BY <1>0 DEF IInv, TypeOK, Holders, PastClaim, DeleteRow, Goto
  <1>7. Counts'
    BY <1>0 DEF IInv, TypeOK, Row, Counts, DeleteRow, Goto
  <1>8. TombstoneMeansSpent'
    BY <1>0 DEF IInv, TypeOK, Row, TombstoneMeansSpent, DeleteRow, Goto
  <1>9. LiveData'
    BY <1>0 DEF IInv, TypeOK, Row, LiveData, DeleteRow, Goto
  <1>10. Sweeps'
    BY <1>0 DEF IInv, TypeOK, Row, Sweeps, DeleteRow, Goto
  <1> QED
    BY <1>1, <1>2, <1>3, <1>4, <1>5, <1>6, <1>7, <1>8, <1>9, <1>10 DEF IInv

\* cleanup removes a row it had selected.
LEMMA CleanupDeleteInv ==
    ASSUME IInv, NEW r \in Req, CleanupDelete(r)
    PROVE  IInv'
  <1>1. TypeOK'
    BY DEF IInv, TypeOK, PcStates, Ops, Row, CleanupDelete, Goto
  <1>2. Kinds'
    BY DEF IInv, TypeOK, Kinds, CleanupDelete, Goto
  <1>3. Snapshots'
    BY DEF IInv, TypeOK, Row, Snapshots, Reading, PastTests, CleanupDelete, Goto
  <1>4. Writers'
    BY DEF IInv, TypeOK, Row, Writers, CleanupDelete, Goto
  <1>5. Tickets'
    BY DEF IInv, TypeOK, Row, Tickets, PastClaim, CleanupDelete, Goto
  <1>6. Holders'
    BY DEF IInv, TypeOK, Holders, PastClaim, CleanupDelete, Goto
  <1>7. Counts'
    BY DEF IInv, TypeOK, Row, Counts, CleanupDelete, Goto
  <1>8. TombstoneMeansSpent'
    BY DEF IInv, TypeOK, Row, TombstoneMeansSpent, CleanupDelete, Goto
  <1>9. LiveData'
    BY DEF IInv, TypeOK, Row, LiveData, CleanupDelete, Goto
  <1>10. Sweeps'
    BY DEF IInv, TypeOK, Row, Sweeps, CleanupDelete, Goto
  <1> QED
    BY <1>1, <1>2, <1>3, <1>4, <1>5, <1>6, <1>7, <1>8, <1>9, <1>10 DEF IInv
-----------------------------------------------------------------------------
(* The invariant *)

\* Every step of every handler preserves IInv.
LEMMA NextIInv == IInv /\ [Next]_vars => IInv'
  <1> SUFFICES ASSUME IInv, [Next]_vars PROVE IInv'
    OBVIOUS
  <1>1. CASE UNCHANGED vars
    BY <1>1 DEF vars, IInv, TypeOK, Kinds, Snapshots, Writers, Tickets, Holders,
                Counts, TombstoneMeansSpent, LiveData, Sweeps
  <1>2. ASSUME NEW r \in Req, Store(r) PROVE IInv'
    <2>1. CASE StoreConflict(r)
      <3> ticket[r] = 0
        BY <2>1 DEF IInv, Tickets, PastClaim, StoreConflict, Receive
      <3> QED
        BY <2>1, Leave DEF StoreConflict, Receive, Goto, Ops
    <2>2. CASE StoreInsertRefused(r)
      <3> ticket[r] = 0
        BY <2>2 DEF IInv, Tickets, PastClaim, StoreInsertRefused
      <3> op' = [op EXCEPT ![r] = op[r]] /\ op[r] \in Ops
        BY <2>2 DEF IInv, TypeOK, StoreInsertRefused
      <3> QED
        BY <2>2, Leave DEF StoreInsertRefused, Goto
    <2> QED
      BY <1>2, <2>1, <2>2, StoreSelectNewInv, StoreSelectExistingInv,
         StoreUpdateInv, StoreInsertInv DEF Store
  <1>3. ASSUME NEW r \in Req, Retrieve(r) PROVE IInv'
    <2>1. CASE RetrieveGateRefuse(r) \/ RetrieveClaimRefused(r)
      <3> ticket[r] = 0
        BY <2>1 DEF IInv, Tickets, PastClaim, RetrieveGateRefuse, RetrieveClaimRefused
      <3> op' = [op EXCEPT ![r] = op[r]] /\ op[r] \in Ops
        BY <2>1 DEF IInv, TypeOK, RetrieveGateRefuse, RetrieveClaimRefused
      <3> QED
        BY <2>1, Leave DEF RetrieveGateRefuse, RetrieveClaimRefused, Goto
    <2>2. CASE RetrieveGate(r)
      BY <2>2, Advance DEF RetrieveGate, Goto, PcStates, IInv, Kinds
    <2>3. CASE RetrieveKeep(r)
      BY <2>3, Advance DEF RetrieveKeep, Goto, PcStates
    <2> QED
      BY <1>3, <2>1, <2>2, <2>3, RetrieveSelectInv, RetrieveClaimInv,
         RetrieveCountInv, RetrieveDeleteInv, RetrieveTombstoneInv DEF Retrieve
  <1>4. ASSUME NEW r \in Req, Delete(r) PROVE IInv'
    BY <1>4, DeleteSelectInv, DeleteRowInv DEF Delete
  <1>5. ASSUME NEW r \in Req, Cleanup(r) PROVE IInv'
    <2>1. CASE CleanupDone(r)
      <3> ticket[r] = 0
        BY <2>1 DEF IInv, Tickets, PastClaim, CleanupDone
      <3> op' = [op EXCEPT ![r] = op[r]] /\ op[r] \in Ops
        BY <2>1 DEF IInv, TypeOK, CleanupDone
      <3> QED
        BY <2>1, Leave DEF CleanupDone, Goto
    <2> QED
      BY <1>5, <2>1, CleanupSelectInv, CleanupDeleteInv DEF Cleanup
  <1>6. ASSUME NEW r \in Req, Shared(r) PROVE IInv'
    <2>1. CASE NotFound(r)
      <3>1. ticket[r] = 0
        BY <2>1 DEF IInv, Tickets, PastClaim, NotFound
      <3>2. PICK o \in {"retrieve", "delete"} : op' = [op EXCEPT ![r] = o]
        BY <2>1 DEF NotFound
      <3> QED
        BY <2>1, <3>1, <3>2, Leave DEF NotFound, Goto, Ops
    <2>2. CASE AclDeny(r)
      <3> ticket[r] = 0
        BY <2>2 DEF IInv, Tickets, PastClaim, AclDeny
      <3> op' = [op EXCEPT ![r] = op[r]] /\ op[r] \in Ops
        BY <2>2 DEF IInv, TypeOK, AclDeny
      <3> QED
        BY <2>2, Leave DEF AclDeny, Goto
    <2>3. CASE Respond(r) /\ op[r] = "retrieve"
      BY <2>3, Advance DEF Respond, Goto, PcStates
    <2>4. CASE Respond(r) /\ op[r] # "retrieve"
      <3> ticket[r] = 0
        BY <2>4 DEF IInv, Tickets
      <3> op' = [op EXCEPT ![r] = op[r]] /\ op[r] \in Ops
        BY <2>4 DEF IInv, TypeOK, Respond
      <3> QED
        BY <2>4, Leave DEF Respond, Goto
    <2> QED
      BY <1>6, <2>1, <2>2, <2>3, <2>4, AclAllowInv, RecordUseInv DEF Shared
  <1>7. ASSUME NEW r \in Req, Abort(r) PROVE IInv'
    <2> op' = [op EXCEPT ![r] = op[r]] /\ op[r] \in Ops
      BY <1>7 DEF IInv, TypeOK, Abort
    <2> QED
      BY <1>7, Leave DEF Abort, Goto
  <1> QED
    BY <1>1, <1>2, <1>3, <1>4, <1>5, <1>6, <1>7 DEF Next, Step, Terminated

\* The inductive invariant holds in every reachable state.
THEOREM Invariance == Spec => []IInv
  BY InitIInv, NextIInv, PTL DEF Spec

\* Every variable keeps its type.
THEOREM TypeCorrect == Spec => []TypeOK
  <1>1. IInv => TypeOK
    BY DEF IInv
  <1> QED
    BY Invariance, <1>1, PTL

\* A secret is a tombstone only after exactly max_reads claims.
THEOREM TombstoneSpent == Spec => []TombstoneMeansSpent
  <1>1. IInv => TombstoneMeansSpent
    BY DEF IInv
  <1> QED
    BY Invariance, <1>1, PTL
-----------------------------------------------------------------------------
(* Counting reads *)

\* Tickets of one row are an injection into 1..read_count, so no more
\* requests hold one than the row's counter says.
LEMMA TicketBound ==
    ASSUME IInv, NEW i \in DOMAIN sec,
           NEW S \in SUBSET {r \in Req : ticket[r] # 0 /\ rid[r] = i}
    PROVE  /\ IsFiniteSet(S)
           /\ Cardinality(S) \in Nat
           /\ Cardinality(S) <= sec[i].readCount
  <1> DEFINE n == sec[i].readCount
             f == [r \in S |-> ticket[r]]
  <1>1. n \in Nat
    BY DEF IInv, TypeOK, Row
  <1>2. \A r \in S : ticket[r] \in 1..n
    BY DEF IInv, TypeOK, Row, Tickets
  <1>3. \A r, q \in S : ticket[r] = ticket[q] => r = q
    BY DEF IInv, Tickets
  <1>4. f \in Injection(S, 1..n)
    BY <1>2, <1>3 DEF Injection, IsInjective
  <1>5. IsFiniteSet(1..n) /\ Cardinality(1..n) = n
    BY <1>1, FS_Interval
  <1> HIDE DEF n, f
  <1>6. IsFiniteSet(S) /\ Cardinality(S) <= Cardinality(1..n)
    BY <1>4, <1>5, FS_Injection
  <1>7. Cardinality(S) \in Nat
    BY <1>6, FS_CardinalityType
  <1> QED
    BY <1>5, <1>6, <1>7 DEF n

\* The read caps hold under every interleaving and every fault.
THEOREM ReadsAreCapped == Spec => []CappedReads
  <1>1. IInv => CappedReads
    <2> SUFFICES ASSUME IInv, NEW i \in DOMAIN sec, Cap(sec[i].flags) # NoMax
                 PROVE  Cardinality(Claimed(i)) <=
                           (IF Cap(sec[i].flags) > 0
                            THEN Cap(sec[i].flags) ELSE 0)
      BY DEF CappedReads
    <2>1. Claimed(i) \in SUBSET {r \in Req : ticket[r] # 0 /\ rid[r] = i}
      BY DEF Claimed, IInv, Snapshots, Holders, Reading, PastClaim
    <2>2. /\ Cardinality(Claimed(i)) \in Nat
          /\ Cardinality(Claimed(i)) <= sec[i].readCount
      BY <2>1, TicketBound
    <2>3. sec[i].readCount \in Nat /\ sec[i].flags \in FlagChoices
      BY DEF IInv, TypeOK, Row
    <2>4. Cap(sec[i].flags) \in Int
      BY <2>3, CapFacts
    <2>5. sec[i].readCount <= (IF Cap(sec[i].flags) > 0
                               THEN Cap(sec[i].flags) ELSE 0)
      BY DEF IInv, Counts
    <2> QED
      BY <2>2, <2>3, <2>4, <2>5
  <1> QED
    BY Invariance, <1>1, PTL

\* A read that is answered carries real data.
THEOREM ServedDataIsReal == Spec => []NeverServesScrubbed
  <1>1. IInv => NeverServesScrubbed
    BY DEF IInv, NeverServesScrubbed, Snapshots, Kinds, Reading, PastTests
  <1> QED
    BY Invariance, <1>1, PTL
-----------------------------------------------------------------------------
(* What one step may do to a row *)

\* A row is left alone, overwritten if it may be, counted if it is no
\* tombstone, or scrubbed.
RowStep(i) ==
    \/ sec'[i] = sec[i]
    \/ /\ ~sec[i].flags.noOverwrite
       /\ \E d \in Data : sec'[i] = [sec[i] EXCEPT !.data = d]
    \/ /\ ~sec[i].exhausted
       /\ sec'[i] = [sec[i] EXCEPT !.readCount = @ + 1]
    \/ sec'[i] = [sec[i] EXCEPT !.data = Scrubbed, !.exhausted = TRUE]

\* Rows never lose their entry, and change only in the ways of RowStep.
LEMMA RowSteps ==
    ASSUME IInv, [Next]_vars
    PROVE  \A i \in DOMAIN sec : i \in DOMAIN sec' /\ RowStep(i)
  <1>1. CASE UNCHANGED sec
    BY <1>1 DEF RowStep
  <1>2. ASSUME NEW r \in Req, StoreUpdate(r)
        PROVE  \A i \in DOMAIN sec : i \in DOMAIN sec' /\ RowStep(i)
    <2>1. /\ row[r].data \in Data /\ rid[r] \in DOMAIN sec
          /\ ~sec[rid[r]].flags.noOverwrite
      BY <1>2 DEF IInv, Kinds, Writers, StoreUpdate
    <2> QED
      BY <1>2, <2>1 DEF IInv, TypeOK, StoreUpdate, RowStep
  <1>3. ASSUME NEW r \in Req, StoreInsert(r)
        PROVE  \A i \in DOMAIN sec : i \in DOMAIN sec' /\ RowStep(i)
    BY <1>3 DEF StoreInsert, RowStep
  <1>4. ASSUME NEW r \in Req, RetrieveClaim(r)
        PROVE  \A i \in DOMAIN sec : i \in DOMAIN sec' /\ RowStep(i)
    BY <1>4 DEF IInv, TypeOK, RetrieveClaim, Claimable, RowStep
  <1>5. ASSUME NEW r \in Req, RetrieveCount(r), ~UNCHANGED sec
        PROVE  \A i \in DOMAIN sec : i \in DOMAIN sec' /\ RowStep(i)
    <2>1. op[r] = "retrieve"
      BY <1>5 DEF IInv, Kinds, RetrieveCount
    <2>2. /\ rid[r] \in DOMAIN sec
          /\ row[r] \in Row /\ row[r].flags = sec[rid[r]].flags
      BY <1>5, <2>1 DEF IInv, Snapshots, Reading, RetrieveCount
    <2>3. row[r].flags \in FlagChoices
      BY <2>2 DEF Row
    <2>4. sec[rid[r]].flags.maxReads = NoMax
      BY <1>5, <2>2, <2>3, CapFacts DEF RetrieveCount
    <2>5. ~sec[rid[r]].exhausted
      BY <2>2, <2>4 DEF IInv, TombstoneMeansSpent
    <2>6. sec' = [sec EXCEPT ![rid[r]].readCount = @ + 1]
      BY <1>5 DEF RetrieveCount
    <2> QED
      BY <2>2, <2>5, <2>6 DEF IInv, TypeOK, RowStep
  <1>6. ASSUME NEW r \in Req, RetrieveTombstone(r)
        PROVE  \A i \in DOMAIN sec : i \in DOMAIN sec' /\ RowStep(i)
    BY <1>6 DEF IInv, TypeOK, RetrieveTombstone, RowStep
  <1>7. CASE \E r \in Req : \/ StoreUpdate(r) \/ StoreInsert(r)
                            \/ RetrieveClaim(r) \/ RetrieveCount(r)
                            \/ RetrieveTombstone(r)
    BY <1>1, <1>2, <1>3, <1>4, <1>5, <1>6, <1>7
  <1>8. CASE ~\E r \in Req : \/ StoreUpdate(r) \/ StoreInsert(r)
                             \/ RetrieveClaim(r) \/ RetrieveCount(r)
                             \/ RetrieveTombstone(r)
    <2> UNCHANGED sec
      BY <1>8 DEF Next, Step, Store, Retrieve, Delete, Cleanup, Shared, Terminated,
         vars, StoreSelectNew, StoreSelectExisting, StoreConflict,
         StoreInsertRefused, RetrieveSelect, RetrieveGate, RetrieveGateRefuse,
         RetrieveClaimRefused, RetrieveDelete, RetrieveKeep, DeleteSelect,
         DeleteRow, CleanupSelect, CleanupDelete, CleanupDone, NotFound,
         AclAllow, AclDeny, RecordUse, Respond, Abort
    <2> QED
      BY <1>1
  <1> QED
    BY <1>7, <1>8

\* no_overwrite rows keep their data while they exist.
THEOREM ImmutableRows == Spec => Immutable
  <1>1. IInv /\ [Next]_vars =>
          [\A i \in rows \cap rows' :
              sec[i].flags.noOverwrite =>
                 sec'[i].data \in {sec[i].data, Scrubbed}]_vars
    <2> SUFFICES ASSUME IInv, [Next]_vars, NEW i \in rows,
                        sec[i].flags.noOverwrite
                 PROVE  sec'[i].data \in {sec[i].data, Scrubbed}
      OBVIOUS
    <2>1. i \in DOMAIN sec /\ sec[i] \in Row
      BY DEF IInv, TypeOK
    <2>2. RowStep(i)
      BY <2>1, RowSteps
    <2> QED
      BY <2>1, <2>2 DEF RowStep, Row
  <1> QED
    BY <1>1, Invariance, PTL DEF Spec, Immutable

\* A tombstone stays one, and is never counted again.
THEOREM TombstonesAreFinal == Spec => TombstoneIsFinal
  <1>1. IInv /\ [Next]_vars =>
          [\A i \in DOMAIN sec : sec[i].exhausted =>
              sec'[i].exhausted /\ sec'[i].readCount = sec[i].readCount]_vars
    <2> SUFFICES ASSUME IInv, [Next]_vars, NEW i \in DOMAIN sec,
                        sec[i].exhausted
                 PROVE  sec'[i].exhausted /\ sec'[i].readCount = sec[i].readCount
      OBVIOUS
    <2>1. sec[i] \in Row
      BY DEF IInv, TypeOK
    <2>2. RowStep(i)
      BY RowSteps
    <2> QED
      BY <2>1, <2>2 DEF RowStep, Row
  <1> QED
    BY <1>1, Invariance, PTL DEF Spec, TombstoneIsFinal

\* cleanup deletes tombstones that are not preserved, and nothing else.
THEOREM CleanupIsSafe == Spec => CleanupSparesLive
  <1>1. IInv /\ [Next]_vars =>
          [\A r \in Req : todo'[r] # todo[r] /\ pc[r] = "sweep" =>
              \A i \in rows \ rows' :
                 sec[i].exhausted /\ ~sec[i].flags.preserve]_vars
    <2> SUFFICES ASSUME IInv, [Next]_vars, NEW r \in Req,
                        todo'[r] # todo[r], pc[r] = "sweep",
                        NEW i \in rows \ rows'
                 PROVE  sec[i].exhausted /\ ~sec[i].flags.preserve
      OBVIOUS
    <2>1. PICK q \in Req : CleanupSelect(q) \/ CleanupDelete(q)
      <3> todo' # todo
        OBVIOUS
      <3>1. PICK q \in Req : Step(q) \/ Abort(q)
        BY DEF Next, Terminated, vars
      <3>2. ~Store(q)
        BY DEF Store, StoreSelectNew, StoreSelectExisting, StoreConflict,
               StoreUpdate, StoreInsert, StoreInsertRefused
      <3>3. ~Retrieve(q)
        BY DEF Retrieve, RetrieveSelect, RetrieveGate, RetrieveGateRefuse,
               RetrieveClaim, RetrieveClaimRefused, RetrieveCount,
               RetrieveDelete, RetrieveTombstone, RetrieveKeep
      <3>4. ~Delete(q) /\ ~CleanupDone(q) /\ ~Abort(q)
        BY DEF Delete, DeleteSelect, DeleteRow, CleanupDone, Abort
      <3>5. ~Shared(q)
        BY DEF Shared, NotFound, AclAllow, AclDeny, RecordUse, Respond
      <3> QED
        BY <3>1, <3>2, <3>3, <3>4, <3>5 DEF Step, Cleanup
    <2>2. CASE CleanupSelect(q)
      BY <2>2 DEF CleanupSelect
    <2>3. CASE CleanupDelete(q)
      <3>1. PICK j \in todo[q] : rows' = rows \ {j} \/ rows' = rows
        BY <2>3 DEF CleanupDelete
      <3> QED
        BY <3>1 DEF IInv, Sweeps
    <2> QED
      BY <2>1, <2>2, <2>3
  <1> QED
    BY <1>1, Invariance, PTL DEF Spec, CleanupSparesLive
-----------------------------------------------------------------------------
(* What an answered request has paid, when no statement fails *)

Settling == {"record", "respond", "served"}
Paying == {"respond", "served", "ok"}
Unruled == {"idle", "acl", "sweep"}

\* Past the DELETE of a delete_on_read secret its id is out of the table, and
\* ids do not come back.
Erased ==
    \A r \in Req :
        op[r] = "retrieve" /\ pc[r] \in Settling /\ row[r].flags.deleteOnRead
            => rid[r] \notin rows

\* The requests a rule has been charged for.
Payers(u) == {r \in Req : rule[r] = u /\ pc[r] \in Paying}

Paid ==
    \A u \in Rule : /\ IsFiniteSet(Payers(u))
                    /\ Cardinality(Payers(u)) <= useCount[u]

\* A rule is held only from the ACL check on, and never by cleanup.
RuleHeld == \A r \in Req : pc[r] \in Unruled => rule[r] = Admin

\* The inductive invariant of a store whose statements do not fail.
SInv == ~Faults /\ IInv /\ Erased /\ Paid /\ RuleHeld

\* How a step of r moves it towards its answer.
Moves(r) ==
    /\ \A q \in Req \ {r} :
          /\ pc'[q] = pc[q] /\ op'[q] = op[q] /\ rid'[q] = rid[q]
          /\ row'[q] = row[q] /\ rule'[q] = rule[q]
    /\ rows' \subseteq rows \cup (Id \ DOMAIN sec)
    /\ op'[r] = "retrieve" /\ pc'[r] \in Settling =>
          /\ op[r] = "retrieve" /\ rid'[r] = rid[r] /\ row'[r] = row[r]
          /\ \/ pc[r] \in Settling
             \/ row[r].flags.deleteOnRead => rid[r] \notin rows'
    /\ pc'[r] \in Unruled => pc[r] \in Unruled /\ rule'[r] = rule[r]
    /\ pc'[r] \in Paying =>
          /\ rule'[r] = rule[r]
          /\ \/ /\ pc[r] = "record"
                /\ useCount' = [u \in Rule |-> IF u = rule[r] THEN useCount[u] + 1
                                               ELSE useCount[u]]
             \/ pc[r] \in Paying \cup {"sweep"} /\ useCount' = useCount
    /\ pc'[r] \notin Paying => useCount' = useCount

\* A step of store_data moves as Moves says.
LEMMA StoreMoves == ASSUME IInv, NEW r \in Req, Store(r) PROVE Moves(r)
  <1> USE DEF Moves, Settling, Paying, Unruled, Goto, Receive, IInv, TypeOK
  <1>1. CASE StoreSelectNew(r)
    BY <1>1 DEF StoreSelectNew
  <1>2. CASE StoreSelectExisting(r)
    BY <1>2 DEF StoreSelectExisting
  <1>3. CASE StoreConflict(r)
    BY <1>3 DEF StoreConflict
  <1>4. CASE StoreUpdate(r)
    BY <1>4 DEF StoreUpdate, Kinds
  <1>5. CASE StoreInsert(r)
    BY <1>5 DEF StoreInsert, Kinds
  <1>6. CASE StoreInsertRefused(r)
    BY <1>6 DEF StoreInsertRefused
  <1> QED
    BY <1>1, <1>2, <1>3, <1>4, <1>5, <1>6 DEF Store

\* Without a fault a read of a delete_on_read secret does not keep the row.
LEMMA RetrieveMoves == ASSUME IInv, ~Faults, NEW r \in Req, Retrieve(r) PROVE Moves(r)
  <1> USE DEF Moves, Settling, Paying, Unruled, Goto, Receive, IInv, TypeOK
  <1>1. CASE RetrieveSelect(r)
    BY <1>1 DEF RetrieveSelect
  <1>2. CASE RetrieveGate(r) \/ RetrieveGateRefuse(r) \/ RetrieveClaimRefused(r)
    BY <1>2 DEF RetrieveGate, RetrieveGateRefuse, RetrieveClaimRefused
  <1>3. CASE RetrieveClaim(r) \/ RetrieveCount(r)
    BY <1>3 DEF RetrieveClaim, RetrieveCount
  <1>4. CASE RetrieveDelete(r)
    BY <1>4 DEF RetrieveDelete
  <1>5. CASE RetrieveTombstone(r) \/ RetrieveKeep(r)
    BY <1>5 DEF RetrieveTombstone, RetrieveKeep
  <1> QED
    BY <1>1, <1>2, <1>3, <1>4, <1>5 DEF Retrieve

\* So does a step of a delete, a cleanup or one common to the handlers.
LEMMA RestMoves ==
    ASSUME IInv, ~Faults, NEW r \in Req, Delete(r) \/ Cleanup(r) \/ Shared(r)
    PROVE  Moves(r)
  <1> USE DEF Moves, Settling, Paying, Unruled, Goto, Receive, IInv, TypeOK
  <1>1. CASE DeleteSelect(r)
    BY <1>1 DEF DeleteSelect
  <1>2. CASE DeleteRow(r)
    BY <1>2 DEF DeleteRow, Kinds
  <1>3. CASE CleanupSelect(r)
    BY <1>3 DEF CleanupSelect
  <1>4. CASE CleanupDelete(r)
    BY <1>4 DEF CleanupDelete
  <1>5. CASE CleanupDone(r)
    BY <1>5 DEF CleanupDone
  <1>6. CASE NotFound(r) \/ AclDeny(r)
    BY <1>6 DEF NotFound, AclDeny
  <1>7. CASE AclAllow(r)
    BY <1>7 DEF AclAllow, AfterAcl
  <1>8. CASE RecordUse(r)
    BY <1>8 DEF RecordUse
  <1>9. CASE Respond(r)
    BY <1>9 DEF Respond
  <1> QED
    BY <1>1, <1>2, <1>3, <1>4, <1>5, <1>6, <1>7, <1>8, <1>9 DEF Delete, Cleanup, Shared

\* A step keeps erased ids out of the table.
LEMMA ErasedStep == ASSUME SInv, NEW r \in Req, Moves(r) PROVE Erased'
  <1> SUFFICES ASSUME NEW q \in Req, op'[q] = "retrieve", pc'[q] \in Settling,
                      row'[q].flags.deleteOnRead
               PROVE  rid'[q] \notin rows'
    BY DEF Erased
  <1>1. op[q] = "retrieve" /\ rid'[q] = rid[q] /\ row'[q] = row[q]
    BY DEF Moves
  <1>2. CASE pc[q] \in Settling
    <2>1. rid[q] \notin rows
      BY <1>1, <1>2 DEF SInv, Erased
    <2>2. rid[q] \in DOMAIN sec
      BY <1>1, <1>2 DEF SInv, IInv, Snapshots, Reading, Settling
    <2> QED
      BY <1>1, <2>1, <2>2 DEF Moves
  <1>3. CASE pc[q] \notin Settling
    BY <1>1, <1>3 DEF Moves
  <1> QED
    BY <1>2, <1>3

\* A request joins the payers of a rule in the step that charges the rule.
LEMMA PaidStep == ASSUME SInv, NEW r \in Req, Moves(r) PROVE Paid'
  <1> SUFFICES ASSUME NEW u \in Rule
               PROVE  /\ IsFiniteSet(Payers(u)')
                      /\ Cardinality(Payers(u)') <= useCount'[u]
    BY DEF Paid
  <1>1. IsFiniteSet(Payers(u)) /\ Cardinality(Payers(u)) <= useCount[u] /\ useCount[u] \in Nat
    BY DEF SInv, Paid, IInv, TypeOK
  <1>2. Cardinality(Payers(u)) \in Nat
    BY <1>1, FS_CardinalityType
  <1>3. CASE pc[r] = "record" /\ pc'[r] \in Paying /\ rule[r] = u
    <2>1. useCount'[u] = useCount[u] + 1
      BY <1>3 DEF Moves, Paying
    <2>2. Payers(u)' \subseteq Payers(u) \cup {r}
      BY DEF Moves, Payers
    <2>3. /\ IsFiniteSet(Payers(u) \cup {r})
          /\ Cardinality(Payers(u) \cup {r}) <= Cardinality(Payers(u)) + 1
          /\ Cardinality(Payers(u) \cup {r}) \in Nat
      <3>1. /\ IsFiniteSet(Payers(u) \cup {r})
            /\ Cardinality(Payers(u) \cup {r}) =
                  IF r \in Payers(u) THEN Cardinality(Payers(u)) ELSE Cardinality(Payers(u)) + 1
        BY <1>1, FS_AddElement
      <3> QED
        BY <1>2, <3>1
    <2>4. IsFiniteSet(Payers(u)') /\ Cardinality(Payers(u)') <= Cardinality(Payers(u) \cup {r})
      BY <2>2, <2>3, FS_Subset
    <2>5. Cardinality(Payers(u)') \in Nat
      BY <2>4, FS_CardinalityType
    <2> QED
      BY <1>1, <1>2, <2>1, <2>3, <2>4, <2>5
  <1>4. CASE ~(pc[r] = "record" /\ pc'[r] \in Paying /\ rule[r] = u)
    <2>1. useCount'[u] = useCount[u]
      BY <1>4 DEF Moves
    <2>2. Payers(u)' \subseteq Payers(u)
      <3> SUFFICES ASSUME NEW q \in Payers(u)' PROVE q \in Payers(u)
        OBVIOUS
      <3>1. q \in Req /\ rule'[q] = u /\ pc'[q] \in Paying
        BY DEF Payers
      <3>2. CASE q # r
        BY <3>1, <3>2 DEF Moves, Payers
      <3>3. CASE q = r
        <4>1. rule[r] = u /\ pc[r] \in Paying \cup {"sweep"}
          BY <1>4, <3>1, <3>3 DEF Moves
        <4>2. pc[r] # "sweep"
          BY <4>1, ConstantsAssumption DEF SInv, RuleHeld, Unruled
        <4> QED
          BY <3>3, <4>1, <4>2 DEF Payers
      <3> QED
        BY <3>2, <3>3
    <2>3. IsFiniteSet(Payers(u)') /\ Cardinality(Payers(u)') <= Cardinality(Payers(u))
      BY <1>1, <2>2, FS_Subset
    <2>4. Cardinality(Payers(u)') \in Nat
      BY <2>3, FS_CardinalityType
    <2> QED
      BY <1>1, <1>2, <2>1, <2>3, <2>4
  <1> QED
    BY <1>3, <1>4

\* The invariant of executions without faults is inductive.
LEMMA NextSInv == SInv /\ [Next]_vars => SInv'
  <1> SUFFICES ASSUME SInv, [Next]_vars PROVE SInv'
    OBVIOUS
  <1>1. IInv' /\ ~Faults
    BY NextIInv DEF SInv
  <1>2. CASE UNCHANGED vars
    <2>1. Erased' /\ RuleHeld'
      BY <1>2 DEF SInv, Erased, RuleHeld, vars
    <2>2. \A u \in Rule : Payers(u)' = Payers(u) /\ useCount'[u] = useCount[u]
      BY <1>2 DEF Payers, vars
    <2>3. Paid'
      BY <2>2 DEF SInv, Paid
    <2> QED
      BY <1>1, <2>1, <2>3 DEF SInv
  <1>3. ASSUME NEW r \in Req, Step(r) PROVE SInv'
    <2>1. Moves(r)
      BY <1>3, StoreMoves, RetrieveMoves, RestMoves DEF Step, SInv
    <2>2. RuleHeld'
      BY <2>1 DEF Moves, SInv, RuleHeld
    <2> QED
      BY <1>1, <2>1, <2>2, ErasedStep, PaidStep DEF SInv
  <1>4. \A r \in Req : ~Abort(r)
    BY <1>1 DEF Abort
  <1> QED
    BY <1>2, <1>3, <1>4 DEF Next, Terminated

\* ServedIsSettled: when no statement fails and no handler is dropped, a
\* delete_on_read secret has left the table when its read is answered, and
\* every answered operation has been charged to the rule that allowed it, for
\* any number of requests on the same rules and rows (retrieve_data,
\* acl_record_use).
THEOREM AnswersAreSettled == ~Faults /\ Spec => []ServedIsSettled
  <1>1. ~Faults /\ Init => SInv
    <2> SUFFICES ASSUME ~Faults, Init PROVE SInv
      OBVIOUS
    <2>1. \A u \in Rule : Payers(u) = {} /\ useCount[u] = 0
      BY DEF Init, Payers, Paying
    <2>2. Paid
      BY <2>1, FS_EmptySet DEF Paid
    <2> QED
      BY <2>2, InitIInv DEF SInv, Init, Erased, Settling, RuleHeld
  <1>2. SInv => ServedIsSettled
    <2> SUFFICES ASSUME SInv PROVE GoneWhenServed /\ UsesCharged
      BY DEF ServedIsSettled
    <2>1. GoneWhenServed
      BY DEF SInv, IInv, Kinds, Erased, Settling, GoneWhenServed
    <2>2. ASSUME NEW u \in Rule
          PROVE  Cardinality({r \in Req : rule[r] = u /\ pc[r] \in {"served", "ok"}})
                    <= useCount[u]
      <3> DEFINE A == {r \in Req : rule[r] = u /\ pc[r] \in {"served", "ok"}}
      <3>1. A \in SUBSET Payers(u)
        BY DEF Payers, Paying
      <3>2. /\ IsFiniteSet(Payers(u)) /\ Cardinality(Payers(u)) <= useCount[u]
            /\ useCount[u] \in Nat
        BY DEF SInv, Paid, IInv, TypeOK
      <3> HIDE DEF A
      <3>3. /\ IsFiniteSet(A) /\ Cardinality(A) <= Cardinality(Payers(u))
            /\ Cardinality(Payers(u)) \in Nat
        BY <3>1, <3>2, FS_Subset, FS_CardinalityType
      <3>4. Cardinality(A) \in Nat
        BY <3>3, FS_CardinalityType
      <3>5. Cardinality(A) <= useCount[u]
        BY <3>2, <3>3, <3>4
      <3> QED
        BY <3>5 DEF A
    <2> QED
      BY <2>1, <2>2 DEF UsesCharged
  <1> QED
    BY <1>1, <1>2, NextSInv, PTL DEF Spec
-----------------------------------------------------------------------------
(* Refinement of ReadBudget *)

\* The initial tables are an initial budget.
LEMMA InitBudget == Init => Budget!Init
  <1> SUFFICES ASSUME Init PROVE Budget!Init
    OBVIOUS
  <1>1. IInv
    BY InitIInv
  <1>2. \A i \in DOMAIN sec : sec[i].flags \in FlagChoices
    BY <1>1 DEF IInv, TypeOK, Row
  <1>3. \A i \in DOMAIN sec : Cap(sec[i].flags) \in Int \cup {NoMax}
    BY <1>2, CapFacts
  <1>4. DOMAIN sec = rows /\ rows \subseteq Id
    BY DEF Init
  <1>5. quotaBar \in [Id -> Nat \cup {NoMax}]
    BY <1>3 DEF quotaBar, Capped
  <1>6. liveBar \in SUBSET Id /\ \A i \in liveBar : quotaBar[i] # NoMax
    BY <1>3, <1>4, ConstantsAssumption DEF liveBar, quotaBar, Capped
  <1>7. grantedBar = [i \in Id |-> {}]
    BY DEF Init, grantedBar
  <1> QED
    BY <1>5, <1>6, <1>7 DEF Budget!Init

\* No step touches the flags of a row, hence no step touches a quota.
LEMMA FlagsFixed ==
    ASSUME IInv, [Next]_vars
    PROVE  \A i \in DOMAIN sec : i \in DOMAIN sec' /\ sec'[i].flags = sec[i].flags
  <1> TAKE i \in DOMAIN sec
  <1>1. sec[i] \in Row
    BY DEF IInv, TypeOK
  <1>2. i \in DOMAIN sec' /\ RowStep(i)
    BY RowSteps
  <1> QED
    BY <1>1, <1>2 DEF RowStep, Row

\* A step that adds no row leaves every quota as it is.
LEMMA QuotaFixed ==
    ASSUME IInv, [Next]_vars, DOMAIN sec' \subseteq DOMAIN sec
    PROVE  /\ UNCHANGED quotaBar
           /\ \A i \in Id : Capped(i)' <=> Capped(i)
  <1>1. DOMAIN sec' = DOMAIN sec
        /\ \A i \in DOMAIN sec : sec'[i].flags = sec[i].flags
    BY FlagsFixed
  <1>2. \A i \in Id : Capped(i)' <=> Capped(i)
    BY <1>1 DEF Capped
  <1>3. \A i \in Id : Capped(i) => sec'[i].flags = sec[i].flags
    BY <1>1 DEF Capped
  <1> QED
    BY <1>2, <1>3 DEF quotaBar

\* A step in which nobody with a ticket changes its row grants nothing.
LEMMA GrantedFixed ==
    ASSUME UNCHANGED ticket,
           \A r \in Req : ticket[r] # 0 => rid'[r] = rid[r]
    PROVE  UNCHANGED grantedBar
  BY DEF grantedBar

\* Removing a row retires its budget, if it had one.
LEMMA RemoveRow ==
    ASSUME IInv, [Next]_vars, NEW i, rows' = rows \ {i},
           UNCHANGED <<sec, rid, ticket>>
    PROVE  Budget!Next \/ UNCHANGED Budget!vars
  <1>1. UNCHANGED quotaBar /\ \A j \in Id : Capped(j)' <=> Capped(j)
    BY QuotaFixed
  <1>2. UNCHANGED grantedBar
    BY GrantedFixed
  <1>3. rows \subseteq Id
    BY DEF IInv, TypeOK
  <1>4. CASE i \in liveBar
    <2> liveBar' = liveBar \ {i} /\ i \in Id
      BY <1>1, <1>3, <1>4 DEF liveBar
    <2> QED
      BY <1>1, <1>2, <1>4 DEF Budget!Next, Budget!Retire
  <1>5. CASE i \notin liveBar
    <2> liveBar' = liveBar
      BY <1>1, <1>3, <1>5 DEF liveBar
    <2> QED
      BY <1>1, <1>2 DEF Budget!vars
  <1> QED
    BY <1>4, <1>5

\* Every other step that keeps the rows and the tickets is a stutter.
LEMMA KeepRows ==
    ASSUME IInv, [Next]_vars, DOMAIN sec' \subseteq DOMAIN sec,
           UNCHANGED <<rows, ticket>>,
           \A r \in Req : ticket[r] # 0 => rid'[r] = rid[r]
    PROVE  UNCHANGED Budget!vars
  <1>1. UNCHANGED quotaBar /\ \A j \in Id : Capped(j)' <=> Capped(j)
    BY QuotaFixed
  <1>2. UNCHANGED grantedBar
    BY GrantedFixed
  <1>3. rows \subseteq Id
    BY DEF IInv, TypeOK
  <1>4. UNCHANGED liveBar
    BY <1>1, <1>3 DEF liveBar
  <1> QED
    BY <1>1, <1>2, <1>4 DEF Budget!vars

\* The insert of a capped secret issues its budget.
LEMMA InsertIssues ==
    ASSUME IInv, [Next]_vars, NEW r \in Req, StoreInsert(r)
    PROVE  Budget!Next \/ UNCHANGED Budget!vars
  <1>1. PICK i \in Id \ DOMAIN sec :
           /\ rows' = rows \cup {i}
           /\ sec' = [j \in DOMAIN sec \cup {i} |->
                         IF j = i THEN row[r] ELSE sec[j]]
           /\ rid' = [rid EXCEPT ![r] = i]
    BY DEF StoreInsert
  <1>2. ticket[r] = 0 /\ UNCHANGED ticket
    BY DEF IInv, Tickets, PastClaim, StoreInsert
  <1>3. UNCHANGED grantedBar
    BY <1>1, <1>2, GrantedFixed DEF IInv, TypeOK
  <1>4. row[r] \in Row
    BY DEF IInv, Kinds, Writers, StoreInsert
  <1>5. row[r].flags \in FlagChoices
    BY <1>4 DEF Row
  <1>6. Cap(row[r].flags) \in Int \cup {NoMax}
    BY <1>5, CapFacts
  <1>7. \A j \in Id : j # i => (Capped(j)' <=> Capped(j))
                               /\ quotaBar'[j] = quotaBar[j]
    BY <1>1 DEF Capped, quotaBar
  <1>8. ~Capped(i) /\ quotaBar[i] = NoMax
    BY <1>1 DEF Capped, quotaBar
  <1>9. rows \subseteq DOMAIN sec /\ DOMAIN sec \subseteq Id
    BY DEF IInv, TypeOK
  <1>10. CASE Cap(row[r].flags) = NoMax
    <2>1. ~Capped(i)' /\ quotaBar'[i] = NoMax
      BY <1>1, <1>10 DEF Capped, quotaBar
    <2>2. quotaBar' = quotaBar
      BY <1>7, <1>8, <2>1 DEF quotaBar
    <2>3. liveBar' = liveBar
      BY <1>1, <1>7, <1>8, <1>9, <2>1 DEF liveBar
    <2> QED
      BY <1>3, <2>2, <2>3 DEF Budget!vars
  <1>11. CASE Cap(row[r].flags) # NoMax
    <2>1. Capped(i)' /\ quotaBar'[i] \in Nat
      BY <1>1, <1>6, <1>11 DEF Capped, quotaBar
    <2>2. quotaBar' = [quotaBar EXCEPT ![i] = quotaBar'[i]]
      BY <1>7 DEF quotaBar
    <2>3. liveBar' = liveBar \cup {i}
      BY <1>1, <1>7, <1>8, <1>9, <2>1 DEF liveBar
    <2> QED
      BY <1>1, <1>3, <1>8, <2>1, <2>2, <2>3 DEF Budget!Next, Budget!Issue
  <1> QED
    BY <1>10, <1>11

\* A successful claim grants a read out of the row's remaining budget.
LEMMA ClaimGrants ==
    ASSUME IInv, [Next]_vars, NEW r \in Req, RetrieveClaim(r)
    PROVE  Budget!Next
  <1> DEFINE i == rid[r]
  <1>1. op[r] = "retrieve" /\ pc[r] = "claim"
    BY DEF IInv, Kinds, RetrieveClaim
  <1>2. /\ i \in DOMAIN sec /\ i \in rows /\ row[r] \in Row
        /\ row[r].flags = sec[i].flags /\ ticket[r] = 0
    BY <1>1 DEF IInv, Snapshots, Reading, Tickets, PastClaim, RetrieveClaim,
                Claimable
  <1>3. row[r].flags \in FlagChoices /\ sec[i].readCount \in Nat /\ i \in Id
    BY <1>2 DEF IInv, TypeOK, Row
  <1>4. /\ Cap(sec[i].flags) \in Int /\ sec[i].readCount < Cap(sec[i].flags)
    BY <1>2, <1>3, CapFacts DEF RetrieveClaim, Claimable
  <1>5. DOMAIN sec' = DOMAIN sec /\ ticket' = [ticket EXCEPT ![r] = sec[i].readCount + 1]
        /\ UNCHANGED <<rows, rid>>
    BY DEF RetrieveClaim
  <1>6. UNCHANGED quotaBar /\ \A j \in Id : Capped(j)' <=> Capped(j)
    BY <1>5, QuotaFixed
  <1>7. UNCHANGED liveBar
    BY <1>5, <1>6 DEF liveBar, IInv, TypeOK
  <1>8. i \in liveBar /\ quotaBar[i] = Cap(sec[i].flags)
    BY <1>2, <1>3, <1>4, ConstantsAssumption DEF liveBar, quotaBar, Capped
  <1>9. Cardinality(grantedBar[i]) \in Nat
        /\ Cardinality(grantedBar[i]) <= sec[i].readCount
    BY <1>2, <1>3, TicketBound DEF grantedBar
  <1>10. Cardinality(grantedBar[i]) < quotaBar[i]
    BY <1>3, <1>4, <1>8, <1>9
  <1>11. r \notin UNION {grantedBar[j] : j \in Id}
    BY <1>2 DEF grantedBar
  <1>12. grantedBar' = [grantedBar EXCEPT ![i] = @ \cup {r}]
    <2>1. ticket'[r] # 0 /\ \A q \in Req : q # r => ticket'[q] = ticket[q]
      BY <1>3, <1>5 DEF IInv, TypeOK
    <2> QED
      BY <1>3, <1>5, <2>1 DEF grantedBar
  <1>13. i \in Id /\ i \in liveBar /\ UNCHANGED <<liveBar, quotaBar>>
    BY <1>3, <1>6, <1>7, <1>8
  <1> HIDE DEF i
  <1>14. Budget!Cardinality(grantedBar[i]) = Cardinality(grantedBar[i])
    BY DEF Budget!Cardinality, Cardinality
  <1>15. Budget!Grant(i, r)
    BY <1>10, <1>11, <1>12, <1>13, <1>14 DEF Budget!Grant
  <1> QED
    BY <1>13, <1>15 DEF Budget!Next

\* Every step of the handlers is a step of the budgets or a stutter.
LEMMA StepBudget ==
    ASSUME IInv, [Next]_vars
    PROVE  Budget!Next \/ UNCHANGED Budget!vars
  <1>1. ASSUME NEW r \in Req, RetrieveDelete(r) \/ DeleteRow(r)
        PROVE  Budget!Next \/ UNCHANGED Budget!vars
    BY <1>1, RemoveRow DEF RetrieveDelete, DeleteRow
  <1>2. ASSUME NEW r \in Req, CleanupDelete(r)
        PROVE  Budget!Next \/ UNCHANGED Budget!vars
    <2>1. UNCHANGED <<sec, rid, ticket>>
      BY <1>2 DEF CleanupDelete
    <2>2. PICK j \in todo[r] : rows' = rows \ {j} \/ rows' = rows
      BY <1>2 DEF CleanupDelete
    <2>3. CASE rows' = rows
      BY <2>1, <2>3, KeepRows
    <2> QED
      BY <2>1, <2>2, <2>3, RemoveRow
  <1>3. ASSUME NEW r \in Req,
               ~(RetrieveDelete(r) \/ DeleteRow(r) \/ CleanupDelete(r)),
               ~(StoreInsert(r) \/ RetrieveClaim(r)),
               Step(r) \/ Abort(r)
        PROVE  UNCHANGED Budget!vars
    <2>1. DOMAIN sec' \subseteq DOMAIN sec /\ UNCHANGED <<rows, ticket>>
      BY <1>3 DEF Step, Store, Retrieve, Delete, Cleanup, Shared,
         StoreSelectNew, StoreSelectExisting, StoreConflict, StoreUpdate,
         StoreInsertRefused, RetrieveSelect, RetrieveGate, RetrieveGateRefuse,
         RetrieveClaimRefused, RetrieveCount, RetrieveTombstone, RetrieveKeep,
         DeleteSelect, CleanupSelect, CleanupDone, NotFound, AclAllow, AclDeny,
         RecordUse, Respond, Abort
    <2>2. CASE pc[r] = "idle"
      <3>1. ticket[r] = 0
        BY <2>2 DEF IInv, Tickets, PastClaim
      <3>2. \A q \in Req : q # r => rid'[q] = rid[q]
        BY <1>3, <2>2 DEF IInv, TypeOK, Step, Store, Retrieve, Delete, Cleanup,
           Shared, StoreSelectNew, StoreSelectExisting, StoreConflict,
           StoreUpdate, StoreInsertRefused, RetrieveSelect, RetrieveGate,
           RetrieveGateRefuse, RetrieveClaimRefused, RetrieveCount,
           RetrieveTombstone, RetrieveKeep, DeleteSelect, CleanupSelect,
           CleanupDone, NotFound, AclAllow, AclDeny, RecordUse, Respond, Abort
      <3> QED
        BY <2>1, <3>1, <3>2, KeepRows
    <2>3. CASE pc[r] # "idle"
      <3>1. UNCHANGED rid
        BY <1>3, <2>3 DEF Step, Store, Retrieve, Delete, Cleanup, Shared, Receive,
           StoreSelectNew, StoreSelectExisting, StoreConflict,
           StoreUpdate, StoreInsertRefused, RetrieveSelect, RetrieveGate,
           RetrieveGateRefuse, RetrieveClaimRefused, RetrieveCount,
           RetrieveTombstone, RetrieveKeep, DeleteSelect, CleanupSelect,
           CleanupDone, NotFound, AclAllow, AclDeny, RecordUse, Respond, Abort
      <3> QED
        BY <2>1, <3>1, KeepRows
    <2> QED
      BY <2>2, <2>3
  <1>4. CASE UNCHANGED vars
    BY <1>4, KeepRows DEF vars
  <1> QED
    BY <1>1, <1>2, <1>3, <1>4, InsertIssues, ClaimGrants DEF Next, Terminated

\* The handlers implement the abstract read budgets.
THEOREM Refinement == Spec => RefinesReadBudget
  <1>1. IInv /\ [Next]_vars => [Budget!Next]_Budget!vars
    BY StepBudget
  <1> QED
    BY <1>1, InitBudget, Invariance, PTL DEF Spec, RefinesReadBudget, Budget!Spec
=============================================================================
