# Verification of Blackbook

TLA+ models of the server side of Blackbook (`src/src/*.rs`): a secret and file
store over PostgreSQL and a data directory, served by an async HTTP server, with
access rules, read limits, K-of-N approvals, server-held keys, a relay for tunnels
between clients, a hash-chained audit log and a master key that is sealed on disk;
and of the client the tunnel ends. TLC checks the models on small instances;
TLAPS proves the safety properties of every state machine for every instance.

Source lines are given as `file:line` under `src/src/`. `PROJECT.json` maps every
definition to the lines it models.

## 1. The system

One process serves requests. Every handler is an `async fn`; at each `.await` on a
SQL statement or file operation any other handler may run, and the future of a
handler may be dropped there (client gone, statement failed, server stopped).
Handlers share nothing but the database, the data directory and a few caches.
Most handlers use no transaction: what they rely on is that a single SQL statement
is atomic, on `UNIQUE` constraints, and on conditional `UPDATE ... WHERE`. Next to
the server the operator may run `rekey-dek` against the same data directory.

| Component | State | Operations | What makes it hard | What makes it correct |
|---|---|---|---|---|
| Secret store (`server.rs` 747-1790) | `blackbook_secrets` | `store_data`, `retrieve_data`, `delete_data`, `cleanup_secrets` | lookup, checks, claim, scrub and use count are separate statements | read caps, one-shot reads, immutability, tombstones are final |
| Access rules (`auth.rs` 57-535, `server.rs` 3398-3720) | `blackbook_acl` | `acl_check`, `acl_record_use`, `grant_acl`, `revoke_acl` | checked before the action, counted after; matcher, schedule and rate window | only matching, open rules authorize; overshoot is bounded |
| K-of-N approvals (`server.rs` 4045-5060) | `blackbook_access_requests`, `..._grants` | `threshold_gate`, approve, grant, revoke | many reads, signatories and expiries at once | K distinct signatories, each approval spent once |
| File store (`server.rs` 1794-3200) | `blackbook_pages`, `blackbook_contents`, `contents/` | upload, download, delete, rotate, cleanup, rotate-on-read | three stores kept in step without a lock | row, DEK, hash and blob belong together; caps; erasure |
| Audit log (`auth.rs` 563-660, `server.rs` 5206-5640, `audit_archive.rs`) | `blackbook_audit`, anchors, archive files | append, verify, archive, prune | advisory lock; prune in two statements; verification in two | one chain, nothing lost, verifies unless tampered with |
| Master key (`persistence.rs`) | `master.bbkey`, `dek.meta`, legacy `dek`, `dek.mode` | boot, migrate, `rekey-dek` | several files, killed between any two writes | the key in use is never lost or replaced |
| Identities, tokens, certificates (`auth.rs` 57-980, `tls.rs`, `persistence.rs` 514-585) | `blackbook_clients`, CA, server certificate, admin bundle | boot, create, rotate, revoke, authenticate | the boot is rows and files, killed between any two; rotation replaces what is in use | an administrator stays reachable; only whole, valid bundles authenticate; one trust anchor |
| Domains and membership (`server.rs` 3724-3985) | domains, members | create, add, remove, the gate of every request | authority is tested before it is used | authority is confined to the domain |
| TOTP (`auth.rs` 1023-1100) | secret, enrolled flag | enrol, verify | secret read and flag set in two statements | enrolled means possession was proved |
| Managed keys (`keys_api.rs`) | keys, versions | create, rotate, delete, show, eight uses | a request works from a copy of the row | old versions keep working; a deleted key does not come back |
| Tunnel relay and clients (`tunnel_relay.rs`, `server.rs` 5672-5970, `tunnel_client.rs`, `tunnel_crypto.rs`) | offers, attached sockets; streams of an open tunnel | offer, attach, pair, forward, tear down; open, data, close | two handlers, four queues, re-attachment; engines, readers and pumps | both ends share one session; bytes in order; the end is passed on |
| Network rate limiter (`net_ratelimit.rs`) | bucket per peer | allow, sweep | the time is taken before the lock; sweeping forgets | the rate is bounded, only floods are shed |
| Credential store, crypto core, CLI, web UI, MCP server | files of one process, or none | sequential | - | - |

Interactions: every retrieval passes the ACL, the threshold gate and MFA before its
claim; every handler ends with an audit row; `cleanup_secrets` works on secrets and
files; all data keys hang below the master key. Authentication (`Identity`) and the
domain gate (`Access`) come before everything else, and the rate limiter before them.
The relay vouches for the certificate fingerprint that `rotate_client` may replace.

## 2. Modules

| Module | Models | Composed with |
|---|---|---|
| `SecretStore` | the four secret handlers, with ACL choice and use count | |
| `ReadBudget` | abstract: what a read cap promises | |
| `SecretStoreRefines` | refinement mapping from `SecretStore` to `ReadBudget` | both |
| `SecretStoreProofs` | inductive invariant, theorems | `SecretStoreRefines` |
| `MasterKey` | the data directory's key files, boots and re-keys with kills | |
| `ThresholdGate` | K-of-N requests, approvals, advance grants | |
| `AuditChain` | append, verify, archive and prune | |
| `FileStore` | the file handlers over two tables and the blobs | |
| `ManagedKeys` | create, rotate, delete and use of server-held keys | |
| `KeyRing` | abstract: what a ring of versioned keys promises; `ManagedKeys` implements it | `ManagedKeys` |
| `Identity` | the boot and the life of clients, bundles and TOTP secrets | |
| `Access` | domains, members, rules and accesses | |
| `Algorithms` | `sql_like_match`, `cron_window_matches`, the token bucket, as operators beside their meaning | |
| `AlgorithmInputs` | grows the inputs of `Algorithms` element by element and states what they compute | `Algorithms`, with `Access` in `MCAccess` |
| `Tunnel` | one tunnel through the relay: hub, socket handlers, handshakes, sealed frames | |
| `TunnelStreams` | the streams multiplexed over an open tunnel | assumes the in-order channel `Tunnel` gives |
| `ManagedKeysProofs`, `ThresholdGateProofs`, `AccessProofs`, `FileStoreProofs`, `IdentityProofs` | inductive invariant and theorems | the module named |
| `DurabilityProofs` | the same for what may not get lost: key files, audit log, bytes of a stream | `MasterKey`, `AuditChain`, `TunnelStreams` |
| `TunnelProofs` | the same for the tunnel | `Tunnel` |
| `MC*` | flag sets, policies, traffic mixes, symmetry for TLC | the module named |

Definitions called "Faulty variant" are not part of any specification: each is what
a plausible mistake in that spot of the code would be, kept to show which property
notices it.

### SecretStore

State: `rows` and `sec` are the table (`sec` keeps the last content of deleted rows,
so that history can be talked about), `useCount` is `blackbook_acl.use_count`; `pc`,
`op`, `rid`, `row`, `rule`, `ticket` and `todo` are the local variables of the
handlers. One action is one SQL statement and the local code up to the next one.
The encryption layers, always written together, are one field `data`: a plaintext
or `Scrubbed`. `StoreUpdate` touches the data columns only (`server.rs:958`) and
nothing when the row has gone. `RetrieveClaim` is the conditional `UPDATE`
(`server.rs:1325`), its `WHERE` evaluated on the row of that moment; everything
served comes from the snapshot of `RetrieveSelect`. The threshold gate and MFA are
one nondeterministic step for rows that have them (`gated`). With `Faults`, the
statements whose result the code discards (`let _ =`) may do nothing, and a handler
may end at any await. A resource id never repeats; a request is one handler
invocation.

### MasterKey

Every file operation is a step. `write_secret` goes through `fs::write`, which
truncates: between `...Begin` and `...End` a file is `Torn`. A DEK is named by the
salt or wrapping it was minted with and by the provider, so a wrong passphrase
yields another DEK, while a wrong keyfile is refused (`Accepts`). `halfway` records
that some process was killed between the rename of `master.bbkey` and the end of
its write of `dek.meta`; `served` the keys servers have run with. Both are history
variables. `MigrateAlone` is the assumption that the operator does not start
another process while a volume is being migrated; two migrations would share the
one name `master.bbkey.migrating`. Runs have one `rekey-dek` process, which may be
started repeatedly.

### ThresholdGate

Reads step through `threshold_gate` statement by statement; approvals lock the
request's row within a transaction and are one step. The transaction of
`create_access_request` is not: it takes the advisory lock of its reader and resource
(`LockRequest`), searches (`FindRequest`, `FindNone`) and inserts (`InsertRequest`), and
between these other reads run; the lock is free again when the transaction has ended.
A statement that fails or a dropped handler ends a read (`Abort`), except in
`consume_grant_uses`, which logs the error and goes on: `ChargeFails`, remembered in
`lapsed`. Requests and grants are numbered
in the order of their creation, which `Oldest` uses where the code orders by it.
Expiry of requests and grants is an action that may happen at any time. A resource
may be deleted and stored again under another policy (`Recreate`).

### AuditChain

A row's hash is identified with its id (distinct rows have distinct hashes), so a row
is what its `prev_hash` says it continues. Failed inserts use up an id. A call may be
cut off anywhere: an open transaction is rolled back and its advisory lock
released; the prune has no transaction and can be cut between its two statements
(`cut`). Truncation of the newest rows is accepted by `verify_audit`, and tampering
is outside the model.

### FileStore

A page is a named file, a content row names a blob on disk. A DEK is identified with
the content it opens and a hash with the bytes. The kinds are normal, external
(client-encrypted), resident (only a key component on the server) and resident with
backup. Transactions are one step; `remove_file` is a step of its own, except in a cleanup,
where it follows the `DELETE` at once, and a rotation's `SELECT` of the content id, which
takes no lock, is one step with its `UPDATE`: both gaps are left out because no property
tells them apart. A rotation that fails to commit leaves the blob it wrote. `rekey_file_dek`
is `PostRotate`. ACL, approvals and MFA are one step that may refuse. A behaviour
draws its `traffic` once: the handlers, flags and kinds that occur in it and whether
faults do. So one run covers mixes that would not fit together.

### ManagedKeys and KeyRing

A slot works on one request after the other. It copies the row first (`FindKey`) and
works from that copy, as the code does. Creation and rotation are transactions: what
they write appears at the commit; until then they hold the name's entry in the unique
index, or the row's lock. The endpoints that use a key differ in the types they apply
to, in whether they touch secret material (which asks for MFA), and in what they take
and make, so they are one table of records (`Uses`) and two actions (`Make`, `Take`). An
output is the key, version and material it was made with; it opens under another
material never. `KeyRing` says what callers rely on: per name a sequence of
materials that only grows at its end or is dropped whole.

### Identity

A bundle is a certificate and a token, replaced together, so it is a generation
number. The boot is one action per file and statement; a kill may come anywhere, a file
being written is `Torn` meanwhile. Requests arrive with a certificate and a token that
need not belong together, and are looked up by two statements. `mishap` records the
events after which the code gives no guarantee that an administrator can log in: a kill
or an error between the row of a bundle and its delivery, expiry, and crossed
revocations.

### Access and Algorithms

In `Access` a pattern is the set of names it covers and a schedule the set of times it
is open; `MCAccess` computes both with the operators of `Algorithms`. Statements of a
request are separate steps; `seen` records which tests would have succeeded at some
moment since the request arrived. `Algorithms` has the backtracking matcher
step by step, the schedule test with its evaluation order, and the bucket over a
sequence of calls, each next to an independent definition of what it should compute.
Counting is in whole tokens and seconds.
`AlgorithmInputs` feeds them every short input, one element more a step; in the run
`Access` that happens in the initial state of `Access`, so the two do not multiply.

### Tunnel and TunnelStreams

A connection is one attachment of one side; its handler, the pump towards the socket
and the client are separate. Ephemeral keys are named after the connection, a
signature is the pair of keys it covers, a certificate is a generation; a client keeps
the fingerprint vouched for (`want`), the key it received (`peerEph`) and, once the
handshake has completed, its session. `LookupFingerprint` may find nothing (a database
error, or a client revoked after it authenticated); the connection then goes on with the
empty fingerprint, as in the code.
`TunnelStreams` starts where the handshakes are done: on each side an engine serves a
queue of commands and the frames of the peer in any order, and each stream has a
reader and a pump. What a socket says is numbered. A failed write ends a TCP pump
(`WriteFails`); over UDP the datagram is lost and the pump goes on (`SendFails`), and an
error of the target's socket ends its reader only (`RecvFails`). The end of the whole
connection, which drops everything, is in `Tunnel` only.

## 3. Runs

| Run | Shows | Bounds |
|---|---|---|
| `SecretStoreFaults` | `TypeOK`, `CappedReads`, `NeverServesScrubbed`, `Immutable`, `CleanupSparesLive`, `TombstoneIsFinal`, refinement of `ReadBudget`, with faults | 3 requests of any kind, 2 ids, 1 name, 2 plaintexts, five flag sets incl. caps 0, 1, 2 and delete_on_read |
| `SecretStoreLive` | `ServedIsSettled` (= `GoneWhenServed`, `UsesCharged`), `SpentIsScrubbed`, no faults | 3 requests, 2 ids, one rule for reads with one use |
| `MasterKey` | `ServedKeyKept`, `LostOnlyHalfway` | 4 process starts, 1 re-keyer, two passphrases and a keyfile, fresh, current and legacy volumes, kills |
| `ThresholdGate` | `ApprovalsSpent` (= `ConsumedOnce`, `GrantsCharged`), `PassedHasQuorum`, `OneOpenRequest` | 2 reads, 2 clients, 2 requests, 1 grant, policies 1-of-1 and 2-of-2, re-creation |
| `ThresholdDomain` | counterexample to `RequestMatchesResource` | 2 reads, 3 clients, two resources of one name |
| `AuditChain` | `OneChain`, `PruneKeeps` (= `HeadKept`, `NothingLost`), `VerifiesHonest` (= `Verifiable`, `NoFalseAlarm`), `AppendsEnd` | 3 calls of any kind on a log of up to 3 rows, prune, cut-offs |
| `FileStore` | `ReadableIntact`, `CappedDownloads`, `SpentErased`, `LiveFilesKept` (= `KeepsImmutable`, `CleanupSparesLive`) | 3 requests, 4 contents, 2 byte strings, four traffic mixes: overwrites and cleanups with faults; re-keying with faults, with and without uploads; downloads alone |
| `ManagedKeys` | `OutputsOpen`, `AnswersRight` (= `MissingOnlyDeleted`, `GenuineAccepted`, `DeletedStaysClosed`), `ActsOnSeen`, refinement of `KeyRing` | 2 requests at once, one name, 2 keys of it, 3 versions, 1 output, two types, an imported material |
| `Identity` | `AdminReachable`, `CredentialsSound` (= `OnlyLiveBundles`, `EnrolledProved`, `DeliveredWithDomain`), `BootsSound` (= `FailsOnlyTorn`, `OneTrustAnchor`) | 2 boots, 2 requests at once, 2 clients, 2 bundles and 2 TOTP secrets each |
| `Access` | `ScopedAuthority`, `GrantedWasAllowed`, `BoundedExcess` (= `BoundedUses`, `BoundedRate`); `MatchersExact` (= `LikeExact`, `ScheduleExact`), `RateLimitExact` (= `BurstBound`, `ExcessBound`, `OnlyFloodsShed`) | 2 requests at once, 3 clients, 3 domains, 2 rules, 3 ticks, five traffic mixes; patterns and names up to length 5, schedules of up to 2 terms a field, 5 calls within 3 seconds |
| `Tunnel` | `Agreement`, `NoProtocolError`, `PeerLearns` | 3 attachments of 2 sides, 1 frame each way, 2 certificates, lookups that fail, four traffic mixes |
| `TunnelStreams` | `Gapless`, `LingersOnlyAfterEnd`, `CloseArrives` | one stream with 2 chunks each way, or two streams of which one talks; TCP and UDP |

A module's `TypeOK` is a conjunct of one of its invariants (in the secret store an
invariant of its own), so each run of a state machine checks it.
Properties in parentheses are the named parts of the one before them; the comments
of the modules state each part. `TombstoneMeansSpent` of the secret store is proved
(section 4) and not checked by a run.

Why these bounds: the races are between a read and an overwrite, a read and another
read, either and a cleanup or delete; with three requests every pair meets in the
presence of a third that has set up the state. Two ids let a name be deleted and
stored again. A cap of two distinguishes the last read from the others. The
key-file model is finite but for `MaxStarts`: four starts are a first boot, two
re-keys or crashes and a boot after them. A log needs three rows for two archivals
of different lengths. `MaxContents` bounds the uploads and rotations of a run; when
it is reached, a request stays where it is unless faults end it, which is why
`SpentErased` is about the mix without uploads and rotations. Of keys, clients and
rules two requests at once are enough: every hazard listed is between one that has
read and one that writes, and slots are reused, so a third event may come before or
after. A key needs three versions for two overlapping rotations and an old output; a
name two keys for deletion and re-creation. Three attachments are a pair and one that
comes again. A stream needs two chunks for a gap to show. The matcher's inputs of
length 5 contain two stars with text between and after them. `ReadOnly` gives the rule of
`SecretStoreLive` the read action; stores and deletes there are an administrator's.
Deadlock is checked except in `Identity`, `Tunnel` and `TunnelStreams`, which may
really stop: a boot that fails for good, a tunnel whose sides have left. The other
specifications have an explicit step for the states in which every call has ended, or
slots that go on.
The theorems of section 4 do not depend on any of these bounds.

Symmetry is declared over requests, ids and plaintexts where the run has no
liveness property; no constant distinguishes their members.

### Fairness

`FairSpec` is weak fairness of each request's own steps once it has arrived:
the executor polls ready tasks, the database answers, and a free advisory lock is
given to a waiter. Arrival of requests, faults and cut-offs are never fair.
`SpentIsScrubbed` and `SpentErased` are stated without faults because the code does
not retry a failed scrub; `AppendsEnd` holds with cut-offs. In `Tunnel` the handlers
and pumps of the server are fair, and in `TunnelStreams` the engines, the pumps and
the listener's registration (tokio polls every task that is ready), and a dial, which
ends one way or the other by the operating system's timeout; attaching, closing,
speaking and ending a connection are up to the applications and not fair. Two things are
assumed of the surroundings: for `CloseArrives` that a write to a socket ends, since an
application that neither reads nor closes would block `write_all` (`tunnel_client.rs:473`)
and with it the pump; for `PeerLearns` that the server sees a broken connection.

`UsesCharged` is stated without faults: the error of the counting `UPDATE` is discarded
by the code. `GrantsCharged` is stated with them and excepts the charges that failed.
What `BoundedExcess` bounds are the counters of a rule, so an access whose handler was
dropped before its charge is not among what it counts.

## 4. Proofs

Eight modules hold theorems; of the components with runs only the pure algorithms have
none. Each states an inductive invariant (`IInv`) as a conjunction of named parts,
proves `Spec => []IInv` with a lemma for each action, and derives the properties of
section 3 from it. Every such invariant was checked by TLC on the component's run before it was
proved. The theorems hold for every value of the constants that satisfies the named
assumptions: any number of requests, processes, names, ids and rules, and any value of the
bounds of section 3.

| Module | Theorem | States |
|---|---|---|
| `SecretStoreProofs` | `TypeCorrect`, `TombstoneSpent`, `ReadsAreCapped`, `ServedDataIsReal` | `TypeOK`, `TombstoneMeansSpent`, `CappedReads`, `NeverServesScrubbed` |
| | `ImmutableRows`, `TombstonesAreFinal`, `CleanupIsSafe` | the action properties `Immutable`, `TombstoneIsFinal`, `CleanupSparesLive` |
| | `Refinement` | `Spec => RefinesReadBudget` |
| | `AnswersAreSettled` | `~Faults /\ Spec => []ServedIsSettled` |
| `DurabilityProofs` | `KeySafety`, `LossSafety` | `Operated /\ Spec => []ServedKeyKept`, `... []LostOnlyHalfway` |
| | `ChainSafety`, `PruneSafety`, `VerifySafety` | `OneChain`, `PruneKeeps`, `VerifiesHonest` |
| | `StreamsGapless`, `StreamsLinger` | `Gapless`, `LingersOnlyAfterEnd` |
| `ThresholdGateProofs` | `QuorumSafety`, `SpendingSafety`, `RequestSafety` | `PassedHasQuorum`, `ApprovalsSpent`, `OneOpenRequest` |
| `FileStoreProofs` | `CapSafety`, `ReadSafety`, `LiveSafety` | `CappedDownloads`, `ReadableIntact`, the action property `LiveFilesKept` |
| | `EraseSafety` | `SpentErased` |
| `ManagedKeysProofs` | `OutputSafety`, `AnswerSafety`, `RowSafety` | `OutputsOpen`, `AnswersRight`, the action property `ActsOnSeen` |
| | `Refinement` | `Spec => RefinesKeyRing` |
| `IdentityProofs` | `AdminSafety`, `CredentialSafety`, `BootSafety` | `AdminReachable`, `CredentialsSound`, `BootsSound` |
| `AccessProofs` | `AccessSafety`, `LimitSafety`, `AuthoritySafety` | `GrantedWasAllowed`, `BoundedExcess`, the action property `ScopedAuthority` |
| `TunnelProofs` | `TunnelAgreement`, `TunnelNoProtocolError` | `Agreement`, `NoProtocolError` |

Assumptions. Each component's `...Assumption` says that parameters are well-typed, that
special values (`NoRow`, `NoRule`, `NoClient`, `NoFile`, ...) are not members of the sets
they stand beside, and where the code has it that a set is finite (`Slot` in `Access`,
the signatories of a policy). TLC evaluates them on the runs. Three theorems have a
hypothesis that is not an assumption on types: `AnswersAreSettled` is about executions
whose statements do not fail, since the code discards the result of the deletion and of
the counting; and `KeySafety` and `LossSafety` are about volumes on which at most one
`rekey-dek` runs at a time and nothing is started during a migration (`Operated`), which cannot be
dropped: two re-keyers share the file `master.bbkey.rekey`, one truncates what the other
is about to rename, as do two migrations with theirs. TLC finds `ServedKeyKept` violated
with two re-keyers, and with a process started during a migration.

### Secret store

`CappedReads` counts requests, the code counts in a column; neither
implies the other. `IInv` connects them: the `read_count`s that claims returned
(`ticket`) are distinct per row and lie within the row's counter (`Tickets`), the
counter is within the cap (`Counts`), and who is past the claim of a capped row has a
ticket (`Holders`). So tickets inject the readers into `1..cap`. What a handler read
before an await is stale, and `Snapshots` and `Writers` say which part of it is still
true: flags never change after the insert, a row once inserted has a last content, and
past the tests the snapshot's data is real. `Counts` is stated with `max(cap, 0)`,
since `max_reads` may be stored as a negative number. `Sweeps` says the same for the
ids cleanup has selected: exhausted rows stay exhausted, so deleting by id later is
safe. `Leave` and `Advance` serve all
actions that only move `pc`; `RowSteps` says what any step can do to a row, from
which the action properties follow; the refinement has a lemma for each kind of step
(`InsertIssues`, `ClaimGrants`, `RemoveRow`, `KeepRows`). `SInv` adds, for executions
without faults, that an id which has left the table stays out (`Erased`) and that the
requests a rule was charged for are finitely many and within its count (`Paid`); `Moves`
says what a step contributes to both.

### Master key

`Opens` is the heart: what is on disk recovers the DEK that `master.bbkey` is sealed
under, or some process is between its rename and the end of its write of `dek.meta`.
It is inductive only with what the processes know: a process that replaces the DEK holds
the key that is on disk and the temporary file it wrote (`Replacing`), which nobody else
can have touched, because two processes never replace it at once (`Exclusive`: two re-keys
by `Operated`, a migration by `Layout`, which says that one process alone works on a
volume without `dek.meta`). `Resolving` says what a boot relies on: that a key is
generated only on a volume that never had one, and sealed under a DEK that `dek.meta`
recovers.

### Approvals

The count that let a read through is over what it found earlier: `Rests` says that it
rested on enough signatories of the request or of the policy, and `Found` and `Approved`
that these were entitled. A request that was consumed stays so and the conditional
`UPDATE` consumes it once (`Consumed`). `Locked` says what the advisory lock gives: of
the reads of one client and resource one is in the transaction, and when it is about to
insert there is no open request. For the grants `Counted` relates each grant's
`uses` to the reads that have charged it, `Due` says which charges a read still owes,
so that at "passed" nothing is owed, and `Spared` that the `uses` are no more than the
reads that found the grant and have come to charging.

### Audit log

`Chains` is defined with `Max`; `Linked` says the same with quantifiers. The lock
holder's head is still the head when it inserts (`Locking`). The table is a suffix of
what was committed (`Suffix`) whose newest row is there (`Newest`): a prune selects a
prefix of the table that ends before the newest row (`Selected`), and nothing up to an
anchor or to the chain value an archival works from is left (`Gone`). `Covered` says who
answers for a row that has gone: an anchor, or a prune that has yet to write one.

### File store

A content id belongs to one page for ever (`Tables`), so a handler that goes by a content
id read earlier touches that page or none (`Knows`); a page's flags never change and its
reads only get fewer, so what a handler is about to erase cannot become readable again
(`Erases`). The cap is the ticket argument of the secret store (`Claimed`, `Pairs`).
`Intact` has the proviso of `ReadableIntact`: with rotations and uploads together it is
false (section 5).

`SpentErased` needs `SpentInv` on top, which follows the duty to erase from hand to hand:
a page without further reads is a tombstone or some request holds the ticket of its last
read (`Spent`); that request finds the page whole, as it copied it, and no tombstone yet
(`Whole`, `Copied`, `Pending`), so nothing makes it turn back before it scrubs; a tombstone
has lost its bytes or somebody is about to unlink them (`Scrubbed`), and only bytes of
tombstones are unlinked (`Unlinks`). The lemma about `Wears` says once for all steps that
pages only wear out and blobs only go.

### Managed keys

A copy of a row is never ahead of the row (`NotAhead`) and an id stands for one name and
type for ever (`OneOwner`), so a request that finds its id in the table works on the key
it found. `Complete` says that a key has exactly the versions up to `latest`, which the
row lock and the unique index give (`Locked`); `OneHome` and `Counted` that generated
material belongs to one key. For the refinement every commit maps to a step of `KeyRing`
and every other statement to a stutter.

### Identities

What a boot finds rests on the order in which all earlier boots wrote: `Volume` says that
a later file is there only with the earlier ones and of the same CA, `Booting` what each
stage has established. `Administered` follows the administrator's bundle from the row
through the answer to its holder or to the volume. `Presented` says that a request whose
two factors pass the lookups still to come had brought one bundle, valid when it arrived;
`Bringing` that a first bundle leaves after the domain was made, and that a rotated one is
in nobody's hands before the row has it.

### Access rules

`Witnessed` relates what a request has found out to what was true since it arrived
(`seen`). `Charges` bounds, for each rule, its uses plus the accesses under way that will
be charged to it by the limit plus the number of slots less one, and likewise the count of
a rate window: an access that passes the test is one of the slots, and the test itself
leaves room for it.

### Tunnel

Sessions. `Agreement` relates two clients that never share a step. `KeyInv` says where an
ephemeral key is: with the peer, on the way there ahead of the handshake of the same
sender, or nowhere that is forwarded any more. A handshake names the key its sender
received (`FrameInv`), which never changes again; so when a client completes it, the two
have received each other's key (`SessInv`) and neither can have a session with a third.
`HubInv`, `PairedInv` and `AloneInv` say what the hub and the handlers know of each
other: an entry points across, and what nobody of the other side can reach is silent.

Protocol errors. `NoProtocolError` has a proviso (`Undisturbed`), and so has the invariant
it needs (`QuietInv`): each side attached once, with its first certificate and a
fingerprint that was found; `CertInv` says that then every vouch is for that certificate.
Every frame has a place in what its sender says: vouch, key,
handshake, then the data by number. Towards a client the frames have the places it waits
for, without a gap (`DownOrder`); what the other side has said and will say continues
there (`UpOrder`), as long as its handler forwards to it. The vouches are the difficult
part, since one handler gives both: `VouchInv` says that until it has, its own client and
the peer are silent, and that whoever is past it has been told before any frame.

Streams. The frames of a stream in one direction are numbered as they are sent: OPEN, the
chunks, CLOSE (`Mark`). `Flow` says that the command queue of the sender, the wire and the
queue of the stream, one behind the other, carry exactly the numbers above what has been
heard and up to what was sent, each once and in order; `Carries` is that statement for one
queue, with lemmas for its head and its end. `Tie` connects the numbers to the tasks: the
target has taken OPEN when its task is there, and routes frames until CLOSE has come.
A lost datagram counts as taken off the queue, with `Lost` in its place.
`HeardInv` and `TaskInv` then give `Gapless` and `LingersOnlyAfterEnd`.

### Only model-checked

- Liveness (`SpentIsScrubbed`, `AppendsEnd`, `PeerLearns`, `CloseArrives`): fairness and
  `ENABLED` are outside the prover.
- `MatchersExact` and `RateLimitExact`: what recursive definitions compute on every input
  needs induction over data, which the installed provers cannot do.

## 5. Disagreements between code and documentation

`ThresholdDomain` has a run whose counterexample shows it: `server.rs:4298` compares a
presented request by requester, kind and name and not by domain; `server.rs:4173`
requires that "the request matches the resource being read".

Observations met while modelling, without a run of their own. A property that holds
only outside one of them names the exception in its statement.

- `persistence.rs:415` renames `master.bbkey` before `dek.meta` is written; a kill
  between leaves a volume that no provider opens, though `persistence.rs:479` says
  "Atomic swap so a crash mid-migration can't corrupt the master key."
  `LostOnlyHalfway` shows that there is no other way to lose it.
- `server.rs:5524` deletes the pruned rows and then inserts the anchor outside any
  transaction; cut in between, the log no longer verifies (`audit_archive.rs:3`:
  "without losing the integrity guarantee"). `Verifiable` shows that nothing else
  breaks it.
- `rotate_file` writes back the plaintext read before its transaction
  (`server.rs:3165`); an upload acknowledged in between is lost and the hash no longer
  matches. `ReadableIntact` shows that no other overlap of a rotation does harm.
- An overwrite of an exhausted secret stores fresh data in the tombstone
  (`server.rs:958`; `:1413` says nothing recoverable remains). It is never served:
  `TombstoneIsFinal`.
- The data served may be older than the count: the row is read in an earlier statement
  (`server.rs:1110`, `:1325`; `auth.rs:998` says "in the same transaction as the read").
- Two requests may pass on the last use of a rule (`auth.rs:451`), and two reads on the
  last use of an advance grant (`server.rs:4228`; `:4179` says "under its use cap").
  Every use is counted nevertheless, unless the `UPDATE` fails, which is only logged
  (`server.rs:4225`): `UsesCharged`, `GrantsCharged`.
- A signatory who approves live after the tally of a read is charged for the advance
  grant too (`server.rs:4328`): what is charged was decided before.
- A request approved under an old policy opens a resource that was deleted and stored
  again under a stricter one (`server.rs:4331`); `PassedHasQuorum` excludes this by
  `SamePolicy`.
- A verification that reads its rows before a prune and the anchor after it reports
  tampering (`server.rs:5224`); `NoFalseAlarm` is about logs that were not pruned.
- A migration killed after `dek.meta` is written leaves the raw DEK on disk for good
  (`persistence.rs:364`; `:422` says it is gone).
- `rekey-dek` under a new keyfile is refused, because the old DEK is resolved with the
  same provider (`persistence.rs:403`; `:394` describes this use).
- A rotate_on_read download that ends after the final one gives the tombstone a new DEK
  and blob (`server.rs:2815`; `:2271` says it is scrubbed).
- A delete_on_read download that overlaps an upload deletes by a stale content id, and
  the page survives (`server.rs:2723`; `auth.rs:994`).
- The tombstone that `max_reads` leaves of a resident file keeps its backup blob
  (`server.rs:2597`), while `:2568` says that it drops "any backup blob". `SpentErased` is
  therefore not stated of these files (kind `backed`).
- A kill between the insertion of the first administrator and the write of its bundle
  leaves a volume whose only administrator nobody can log in as, and later boots skip
  the bootstrap (`persistence.rs:550`, `auth.rs:726`). The same bootstrap test ignores
  `expires_at`.
- `revoke_client_endpoint` refuses only one's own name (`server.rs:3360`), so two
  administrators can revoke each other; after a restart the bootstrap then tries to
  insert `admin` again and every boot fails on the unique name.
- A creation cut off after the client's row leaves a client without its private domain
  (`auth.rs:911`); a rotation later hands out a bundle for it (`auth.rs:928`), and
  nothing makes up for the domain. `DeliveredWithDomain` is about creations that
  answered.
- A verification that selected the TOTP secret before a new enrolment sets the enrolled
  flag after it (`auth.rs:1093`); nothing reads the flag.
- A domain administrator's request in flight goes through after its removal, and may add
  its sender again (`server.rs:3830`).
- A schedule with a malformed term is refused only when that term is reached: `*,xx` is
  open (`auth.rs:378` says malformed fails closed).
- A literal `*` in a name matches a `*` of the pattern as itself, so that `*` does not
  match the name `*x` (`auth.rs:332`); `LikeExact` is about names without a star.
- Rate windows are stamped with the database's clock and compared with the server's
  (`auth.rs:421`, `:451`).
- `allow` takes the time before the lock, so a bucket's clock may step back and an
  interval be credited twice (`net_ratelimit.rs:63`); and the sweep is harmless only if
  300 seconds refill the burst (`:66`). So the configured bound holds for calls whose
  times do not step back (`BurstBound`), and is exceeded otherwise, by at most the rate
  times the seconds stepped back (`ExcessBound`).
- A lookup of the fingerprint that fails, or finds the client revoked meanwhile, is
  vouched for as the empty fingerprint (`server.rs:5816`); the peer then fails on the
  handshake although each side attached once and no certificate was replaced.
  `NoProtocolError` excepts it (`Undisturbed`).
- A side that attaches to a tunnel again breaks the earlier pair: its frames fail to
  authenticate (`server.rs:5833`). An offer that waits too long is swept with its
  offerer still attached (`tunnel_relay.rs:86`).
- The listener queues OPEN before it registers the stream (`tunnel_client.rs:302`); an
  answer that comes back first is dropped.
- The side whose application closes first is not told of the other's end: its entry
  and the write half of its socket stay until the tunnel closes
  (`tunnel_client.rs:480`). A failed write ends the pump without a CLOSE (`:473`), a
  failed UDP bind leaves a route into nothing (`:396`).
- A UDP datagram whose send fails is lost without notice (`tunnel_client.rs:347`, `:427`),
  and an error on the target's UDP socket, an unreachable port say, ends the replies of
  the stream while requests still go out (`:420`). `Gapless` is accordingly weaker over
  UDP: order and no repetition, and a gap only where a send failed.

## 6. Not modelled

Ciphers, hashes and key derivation (pure functions on byte strings), the client
library and command line, the web pages and the MCP server (sequential translation,
no state of their own), and the schema's DDL, whose constraints the store modules use.
The endpoints by which clients re-key external and resident files, listings
(read-only), the time window of a TOTP code and the expiry of tokens (a code or token
is genuine or not), and the archiving of domains, which the code tests for but no
endpoint sets. The credential store of the client is one file written by one process.
An error of the listening UDP socket ends the listener as a whole and is not modelled.

## 7. Plan

Done, in this order: `SecretStore` with its proofs and refinement, `MasterKey`,
`ThresholdGate`, `AuditChain`, `FileStore`, `ManagedKeys`, `Identity`, `Access` with
`Algorithms`, `Tunnel`, `TunnelStreams`. Left to model: the composition of
`ThresholdGate` with the claim of `SecretStore` (an approval is spent by a read that is
refused afterwards, `server.rs:1242`), and the re-key endpoints of `FileStore`.
