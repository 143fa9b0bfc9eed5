------------------------------ MODULE FileStore ------------------------------
(***************************************************************************)
(* The file store: upload_file, download_file, delete_file, rotate_file    *)
(* and the file half of cleanup_secrets (server.rs) over the tables        *)
(* blackbook_pages and blackbook_contents and the blobs on the data volume.*)
(*                                                                         *)
(* A page is the named entry, a content row names the blob that holds its  *)
(* bytes.  Every blob has a DEK of its own, so a wrapped DEK is identified *)
(* with the content it opens; a hash is identified with the bytes hashed.  *)
(* One action is one SQL statement, transaction or file operation and the  *)
(* local code after it.  The ACL, approval and MFA checks, modelled in     *)
(* SecretStore and ThresholdGate, are one nondeterministic refusal here.   *)
(***************************************************************************)
EXTENDS Integers, FiniteSets

CONSTANTS
    Req,          \* requests, each served by one handler invocation
    MaxContents,  \* bound on the contents ever created
    Name, Data,   \* file names, bytes uploaded
    Traffics,     \* the kinds of traffic a behaviour may consist of
    NoMax,        \* no max_reads
    NoFile,       \* no blob at that path
    Empty,        \* the empty blob of a resident file without backup
    None          \* no page, no content, no DEK

Flags == [maxReads : Int \cup {NoMax}, deleteOnRead : BOOLEAN,
          rotateOnRead : BOOLEAN, noOverwrite : BOOLEAN, preserve : BOOLEAN]

AllKinds == {"normal", "external", "resident", "backed"}
AllHandlers == {"upload", "download", "delete", "rotate", "cleanup"}

\* Content ids are random and never repeat: the n-th one made is called n.  A
\* page goes by the first content it had.
Content == 1..MaxContents

ASSUME FileAssumption ==
    /\ MaxContents \in Nat \ {0}
    /\ NoMax \notin Int
    /\ None \notin Content
    /\ Empty \notin Data /\ NoFile \notin Data /\ Empty # NoFile
    /\ \A t \in Traffics :
          /\ t.flags \subseteq Flags /\ t.kinds \subseteq AllKinds
          /\ t.handlers \subseteq AllHandlers /\ t.faults \in BOOLEAN

\* A row of blackbook_pages: dek is wrapped_dek, part says whether
\* server_key_component is set.
PageRow == [name : Name, content : Content \cup {None}, dek : Content \cup {None},
            hash : Data, kind : AllKinds, part : BOOLEAN, flags : Flags,
            readCount : Nat, exhausted : BOOLEAN]

ASSUME NoneAssumption == None \notin PageRow

VARIABLES
    page,      \* blackbook_pages, by id
    contents,  \* ids in blackbook_contents
    blob,      \* the files under contents/, by the id they were written for
    pc, op,
    pid,       \* the page a lookup returned
    row,       \* the page row read, or the one to write
    old,       \* the content id or storage path to be removed
    ticket,    \* the read_count a claim returned, 0 if none
    todo,      \* the contents cleanup has selected
    traffic    \* the handlers, flags and storage modes in use; do statements
               \* fail and are handlers dropped half way?

vars == <<page, contents, blob, pc, op, pid, row, old, ticket, todo, traffic>>
locals == <<op, pid, row, old, ticket, todo>>

FlagChoices == traffic.flags
Kinds == traffic.kinds
Handlers == traffic.handlers
Faults == traffic.faults

Pages == DOMAIN page
Minted == DOMAIN blob
Resident == {"resident", "backed"}

Pcs == {"idle", "gate", "claim", "fetch", "post", "drop", "commit", "unlink",
        "read", "delete", "sweep", "served", "ok", "refused", "failed", "aborted"}
Finished == {"served", "ok", "refused", "failed", "aborted"}

\* Types of the tables, the blobs and the handlers' locals.
TypeOK ==
    /\ Minted \subseteq Content /\ blob \in [Minted -> Data \cup {Empty, NoFile}]
    /\ Pages \subseteq Minted /\ page \in [Pages -> PageRow]
    /\ contents \subseteq Minted
    /\ pc \in [Req -> Pcs] /\ op \in [Req -> Handlers \cup {"none"}]
    /\ pid \in [Req -> Content \cup {None}]
    /\ row \in [Req -> PageRow \cup {None}]
    /\ old \in [Req -> Content \cup {None}]
    /\ ticket \in [Req -> Nat]
    /\ todo \in [Req -> SUBSET Content]
    /\ traffic \in Traffics

\* The row an upload of d creates, bound to content c.
NewRow(n, d, f, k, c) ==
    [name |-> n, content |-> c,
     dek |-> IF k \in {"normal", "backed"} THEN c ELSE None,
     hash |-> d, kind |-> k, part |-> k \in Resident, flags |-> f,
     readCount |-> 0, exhausted |-> FALSE]

\* What is written to disk for it.
Stored(d, k) == IF k = "resident" THEN Empty ELSE d

\* One file is stored, or none.
Init ==
    /\ traffic \in Traffics
    /\ \/ page = [c \in {} |-> None] /\ contents = {} /\ blob = [c \in {} |-> NoFile]
       \/ \E c \in {1}, n \in Name, d \in Data, f \in FlagChoices, k \in Kinds :
            /\ page = [p \in {c} |-> NewRow(n, d, f, k, c)]
            /\ contents = {c}
            /\ blob = [b \in {c} |-> Stored(d, k)]
    /\ pc = [r \in Req |-> "idle"] /\ op = [r \in Req |-> "none"]
    /\ pid = [r \in Req |-> None] /\ row = [r \in Req |-> None]
    /\ old = [r \in Req |-> None] /\ ticket = [r \in Req |-> 0]
    /\ todo = [r \in Req |-> {}]

-----------------------------------------------------------------------------
(* Helpers *)

NextContent == Cardinality(Minted) + 1

Goto(r, l) == pc' = [pc EXCEPT ![r] = l] /\ UNCHANGED traffic
Receive(r, h) == pc[r] = "idle" /\ h \in Handlers /\ op' = [op EXCEPT ![r] = h]
Lookup(n) == {p \in Pages : page[p].name = n}

Cap(f) ==
    CASE f.deleteOnRead /\ f.maxReads = NoMax -> 1
      [] f.deleteOnRead /\ f.maxReads # NoMax ->
             IF f.maxReads > 1 THEN 1 ELSE f.maxReads
      [] OTHER -> f.maxReads

\* f without, and f with, an entry.
Without(f, S) == [x \in DOMAIN f \ S |-> f[x]]
With(f, x, v) == [y \in DOMAIN f \cup {x} |-> IF y = x THEN v ELSE f[y]]

\* DELETE FROM blackbook_contents: ON DELETE CASCADE takes the page along.
DeleteContent(c) ==
    /\ contents' = contents \ {c}
    /\ page' = Without(page, {p \in Pages : page[p].content = c})

\* remove_file, best effort.
Unlink(c) == [b \in Minted |-> IF b = c THEN NoFile ELSE blob[b]]

\* The transaction that writes d under a new content c and binds the page p to
\* it with the fields g, if p is still there; the content o is deleted.  The
\* blob, under a name no one else knows, is written just before.
Rebind(p, c, d, o, g) ==
    /\ blob' = With(blob, c, d)
    /\ contents' = (contents \cup {c}) \ {o}
    /\ page' = Without([q \in Pages |-> IF q = p THEN g ELSE page[q]],
                       {q \in Pages : q # p /\ page[q].content = o})

-----------------------------------------------------------------------------
(* upload_file *)

UploadSelectNew(r) ==
    /\ Receive(r, "upload")
    /\ \E n \in Name, d \in Data, f \in FlagChoices, k \in Kinds :
         /\ Lookup(n) = {}
         /\ row' = [row EXCEPT ![r] = NewRow(n, d, f, k, None)]
    /\ Goto(r, "gate")
    /\ UNCHANGED <<page, contents, blob, pid, old, ticket, todo>>

\* Faulty variant: the immutable test is missing.
UploadSelectExistingNoCheck(r) ==
    /\ Receive(r, "upload")
    /\ \E n \in Name, d \in Data, k \in Kinds : \E p \in Lookup(n) :
         /\ row' = [row EXCEPT ![r] = NewRow(n, d, page[p].flags, k, None)]
         /\ pid' = [pid EXCEPT ![r] = p]
         /\ old' = [old EXCEPT ![r] = page[p].content]
    /\ Goto(r, "gate")
    /\ UNCHANGED <<page, contents, blob, ticket, todo>>

\* An overwrite is accepted when the page found is not immutable; the flags of
\* the request are ignored.
UploadSelectExisting(r) ==
    /\ Receive(r, "upload")
    /\ \E n \in Name, d \in Data, k \in Kinds : \E p \in Lookup(n) :
         /\ ~page[p].flags.noOverwrite
         /\ row' = [row EXCEPT ![r] = NewRow(n, d, page[p].flags, k, None)]
         /\ pid' = [pid EXCEPT ![r] = p]
         /\ old' = [old EXCEPT ![r] = page[p].content]
    /\ Goto(r, "gate")
    /\ UNCHANGED <<page, contents, blob, ticket, todo>>

\* 409, or a request that does not validate (400).
UploadConflict(r) ==
    /\ Receive(r, "upload")
    /\ Goto(r, "refused")
    /\ UNCHANGED <<page, contents, blob, pid, row, old, ticket, todo>>

\* Faulty variant: the new wrapped_dek is not written.
UploadReplaceKeepsDek(r) ==
    LET p == pid[r]
        w == row[r] IN
    /\ pc[r] = "commit" /\ op[r] = "upload" /\ p # None
    /\ \E c \in {NextContent} \cap Content :
         LET n == NewRow(w.name, w.hash, w.flags, w.kind, c) IN
         Rebind(p, c, Stored(w.hash, w.kind), old[r],
                [n EXCEPT !.readCount = page[p].readCount, !.dek = page[p].dek,
                          !.exhausted = page[p].exhausted])
    /\ Goto(r, "unlink")
    /\ UNCHANGED locals

\* An overwrite keeps the flags, read_count and exhausted_at of the page; when
\* the page has gone the UPDATE touches nothing and the answer is still 201.
UploadReplace(r) ==
    LET p == pid[r]
        w == row[r] IN
    /\ pc[r] = "commit" /\ op[r] = "upload" /\ p # None
    /\ \E c \in {NextContent} \cap Content :
         LET n == NewRow(w.name, w.hash, w.flags, w.kind, c) IN
         Rebind(p, c, Stored(w.hash, w.kind), old[r],
                [n EXCEPT !.readCount = page[p].readCount,
                          !.exhausted = page[p].exhausted])
    /\ Goto(r, "unlink")
    /\ UNCHANGED locals

\* The loser of two creates of one name is refused by UNIQUE, its blob stays.
UploadInsert(r) ==
    LET w == row[r] IN
    /\ pc[r] = "commit" /\ op[r] = "upload" /\ pid[r] = None
    /\ \E c \in {NextContent} \cap Content :
         /\ blob' = With(blob, c, Stored(w.hash, w.kind))
         /\ IF Lookup(w.name) = {}
            THEN /\ contents' = contents \cup {c}
                 /\ page' = With(page, c, NewRow(w.name, w.hash, w.flags, w.kind, c))
                 /\ Goto(r, "ok")
            ELSE Goto(r, "failed") /\ UNCHANGED <<page, contents>>
    /\ UNCHANGED locals

-----------------------------------------------------------------------------
(* download_file *)

DownloadSelect(r) ==
    /\ Receive(r, "download")
    /\ \E p \in Pages : /\ pid' = [pid EXCEPT ![r] = p]
                        /\ row' = [row EXCEPT ![r] = page[p]]
                        /\ old' = [old EXCEPT ![r] = page[p].content]
    /\ Goto(r, "gate")
    /\ UNCHANGED <<page, contents, blob, ticket, todo>>

\* Faulty variant: the claim relies on the earlier soft test.
ClaimableNoCount(p, cap) == p \in Pages /\ ~page[p].exhausted

Claimable(p, cap) ==
    p \in Pages /\ ~page[p].exhausted /\ page[p].readCount < cap

DownloadClaim(r) ==
    LET p == pid[r]
        cap == Cap(row[r].flags) IN
    /\ pc[r] = "claim" /\ cap # NoMax
    /\ IF Claimable(p, cap)
       THEN /\ page' = [page EXCEPT ![p].readCount = @ + 1]
            /\ ticket' = [ticket EXCEPT ![r] = page[p].readCount + 1]
            /\ Goto(r, "fetch")
       ELSE Goto(r, "refused") /\ UNCHANGED <<page, ticket>>
    /\ UNCHANGED <<contents, blob, op, pid, row, old, todo>>

\* The counter of an uncapped file is only kept best effort.
DownloadCount(r) ==
    /\ pc[r] = "claim" /\ Cap(row[r].flags) = NoMax
    /\ \/ /\ pid[r] \in Pages
          /\ page' = [page EXCEPT ![pid[r]].readCount = @ + 1]
       \/ (pid[r] \notin Pages \/ Faults) /\ UNCHANGED page
    /\ Goto(r, "fetch")
    /\ UNCHANGED <<contents, blob, locals>>

\* A resident file yields its key component; any other its blob, found through
\* the content row, opened with the DEK of the row read and checked against its
\* hash.  Whatever is missing or does not match is a 500.
Fetched(w) ==
    IF w.kind \in Resident THEN w.part
    ELSE /\ w.content \in contents
         /\ blob[w.content] = w.hash
         /\ w.kind = "external" \/ w.dek = w.content

DownloadFetch(r) ==
    /\ pc[r] = "fetch"
    /\ Goto(r, IF Fetched(row[r]) THEN "post" ELSE "failed")
    /\ UNCHANGED <<page, contents, blob, locals>>

\* Faulty variant: off by one.
ReachedMaxLate(r) ==
    row[r].flags.maxReads # NoMax /\ ticket[r] > row[r].flags.maxReads

ReachedMax(r) ==
    row[r].flags.maxReads # NoMax /\ ticket[r] >= row[r].flags.maxReads

\* delete_on_read, resident with a backup: first the backup blob, if its
\* content row is still there.
PostBackup(r) ==
    /\ pc[r] = "post" /\ op[r] = "download"
    /\ row[r].flags.deleteOnRead /\ row[r].kind = "backed"
    /\ blob' = IF old[r] \in contents THEN Unlink(old[r]) ELSE blob
    /\ Goto(r, "drop")
    /\ UNCHANGED <<page, contents, locals>>

\* delete_on_read goes by the content id read at the start.
PostDelete(r) ==
    /\ pc[r] = IF row[r] # None /\ row[r].kind = "backed" THEN "drop" ELSE "post"
    /\ op[r] = "download" /\ row[r].flags.deleteOnRead
    /\ DeleteContent(old[r]) \/ (Faults /\ UNCHANGED <<page, contents>>)
    /\ Goto(r, IF row[r].kind \in Resident THEN "served" ELSE "unlink")
    /\ UNCHANGED <<blob, locals>>

\* The final read of a max_reads file: scrub the DEK or the key component.
PostTombstone(r) ==
    LET res == row[r].kind \in Resident IN
    /\ pc[r] = "post" /\ op[r] = "download"
    /\ ~row[r].flags.deleteOnRead /\ ReachedMax(r)
    /\ \/ /\ pid[r] \in Pages
          /\ page' = [page EXCEPT ![pid[r]] =
                IF res THEN [@ EXCEPT !.part = FALSE, !.exhausted = TRUE]
                       ELSE [@ EXCEPT !.dek = None, !.exhausted = TRUE]]
       \/ (pid[r] \notin Pages \/ Faults) /\ UNCHANGED page
    /\ Goto(r, IF res THEN "served" ELSE "unlink")
    /\ UNCHANGED <<contents, blob, locals>>

Rotates(r) ==
    /\ row[r].flags.rotateOnRead /\ row[r].kind = "normal"
    /\ ~row[r].flags.deleteOnRead /\ ~ReachedMax(r)

\* rekey_file_dek: the plaintext just served is stored under a new DEK.
PostRotate(r) ==
    LET p == pid[r] IN
    /\ pc[r] = "post" /\ op[r] = "download" /\ Rotates(r)
    /\ \E c \in {NextContent} \cap Content :
         Rebind(p, c, row[r].hash, old[r],
                [page[p] EXCEPT !.content = c, !.dek = c])
    /\ Goto(r, "unlink")
    /\ UNCHANGED locals

\* No post-read effect, or re-keying failed and was logged.
PostNone(r) ==
    /\ pc[r] = "post" /\ op[r] = "download"
    /\ ~row[r].flags.deleteOnRead /\ ~ReachedMax(r) /\ (Rotates(r) => Faults)
    /\ Goto(r, "served")
    /\ UNCHANGED <<page, contents, blob, locals>>

-----------------------------------------------------------------------------
(* delete_file: the page goes, its content row stays *)

DeleteSelect(r) ==
    /\ Receive(r, "delete")
    /\ \E p \in Pages : /\ pid' = [pid EXCEPT ![r] = p]
                        /\ old' = [old EXCEPT ![r] = page[p].content]
    /\ Goto(r, "gate")
    /\ UNCHANGED <<page, contents, blob, row, ticket, todo>>

DeletePage(r) ==
    /\ pc[r] = "delete"
    /\ page' = Without(page, {pid[r]})
    /\ Goto(r, "unlink")
    /\ UNCHANGED <<contents, blob, locals>>

-----------------------------------------------------------------------------
(* rotate_file *)

RotateSelect(r) ==
    /\ Receive(r, "rotate")
    /\ \E p \in Pages : /\ pid' = [pid EXCEPT ![r] = p]
                        /\ row' = [row EXCEPT ![r] = page[p]]
                        /\ old' = [old EXCEPT ![r] = page[p].content]
    /\ Goto(r, "gate")
    /\ UNCHANGED <<page, contents, blob, ticket, todo>>

\* The blob must open under the DEK read and match the hash read.
RotateRead(r) ==
    LET w == row[r] IN
    /\ pc[r] = "read"
    /\ Goto(r, IF w.dek = w.content /\ blob[w.content] = w.hash
               THEN "commit" ELSE "failed")
    /\ UNCHANGED <<page, contents, blob, locals>>

\* The new blob is written; then, in one transaction: bind the page to the
\* plaintext read before, delete the content the page has by now.  When the page
\* has gone the transaction fails and the new blob stays.  (Its SELECT of the
\* content id takes no lock: a commit between it and the UPDATE would leave a
\* content without a page behind, which nothing looks at.)
RotateCommit(r) ==
    LET p == pid[r] IN
    /\ pc[r] = "commit" /\ op[r] = "rotate"
    /\ \E c \in {NextContent} \cap Content :
         IF p \in Pages
         THEN /\ Rebind(p, c, row[r].hash, page[p].content,
                        [page[p] EXCEPT !.content = c, !.dek = c])
              /\ Goto(r, "unlink")
         ELSE /\ blob' = With(blob, c, row[r].hash)
              /\ Goto(r, "failed")
              /\ UNCHANGED <<page, contents>>
    /\ UNCHANGED locals

-----------------------------------------------------------------------------
(* cleanup_secrets, the file half *)

CleanupSelect(r) ==
    /\ Receive(r, "cleanup")
    /\ todo' = [todo EXCEPT ![r] =
           {page[p].content : p \in {q \in Pages :
                 page[q].exhausted /\ ~page[q].flags.preserve}}]
    /\ Goto(r, "sweep")
    /\ UNCHANGED <<page, contents, blob, pid, row, old, ticket>>

\* By content id: the row, with the page it takes along, and the blob (one step:
\* a download still under way finds the blob or not as if it came before or
\* after both).
CleanupDelete(r) ==
    /\ pc[r] = "sweep"
    /\ \E c \in todo[r] :
         /\ todo' = [todo EXCEPT ![r] = @ \ {c}]
         /\ DeleteContent(c) \/ (Faults /\ UNCHANGED <<page, contents>>)
         /\ blob' = Unlink(c)
    /\ UNCHANGED <<pc, op, pid, row, old, ticket, traffic>>

CleanupDone(r) ==
    /\ pc[r] = "sweep" /\ todo[r] = {}
    /\ Goto(r, "ok")
    /\ UNCHANGED <<page, contents, blob, locals>>

-----------------------------------------------------------------------------
(* Shared by the handlers *)

\* The tombstone and soft max_reads tests of a download, on the row read.
SoftRefused(r) ==
    /\ op[r] = "download"
    /\ \/ row[r].exhausted
       \/ row[r].flags.maxReads # NoMax /\ row[r].readCount >= row[r].flags.maxReads

\* ACL, approvals and MFA have let the request pass.
GatePass(r) ==
    /\ pc[r] = "gate" /\ ~SoftRefused(r)
    /\ Goto(r, CASE op[r] = "upload" -> "commit"
                 [] op[r] = "download" -> "claim"
                 [] op[r] = "delete" -> "delete"
                 [] op[r] = "rotate" -> "read")
    /\ UNCHANGED <<page, contents, blob, locals>>

GateRefuse(r) ==
    /\ pc[r] = "gate"
    /\ Goto(r, "refused")
    /\ UNCHANGED <<page, contents, blob, locals>>

\* remove_file of the blob that was replaced, consumed or deleted.
UnlinkOld(r) ==
    /\ pc[r] = "unlink"
    /\ blob' = Unlink(old[r])
    /\ Goto(r, IF op[r] = "download" THEN "served" ELSE "ok")
    /\ UNCHANGED <<page, contents, locals>>

\* A lookup that finds nothing (404).
NotFound(r) ==
    /\ \E h \in {"download", "delete", "rotate"} : Receive(r, h)
    /\ Goto(r, "refused")
    /\ UNCHANGED <<page, contents, blob, pid, row, old, ticket, todo>>

\* The handler ends at an await: client gone, statement failed, server stopped.
Abort(r) ==
    /\ Faults
    /\ pc[r] \notin Finished \cup {"idle"}
    /\ Goto(r, "aborted")
    /\ UNCHANGED <<page, contents, blob, locals>>

Upload(r) == UploadSelectNew(r) \/ UploadSelectExisting(r) \/ UploadConflict(r)
             \/ UploadReplace(r) \/ UploadInsert(r)
Download(r) == DownloadSelect(r) \/ DownloadClaim(r) \/ DownloadCount(r)
               \/ DownloadFetch(r) \/ PostBackup(r) \/ PostDelete(r)
               \/ PostTombstone(r) \/ PostRotate(r) \/ PostNone(r)
Delete(r) == DeleteSelect(r) \/ DeletePage(r)
Rotate(r) == RotateSelect(r) \/ RotateRead(r) \/ RotateCommit(r)
Cleanup(r) == CleanupSelect(r) \/ CleanupDelete(r) \/ CleanupDone(r)
Shared(r) == GatePass(r) \/ GateRefuse(r) \/ UnlinkOld(r) \/ NotFound(r)

Step(r) == Upload(r) \/ Download(r) \/ Delete(r) \/ Rotate(r) \/ Cleanup(r) \/ Shared(r)

Terminated == (\A r \in Req : pc[r] \in Finished) /\ UNCHANGED vars

Next == (\E r \in Req : Step(r) \/ Abort(r)) \/ Terminated

Spec == Init /\ [][Next]_vars

-----------------------------------------------------------------------------
(* Properties *)

\* However downloads of a file interleave with overwrites, rotations, deletes
\* and faults, no more of them get past the claim than its cap allows.
CappedDownloads ==
    \A r \in Req : op[r] = "download" /\ ticket[r] # 0 =>
        LET cap == Cap(row[r].flags) IN
        Cardinality({q \in Req : op[q] = "download" /\ ticket[q] # 0
                                 /\ pid[q] = pid[r]}) <= cap

\* Nothing stores a plaintext that it read earlier.
NoRekeying == "rotate" \notin Handlers /\ \A f \in FlagChoices : ~f.rotateOnRead

\* A page that may still be read can be read: its content row, its blob, its
\* DEK and its hash belong together, whatever rotations, deletes, cleanups,
\* final reads and faults went on around it, and whatever overwrites as long
\* as nothing is re-keyed (rotate_file writes back what it read before the
\* transaction, over an upload that came in between).
ReadableIntact ==
    /\ TypeOK
    /\ NoRekeying \/ "upload" \notin Handlers => \A p \in Pages :
          LET w == page[p] IN
          /\ ~w.exhausted
          /\ Cap(w.flags) # NoMax => w.readCount < Cap(w.flags)
          => Fetched(w)

KeepsImmutable ==
    \A p \in Pages \cap DOMAIN page' :
        page[p].flags.noOverwrite => page'[p].hash = page[p].hash
CleanupSparesLive ==
    \A r \in Req : pc[r] = "sweep" /\ todo'[r] # todo[r] =>
        \A p \in Pages \ DOMAIN page' : page[p].exhausted /\ ~page[p].flags.preserve

\* What no step may do to a live file: an immutable one keeps its bytes for as
\* long as its page exists, whatever uploads were under way; and cleanup, which
\* goes by content ids selected earlier, takes along only the pages of
\* tombstones that are not preserved.
LiveFilesKept == [][KeepsImmutable /\ CleanupSparesLive]_vars

\* What the server has of a file without a backup is gone: the key component of
\* a resident file, the bytes of any other.
Erased(w) == IF w.kind = "resident" THEN ~w.part ELSE blob[w.content] = NoFile

\* No fault, overwrite or rotation.
Undisturbed == NoRekeying /\ ~Faults /\ "upload" \notin Handlers

\* With no fault, overwrite or rotation, a file whose last read was claimed is
\* erased when every request has ended, its bytes from the disk or, if it is a
\* resident file, the server's key component: the request that got the last
\* read does it, whatever the others do meanwhile.  This does not hold of a
\* resident file with a backup, and is not claimed of it: the tombstone that
\* max_reads leaves (PostTombstone) keeps the backup blob, and its DEK, although
\* the comment in download_file says that it drops any backup blob.
SpentErased ==
    Undisturbed /\ (\A r \in Req : pc[r] \in Finished \cup {"idle"}) =>
        \A p \in Pages :
          /\ page[p].kind # "backed" /\ Cap(page[p].flags) # NoMax
          /\ page[p].readCount > 0 /\ page[p].readCount = Cap(page[p].flags)
          => Erased(page[p])
=============================================================================
