--------------------------- MODULE DurabilityProofs ---------------------------
(***************************************************************************)
(* What may not get lost when processes are killed, calls cut off and      *)
(* tasks end in any order: proofs about MasterKey, the key files on the    *)
(* data volume, about AuditChain, the audit log, and about TunnelStreams,  *)
(* the bytes on their way through a tunnel.                                *)
(*                                                                         *)
(* The invariants of MasterKey are proved for every set of providers,      *)
(* every kind of volume, kills anywhere and any number of starts, of a     *)
(* volume that is operated as the run assumes: at most one rekey-dek at a  *)
(* time (two of them share one temporary file) and no process started      *)
(* while a migration is under way.                                         *)
(*                                                                         *)
(* Those of AuditChain are proved for any number of calls and any log to   *)
(* start with.  The chain, the kept head and the archives of OneChain and  *)
(* PruneKeeps and the verification of VerifiesHonest all rest on one       *)
(* inductive invariant, AuditIInv: what a call may rely on between two of  *)
(* its statements while others append and prune.                           *)
(*                                                                         *)
(* Those of TunnelStreams are proved for any number of streams and chunks. *)
(* The frames of a stream in one direction are numbered as they are sent,  *)
(* and StreamsIInv says which numbers each of the queues on their way      *)
(* carries.                                                                *)
(***************************************************************************)
EXTENDS MasterKey, AuditChain, TunnelStreams, FiniteSetTheorems, TLAPS

\* How the volume is operated.
Operated == MigrateAlone /\ \A p, q \in Rekeyers : p = q

-----------------------------------------------------------------------------
(* The inductive invariant *)

Whole == master \notin {NoFile, Torn}
Active(p) == pc[p] \notin {"off", "failed", "serving"}

\* dek.meta recovers d for a provider.
Recovers(d) == Accepts(meta, d.prov) /\ Reconstruct(meta, d.prov) = d

\* A volume without dek.meta is of the old layout or empty, and one process
\* works on it; one with the raw DEK has a master key.
Layout ==
    /\ raw # NoFile => Whole
    /\ meta = NoFile => \/ raw # NoFile
                        \/ raw = NoFile /\ ~mode /\ master = NoFile
    /\ meta = NoFile => \A p, q \in Proc : Active(p) /\ Active(q) => p = q

\* The keys that servers have run with.
Kept == \A k \in served : Whole /\ master.key = k

\* What is on disk opens the master key, but for a process between its rename
\* and the end of its write of dek.meta.
Opens ==
    Whole /\ ~halfway =>
        \/ Recovers(master.dek)
        \/ meta = NoFile /\ raw = master.dek
        \/ \E p \in Proc : pc[p] \in {"meta", "metaEnd"}

\* Booting and migrating up to the master key.
Resolving(p) ==
    /\ pc[p] \in {"freshMeta", "load", "initMaster"} => p = Server
    /\ pc[p] \in {"resolve", "eraseRaw", "eraseMode"} /\ p # Server => master # NoFile
    /\ pc[p] = "rekeyRead" => p # Server
    /\ pc[p] \in {"load", "rekeyRead", "eraseRaw", "eraseMode"} => meta # NoFile
    /\ pc[p] = "freshMeta" => /\ meta = Torn /\ master = NoFile
                              /\ \A q \in Proc : q # p => ~Active(q)
    /\ pc[p] \in {"migrate", "migMaster"} =>
          job[p] = "migrating" /\ meta = NoFile /\ raw # NoFile
    /\ pc[p] = "load" /\ master = NoFile => Recovers(dek[p])
    /\ pc[p] = "initMaster" => master = Torn /\ Recovers(dek[p])

\* Replacing the DEK: the key is the one on disk, and nobody else is at it.
Replacing(p) ==
    /\ pc[p] \in {"tmp", "tmpEnd", "rename", "meta", "metaEnd"} =>
          /\ Whole /\ job[p] \in {"migrating", "rekey"}
          /\ job[p] = "rekey" => p # Server /\ meta # NoFile
    /\ pc[p] \in {"tmp", "tmpEnd", "rename", "meta"} /\ job[p] = "migrating" => meta = NoFile
    /\ pc[p] \in {"tmp", "tmpEnd", "rename"} => plain[p] = master.key
    /\ pc[p] = "rename" => tmp[job[p]] = [dek |-> Minted(p), key |-> plain[p]]
    /\ pc[p] \in {"meta", "metaEnd"} => master.dek = Minted(p)
    /\ pc[p] = "metaEnd" => meta = Torn
    /\ pc[p] = "metaEnd" /\ job[p] = "migrating" =>
          \A q \in Proc : q # p => ~Active(q) \/ pc[q] = "resolve"

Processes == \A p \in Proc : Resolving(p) /\ Replacing(p)

\* The inductive invariant.
IInv == Operated /\ TypeOK /\ Layout /\ Kept /\ Opens /\ Processes

-----------------------------------------------------------------------------
(* Frames *)

FileTypes ==
    /\ meta \in Dek \cup {NoFile, Torn}
    /\ master \in Sealed \cup {NoFile, Torn}
    /\ tmp \in [{"migrating", "rekey"} -> Sealed \cup {NoFile, Torn}]
    /\ raw \in Dek \cup {NoFile}
    /\ mode \in BOOLEAN
    /\ nextDek \in Nat /\ nextKey \in Nat /\ starts \in 0..MaxStarts
    /\ served \subseteq Nat /\ halfway \in BOOLEAN

LocalTypes ==
    /\ pc \in [Proc -> Pcs]
    /\ prov \in [Proc -> Provider]
    /\ job \in [Proc -> Jobs]
    /\ dek \in [Proc -> Dek] /\ new \in [Proc -> Nat] /\ plain \in [Proc -> Nat]

\* Only p moves.
Others(p) ==
    \A q \in Proc : q # p =>
        /\ pc'[q] = pc[q] /\ prov'[q] = prov[q] /\ job'[q] = job[q]
        /\ dek'[q] = dek[q] /\ new'[q] = new[q] /\ plain'[q] = plain[q]

\* The type invariant, split into the files and the local variables.
LEMMA Types == TypeOK <=> FileTypes /\ LocalTypes
  BY DEF TypeOK, FileTypes, LocalTypes

\* The same for the next state.
LEMMA TypesNext == TypeOK' <=> FileTypes' /\ LocalTypes'
  BY DEF TypeOK, FileTypes, LocalTypes

\* When one process moves, types are kept and the others stay as they are.
LEMMA OneProcess ==
    ASSUME IInv, NEW p \in Proc,
           pc' = [pc EXCEPT ![p] = pc'[p]], prov' = [prov EXCEPT ![p] = prov'[p]],
           job' = [job EXCEPT ![p] = job'[p]], dek' = [dek EXCEPT ![p] = dek'[p]],
           new' = [new EXCEPT ![p] = new'[p]], plain' = [plain EXCEPT ![p] = plain'[p]],
           pc'[p] \in Pcs, prov'[p] \in Provider, job'[p] \in Jobs, dek'[p] \in Dek,
           new'[p] \in Nat, plain'[p] \in Nat
    PROVE  LocalTypes' /\ Others(p)
  <1>1. LocalTypes
    BY Types DEF IInv
  <1>2. LocalTypes'
    BY <1>1 DEF LocalTypes
  <1>3. Others(p)
    BY <1>1 DEF LocalTypes, Others
  <1> QED
    BY <1>2, <1>3

\* A process goes on with the locals it has.
LEMMA GotoFacts ==
    ASSUME IInv, NEW p \in Proc, NEW l \in Pcs, Goto(p, l), UNCHANGED locals
    PROVE  /\ LocalTypes' /\ Others(p) /\ pc'[p] = l /\ prov'[p] = prov[p] /\ job'[p] = job[p]
           /\ dek'[p] = dek[p] /\ new'[p] = new[p] /\ plain'[p] = plain[p]
           /\ Minted(p)' = Minted(p)
  <1>1. LocalTypes
    BY Types DEF IInv
  <1>2. /\ pc' = [pc EXCEPT ![p] = l] /\ prov' = prov /\ job' = job /\ dek' = dek /\ new' = new
        /\ plain' = plain
    BY DEF Goto, locals
  <1>3. LocalTypes' /\ pc'[p] = l
    BY <1>1, <1>2 DEF LocalTypes
  <1>4. Others(p)
    BY <1>1, <1>2 DEF Others, LocalTypes
  <1> QED
    BY <1>2, <1>3, <1>4 DEF Minted

\* What is known of a process.
LEMMA ProcFacts ==
    ASSUME IInv, NEW p \in Proc
    PROVE  /\ Resolving(p) /\ Replacing(p) /\ FileTypes /\ LocalTypes
           /\ pc[p] \in Pcs /\ prov[p] \in Provider /\ job[p] \in Jobs /\ dek[p] \in Dek
           /\ new[p] \in Nat /\ plain[p] \in Nat
           /\ Minted(p) \in Dek /\ Minted(p).prov = prov[p]
           /\ Whole => master \in Sealed /\ master.dek \in Dek /\ master.key \in Nat
  <1>1. FileTypes /\ LocalTypes /\ Resolving(p) /\ Replacing(p)
    BY Types DEF IInv, Processes
  <1>2. Minted(p) \in Dek /\ Minted(p).prov = prov[p]
    BY <1>1 DEF Minted, Dek, LocalTypes
  <1>3. Whole => master \in Sealed
    BY <1>1 DEF Whole, FileTypes
  <1>4. master \in Sealed => master.dek \in Dek /\ master.key \in Nat
    BY DEF Sealed
  <1> QED
    BY <1>1, <1>2, <1>3, <1>4 DEF LocalTypes

Replaces == {"tmp", "tmpEnd", "rename", "meta", "metaEnd"}

\* Two processes never replace the DEK at the same time.
LEMMA Exclusive ==
    ASSUME IInv, NEW p \in Proc, NEW q \in Proc, p # q, pc[p] \in Replaces
    PROVE  pc[q] \notin Replaces
  <1> SUFFICES ASSUME pc[q] \in Replaces PROVE FALSE
    OBVIOUS
  <1>1. Replacing(p) /\ Replacing(q)
    BY ProcFacts
  <1>2. Active(p) /\ Active(q)
    BY DEF Active, Replaces
  <1>3. meta # NoFile
    BY <1>2 DEF IInv, Layout
  <1>4. job[p] \in {"migrating", "rekey"} /\ job[q] \in {"migrating", "rekey"}
    BY <1>1 DEF Replacing, Replaces
  <1>5. CASE job[p] = "rekey" /\ job[q] = "rekey"
    <2>1. p \in Rekeyers /\ q \in Rekeyers
      BY <1>1, <1>5 DEF Replacing, Replaces, Proc
    <2> QED
      BY <2>1 DEF IInv, Operated
  <1>6. CASE job[p] = "migrating"
    <2>1. pc[p] = "metaEnd"
      BY <1>1, <1>3, <1>6 DEF Replacing, Replaces
    <2> QED
      BY <1>1, <1>2, <1>6, <2>1 DEF Replacing, Replaces
  <1>7. CASE job[q] = "migrating"
    <2>1. pc[q] = "metaEnd"
      BY <1>1, <1>3, <1>7 DEF Replacing, Replaces
    <2> QED
      BY <1>1, <1>2, <1>7, <2>1 DEF Replacing, Replaces
  <1> QED
    BY <1>4, <1>5, <1>6, <1>7

\* The files but the temporary ones stay what they are: so does what the
\* other processes rely on.
LEMMA OthersKept ==
    ASSUME IInv, NEW p \in Proc, Others(p), UNCHANGED <<meta, master>>,
           raw' = raw \/ meta # NoFile,
           tmp' = tmp \/ (pc[p] \in Replaces /\ Replacing(p)),
           Active(p)' => \/ pc'[p] = "resolve" /\ (p = Server \/ master # NoFile)
                         \/ Active(p) /\ (pc[p] = "resolve" => meta # Torn),
           NEW q \in Proc, q # p
    PROVE  Resolving(q)' /\ Replacing(q)'
  <1>1. Resolving(q) /\ Replacing(q)
    BY ProcFacts
  <1>2. /\ pc'[q] = pc[q] /\ prov'[q] = prov[q] /\ job'[q] = job[q]
        /\ dek'[q] = dek[q] /\ new'[q] = new[q] /\ plain'[q] = plain[q]
        /\ meta' = meta /\ master' = master
    BY DEF Others
  <1>3. (Whole' <=> Whole) /\ Minted(q)' = Minted(q) /\ (Recovers(dek[q])' <=> Recovers(dek[q]))
    BY <1>2 DEF Whole, Minted, Recovers, Accepts, Reconstruct
  <1>4. \A r \in Proc : r # p => (Active(r)' <=> Active(r)) /\ pc'[r] = pc[r]
    BY DEF Others, Active
  <1>5. Resolving(q)'
    <2>1. pc[q] = "freshMeta" => \A r \in Proc : r # q => ~Active(r)'
      <3> SUFFICES ASSUME pc[q] = "freshMeta" PROVE ~Active(p)'
        BY <1>1, <1>4 DEF Resolving
      <3>1. q = Server /\ master = NoFile /\ ~Active(p)
        BY <1>1 DEF Resolving
      <3> QED
        BY <3>1
    <2> QED
      BY <1>1, <1>2, <1>3, <2>1 DEF Resolving
  <1>6. Replacing(q)'
    <2>1. pc[q] = "rename" => tmp' = tmp
      BY Exclusive DEF Replaces
    <2>2. pc[q] = "metaEnd" /\ job[q] = "migrating" =>
             \A r \in Proc : r # q => ~Active(r)' \/ pc'[r] = "resolve"
      <3> SUFFICES ASSUME pc[q] = "metaEnd", job[q] = "migrating"
                   PROVE  ~Active(p)' \/ pc'[p] = "resolve"
        BY <1>1, <1>4 DEF Replacing
      <3>1. meta = Torn /\ (~Active(p) \/ pc[p] = "resolve")
        BY <1>1 DEF Replacing
      <3> QED
        BY <3>1
    <2> QED
      BY <1>1, <1>2, <1>3, <2>1, <2>2 DEF Replacing
  <1> QED
    BY <1>5, <1>6

\* A process moves on, or starts, or is killed, and leaves the files alone.
LEMMA QuietInv ==
    ASSUME IInv, NEW p \in Proc, Others(p), LocalTypes', FileTypes',
           UNCHANGED <<meta, master, raw, mode>>,
           tmp' = tmp \/ (pc[p] \in Replaces /\ Replacing(p)),
           Kept', halfway => halfway',
           Active(p)' => \/ pc'[p] = "resolve" /\ (p = Server \/ master # NoFile)
                         \/ Active(p) /\ (pc[p] = "resolve" => meta # Torn),
           meta = NoFile /\ Active(p)' => Active(p) \/ \A q \in Proc : q # p => ~Active(q),
           pc[p] \in {"meta", "metaEnd"} => halfway',
           Resolving(p)', Replacing(p)'
    PROVE  IInv'
  <1>1. TypeOK'
    BY TypesNext
  <1>2. Processes'
    BY OthersKept DEF Processes
  <1>3. \A r \in Proc : r # p => (Active(r)' <=> Active(r)) /\ pc'[r] = pc[r]
    BY DEF Others, Active
  <1>4. Layout'
    <2>1. meta' = NoFile => \A q, r \in Proc : Active(q)' /\ Active(r)' => q = r
      BY <1>3 DEF IInv, Layout
    <2> QED
      BY <2>1 DEF IInv, Layout, Whole
  <1>5. Opens'
    <2>1. Recovers(master.dek)' <=> Recovers(master.dek)
      BY DEF Recovers, Accepts, Reconstruct
    <2> QED
      BY <1>3, <2>1 DEF IInv, Opens, Whole
  <1>6. Operated'
    BY DEF IInv, Operated
  <1> QED
    BY <1>1, <1>2, <1>4, <1>5, <1>6 DEF IInv

-----------------------------------------------------------------------------
(* Steps that leave the files alone *)

\* The files, and what servers have run with, stay what they are.
LEMMA SameFiles ==
    ASSUME IInv, UNCHANGED <<files, served>>, nextDek' \in Nat, nextKey' \in Nat,
           starts' \in 0..MaxStarts, halfway' \in BOOLEAN
    PROVE  FileTypes' /\ Kept' /\ UNCHANGED <<meta, master, raw, mode>> /\ tmp' = tmp
  <1>1. FileTypes
    BY Types DEF IInv
  <1>2. UNCHANGED <<meta, master, raw, mode>> /\ tmp' = tmp
    BY DEF files
  <1>3. FileTypes'
    BY <1>1, <1>2 DEF FileTypes
  <1>4. Kept'
    BY <1>2 DEF IInv, Kept, Whole
  <1> QED
    BY <1>2, <1>3, <1>4

\* A process ends, having changed nothing.
LEMMA EndInv ==
    ASSUME IInv, NEW p \in Proc, NEW l \in {"off", "failed"}, Goto(p, l), UNCHANGED locals,
           UNCHANGED <<files, fresh, starts, served>>, halfway' \in BOOLEAN, halfway => halfway',
           pc[p] \in {"meta", "metaEnd"} => halfway'
    PROVE  IInv'
  <1>1. l \in Pcs /\ FileTypes
    BY Types DEF Pcs, IInv
  <1>2. LocalTypes' /\ Others(p) /\ pc'[p] = l
    BY <1>1, GotoFacts
  <1>3. FileTypes' /\ Kept' /\ UNCHANGED <<meta, master, raw, mode>> /\ tmp' = tmp
    BY <1>1, SameFiles DEF fresh, FileTypes
  <1>4. ~Active(p)' /\ Resolving(p)' /\ Replacing(p)'
    BY <1>2 DEF Active, Resolving, Replacing
  <1> QED
    BY <1>2, <1>3, <1>4, QuietInv

\* Start keeps the invariant.
LEMMA StartInv == ASSUME IInv, NEW p \in Proc, Start(p) PROVE IInv'
  <1>1. /\ pc[p] \in {"off", "failed"} /\ starts < MaxStarts /\ starts' = starts + 1
        /\ UNCHANGED <<files, fresh, dek, new, plain, served, halfway>>
        /\ job' = [job EXCEPT ![p] = "none"]
        /\ pc' = [pc EXCEPT ![p] = IF p # Server /\ master = NoFile THEN "failed" ELSE "resolve"]
    BY DEF Start, Goto, At
  <1>2. PICK w \in Provider : prov' = [prov EXCEPT ![p] = w]
    BY DEF Start, Configure
  <1>3. meta = NoFile => \A q \in Proc : ~Active(q)
    BY DEF Start, Active, IInv, Operated
  <1>4. LocalTypes /\ FileTypes
    BY Types DEF IInv
  <1>5. /\ LocalTypes' /\ Others(p)
        /\ pc'[p] = IF p # Server /\ master = NoFile THEN "failed" ELSE "resolve"
    <2>1. /\ pc'[p] = (IF p # Server /\ master = NoFile THEN "failed" ELSE "resolve")
          /\ prov'[p] = w /\ job'[p] = "none" /\ dek' = dek /\ new' = new /\ plain' = plain
      BY <1>1, <1>2, <1>4 DEF LocalTypes
    <2>2. pc'[p] \in Pcs /\ job'[p] \in Jobs
      BY <2>1 DEF Pcs, Jobs
    <2>3. /\ dek' = [dek EXCEPT ![p] = dek'[p]] /\ new' = [new EXCEPT ![p] = new'[p]]
          /\ plain' = [plain EXCEPT ![p] = plain'[p]]
          /\ dek'[p] \in Dek /\ new'[p] \in Nat /\ plain'[p] \in Nat
      BY <1>4, <2>1 DEF LocalTypes
    <2> QED
      BY <1>1, <1>2, <2>1, <2>2, <2>3, OneProcess
  <1>6. FileTypes' /\ Kept' /\ UNCHANGED <<meta, master, raw, mode>> /\ tmp' = tmp
    <2>1. starts' \in 0..MaxStarts
      BY <1>1, <1>4, MasterKeyAssumption DEF FileTypes
    <2> QED
      BY <1>1, <1>4, <2>1, SameFiles DEF fresh, FileTypes
  <1>7. Resolving(p)' /\ Replacing(p)'
    BY <1>5, <1>6 DEF Resolving, Replacing
  <1>8. Active(p)' => pc'[p] = "resolve" /\ (p = Server \/ master # NoFile)
    BY <1>5 DEF Active
  <1>9. pc[p] \notin {"meta", "metaEnd"} /\ (halfway => halfway')
    BY <1>1
  <1>10. meta = NoFile /\ Active(p)' => Active(p) \/ \A q \in Proc : q # p => ~Active(q)
    BY <1>3
  <1> QED
    BY <1>5, <1>6, <1>7, <1>8, <1>9, <1>10, QuietInv

\* A process that is at work moves on, the files untouched.
LEMMA PassInv ==
    ASSUME IInv, NEW p \in Proc, Active(p), UNCHANGED <<files, starts, halfway>>,
           Others(p), LocalTypes', nextDek' \in Nat, nextKey' = nextKey, served' \subseteq Nat, Kept',
           pc[p] = "resolve" => meta # Torn, pc[p] \notin {"meta", "metaEnd"},
           Resolving(p)', Replacing(p)'
    PROVE  IInv'
  <1>1. FileTypes /\ UNCHANGED <<meta, master, raw, mode>> /\ tmp' = tmp
    BY Types DEF IInv, files
  <1>2. FileTypes'
    BY <1>1 DEF FileTypes
  <1> QED
    BY <1>1, <1>2, QuietInv

\* The DEK that dek.meta gives a process.
LEMMA ReconstructFacts ==
    ASSUME FileTypes, NEW w \in Provider, Accepts(meta, w)
    PROVE  /\ Reconstruct(meta, w) \in Dek /\ Recovers(Reconstruct(meta, w))
           /\ meta \in Dek /\ meta # NoFile /\ meta # Torn
  <1>1. meta \in Dek /\ meta # NoFile /\ meta # Torn
    BY DEF FileTypes, Accepts
  <1>2. Reconstruct(meta, w) \in Dek /\ Reconstruct(meta, w).prov = w
    BY <1>1 DEF Reconstruct, Dek
  <1> QED
    BY <1>1, <1>2 DEF Recovers

\* ResolveMeta keeps the invariant.
LEMMA ResolveMetaInv == ASSUME IInv, NEW p \in Proc, ResolveMeta(p) PROVE IInv'
  <1>1. /\ pc[p] = "resolve" /\ meta # NoFile
        /\ UNCHANGED <<files, fresh, starts, prov, job, new, plain, served, halfway>>
    BY DEF ResolveMeta, At
  <1>2. /\ FileTypes /\ LocalTypes /\ prov[p] \in Provider /\ Active(p)
    BY <1>1, ProcFacts DEF Active
  <1>3. CASE Accepts(meta, prov[p])
    <2>1. /\ dek' = [dek EXCEPT ![p] = Reconstruct(meta, prov[p])]
          /\ pc' = [pc EXCEPT ![p] = Resolved(p)]
      BY <1>3 DEF ResolveMeta, Goto
    <2>2. /\ Reconstruct(meta, prov[p]) \in Dek /\ Recovers(Reconstruct(meta, prov[p]))
          /\ meta # Torn
      BY <1>2, <1>3, ReconstructFacts
    <2>3. pc'[p] = Resolved(p) /\ dek'[p] = Reconstruct(meta, prov[p])
      BY <1>2, <2>1 DEF LocalTypes
    <2>4. /\ Resolved(p) \in Pcs /\ (p = Server => Resolved(p) = "load")
          /\ (p # Server => Resolved(p) = "rekeyRead")
      BY DEF Resolved, Pcs
    <2>5. LocalTypes' /\ Others(p)
      <3>1. /\ prov' = [prov EXCEPT ![p] = prov'[p]] /\ prov'[p] \in Provider
            /\ job' = [job EXCEPT ![p] = job'[p]] /\ job'[p] \in Jobs
            /\ new' = [new EXCEPT ![p] = new'[p]] /\ new'[p] \in Nat
            /\ plain' = [plain EXCEPT ![p] = plain'[p]] /\ plain'[p] \in Nat
        BY <1>1, <1>2 DEF LocalTypes
      <3> QED
        BY <2>1, <2>2, <2>3, <2>4, <3>1, OneProcess
    <2>6. Kept' /\ UNCHANGED <<meta, master>>
      BY <1>1, <1>2, SameFiles DEF fresh, FileTypes
    <2>7. Recovers(dek[p])'
      BY <2>2, <2>3, <2>6 DEF Recovers, Accepts, Reconstruct
    <2>8. Resolving(p)' /\ Replacing(p)'
      BY <1>1, <2>3, <2>4, <2>6, <2>7 DEF Resolving, Replacing
    <2>9. nextDek' \in Nat /\ nextKey' = nextKey /\ served' \subseteq Nat
      BY <1>1, <1>2 DEF fresh, FileTypes
    <2> QED
      BY <1>1, <1>2, <2>2, <2>5, <2>6, <2>8, <2>9, PassInv
  <1>4. CASE ~Accepts(meta, prov[p])
    <2>1. Goto(p, "failed") /\ UNCHANGED locals /\ halfway' = halfway /\ halfway \in BOOLEAN
      BY <1>1, <1>2, <1>4 DEF ResolveMeta, locals, FileTypes
    <2> QED
      BY <1>1, <2>1, EndInv
  <1> QED
    BY <1>3, <1>4

\* ResolveLegacy keeps the invariant.
LEMMA ResolveLegacyInv == ASSUME IInv, NEW p \in Proc, ResolveLegacy(p) PROVE IInv'
  <1>1. /\ pc[p] = "resolve" /\ meta = NoFile /\ job' = [job EXCEPT ![p] = "migrating"]
        /\ pc' = [pc EXCEPT ![p] = "migrate"]
        /\ UNCHANGED <<files, fresh, starts, prov, dek, new, plain, served, halfway>>
    BY DEF ResolveLegacy, At, Goto
  <1>2. /\ FileTypes /\ LocalTypes /\ Active(p) /\ meta # Torn
    BY <1>1, ProcFacts, FilesAssumption DEF Active
  <1>3. pc'[p] = "migrate" /\ job'[p] = "migrating"
    BY <1>1, <1>2 DEF LocalTypes
  <1>4. LocalTypes' /\ Others(p)
    <2>1. /\ prov' = [prov EXCEPT ![p] = prov'[p]] /\ prov'[p] \in Provider
          /\ dek' = [dek EXCEPT ![p] = dek'[p]] /\ dek'[p] \in Dek
          /\ new' = [new EXCEPT ![p] = new'[p]] /\ new'[p] \in Nat
          /\ plain' = [plain EXCEPT ![p] = plain'[p]] /\ plain'[p] \in Nat
          /\ "migrate" \in Pcs /\ "migrating" \in Jobs
      BY <1>1, <1>2 DEF LocalTypes, Pcs, Jobs
    <2> QED
      BY <1>1, <1>3, <2>1, OneProcess
  <1>5. Kept' /\ UNCHANGED <<meta, master, raw>>
    BY <1>1, <1>2, SameFiles DEF fresh, FileTypes
  <1>6. Resolving(p)' /\ Replacing(p)'
    <2>1. raw # NoFile
      BY <1>1 DEF ResolveLegacy, IInv, Layout
    <2> QED
      BY <1>1, <1>3, <1>5, <2>1 DEF Resolving, Replacing
  <1>7. nextDek' \in Nat /\ nextKey' = nextKey /\ served' \subseteq Nat
    BY <1>1, <1>2 DEF fresh, FileTypes
  <1> QED
    BY <1>1, <1>2, <1>4, <1>5, <1>6, <1>7, PassInv

\* MigrateReadRaw keeps the invariant.
LEMMA MigrateReadRawInv == ASSUME IInv, NEW p \in Proc, MigrateReadRaw(p) PROVE IInv'
  <1>1. /\ pc[p] = "migrate" /\ UNCHANGED <<files, nextKey, starts, prov, job, plain, served, halfway>>
    BY DEF MigrateReadRaw, At
  <1>2. /\ FileTypes /\ LocalTypes /\ Active(p) /\ meta = NoFile /\ job[p] = "migrating"
    BY <1>1, ProcFacts DEF Active, Resolving
  <1>3. CASE Goto(p, "failed") /\ UNCHANGED <<dek, new, nextDek>>
    <2>1. UNCHANGED locals /\ halfway' = halfway /\ halfway \in BOOLEAN /\ UNCHANGED fresh
      BY <1>1, <1>2, <1>3 DEF locals, fresh, FileTypes
    <2> QED
      BY <1>1, <1>3, <2>1, EndInv
  <1>4. CASE ~(Goto(p, "failed") /\ UNCHANGED <<dek, new, nextDek>>)
    <2>1. /\ raw # NoFile /\ dek' = [dek EXCEPT ![p] = raw] /\ nextDek' = nextDek + 1
          /\ new' = [new EXCEPT ![p] = nextDek] /\ pc' = [pc EXCEPT ![p] = "migMaster"]
      BY <1>4 DEF MigrateReadRaw, Mint, Goto
    <2>2. /\ pc'[p] = "migMaster" /\ dek'[p] = raw /\ new'[p] = nextDek /\ job'[p] = "migrating"
          /\ raw \in Dek
      BY <1>1, <1>2, <2>1 DEF LocalTypes, FileTypes
    <2>3. LocalTypes' /\ Others(p)
      <3>1. /\ prov' = [prov EXCEPT ![p] = prov'[p]] /\ prov'[p] \in Provider
            /\ job' = [job EXCEPT ![p] = job'[p]] /\ job'[p] \in Jobs
            /\ plain' = [plain EXCEPT ![p] = plain'[p]] /\ plain'[p] \in Nat
            /\ "migMaster" \in Pcs /\ nextDek \in Nat
        BY <1>1, <1>2 DEF LocalTypes, Pcs, FileTypes
      <3> QED
        BY <2>1, <2>2, <3>1, OneProcess
    <2>4. nextDek' \in Nat /\ nextKey' \in Nat /\ nextKey' = nextKey /\ served' \subseteq Nat
      BY <1>1, <1>2, <2>1 DEF FileTypes
    <2>5. Kept' /\ UNCHANGED <<meta, master, raw>>
      BY <1>1, <1>2, <2>4, SameFiles DEF FileTypes
    <2>6. Resolving(p)' /\ Replacing(p)'
      BY <1>2, <2>1, <2>2, <2>5 DEF Resolving, Replacing
    <2> QED
      BY <1>1, <1>2, <2>3, <2>4, <2>5, <2>6, PassInv
  <1> QED
    BY <1>3, <1>4

\* MigrateReadMaster keeps the invariant.
LEMMA MigrateReadMasterInv == ASSUME IInv, NEW p \in Proc, MigrateReadMaster(p) PROVE IInv'
  <1>1. /\ pc[p] = "migMaster"
        /\ UNCHANGED <<files, fresh, starts, prov, job, dek, new, served, halfway>>
    BY DEF MigrateReadMaster, At
  <1>2. /\ FileTypes /\ LocalTypes /\ Active(p) /\ meta = NoFile /\ job[p] = "migrating"
        /\ raw # NoFile
    BY <1>1, ProcFacts DEF Active, Resolving
  <1>3. Whole /\ master \in Sealed /\ master.key \in Nat
    BY <1>2, ProcFacts DEF IInv, Layout
  <1>4. CASE Goto(p, "failed") /\ UNCHANGED plain
    <2>1. UNCHANGED locals /\ halfway' = halfway /\ halfway \in BOOLEAN
      BY <1>1, <1>2, <1>4 DEF locals, FileTypes
    <2> QED
      BY <1>1, <1>4, <2>1, EndInv
  <1>5. CASE ~(Goto(p, "failed") /\ UNCHANGED plain)
    <2>1. plain' = [plain EXCEPT ![p] = master.key] /\ pc' = [pc EXCEPT ![p] = "tmp"]
      BY <1>3, <1>5 DEF MigrateReadMaster, Goto, Whole
    <2>2. pc'[p] = "tmp" /\ plain'[p] = master.key /\ job'[p] = "migrating"
      BY <1>1, <1>2, <2>1 DEF LocalTypes
    <2>3. LocalTypes' /\ Others(p)
      <3>1. /\ prov' = [prov EXCEPT ![p] = prov'[p]] /\ prov'[p] \in Provider
            /\ job' = [job EXCEPT ![p] = job'[p]] /\ job'[p] \in Jobs
            /\ dek' = [dek EXCEPT ![p] = dek'[p]] /\ dek'[p] \in Dek
            /\ new' = [new EXCEPT ![p] = new'[p]] /\ new'[p] \in Nat
            /\ "tmp" \in Pcs
        BY <1>1, <1>2 DEF LocalTypes, Pcs
      <3> QED
        BY <1>3, <2>1, <2>2, <3>1, OneProcess
    <2>4. Kept' /\ UNCHANGED <<meta, master>>
      BY <1>1, <1>2, SameFiles DEF fresh, FileTypes
    <2>5. Resolving(p)' /\ Replacing(p)'
      BY <1>2, <1>3, <2>2, <2>4 DEF Resolving, Replacing, Whole
    <2>6. nextDek' \in Nat /\ nextKey' = nextKey /\ served' \subseteq Nat
      BY <1>1, <1>2 DEF fresh, FileTypes
    <2> QED
      BY <1>1, <1>2, <2>3, <2>4, <2>5, <2>6, PassInv
  <1> QED
    BY <1>4, <1>5

\* LoadMaster keeps the invariant.
LEMMA LoadMasterInv == ASSUME IInv, NEW p \in Proc, LoadMaster(p) PROVE IInv'
  <1>1. /\ pc[p] = "load" /\ master # NoFile
        /\ UNCHANGED <<files, fresh, starts, prov, job, dek, new, halfway>>
    BY DEF LoadMaster, At
  <1>2. FileTypes /\ LocalTypes /\ Active(p)
    BY <1>1, ProcFacts DEF Active
  <1>3. CASE master # Torn /\ master.dek = dek[p]
    <2>1. /\ plain' = [plain EXCEPT ![p] = master.key] /\ served' = served \cup {master.key}
          /\ pc' = [pc EXCEPT ![p] = "serving"]
      BY <1>3 DEF LoadMaster, Goto
    <2>2. Whole /\ master.key \in Nat
      BY <1>1, <1>3, ProcFacts DEF Whole
    <2>3. pc'[p] = "serving" /\ plain'[p] = master.key
      BY <1>2, <2>1 DEF LocalTypes
    <2>4. LocalTypes' /\ Others(p)
      <3>1. /\ prov' = [prov EXCEPT ![p] = prov'[p]] /\ prov'[p] \in Provider
            /\ job' = [job EXCEPT ![p] = job'[p]] /\ job'[p] \in Jobs
            /\ dek' = [dek EXCEPT ![p] = dek'[p]] /\ dek'[p] \in Dek
            /\ new' = [new EXCEPT ![p] = new'[p]] /\ new'[p] \in Nat
            /\ "serving" \in Pcs
        BY <1>1, <1>2 DEF LocalTypes, Pcs
      <3> QED
        BY <2>1, <2>2, <2>3, <3>1, OneProcess
    <2>5. Kept'
      BY <1>1, <2>1, <2>2 DEF IInv, Kept, Whole, files
    <2>6. Resolving(p)' /\ Replacing(p)'
      BY <2>3 DEF Resolving, Replacing
    <2>7. nextDek' \in Nat /\ nextKey' = nextKey /\ served' \subseteq Nat
      BY <1>1, <1>2, <2>1, <2>2 DEF fresh, FileTypes
    <2> QED
      BY <1>1, <1>2, <2>4, <2>5, <2>6, <2>7, PassInv
  <1>4. CASE ~(master # Torn /\ master.dek = dek[p])
    <2>1. /\ Goto(p, "failed") /\ UNCHANGED <<plain, served>> /\ UNCHANGED locals
          /\ halfway' = halfway /\ halfway \in BOOLEAN
      BY <1>1, <1>2, <1>4 DEF LoadMaster, locals, FileTypes
    <2> QED
      BY <1>1, <2>1, EndInv
  <1> QED
    BY <1>3, <1>4

\* RekeyRead keeps the invariant.
LEMMA RekeyReadInv == ASSUME IInv, NEW p \in Proc, RekeyRead(p) PROVE IInv'
  <1>1. /\ pc[p] = "rekeyRead" /\ UNCHANGED <<files, nextKey, starts, prov, dek, served, halfway>>
    BY DEF RekeyRead, At
  <1>2. FileTypes /\ LocalTypes /\ Active(p) /\ p # Server /\ meta # NoFile
    BY <1>1, ProcFacts DEF Active, Resolving
  <1>3. CASE master \notin {NoFile, Torn} /\ master.dek = dek[p]
    <2>1. /\ plain' = [plain EXCEPT ![p] = master.key] /\ job' = [job EXCEPT ![p] = "rekey"]
          /\ new' = [new EXCEPT ![p] = nextDek] /\ nextDek' = nextDek + 1
          /\ pc' = [pc EXCEPT ![p] = "tmp"]
      BY <1>3 DEF RekeyRead, Goto, Mint
    <2>2. Whole /\ master.key \in Nat
      BY <1>3, ProcFacts DEF Whole
    <2>3. pc'[p] = "tmp" /\ plain'[p] = master.key /\ job'[p] = "rekey" /\ new'[p] = nextDek
      BY <1>2, <2>1 DEF LocalTypes
    <2>4. LocalTypes' /\ Others(p)
      <3>1. /\ prov' = [prov EXCEPT ![p] = prov'[p]] /\ prov'[p] \in Provider
            /\ dek' = [dek EXCEPT ![p] = dek'[p]] /\ dek'[p] \in Dek
            /\ nextDek \in Nat /\ "tmp" \in Pcs /\ "rekey" \in Jobs
        BY <1>1, <1>2 DEF LocalTypes, Pcs, Jobs, FileTypes
      <3> QED
        BY <2>1, <2>2, <2>3, <3>1, OneProcess
    <2>5. nextDek' \in Nat /\ nextKey' \in Nat /\ nextKey' = nextKey /\ served' \subseteq Nat
      BY <1>1, <1>2, <2>1 DEF FileTypes
    <2>6. Kept' /\ UNCHANGED <<meta, master>>
      BY <1>1, <1>2, <2>5, SameFiles DEF FileTypes
    <2>7. Resolving(p)' /\ Replacing(p)'
      BY <1>2, <2>2, <2>3, <2>6 DEF Resolving, Replacing, Whole
    <2> QED
      BY <1>1, <1>2, <2>4, <2>5, <2>6, <2>7, PassInv
  <1>4. CASE ~(master \notin {NoFile, Torn} /\ master.dek = dek[p])
    <2>1. /\ Goto(p, "failed") /\ UNCHANGED locals /\ UNCHANGED fresh
          /\ halfway' = halfway /\ halfway \in BOOLEAN
      BY <1>1, <1>2, <1>4 DEF RekeyRead, locals, fresh, FileTypes
    <2> QED
      BY <1>1, <2>1, EndInv
  <1> QED
    BY <1>3, <1>4

\* Stop keeps the invariant.
LEMMA StopInv == ASSUME IInv, NEW p \in Proc, Stop(p) PROVE IInv'
  <1>1. /\ pc[p] = "serving" /\ Goto(p, "off")
        /\ UNCHANGED <<files, fresh, starts, served>> /\ UNCHANGED locals /\ halfway' = halfway
    BY DEF Stop, At
  <1>2. halfway \in BOOLEAN
    BY DEF IInv, TypeOK
  <1> QED
    BY <1>1, <1>2, EndInv

\* A killed process leaves the files as it had them; killed after its rename
\* and before dek.meta was complete, it leaves the volume halfway.
LEMMA CrashInv == ASSUME IInv, NEW p \in Proc, Crash(p) PROVE IInv'
  <1>1. /\ Goto(p, "off") /\ halfway' = (halfway \/ pc[p] \in {"meta", "metaEnd"})
        /\ UNCHANGED <<files, fresh, starts, served>> /\ UNCHANGED locals
    BY DEF Crash
  <1>2. halfway \in BOOLEAN
    BY DEF IInv, TypeOK
  <1> QED
    BY <1>1, <1>2, EndInv

\* A temporary file is written: nobody else has one.
LEMMA TmpInv ==
    ASSUME IInv, NEW p \in Proc, NEW l \in {"tmpEnd", "rename"}, NEW w \in Sealed \cup {NoFile, Torn},
           pc[p] \in {"tmp", "tmpEnd"}, Goto(p, l),
           tmp' = [tmp EXCEPT ![job[p]] = w],
           l = "rename" => w = [dek |-> Minted(p), key |-> plain[p]],
           UNCHANGED <<meta, master, raw, mode, fresh, starts, locals, served, halfway>>
    PROVE  IInv'
  <1>1. FileTypes /\ LocalTypes /\ Replacing(p) /\ pc[p] \in Replaces /\ Active(p) /\ l \in Pcs
    BY ProcFacts DEF Replaces, Active, Pcs
  <1>2. /\ Whole /\ job[p] \in {"migrating", "rekey"} /\ plain[p] = master.key
        /\ (job[p] = "rekey" => p # Server /\ meta # NoFile)
        /\ (job[p] = "migrating" => meta = NoFile)
    BY <1>1 DEF Replacing, Replaces
  <1>3. UNCHANGED locals
    BY DEF locals
  <1>4. /\ LocalTypes' /\ Others(p) /\ pc'[p] = l /\ job'[p] = job[p] /\ plain'[p] = plain[p]
        /\ Minted(p)' = Minted(p)
    BY <1>1, <1>3, GotoFacts
  <1>5. tmp'[job[p]] = w /\ FileTypes'
    BY <1>1, <1>2 DEF FileTypes, fresh
  <1>6. Whole' /\ Kept'
    BY <1>2 DEF Whole, Kept, IInv
  <1>7. Resolving(p)' /\ Replacing(p)'
    <2>1. l = "rename" => tmp'[job'[p]] = [dek |-> Minted(p)', key |-> plain'[p]]
      BY <1>4, <1>5
    <2> QED
      BY <1>2, <1>4, <1>6, <2>1 DEF Resolving, Replacing
  <1>8. pc[p] \notin {"meta", "metaEnd", "resolve"}
    OBVIOUS
  <1> QED
    BY <1>1, <1>4, <1>5, <1>6, <1>7, <1>8, QuietInv

\* TmpBegin keeps the invariant.
LEMMA TmpBeginInv == ASSUME IInv, NEW p \in Proc, TmpBegin(p) PROVE IInv'
  BY TmpInv DEF TmpBegin, At

\* TmpEnd keeps the invariant.
LEMMA TmpEndInv == ASSUME IInv, NEW p \in Proc, TmpEnd(p) PROVE IInv'
  <1>1. [dek |-> Minted(p), key |-> plain[p]] \in Sealed
    BY ProcFacts DEF Sealed
  <1> QED
    BY <1>1, TmpInv DEF TmpEnd, At

-----------------------------------------------------------------------------
(* Steps that change dek.meta and master.bbkey *)

\* What a process at rest relies on: nothing.
LEMMA RestKept ==
    ASSUME NEW q \in Proc, ~Active(q), pc'[q] = pc[q]
    PROVE  Resolving(q)' /\ Replacing(q)'
  BY DEF Active, Resolving, Replacing

\* The parts of the invariant, put together after a step of p.
LEMMA Together ==
    ASSUME IInv, NEW p \in Proc, LocalTypes', FileTypes', Layout', Kept', Opens',
           Resolving(p)', Replacing(p)',
           \A q \in Proc : q # p => Resolving(q)' /\ Replacing(q)'
    PROVE  IInv'
  <1>1. TypeOK'
    BY TypesNext
  <1>2. Processes'
    BY DEF Processes
  <1>3. Operated'
    BY DEF IInv, Operated
  <1> QED
    BY <1>1, <1>2, <1>3 DEF IInv

\* A DEK's own dek.meta recovers it.
LEMMA RecoversOwn ==
    ASSUME NEW d \in Dek, meta' = d
    PROVE  meta' # NoFile /\ Accepts(meta', d.prov) /\ Reconstruct(meta', d.prov) = d
  <1>1. d # NoFile /\ d # Torn
    BY FilesAssumption
  <1>2. [d EXCEPT !.prov = d.prov] = d
    BY DEF Dek
  <1> QED
    BY <1>1, <1>2 DEF Accepts, Reconstruct

\* Nothing is on the volume: the server writes dek.meta, alone.
LEMMA ResolveFreshInv == ASSUME IInv, NEW p \in Proc, ResolveFresh(p) PROVE IInv'
  <1>1. /\ pc[p] = "resolve" /\ meta = NoFile /\ raw = NoFile /\ ~mode
        /\ new' = [new EXCEPT ![p] = nextDek] /\ nextDek' = nextDek + 1
        /\ meta' = Torn /\ pc' = [pc EXCEPT ![p] = "freshMeta"]
        /\ UNCHANGED <<master, tmp, raw, mode, nextKey, starts, prov, job, dek, plain,
                       served, halfway>>
    BY DEF ResolveFresh, At, Mint, Goto
  <1>2. FileTypes /\ LocalTypes /\ Resolving(p) /\ Active(p)
    BY <1>1, ProcFacts DEF Active
  <1>3. master = NoFile /\ ~Whole
    BY <1>1 DEF IInv, Layout, Whole
  <1>4. p = Server
    BY <1>1, <1>2, <1>3 DEF Resolving
  <1>5. \A q \in Proc : q # p => ~Active(q)
    BY <1>1, <1>2 DEF IInv, Layout
  <1>6. pc'[p] = "freshMeta" /\ new'[p] = nextDek
    BY <1>1, <1>2 DEF LocalTypes
  <1>7. LocalTypes' /\ Others(p)
    <2>1. /\ prov' = [prov EXCEPT ![p] = prov'[p]] /\ prov'[p] \in Provider
          /\ job' = [job EXCEPT ![p] = job'[p]] /\ job'[p] \in Jobs
          /\ dek' = [dek EXCEPT ![p] = dek'[p]] /\ dek'[p] \in Dek
          /\ plain' = [plain EXCEPT ![p] = plain'[p]] /\ plain'[p] \in Nat
          /\ "freshMeta" \in Pcs /\ nextDek \in Nat
      BY <1>1, <1>2 DEF LocalTypes, Pcs, FileTypes
    <2> QED
      BY <1>1, <1>6, <2>1, OneProcess
  <1>8. FileTypes'
    BY <1>1, <1>2 DEF FileTypes
  <1>9. ~Whole' /\ master' = NoFile /\ meta' # NoFile
    BY <1>1, <1>3, FilesAssumption DEF Whole
  <1>10. Layout' /\ Kept' /\ Opens'
    BY <1>1, <1>3, <1>9 DEF Layout, Kept, Opens, IInv
  <1>11. \A q \in Proc : q # p => ~Active(q)' /\ pc'[q] = pc[q]
    BY <1>5, <1>7 DEF Others, Active
  <1>12. Resolving(p)' /\ Replacing(p)'
    BY <1>1, <1>4, <1>6, <1>9, <1>11 DEF Resolving, Replacing
  <1>13. \A q \in Proc : q # p => Resolving(q)' /\ Replacing(q)'
    BY <1>5, <1>11, RestKept
  <1> QED
    BY <1>7, <1>8, <1>10, <1>12, <1>13, Together

\* FreshMetaEnd keeps the invariant.
LEMMA FreshMetaEndInv == ASSUME IInv, NEW p \in Proc, FreshMetaEnd(p) PROVE IInv'
  <1>1. /\ pc[p] = "freshMeta" /\ meta' = Minted(p) /\ dek' = [dek EXCEPT ![p] = Minted(p)]
        /\ pc' = [pc EXCEPT ![p] = Resolved(p)]
        /\ UNCHANGED <<master, tmp, raw, mode, fresh, starts, prov, job, new, plain,
                       served, halfway>>
    BY DEF FreshMetaEnd, At, Goto
  <1>2. /\ FileTypes /\ LocalTypes /\ Active(p) /\ Minted(p) \in Dek
        /\ p = Server /\ master = NoFile /\ \A q \in Proc : q # p => ~Active(q)
    BY <1>1, ProcFacts DEF Active, Resolving
  <1>3. pc'[p] = "load" /\ dek'[p] = Minted(p) /\ Resolved(p) = "load"
    BY <1>1, <1>2 DEF LocalTypes, Resolved
  <1>4. LocalTypes' /\ Others(p)
    <2>1. /\ prov' = [prov EXCEPT ![p] = prov'[p]] /\ prov'[p] \in Provider
          /\ job' = [job EXCEPT ![p] = job'[p]] /\ job'[p] \in Jobs
          /\ new' = [new EXCEPT ![p] = new'[p]] /\ new'[p] \in Nat
          /\ plain' = [plain EXCEPT ![p] = plain'[p]] /\ plain'[p] \in Nat
          /\ "load" \in Pcs
      BY <1>1, <1>2 DEF LocalTypes, Pcs
    <2> QED
      BY <1>1, <1>2, <1>3, <2>1, OneProcess
  <1>5. FileTypes'
    BY <1>1, <1>2 DEF FileTypes, fresh
  <1>6. meta' # NoFile /\ Recovers(dek[p])'
    BY <1>1, <1>2, <1>3, RecoversOwn DEF Recovers
  <1>7. ~Whole' /\ ~Whole /\ raw = NoFile
    BY <1>1, <1>2 DEF Whole, IInv, Layout
  <1>8. Layout' /\ Kept' /\ Opens'
    BY <1>1, <1>6, <1>7 DEF Layout, Kept, Opens, IInv
  <1>9. Resolving(p)' /\ Replacing(p)'
    BY <1>2, <1>3, <1>6 DEF Resolving, Replacing
  <1>10. \A q \in Proc : q # p => Resolving(q)' /\ Replacing(q)'
    BY <1>2, <1>4, RestKept DEF Others
  <1> QED
    BY <1>4, <1>5, <1>8, <1>9, <1>10, Together

\* The legacy files go once dek.meta is complete.
LEMMA EraseInv ==
    ASSUME IInv, NEW p \in Proc, NEW l \in {"eraseMode", "resolve"},
           pc[p] \in {"eraseRaw", "eraseMode"}, Goto(p, l),
           raw' \in {raw, NoFile}, mode' \in BOOLEAN,
           UNCHANGED <<meta, master, tmp, fresh, starts, locals, served, halfway>>
    PROVE  IInv'
  <1>1. FileTypes /\ LocalTypes /\ Active(p) /\ meta # NoFile /\ (p = Server \/ master # NoFile)
    BY ProcFacts DEF Active, Resolving
  <1>2. l \in Pcs /\ UNCHANGED locals
    BY DEF Pcs, locals
  <1>3. LocalTypes' /\ Others(p) /\ pc'[p] = l
    BY <1>2, GotoFacts
  <1>4. FileTypes'
    BY <1>1 DEF FileTypes, fresh
  <1>5. Layout' /\ Kept'
    BY <1>1 DEF Layout, Kept, IInv, Whole
  <1>6. Opens'
    <2>1. Recovers(master.dek)' <=> Recovers(master.dek)
      BY DEF Recovers, Accepts, Reconstruct
    <2>2. \A q \in Proc : pc[q] \in {"meta", "metaEnd"} => pc'[q] \in {"meta", "metaEnd"}
      BY <1>3 DEF Others
    <2> QED
      BY <1>1, <2>1, <2>2 DEF IInv, Opens, Whole
  <1>7. Resolving(p)' /\ Replacing(p)'
    BY <1>1, <1>3 DEF Resolving, Replacing
  <1>8. pc[p] # "resolve"
    OBVIOUS
  <1>9. \A q \in Proc : q # p => Resolving(q)' /\ Replacing(q)'
    BY <1>1, <1>3, <1>8, OthersKept
  <1> QED
    BY <1>3, <1>4, <1>5, <1>6, <1>7, <1>9, Together

\* EraseRaw keeps the invariant.
LEMMA EraseRawInv == ASSUME IInv, NEW p \in Proc, EraseRaw(p) PROVE IInv'
  <1>1. mode \in BOOLEAN
    BY DEF IInv, TypeOK
  <1> QED
    BY <1>1, EraseInv DEF EraseRaw, At

\* EraseMode keeps the invariant.
LEMMA EraseModeInv == ASSUME IInv, NEW p \in Proc, EraseMode(p) PROVE IInv'
  BY EraseInv DEF EraseMode, At

\* What the others rely on while p replaces the DEK: a whole master.bbkey and
\* that dek.meta does not go away.
LEMMA OthersReplaced ==
    ASSUME IInv, NEW p \in Proc, pc[p] \in Replaces, Others(p), Whole',
           meta # NoFile => meta' # NoFile, raw' = raw,
           NEW q \in Proc, q # p
    PROVE  Resolving(q)' /\ Replacing(q)'
  <1>1. Resolving(q) /\ Replacing(p) /\ pc'[q] = pc[q]
    BY ProcFacts DEF Others
  <1>2. pc[q] \notin Replaces
    BY Exclusive
  <1>3. Replacing(q)'
    BY <1>1, <1>2 DEF Replacing, Replaces
  <1>4. Whole
    BY <1>1 DEF Replacing, Replaces
  <1>5. pc[q] \notin {"freshMeta", "initMaster"}
    BY <1>1, <1>4 DEF Resolving, Whole
  <1>6. pc[q] \notin {"migrate", "migMaster"}
    <2> SUFFICES ASSUME pc[q] \in {"migrate", "migMaster"} PROVE FALSE
      OBVIOUS
    <2>1. Active(p) /\ Active(q) /\ meta = NoFile
      BY <1>1 DEF Active, Replaces, Resolving
    <2> QED
      BY <2>1 DEF IInv, Layout
  <1>7. master' # NoFile
    BY DEF Whole
  <1>8. Resolving(q)'
    BY <1>1, <1>5, <1>6, <1>7 DEF Resolving
  <1> QED
    BY <1>3, <1>8

\* The key sealed under the new DEK takes the place of the same key sealed
\* under the old one.
LEMMA RenameInv == ASSUME IInv, NEW p \in Proc, Rename(p) PROVE IInv'
  <1>1. pc[p] = "rename" /\ UNCHANGED <<meta, raw, mode, fresh, starts, locals, served, halfway>>
    BY DEF Rename, At
  <1>2. FileTypes /\ LocalTypes /\ Replacing(p) /\ pc[p] \in Replaces /\ Active(p)
    BY <1>1, ProcFacts DEF Replaces, Active
  <1>3. /\ Whole /\ job[p] \in {"migrating", "rekey"} /\ plain[p] = master.key
        /\ (job[p] = "rekey" => p # Server /\ meta # NoFile)
        /\ (job[p] = "migrating" => meta = NoFile)
        /\ tmp[job[p]] = [dek |-> Minted(p), key |-> plain[p]]
    BY <1>1, <1>2 DEF Replacing
  <1>4. [dek |-> Minted(p), key |-> plain[p]] \in Sealed
    BY ProcFacts DEF Sealed
  <1>5. /\ master' = [dek |-> Minted(p), key |-> plain[p]] /\ Goto(p, "meta")
        /\ tmp' = [tmp EXCEPT ![job[p]] = NoFile]
    BY <1>3, <1>4, FilesAssumption DEF Rename
  <1>6. UNCHANGED locals /\ "meta" \in Pcs
    BY <1>1 DEF locals, Pcs
  <1>7. /\ LocalTypes' /\ Others(p) /\ pc'[p] = "meta" /\ job'[p] = job[p]
        /\ Minted(p)' = Minted(p)
    BY <1>5, <1>6, GotoFacts
  <1>8. FileTypes'
    BY <1>1, <1>2, <1>3, <1>4, <1>5 DEF FileTypes, fresh
  <1>9. /\ Whole' /\ master'.dek = Minted(p) /\ master'.key = master.key
    BY <1>3, <1>4, <1>5, FilesAssumption DEF Whole
  <1>10. Layout'
    <2>1. \A q \in Proc : Active(q)' => Active(q)
      BY <1>2, <1>7 DEF Others, Active
    <2> QED
      BY <1>1, <1>3, <1>9, <2>1 DEF Layout, IInv, Whole
  <1>11. Kept' /\ Opens'
    BY <1>1, <1>7, <1>9 DEF Kept, Opens, IInv
  <1>12. Resolving(p)' /\ Replacing(p)'
    BY <1>1, <1>3, <1>7, <1>9 DEF Resolving, Replacing
  <1>13. \A q \in Proc : q # p => Resolving(q)' /\ Replacing(q)'
    BY <1>1, <1>2, <1>7, <1>9, OthersReplaced
  <1> QED
    BY <1>7, <1>8, <1>10, <1>11, <1>12, <1>13, Together

\* MetaBegin keeps the invariant.
LEMMA MetaBeginInv == ASSUME IInv, NEW p \in Proc, MetaBegin(p) PROVE IInv'
  <1>1. /\ pc[p] = "meta" /\ meta' = Torn /\ Goto(p, "metaEnd")
        /\ UNCHANGED <<master, tmp, raw, mode, fresh, starts, locals, served, halfway>>
    BY DEF MetaBegin, At
  <1>2. FileTypes /\ LocalTypes /\ Replacing(p) /\ pc[p] \in Replaces /\ Active(p)
    BY <1>1, ProcFacts DEF Replaces, Active
  <1>3. /\ Whole /\ job[p] \in {"migrating", "rekey"} /\ master.dek = Minted(p)
        /\ (job[p] = "rekey" => p # Server /\ meta # NoFile)
        /\ (job[p] = "migrating" => meta = NoFile)
    BY <1>1, <1>2 DEF Replacing
  <1>4. UNCHANGED locals /\ "metaEnd" \in Pcs /\ meta' # NoFile
    BY <1>1, FilesAssumption DEF locals, Pcs
  <1>5. /\ LocalTypes' /\ Others(p) /\ pc'[p] = "metaEnd" /\ job'[p] = job[p]
        /\ Minted(p)' = Minted(p)
    BY <1>1, <1>4, GotoFacts
  <1>6. FileTypes'
    BY <1>1, <1>2 DEF FileTypes, fresh
  <1>7. Whole' /\ Layout' /\ Kept' /\ Opens'
    BY <1>1, <1>3, <1>4, <1>5 DEF Whole, Layout, Kept, Opens, IInv
  <1>8. job[p] = "migrating" => \A q \in Proc : q # p => ~Active(q)'
    BY <1>2, <1>3, <1>5 DEF IInv, Layout, Others, Active
  <1>9. Resolving(p)' /\ Replacing(p)'
    BY <1>1, <1>3, <1>4, <1>5, <1>7, <1>8 DEF Resolving, Replacing
  <1>10. \A q \in Proc : q # p => Resolving(q)' /\ Replacing(q)'
    BY <1>1, <1>2, <1>4, <1>5, <1>7, OthersReplaced
  <1> QED
    BY <1>5, <1>6, <1>7, <1>9, <1>10, Together

\* MetaEnd keeps the invariant.
LEMMA MetaEndInv == ASSUME IInv, NEW p \in Proc, MetaEnd(p) PROVE IInv'
  <1> DEFINE l == IF job[p] = "migrating" THEN "eraseRaw" ELSE "off"
  <1>1. /\ pc[p] = "metaEnd" /\ meta' = Minted(p) /\ Goto(p, l)
        /\ UNCHANGED <<master, tmp, raw, mode, fresh, starts, locals, served, halfway>>
    BY DEF MetaEnd, At
  <1>2. /\ FileTypes /\ LocalTypes /\ Replacing(p) /\ pc[p] \in Replaces /\ Minted(p) \in Dek
        /\ Minted(p).prov = prov[p]
    BY <1>1, ProcFacts DEF Replaces
  <1>3. Whole /\ master.dek = Minted(p)
    BY <1>1, <1>2 DEF Replacing
  <1>4. UNCHANGED locals /\ l \in Pcs
    BY <1>1 DEF locals, Pcs
  <1>5. LocalTypes' /\ Others(p) /\ pc'[p] = l
    BY <1>1, <1>4, GotoFacts
  <1>6. FileTypes'
    BY <1>1, <1>2 DEF FileTypes, fresh
  <1>7. meta' # NoFile /\ Recovers(master.dek)'
    BY <1>1, <1>2, <1>3, RecoversOwn DEF Recovers
  <1>8. Whole' /\ Layout' /\ Kept' /\ Opens' /\ master' # NoFile
    BY <1>1, <1>3, <1>7 DEF Whole, Layout, Kept, Opens, IInv
  <1>9. Resolving(p)' /\ Replacing(p)'
    BY <1>5, <1>7, <1>8 DEF Resolving, Replacing
  <1>10. \A q \in Proc : q # p => Resolving(q)' /\ Replacing(q)'
    BY <1>1, <1>2, <1>5, <1>7, <1>8, OthersReplaced
  <1> QED
    BY <1>5, <1>6, <1>8, <1>9, <1>10, Together

\* While master.bbkey is not whole only the server writes it, and no key has
\* been served.
LEMMA OthersInit ==
    ASSUME IInv, NEW p \in Proc, pc[p] \in {"load", "initMaster"}, ~Whole, Others(p),
           master' # NoFile, UNCHANGED <<meta, raw>>, NEW q \in Proc, q # p
    PROVE  Resolving(q)' /\ Replacing(q)'
  <1>1. Resolving(q) /\ Replacing(q) /\ Resolving(p) /\ pc'[q] = pc[q] /\ job'[q] = job[q]
    BY ProcFacts DEF Others
  <1>2. p = Server
    BY <1>1 DEF Resolving
  <1>3. pc[q] \notin {"freshMeta", "load", "initMaster"}
    BY <1>1, <1>2 DEF Resolving
  <1>4. pc[q] \notin Replaces
    BY <1>1 DEF Replacing, Replaces
  <1>5. Replacing(q)'
    BY <1>1, <1>4 DEF Replacing, Replaces
  <1>6. Resolving(q)'
    BY <1>1, <1>3 DEF Resolving
  <1> QED
    BY <1>5, <1>6

\* InitMaster keeps the invariant.
LEMMA InitMasterInv == ASSUME IInv, NEW p \in Proc, InitMaster(p) PROVE IInv'
  <1>1. /\ pc[p] = "load" /\ master = NoFile /\ plain' = [plain EXCEPT ![p] = nextKey]
        /\ nextKey' = nextKey + 1 /\ master' = Torn /\ pc' = [pc EXCEPT ![p] = "initMaster"]
        /\ UNCHANGED <<meta, tmp, raw, mode, nextDek, starts, prov, job, dek, new, served,
                       halfway>>
    BY DEF InitMaster, At, Goto
  <1>2. FileTypes /\ LocalTypes /\ p = Server /\ meta # NoFile /\ Recovers(dek[p])
    BY <1>1, ProcFacts DEF Resolving
  <1>3. ~Whole /\ ~Whole' /\ master' # NoFile
    BY <1>1, FilesAssumption DEF Whole
  <1>4. pc'[p] = "initMaster" /\ plain'[p] = nextKey /\ dek'[p] = dek[p]
    BY <1>1, <1>2 DEF LocalTypes
  <1>5. LocalTypes' /\ Others(p)
    <2>1. /\ prov' = [prov EXCEPT ![p] = prov'[p]] /\ prov'[p] \in Provider
          /\ job' = [job EXCEPT ![p] = job'[p]] /\ job'[p] \in Jobs
          /\ dek' = [dek EXCEPT ![p] = dek'[p]] /\ dek'[p] \in Dek
          /\ new' = [new EXCEPT ![p] = new'[p]] /\ new'[p] \in Nat
          /\ "initMaster" \in Pcs /\ nextKey \in Nat
      BY <1>1, <1>2 DEF LocalTypes, Pcs, FileTypes
    <2> QED
      BY <1>1, <1>4, <2>1, OneProcess
  <1>6. FileTypes'
    BY <1>1, <1>2 DEF FileTypes
  <1>7. Layout' /\ Kept' /\ Opens'
    BY <1>1, <1>2, <1>3 DEF Layout, Kept, Opens, IInv
  <1>8. Recovers(dek[p])'
    BY <1>1, <1>2, <1>4 DEF Recovers, Accepts, Reconstruct
  <1>9. Resolving(p)' /\ Replacing(p)'
    BY <1>1, <1>2, <1>4, <1>8 DEF Resolving, Replacing
  <1>10. \A q \in Proc : q # p => Resolving(q)' /\ Replacing(q)'
    BY <1>1, <1>3, <1>5, OthersInit
  <1> QED
    BY <1>5, <1>6, <1>7, <1>9, <1>10, Together

\* InitMasterEnd keeps the invariant.
LEMMA InitMasterEndInv == ASSUME IInv, NEW p \in Proc, InitMasterEnd(p) PROVE IInv'
  <1>1. /\ pc[p] = "initMaster" /\ master' = [dek |-> dek[p], key |-> plain[p]]
        /\ served' = served \cup {plain[p]} /\ Goto(p, "serving")
        /\ UNCHANGED <<meta, tmp, raw, mode, fresh, starts, locals, halfway>>
    BY DEF InitMasterEnd, At
  <1>2. /\ FileTypes /\ LocalTypes /\ Resolving(p) /\ Active(p) /\ master = Torn
        /\ Recovers(dek[p]) /\ dek[p] \in Dek /\ plain[p] \in Nat
    BY <1>1, ProcFacts DEF Resolving, Active
  <1>3. [dek |-> dek[p], key |-> plain[p]] \in Sealed
    BY <1>2 DEF Sealed
  <1>4. /\ ~Whole /\ Whole' /\ master' # NoFile /\ master'.dek = dek[p]
        /\ master'.key = plain[p]
    BY <1>1, <1>2, <1>3, FilesAssumption DEF Whole
  <1>5. UNCHANGED locals /\ "serving" \in Pcs
    BY <1>1 DEF locals, Pcs
  <1>6. LocalTypes' /\ Others(p) /\ pc'[p] = "serving"
    BY <1>1, <1>5, GotoFacts
  <1>7. FileTypes'
    BY <1>1, <1>2, <1>3 DEF FileTypes, fresh
  <1>8. served = {}
    BY <1>4 DEF IInv, Kept
  <1>9. Recovers(master.dek)' /\ meta # NoFile
    BY <1>1, <1>2, <1>4 DEF Recovers, Accepts, Reconstruct
  <1>10. Layout' /\ Kept' /\ Opens'
    BY <1>1, <1>4, <1>8, <1>9 DEF Layout, Kept, Opens
  <1>11. Resolving(p)' /\ Replacing(p)'
    BY <1>6 DEF Resolving, Replacing
  <1>12. \A q \in Proc : q # p => Resolving(q)' /\ Replacing(q)'
    BY <1>1, <1>4, <1>6, OthersInit
  <1> QED
    BY <1>6, <1>7, <1>10, <1>11, <1>12, Together

-----------------------------------------------------------------------------
(* The theorems *)

LEMMA InitIInv == ASSUME Operated, Init PROVE IInv
  <1>1. PICK v \in Volumes, p \in Provider :
           /\ meta = IF v = "current" THEN [id |-> 0, prov |-> p] ELSE NoFile
           /\ master = IF v = "fresh" THEN NoFile
                       ELSE [dek |-> [id |-> 0, prov |-> p], key |-> 0]
           /\ raw = IF v = "legacy" THEN [id |-> 0, prov |-> p] ELSE NoFile
           /\ mode = (v = "legacy")
           /\ nextDek = IF v = "fresh" THEN 0 ELSE 1
           /\ nextKey = IF v = "fresh" THEN 0 ELSE 1
           /\ served = IF v = "fresh" THEN {} ELSE {0}
           /\ prov = [q \in Proc |-> p]
           /\ dek = [q \in Proc |-> [id |-> 0, prov |-> p]]
    BY DEF Init
  <1>2. /\ tmp = [j \in {"migrating", "rekey"} |-> NoFile] /\ starts = 0 /\ halfway = FALSE
        /\ pc = [q \in Proc |-> "off"] /\ job = [q \in Proc |-> "none"]
        /\ new = [q \in Proc |-> 0] /\ plain = [q \in Proc |-> 0]
    BY DEF Init
  <1> DEFINE d == [id |-> 0, prov |-> p]
  <1> DEFINE s == [dek |-> d, key |-> 0]
  <1>3. d \in Dek /\ s \in Sealed /\ s.dek = d /\ s.key = 0 /\ d.prov = p
    BY DEF Dek, Sealed
  <1>4. d \notin {NoFile, Torn} /\ s \notin {NoFile, Torn} /\ NoFile # Torn
    BY <1>3, FilesAssumption
  <1>5. v \in {"fresh", "current", "legacy"} /\ starts \in 0..MaxStarts
    BY <1>2, MasterKeyAssumption
  <1> HIDE DEF s
  <1>6. FileTypes
    <2>1. meta \in Dek \cup {NoFile, Torn} /\ raw \in Dek \cup {NoFile}
      BY <1>1, <1>3
    <2>2. master \in Sealed \cup {NoFile, Torn}
      BY <1>1, <1>3 DEF s
    <2>3. mode \in BOOLEAN /\ halfway \in BOOLEAN
      BY <1>1, <1>2
    <2>4. nextDek \in Nat /\ nextKey \in Nat /\ served \subseteq Nat
      BY <1>1
    <2>5. tmp \in [{"migrating", "rekey"} -> Sealed \cup {NoFile, Torn}]
      BY <1>2
    <2> QED
      BY <1>5, <2>1, <2>2, <2>3, <2>4, <2>5 DEF FileTypes
  <1>7. LocalTypes
    BY <1>1, <1>2, <1>3 DEF LocalTypes, Pcs, Jobs
  <1>8. TypeOK
    BY <1>6, <1>7, Types
  <1>9. \A q \in Proc : ~Active(q) /\ pc[q] = "off"
    BY <1>2 DEF Active
  <1>10. Processes
    BY <1>9 DEF Processes, Resolving, Replacing
  <1>11. (v # "fresh" => master = s) /\ (v = "fresh" => master = NoFile)
    BY <1>1 DEF s
  <1>12. Layout /\ Kept
    BY <1>1, <1>3, <1>4, <1>5, <1>9, <1>11 DEF Layout, Kept, Whole
  <1>13. Opens
    <2>1. v = "current" => Recovers(d)
      <3> SUFFICES ASSUME v = "current" PROVE Recovers(d)
        OBVIOUS
      <3>1. meta = d
        BY <1>1
      <3>2. [d EXCEPT !.prov = d.prov] = d
        BY <1>3 DEF Dek
      <3> QED
        BY <1>4, <3>1, <3>2 DEF Recovers, Accepts, Reconstruct
    <2> QED
      BY <1>1, <1>3, <1>4, <1>5, <1>11, <2>1 DEF Opens, Whole
  <1> QED
    BY <1>8, <1>10, <1>12, <1>13 DEF IInv

\* A step that changes nothing keeps the invariant.
LEMMA StutterInv == ASSUME IInv, UNCHANGED vars PROVE IInv'
  <1>1. /\ UNCHANGED <<meta, master, tmp, raw, mode, nextDek, nextKey, starts, pc>>
        /\ UNCHANGED <<prov, job, dek, new, plain, served, halfway>>
    BY DEF vars, files, fresh, locals
  <1>2. TypeOK' /\ Operated'
    BY <1>1 DEF IInv, TypeOK, Operated
  <1>3. Layout' /\ Kept' /\ Opens'
    BY <1>1 DEF IInv, Layout, Kept, Opens, Whole, Active, Recovers, Accepts, Reconstruct
  <1>4. \A p \in Proc : Resolving(p)'
    BY <1>1 DEF IInv, Processes, Resolving, Active, Recovers, Accepts, Reconstruct
  <1>5. \A p \in Proc : Replacing(p)'
    BY <1>1 DEF IInv, Processes, Replacing, Active, Minted, Whole
  <1> QED
    BY <1>2, <1>3, <1>4, <1>5 DEF IInv, Processes

\* The invariant is inductive: every step keeps it.
LEMMA NextIInv == ASSUME IInv, [Next]_vars PROVE IInv'
  <1>1. ASSUME NEW p \in Proc, Step(p) PROVE IInv'
    BY <1>1, StartInv, ResolveMetaInv, ResolveLegacyInv, ResolveFreshInv, FreshMetaEndInv,
       MigrateReadRawInv, MigrateReadMasterInv, EraseRawInv, EraseModeInv, TmpBeginInv, TmpEndInv,
       RenameInv, MetaBeginInv, MetaEndInv, LoadMasterInv, InitMasterInv, InitMasterEndInv,
       RekeyReadInv, StopInv, CrashInv DEF Step
  <1>2. CASE Finished
    BY <1>2, StutterInv DEF Finished
  <1>3. CASE UNCHANGED vars
    BY <1>3, StutterInv
  <1> QED
    BY <1>1, <1>2, <1>3 DEF Next

\* The invariant, of every volume that is operated as described above.
THEOREM Invariance == Operated /\ Spec => []IInv
  <1>1. Operated /\ Init => IInv
    BY InitIInv
  <1>2. IInv /\ [Next]_vars => IInv'
    BY NextIInv
  <1> QED
    BY <1>1, <1>2, PTL DEF Spec

\* ServedKeyKept: boots, migrations and re-keys, killed anywhere, never tear or
\* replace the master key a server has run with (persistence.rs writes a
\* temporary file and renames it; load_or_init_master generates a key only
\* when there is no file).
THEOREM KeySafety == Operated /\ Spec => []ServedKeyKept
  <1>1. IInv => ServedKeyKept
    BY DEF IInv, Kept, Whole, ServedKeyKept
  <1> QED
    BY <1>1, Invariance, PTL

\* LostOnlyHalfway: at rest, what is on disk opens the key that has been in
\* use, unless a process was killed after its rename and before dek.meta was
\* complete.
THEOREM LossSafety == Operated /\ Spec => []LostOnlyHalfway
  <1>1. IInv => LostOnlyHalfway
    <2> SUFFICES ASSUME IInv, AtRest, ~halfway PROVE Openable
      BY DEF LostOnlyHalfway
    <2>1. Whole
      BY DEF IInv, Kept, AtRest
    <2>2. \A p \in Proc : pc[p] \notin {"meta", "metaEnd"}
      BY DEF AtRest, Idle
    <2>3. Recovers(master.dek) \/ (meta = NoFile /\ raw = master.dek)
      BY <2>1, <2>2 DEF IInv, Opens
    <2>4. master.dek \in Dek
      <3>1. master \in Sealed
        BY <2>1 DEF IInv, TypeOK, Whole
      <3> QED
        BY <3>1 DEF Sealed
    <2>5. master.dek # NoFile /\ master.dek.prov \in Provider
      BY <2>4, FilesAssumption DEF Dek
    <2> QED
      BY <2>1, <2>3, <2>5 DEF Openable, Whole, Recovers
  <1> QED
    BY <1>1, Invariance, PTL

-----------------------------------------------------------------------------
(* The audit log *)

\* Max and Last without CHOOSE: t is the greatest of S, or 0 when there is none.
IsLast(S, t) == IF S = {} THEN t = 0 ELSE t \in S /\ \A i \in S : i <= t

\* Chains without Max: a row continues the greatest row before it.
Linked(S, a) ==
    \A i \in S :
        IF \E j \in S : j < i
        THEN prev[i] \in S /\ prev[i] < i /\ \A j \in S : j < i => j <= prev[i]
        ELSE prev[i] = a

\* Who reads the head or inserts holds the lock, so the head it has read is
\* still the head.
Locking ==
    \A p \in Call :
        /\ stage[p] \in {"head", "insert"} => lock = p
        /\ stage[p] = "insert" => IsLast(Committed, start[p])

\* The newest committed row is in the table.
Newest == \A i \in Committed : \E j \in live : i <= j

\* The table is a suffix of what was committed.
Suffix == \A i \in live, j \in Committed : i < j => j \in live

\* No row up to an anchor is left, nor up to the chain value an archival works
\* from, nor among those a prune has just deleted.
Gone ==
    /\ \A a \in anchors, i \in live : a < i
    /\ \A p \in Call :
          /\ start[p] < nextId
          /\ stage[p] \in {"select", "file", "delete"} => \A i \in live : start[p] < i
          /\ stage[p] = "anchor" => \A i \in live, j \in sel[p] : j < i

\* What an archival has selected is not empty, ends before some committed row,
\* and has every row of the table up to its end; it is in a file before it is
\* deleted.
Selected ==
    \A p \in Call :
        /\ stage[p] \in {"file", "delete", "anchor", "cut"} =>
              sel[p] # {} /\ \E j \in Committed : \A i \in sel[p] : i < j
        /\ stage[p] \in {"file", "delete"} =>
              \A i \in live, j \in sel[p] : i <= j => i \in sel[p]
        /\ stage[p] = "delete" => sel[p] \in archives

\* A row that has left the table is covered by an anchor, or by a prune that
\* has yet to write one or was cut off before it did.
Covered ==
    \A i \in Committed \ live :
        \/ \E a \in anchors : i <= a
        \/ \E p \in Call : stage[p] \in {"anchor", "cut"} /\ \E j \in sel[p] : i <= j

\* While no prune has been at work, a verification holds a prefix of the log.
Pristine == anchors = {} /\ ~HalfPruned
Reports ==
    Pristine => \A p \in Call :
        /\ stage[p] # "alarm"
        /\ stage[p] = "check" => \A i \in sel[p], j \in Committed : j < i => j \in sel[p]

AuditIInv ==
    /\ AuditTypeOK /\ Linked(Committed, 0) /\ NothingLost
    /\ Locking /\ Newest /\ Suffix /\ Gone /\ Selected /\ Covered /\ Reports

-----------------------------------------------------------------------------
(* Facts about ids and chains *)

\* A set of natural numbers has a least element.
LEMMA NatMin ==
    ASSUME NEW S \in SUBSET Nat, S # {}
    PROVE  \E m \in S : \A y \in S : m <= y
  <1> DEFINE R == OpToRel(<, Nat)
  <1>1. IsWellFoundedOn(R, Nat)
    BY NatLessThanWellFounded, Zenon
  <1>2. \E x \in S : \A y \in S : ~ (<<y, x>> \in R)
    <2> HIDE DEF R
    <2> QED BY <1>1, WFMin, Zenon
  <1>3. \A x, y \in Nat : <<y, x>> \in R <=> y < x
    BY DEF OpToRel
  <1>4. PICK x \in S : \A y \in S : ~ (<<y, x>> \in R)
    BY <1>2
  <1>5. \A y \in S : ~(y < x)
    BY <1>3, <1>4
  <1>6. \A y \in S : x <= y
    BY <1>5
  <1> QED
    BY <1>6

\* Max of a bounded set of ids is its greatest element.
LEMMA MaxFacts ==
    ASSUME NEW S \in SUBSET Nat, NEW n \in Nat, \A y \in S : y <= n, S # {}
    PROVE  Max(S) \in S /\ \A y \in S : y <= Max(S)
  <1> DEFINE T == {n - y : y \in S}
  <1>1. T \in SUBSET Nat /\ T # {}
    <2>1. PICK y \in S : TRUE
      OBVIOUS
    <2>2. n - y \in T
      BY <2>1
    <2>3. \A z \in S : n - z \in Nat
      OBVIOUS
    <2> QED
      BY <2>2, <2>3
  <1>2. PICK m \in T : \A y \in T : m <= y
    BY <1>1, NatMin
  <1>3. PICK x \in S : m = n - x
    OBVIOUS
  <1>4. ASSUME NEW y \in S PROVE x >= y
    <2>1. n - y \in T
      OBVIOUS
    <2> HIDE DEF T
    <2> QED
      BY <1>2, <1>3, <2>1
  <1> QED
    BY <1>3, <1>4 DEF Max

\* The greatest element is Max.
LEMMA MaxIs ==
    ASSUME NEW S \in SUBSET Nat, NEW m \in S, \A y \in S : y <= m
    PROVE  Max(S) = m
  <1>1. \A x \in S : (\A y \in S : x >= y) => x = m
    OBVIOUS
  <1> QED
    BY <1>1 DEF Max

\* Last returns the greatest id, 0 for none.
LEMMA LastFacts ==
    ASSUME NEW S \in SUBSET Nat, NEW n \in Nat, \A i \in S : i <= n
    PROVE  Last(S) \in Nat /\ IsLast(S, Last(S))
  BY MaxFacts DEF Last, IsLast

\* There is only one greatest id.
LEMMA LastIs ==
    ASSUME NEW S \in SUBSET Nat, NEW t, IsLast(S, t)
    PROVE  Last(S) = t
  BY MaxIs DEF Last, IsLast

\* The table, the anchors and every selection are sets of ids below nextId.
LEMMA Bounded ==
    ASSUME AuditTypeOK
    PROVE  /\ nextId - 1 \in Nat
           /\ Committed \in SUBSET Nat /\ \A i \in Committed : i <= nextId - 1 /\ 0 < i
           /\ live \in SUBSET Nat /\ \A i \in live : i <= nextId - 1
           /\ anchors \in SUBSET Nat /\ \A i \in anchors : i <= nextId - 1
           /\ \A p \in Call : sel[p] \in SUBSET Nat /\ \A i \in sel[p] : i <= nextId - 1
  <1>1. nextId - 1 \in Nat
    BY DEF AuditTypeOK
  <1>2. \A i \in Committed : i \in Nat /\ i <= nextId - 1 /\ 0 < i
    BY DEF AuditTypeOK
  <1>3. live \subseteq Committed /\ anchors \subseteq Committed
        /\ \A p \in Call : sel[p] \subseteq Committed
    BY DEF AuditTypeOK
  <1> QED
    BY <1>1, <1>2, <1>3

\* What verify_audit recomputes, in terms of Linked.
LEMMA ChainsLinked ==
    ASSUME NEW S \in SUBSET Nat, NEW a
    PROVE  Chains(S, a) <=> Linked(S, a)
  <1> DEFINE Link(i) == IF \E j \in S : j < i
                        THEN prev[i] \in S /\ prev[i] < i
                             /\ \A j \in S : j < i => j <= prev[i]
                        ELSE prev[i] = a
  <1>1. ASSUME NEW i \in S, NEW B, B = {j \in S : j < i}
        PROVE  (prev[i] = IF B = {} THEN a ELSE Max(B)) <=> Link(i)
    <2>1. i \in Nat /\ B \in SUBSET Nat /\ \A y : y \in B <=> y \in S /\ y < i
      BY <1>1
    <2>2. \A y \in B : y <= i
      BY <2>1
    <2>3. CASE B = {}
      BY <2>1, <2>3
    <2>4. CASE B # {}
      <3>1. Max(B) \in B /\ \A y \in B : y <= Max(B)
        BY <2>1, <2>2, <2>4, MaxFacts
      <3>2. ASSUME Link(i) PROVE prev[i] = Max(B)
        <4>1. prev[i] \in B /\ \A y \in B : y <= prev[i]
          BY <2>1, <2>4, <3>2
        <4> QED
          BY <2>1, <4>1, MaxIs
      <3>3. ASSUME prev[i] = Max(B) PROVE Link(i)
        BY <2>1, <3>1, <3>3
      <3> QED
        BY <2>4, <3>2, <3>3
    <2> QED
      BY <2>3, <2>4
  <1>2. Chains(S, a) <=> \A i \in S : Link(i)
    BY <1>1, Zenon DEF Chains
  <1> QED
    BY <1>2 DEF Linked

\* The rows between two committed ones do not matter for a prefix of the chain.
LEMMA PrefixLinked ==
    ASSUME NEW S \in SUBSET Committed, Linked(Committed, 0),
           \A i \in S, j \in Committed : j < i => j \in S
    PROVE  Linked(S, 0)
  BY DEF Linked

-----------------------------------------------------------------------------
(* One lemma for each action *)

\* A request goes on to its audit row.
LEMMA RequestInv ==
    ASSUME AuditIInv, NEW p \in Call, Request(p)
    PROVE  AuditIInv'
  <1> USE DEF AuditIInv, Request, MoveTo, table, Committed
  <1>1. AuditTypeOK'
    BY AuditAssumption DEF AuditTypeOK, Stages
  <1>2. Linked(Committed, 0)'
    BY AuditAssumption DEF AuditTypeOK, Linked
  <1>3. NothingLost'
    BY AuditAssumption DEF AuditTypeOK, NothingLost
  <1>4. Locking'
    BY AuditAssumption DEF AuditTypeOK, Locking, IsLast
  <1>5. Newest'
    BY AuditAssumption DEF AuditTypeOK, Newest
  <1>6. Suffix'
    BY AuditAssumption DEF AuditTypeOK, Suffix
  <1>7. Gone'
    BY AuditAssumption DEF AuditTypeOK, Gone
  <1>8. Selected'
    BY AuditAssumption DEF AuditTypeOK, Selected
  <1>9. Covered'
    BY AuditAssumption DEF AuditTypeOK, Covered
  <1>10. Reports'
    BY AuditAssumption DEF AuditTypeOK, Reports, Pristine, HalfPruned
  <1> QED
    BY <1>1, <1>2, <1>3, <1>4, <1>5, <1>6, <1>7, <1>8, <1>9, <1>10

\* The lock is free, so nobody else is at the head of the chain.
LEMMA AppendLockInv ==
    ASSUME AuditIInv, NEW p \in Call, AppendLock(p)
    PROVE  AuditIInv'
  <1> USE DEF AuditIInv, AppendLock, MoveTo, table, Committed
  <1>1. AuditTypeOK'
    BY AuditAssumption DEF AuditTypeOK, Stages
  <1>2. Linked(Committed, 0)'
    BY AuditAssumption DEF AuditTypeOK, Linked
  <1>3. NothingLost'
    BY AuditAssumption DEF AuditTypeOK, NothingLost
  <1>4. Locking'
    BY AuditAssumption DEF AuditTypeOK, Locking, IsLast
  <1>5. Newest'
    BY AuditAssumption DEF AuditTypeOK, Newest
  <1>6. Suffix'
    BY AuditAssumption DEF AuditTypeOK, Suffix
  <1>7. Gone'
    BY AuditAssumption DEF AuditTypeOK, Gone
  <1>8. Selected'
    BY AuditAssumption DEF AuditTypeOK, Selected
  <1>9. Covered'
    BY AuditAssumption DEF AuditTypeOK, Covered
  <1>10. Reports'
    BY AuditAssumption DEF AuditTypeOK, Reports, Pristine, HalfPruned
  <1> QED
    BY <1>1, <1>2, <1>3, <1>4, <1>5, <1>6, <1>7, <1>8, <1>9, <1>10

\* The head that is read is the end of the chain, because it is never pruned.
LEMMA AppendHeadInv ==
    ASSUME AuditIInv, NEW p \in Call, AppendHead(p)
    PROVE  AuditIInv'
  <1> USE DEF AuditIInv, AppendHead, MoveTo, table, Committed
  <1>0. Last(live) \in Nat /\ IsLast(live, Last(live)) /\ Last(live) < nextId
    BY Bounded, LastFacts DEF AuditTypeOK, IsLast
  <1>a. IsLast(Committed, Last(live))
    <2>1. live = {} => Committed = {}
      BY DEF Newest
    <2>2. live \subseteq Committed
      BY DEF AuditTypeOK
    <2>3. ASSUME live # {}, NEW i \in Committed PROVE i <= Last(live)
      <3>1. PICK j \in live : i <= j
        BY DEF Newest
      <3>2. j <= Last(live)
        BY <1>0, <2>3 DEF IsLast
      <3>3. i \in Nat /\ j \in Nat
        BY Bounded
      <3> QED
        BY <1>0, <3>1, <3>2, <3>3
    <2> QED
      BY <1>0, <2>1, <2>2, <2>3 DEF IsLast
  <1>1. AuditTypeOK'
    BY <1>0, AuditAssumption DEF AuditTypeOK, Stages
  <1>2. Linked(Committed, 0)'
    BY AuditAssumption DEF AuditTypeOK, Linked
  <1>3. NothingLost'
    BY AuditAssumption DEF AuditTypeOK, NothingLost
  <1>4. Locking'
    BY <1>a, AuditAssumption DEF AuditTypeOK, Locking
  <1>5. Newest'
    BY AuditAssumption DEF AuditTypeOK, Newest
  <1>6. Suffix'
    BY AuditAssumption DEF AuditTypeOK, Suffix
  <1>7. Gone'
    BY <1>0 DEF AuditTypeOK, Gone
  <1>8. Selected'
    BY AuditAssumption DEF AuditTypeOK, Selected
  <1>9. Covered'
    BY AuditAssumption DEF AuditTypeOK, Covered
  <1>10. Reports'
    BY AuditAssumption DEF AuditTypeOK, Reports, Pristine, HalfPruned
  <1> QED
    BY <1>1, <1>2, <1>3, <1>4, <1>5, <1>6, <1>7, <1>8, <1>9, <1>10

\* The new row continues the last one.
LEMMA AppendInsertInv ==
    ASSUME AuditIInv, NEW p \in Call, AppendInsert(p)
    PROVE  AuditIInv'
  <1> USE DEF AuditIInv, AppendInsert, MoveTo, table, Committed
  <1>1. AuditTypeOK'
    BY AuditAssumption DEF AuditTypeOK, Stages
  <1>2. Linked(Committed, 0)'
    <2>1. IsLast(Committed, start[p]) /\ Committed' = Committed \cup {nextId}
      BY DEF AuditTypeOK, Locking
    <2>2. \A i \in Committed : i < nextId /\ prev'[i] = prev[i]
      BY Bounded DEF AuditTypeOK
    <2>3. prev'[nextId] = start[p] /\ nextId \notin Committed
      BY <2>2 DEF AuditTypeOK
    <2>4. ASSUME NEW i \in Committed
          PROVE  IF \E j \in Committed' : j < i
                 THEN /\ prev'[i] \in Committed' /\ prev'[i] < i
                      /\ \A j \in Committed' : j < i => j <= prev'[i]
                 ELSE prev'[i] = 0
      <3>1. i < nextId /\ i \in Nat /\ nextId \in Nat
        BY <2>2, Bounded DEF AuditTypeOK
      <3>2. \A j \in Committed' : j < i <=> j \in Committed /\ j < i
        BY <2>1, <3>1
      <3>3. prev'[i] = prev[i]
        BY <2>2
      <3>4. IF \E j \in Committed : j < i
            THEN prev[i] \in Committed /\ prev[i] < i
                 /\ \A j \in Committed : j < i => j <= prev[i]
            ELSE prev[i] = 0
        BY DEF Linked
      <3> HIDE DEF Committed
      <3> QED
        BY <2>1, <3>2, <3>3, <3>4
    <2>5. IF \E j \in Committed' : j < nextId
          THEN /\ prev'[nextId] \in Committed' /\ prev'[nextId] < nextId
               /\ \A j \in Committed' : j < nextId => j <= prev'[nextId]
          ELSE prev'[nextId] = 0
      <3>1. nextId \in Nat
        BY DEF AuditTypeOK
      <3> HIDE DEF Committed
      <3>2. \A j \in Committed' : j < nextId <=> j \in Committed
        BY <2>1, <2>2, <3>1
      <3> QED
        BY <2>1, <2>2, <2>3, <3>2 DEF IsLast
    <2> QED
      BY <2>1, <2>4, <2>5 DEF Linked
  <1>3. NothingLost'
    BY AuditAssumption DEF AuditTypeOK, NothingLost
  <1>4. Locking'
    BY AuditAssumption DEF AuditTypeOK, Locking, IsLast
  <1>5. Newest'
    BY AuditAssumption DEF AuditTypeOK, Newest
  <1>6. Suffix'
    BY AuditAssumption DEF AuditTypeOK, Suffix
  <1>7. Gone'
    BY AuditAssumption DEF AuditTypeOK, Gone
  <1>8. Selected'
    BY AuditAssumption DEF AuditTypeOK, Selected
  <1>9. Covered'
    BY AuditAssumption DEF AuditTypeOK, Covered
  <1>10. Reports'
    BY AuditAssumption DEF AuditTypeOK, Reports, Pristine, HalfPruned
  <1> QED
    BY <1>1, <1>2, <1>3, <1>4, <1>5, <1>6, <1>7, <1>8, <1>9, <1>10

\* An append that fails uses up an id.
LEMMA AppendFailInv ==
    ASSUME AuditIInv, NEW p \in Call, AppendFail(p)
    PROVE  AuditIInv'
  <1> USE DEF AuditIInv, AppendFail, MoveTo, table, Committed
  <1>1. AuditTypeOK'
    BY AuditAssumption DEF AuditTypeOK, Stages
  <1>2. Linked(Committed, 0)'
    BY AuditAssumption DEF AuditTypeOK, Linked
  <1>3. NothingLost'
    BY AuditAssumption DEF AuditTypeOK, NothingLost
  <1>4. Locking'
    BY AuditAssumption DEF AuditTypeOK, Locking, IsLast
  <1>5. Newest'
    BY AuditAssumption DEF AuditTypeOK, Newest
  <1>6. Suffix'
    BY AuditAssumption DEF AuditTypeOK, Suffix
  <1>7. Gone'
    BY AuditAssumption DEF AuditTypeOK, Gone
  <1>8. Selected'
    BY AuditAssumption DEF AuditTypeOK, Selected
  <1>9. Covered'
    BY AuditAssumption DEF AuditTypeOK, Covered
  <1>10. Reports'
    BY AuditAssumption DEF AuditTypeOK, Reports, Pristine, HalfPruned
  <1> QED
    BY <1>1, <1>2, <1>3, <1>4, <1>5, <1>6, <1>7, <1>8, <1>9, <1>10

\* A verification selects the whole table.
LEMMA VerifyRowsInv ==
    ASSUME AuditIInv, NEW p \in Call, VerifyRows(p)
    PROVE  AuditIInv'
  <1> USE DEF AuditIInv, VerifyRows, MoveTo, table, Committed
  <1>1. AuditTypeOK'
    BY AuditAssumption DEF AuditTypeOK, Stages
  <1>2. Linked(Committed, 0)'
    BY AuditAssumption DEF AuditTypeOK, Linked
  <1>3. NothingLost'
    BY AuditAssumption DEF AuditTypeOK, NothingLost
  <1>4. Locking'
    BY AuditAssumption DEF AuditTypeOK, Locking, IsLast
  <1>5. Newest'
    BY AuditAssumption DEF AuditTypeOK, Newest
  <1>6. Suffix'
    BY AuditAssumption DEF AuditTypeOK, Suffix
  <1>7. Gone'
    BY AuditAssumption DEF AuditTypeOK, Gone
  <1>8. Selected'
    BY AuditAssumption DEF AuditTypeOK, Selected
  <1>9. Covered'
    BY AuditAssumption DEF AuditTypeOK, Covered
  <1>10. Reports'
    <2> SUFFICES ASSUME Pristine' PROVE Pristine /\ live = Committed
      BY DEF AuditTypeOK, Reports
    <2>1. Pristine
      BY DEF AuditTypeOK, Pristine, HalfPruned
    <2> QED
      BY <2>1 DEF AuditTypeOK, Covered, Pristine, HalfPruned
  <1> QED
    BY <1>1, <1>2, <1>3, <1>4, <1>5, <1>6, <1>7, <1>8, <1>9, <1>10

\* A prefix of the chain verifies from the genesis value.
LEMMA VerifyChainInv ==
    ASSUME AuditIInv, NEW p \in Call, VerifyChain(p)
    PROVE  AuditIInv'
  <1> USE DEF AuditIInv, VerifyChain, MoveTo, table, Committed
  <1>1. AuditTypeOK'
    BY AuditAssumption DEF AuditTypeOK, Stages
  <1>2. Linked(Committed, 0)'
    BY AuditAssumption DEF AuditTypeOK, Linked
  <1>3. NothingLost'
    BY AuditAssumption DEF AuditTypeOK, NothingLost
  <1>4. Locking'
    BY AuditAssumption DEF AuditTypeOK, Locking, IsLast
  <1>5. Newest'
    BY AuditAssumption DEF AuditTypeOK, Newest
  <1>6. Suffix'
    BY AuditAssumption DEF AuditTypeOK, Suffix
  <1>7. Gone'
    BY AuditAssumption DEF AuditTypeOK, Gone
  <1>8. Selected'
    BY AuditAssumption DEF AuditTypeOK, Selected
  <1>9. Covered'
    BY AuditAssumption DEF AuditTypeOK, Covered
  <1>10. Reports'
    <2> SUFFICES ASSUME Pristine' PROVE Pristine /\ Chains(sel[p], LatestAnchor)
      BY DEF AuditTypeOK, Reports
    <2>1. Pristine
      BY DEF AuditTypeOK, Pristine, HalfPruned
    <2>2. LatestAnchor = 0
      BY <2>1 DEF Pristine, LatestAnchor, Last
    <2>3. sel[p] \in SUBSET Committed
      BY DEF AuditTypeOK
    <2>4. Linked(sel[p], 0)
      BY <2>1, <2>3, PrefixLinked DEF Reports
    <2> QED
      BY <2>1, <2>2, <2>4, ChainsLinked, Bounded
  <1> QED
    BY <1>1, <1>2, <1>3, <1>4, <1>5, <1>6, <1>7, <1>8, <1>9, <1>10

\* An archival starts from an anchor, below which no row is left.
LEMMA ArchiveAnchorInv ==
    ASSUME AuditIInv, NEW p \in Call, ArchiveAnchor(p)
    PROVE  AuditIInv'
  <1> USE DEF AuditIInv, ArchiveAnchor, MoveTo, table, Committed
  <1>0. LatestAnchor \in Nat /\ IsLast(anchors, LatestAnchor) /\ LatestAnchor < nextId
    BY Bounded, LastFacts DEF AuditTypeOK, IsLast, LatestAnchor
  <1>1. AuditTypeOK'
    BY <1>0 DEF AuditTypeOK, Stages
  <1>2. Linked(Committed, 0)'
    BY AuditAssumption DEF AuditTypeOK, Linked
  <1>3. NothingLost'
    BY AuditAssumption DEF AuditTypeOK, NothingLost
  <1>4. Locking'
    BY AuditAssumption DEF AuditTypeOK, Locking, IsLast
  <1>5. Newest'
    BY AuditAssumption DEF AuditTypeOK, Newest
  <1>6. Suffix'
    BY AuditAssumption DEF AuditTypeOK, Suffix
  <1>7. Gone'
    BY <1>0, Bounded DEF AuditTypeOK, Gone, IsLast
  <1>8. Selected'
    BY AuditAssumption DEF AuditTypeOK, Selected
  <1>9. Covered'
    BY AuditAssumption DEF AuditTypeOK, Covered
  <1>10. Reports'
    BY AuditAssumption DEF AuditTypeOK, Reports, Pristine, HalfPruned
  <1> QED
    BY <1>1, <1>2, <1>3, <1>4, <1>5, <1>6, <1>7, <1>8, <1>9, <1>10

\* An archival selects the oldest rows and leaves the newest.
LEMMA ArchiveSelectInv ==
    ASSUME AuditIInv, NEW p \in Call, ArchiveSelect(p)
    PROVE  AuditIInv'
  <1> USE DEF AuditIInv, ArchiveSelect, MoveTo, table, Committed
  <1> DEFINE S == {i \in live : i > start[p]}
  <1>0. S = live
    BY Bounded DEF AuditTypeOK, Gone
  <1>a. \/ /\ stage' = [stage EXCEPT ![p] = "file"]
           /\ \E T \in Cutoffs(S) \ {{}} : sel' = [sel EXCEPT ![p] = T]
        \/ stage' = [stage EXCEPT ![p] = "refused"] /\ sel' = sel
    BY Zenon
  <1> HIDE DEF ArchiveSelect
  <1>b. UNCHANGED <<live, prev, nextId, anchors, archives, lock, start>> /\ stage[p] = "select"
    BY DEF ArchiveSelect
  <1>c. \A T \in Cutoffs(S) \ {{}} :
            /\ T \subseteq live /\ T # {}
            /\ \E j \in Committed : \A i \in T : i < j
            /\ \A i \in live, j \in T : i <= j => i \in T
    <2> SUFFICES ASSUME NEW T \in Cutoffs(live) \ {{}}
                 PROVE  /\ T \subseteq live /\ T # {}
                        /\ \E j \in Committed : \A i \in T : i < j
                        /\ \A i \in live, j \in T : i <= j => i \in T
      BY <1>0
    <2>1. /\ T \subseteq live /\ T # {} /\ Max(live) \notin T
          /\ \A i \in T, j \in live : j < i => j \in T
      BY DEF Cutoffs
    <2>2. Max(live) \in live /\ \A y \in live : y <= Max(live)
      BY <2>1, Bounded, MaxFacts
    <2>3. \A i \in T : i < Max(live)
      BY <2>1, <2>2, Bounded
    <2> QED
      BY <2>1, <2>2, <2>3, Bounded DEF AuditTypeOK
  <1> HIDE DEF S
  <1>1. AuditTypeOK'
    BY <1>a, <1>b, <1>c DEF AuditTypeOK, Stages
  <1>2. Linked(Committed, 0)'
    BY <1>a, <1>b DEF AuditTypeOK, Linked
  <1>3. NothingLost'
    BY <1>a, <1>b DEF AuditTypeOK, NothingLost
  <1>4. Locking'
    BY <1>a, <1>b DEF AuditTypeOK, Locking, IsLast
  <1>5. Newest'
    BY <1>a, <1>b DEF AuditTypeOK, Newest
  <1>6. Suffix'
    BY <1>a, <1>b DEF AuditTypeOK, Suffix
  <1>7. Gone'
    BY <1>a, <1>b DEF AuditTypeOK, Gone
  <1>8. Selected'
    <2>1. CASE stage' = [stage EXCEPT ![p] = "refused"] /\ sel' = sel
      BY <1>b, <2>1 DEF AuditTypeOK, Selected
    <2>2. CASE stage' = [stage EXCEPT ![p] = "file"] /\ sel' # sel
      <3>1. PICK T \in Cutoffs(S) \ {{}} : sel' = [sel EXCEPT ![p] = T]
        BY <1>a, <2>2
      <3> QED
        BY <1>b, <1>c, <2>2, <3>1 DEF AuditTypeOK, Selected
    <2>3. CASE stage' = [stage EXCEPT ![p] = "file"] /\ sel' = sel
      <3>1. PICK T \in Cutoffs(S) \ {{}} : sel' = [sel EXCEPT ![p] = T]
        BY <1>a, <2>3 DEF AuditTypeOK
      <3> QED
        BY <1>b, <1>c, <2>3, <3>1 DEF AuditTypeOK, Selected
    <2> QED
      BY <1>a, <2>1, <2>2, <2>3
  <1>9. Covered'
    BY <1>a, <1>b DEF AuditTypeOK, Covered
  <1>10. Reports'
    BY <1>a, <1>b DEF AuditTypeOK, Reports, Pristine, HalfPruned
  <1> QED
    BY <1>1, <1>2, <1>3, <1>4, <1>5, <1>6, <1>7, <1>8, <1>9, <1>10

\* The selection is written to a file before anything is deleted.
LEMMA ArchiveFileInv ==
    ASSUME AuditIInv, NEW p \in Call, ArchiveFile(p)
    PROVE  AuditIInv'
  <1> USE DEF AuditIInv, ArchiveFile, MoveTo, table, Committed
  <1>1. AuditTypeOK'
    BY AuditAssumption DEF AuditTypeOK, Stages
  <1>2. Linked(Committed, 0)'
    BY AuditAssumption DEF AuditTypeOK, Linked
  <1>3. NothingLost'
    BY AuditAssumption DEF AuditTypeOK, NothingLost
  <1>4. Locking'
    BY AuditAssumption DEF AuditTypeOK, Locking, IsLast
  <1>5. Newest'
    BY AuditAssumption DEF AuditTypeOK, Newest
  <1>6. Suffix'
    BY AuditAssumption DEF AuditTypeOK, Suffix
  <1>7. Gone'
    BY AuditAssumption DEF AuditTypeOK, Gone
  <1>8. Selected'
    BY AuditAssumption DEF AuditTypeOK, Selected
  <1>9. Covered'
    BY AuditAssumption DEF AuditTypeOK, Covered
  <1>10. Reports'
    BY AuditAssumption DEF AuditTypeOK, Reports, Pristine, HalfPruned
  <1> QED
    BY <1>1, <1>2, <1>3, <1>4, <1>5, <1>6, <1>7, <1>8, <1>9, <1>10

\* A prune deletes what its file holds, and not the head.
LEMMA PruneDeleteInv ==
    ASSUME AuditIInv, NEW p \in Call, PruneDelete(p)
    PROVE  AuditIInv'
  <1> USE DEF AuditIInv, PruneDelete, MoveTo, table, Committed
  <1>0. Max(sel[p]) \in sel[p] /\ \A i \in sel[p] : i <= Max(sel[p])
    BY Bounded, MaxFacts DEF Selected
  <1>a. /\ live' \subseteq live
        /\ \A i \in live : i \in live' <=> Max(sel[p]) < i
    BY <1>0, Bounded DEF AuditTypeOK, Gone
  <1>b. stage' = [stage EXCEPT ![p] = "anchor"] /\ stage[p] = "delete"
    OBVIOUS
  <1>c. UNCHANGED <<prev, nextId, anchors, archives, lock, start, sel>>
    OBVIOUS
  <1>d. \A i \in live \ live' : i \in sel[p]
    BY <1>0, <1>a, Bounded DEF Selected
  <1>e. PICK h \in Committed : \A i \in sel[p] : i < h
    BY DEF Selected
  <1> HIDE DEF PruneDelete
  <1>1. AuditTypeOK'
    BY <1>a, <1>b, <1>c DEF AuditTypeOK, Stages
  <1>2. Linked(Committed, 0)'
    BY <1>a, <1>b, <1>c DEF AuditTypeOK, Linked
  <1>3. NothingLost'
    BY <1>a, <1>b, <1>c, <1>d DEF NothingLost, Selected
  <1>4. Locking'
    BY <1>a, <1>b, <1>c DEF AuditTypeOK, Locking, IsLast
  <1>5. Newest'
    <2>1. PICK m \in live : h <= m
      BY DEF Newest
    <2>2. m \in live'
      BY <1>0, <1>a, <1>e, <2>1, Bounded
    <2> SUFFICES ASSUME NEW i \in Committed PROVE \E j \in live' : i <= j
      BY <1>c DEF Newest
    <2>3. PICK j \in live : i <= j
      BY DEF Newest
    <2>4. CASE j <= Max(sel[p])
      BY <1>0, <1>e, <2>1, <2>2, <2>3, <2>4, Bounded
    <2>5. CASE Max(sel[p]) < j
      BY <1>a, <2>3, <2>5
    <2> QED
      BY <1>0, <2>3, <2>4, <2>5, Bounded
  <1>6. Suffix'
    BY <1>0, <1>a, <1>c, Bounded DEF Suffix
  <1>7. Gone'
    BY <1>0, <1>a, <1>b, <1>c, Bounded DEF AuditTypeOK, Gone
  <1>8. Selected'
    BY <1>a, <1>b, <1>c DEF AuditTypeOK, Selected
  <1>9. Covered'
    <2> SUFFICES ASSUME NEW i \in Committed, i \notin live'
                 PROVE  \/ \E a \in anchors : i <= a
                        \/ \E q \in Call : /\ stage'[q] \in {"anchor", "cut"}
                                           /\ \E j \in sel[q] : i <= j
      BY <1>c DEF Covered
    <2>1. CASE i \in live
      BY <1>b, <1>d, <2>1, Bounded DEF AuditTypeOK
    <2>2. CASE i \notin live
      BY <1>b, <2>2 DEF AuditTypeOK, Covered
    <2> QED
      BY <2>1, <2>2
  <1>10. Reports'
    BY <1>a, <1>b, <1>c DEF AuditTypeOK, Reports, Pristine, HalfPruned
  <1> QED
    BY <1>1, <1>2, <1>3, <1>4, <1>5, <1>6, <1>7, <1>8, <1>9, <1>10

\* The anchor stands for everything up to the end of the selection.
LEMMA PruneAnchorInv ==
    ASSUME AuditIInv, NEW p \in Call, PruneAnchor(p)
    PROVE  AuditIInv'
  <1> USE DEF AuditIInv, PruneAnchor, MoveTo, table, Committed
  <1>0. Max(sel[p]) \in sel[p] /\ \A i \in sel[p] : i <= Max(sel[p])
    BY Bounded, MaxFacts DEF Selected
  <1>a. Max(sel[p]) \in Committed /\ Max(sel[p]) \in Nat
    BY <1>0, Bounded DEF AuditTypeOK
  <1>1. AuditTypeOK'
    BY <1>a DEF AuditTypeOK, Stages
  <1>2. Linked(Committed, 0)'
    BY AuditAssumption DEF AuditTypeOK, Linked
  <1>3. NothingLost'
    BY AuditAssumption DEF AuditTypeOK, NothingLost
  <1>4. Locking'
    BY AuditAssumption DEF AuditTypeOK, Locking, IsLast
  <1>5. Newest'
    BY AuditAssumption DEF AuditTypeOK, Newest
  <1>6. Suffix'
    BY AuditAssumption DEF AuditTypeOK, Suffix
  <1>7. Gone'
    BY <1>0 DEF AuditTypeOK, Gone
  <1>8. Selected'
    BY AuditAssumption DEF AuditTypeOK, Selected
  <1>9. Covered'
    <2> SUFFICES ASSUME NEW i \in Committed, i \notin live
                 PROVE  \/ \E a \in anchors' : i <= a
                        \/ \E q \in Call : /\ stage'[q] \in {"anchor", "cut"}
                                           /\ \E j \in sel[q] : i <= j
      BY DEF Covered
    <2>1. CASE \E a \in anchors : i <= a
      BY <2>1
    <2>2. ASSUME NEW q \in Call, stage[q] \in {"anchor", "cut"},
                 NEW j \in sel[q], i <= j
          PROVE  \/ \E a \in anchors' : i <= a
                 \/ stage'[q] \in {"anchor", "cut"}
      <3>1. CASE q = p
        <4>1. i <= Max(sel[p])
          BY <1>0, <1>a, <2>2, <3>1, Bounded
        <4> QED
          BY <4>1
      <3>2. CASE q # p
        BY <2>2, <3>2 DEF AuditTypeOK
      <3> QED
        BY <3>1, <3>2
    <2> QED
      BY <2>1, <2>2 DEF Covered
  <1>10. Reports'
    BY AuditAssumption DEF AuditTypeOK, Reports, Pristine, HalfPruned
  <1> QED
    BY <1>1, <1>2, <1>3, <1>4, <1>5, <1>6, <1>7, <1>8, <1>9, <1>10

\* A call that is cut off gives up the lock; a prune leaves its mark.
LEMMA CutOffInv ==
    ASSUME AuditIInv, NEW p \in Call, CutOff(p)
    PROVE  AuditIInv'
  <1> USE DEF AuditIInv, CutOff, MoveTo, table, Committed
  <1>0. \A q \in Call : stage[q] \in {"anchor", "cut"} => stage'[q] \in {"anchor", "cut"}
    BY DEF AuditTypeOK, Ended
  <1>1. AuditTypeOK'
    BY AuditAssumption DEF AuditTypeOK, Stages
  <1>2. Linked(Committed, 0)'
    BY AuditAssumption DEF AuditTypeOK, Linked
  <1>3. NothingLost'
    BY AuditAssumption DEF AuditTypeOK, NothingLost
  <1>4. Locking'
    BY AuditAssumption DEF AuditTypeOK, Locking, IsLast
  <1>5. Newest'
    BY AuditAssumption DEF AuditTypeOK, Newest
  <1>6. Suffix'
    BY AuditAssumption DEF AuditTypeOK, Suffix
  <1>7. Gone'
    BY AuditAssumption DEF AuditTypeOK, Gone
  <1>8. Selected'
    BY AuditAssumption DEF AuditTypeOK, Selected
  <1>9. Covered'
    BY <1>0 DEF Covered
  <1>10. Reports'
    <2>1. Pristine' => Pristine
      BY <1>0 DEF Pristine, HalfPruned
    <2> QED
      BY <2>1 DEF AuditTypeOK, Reports
  <1> QED
    BY <1>1, <1>2, <1>3, <1>4, <1>5, <1>6, <1>7, <1>8, <1>9, <1>10

-----------------------------------------------------------------------------
(* The invariant, and what it implies *)

\* A log of n rows, none of them archived, satisfies the invariant.
LEMMA AuditInitIInv == AuditInit => AuditIInv
  <1> SUFFICES ASSUME AuditInit PROVE AuditIInv
    OBVIOUS
  <1>1. PICK n \in 0..MaxRows : /\ live = 1..n /\ prev = [i \in 1..n |-> i - 1]
                                /\ nextId = n + 1
    BY DEF AuditInit
  <1>2. /\ n \in Nat /\ Committed = 1..n /\ anchors = {} /\ archives = {} /\ lock = NoCall
        /\ stage = [p \in Call |-> "idle"] /\ start = [p \in Call |-> 0]
        /\ sel = [p \in Call |-> {}]
    BY <1>1, AuditAssumption DEF AuditInit, Committed
  <1>3. AuditTypeOK
    BY <1>1, <1>2 DEF AuditTypeOK, Stages
  <1>4. Linked(Committed, 0)
    <2>1. ASSUME NEW i \in 1..n
          PROVE  IF \E j \in 1..n : j < i
                 THEN prev[i] \in 1..n /\ prev[i] < i /\ \A j \in 1..n : j < i => j <= prev[i]
                 ELSE prev[i] = 0
      <3>1. prev[i] = i - 1 /\ i \in Nat /\ 1 <= i /\ i <= n
        BY <1>1, <1>2
      <3>2. CASE i = 1
        BY <3>1, <3>2
      <3>3. CASE i # 1
        BY <1>2, <3>1, <3>3
      <3> QED
        BY <3>2, <3>3
    <2> QED
      BY <1>2, <2>1 DEF Linked
  <1>5. NothingLost /\ Newest /\ Suffix /\ Covered
    BY <1>1, <1>2 DEF NothingLost, Newest, Suffix, Covered
  <1>6. Locking /\ Selected /\ Reports
    BY <1>2 DEF Locking, Selected, Reports
  <1>7. Gone
    BY <1>1, <1>2 DEF Gone
  <1> QED
    BY <1>3, <1>4, <1>5, <1>6, <1>7 DEF AuditIInv

\* Every step of every call keeps the invariant.
LEMMA AuditNextIInv == AuditIInv /\ [AuditNext]_auditVars => AuditIInv'
  <1> SUFFICES ASSUME AuditIInv, [AuditNext]_auditVars PROVE AuditIInv'
    OBVIOUS
  <1>1. ASSUME NEW p \in Call, CallStep(p) \/ CutOff(p) PROVE AuditIInv'
    BY <1>1, RequestInv, AppendLockInv, AppendHeadInv, AppendInsertInv, AppendFailInv,
       VerifyRowsInv, VerifyChainInv, ArchiveAnchorInv, ArchiveSelectInv, ArchiveFileInv,
       PruneDeleteInv, PruneAnchorInv, CutOffInv DEF CallStep, Audit, Verify, Archive
  <1>2. CASE UNCHANGED auditVars
    BY <1>2 DEF auditVars, AuditIInv, AuditTypeOK, Linked, NothingLost, Locking, Newest, Suffix, Gone,
       Selected, Covered, Reports, Pristine, HalfPruned, Committed
  <1> QED
    BY <1>1, <1>2 DEF AuditNext, Terminated

\* AuditIInv holds in every reachable state of the log.
THEOREM AuditInvariance == AuditSpec => []AuditIInv
  BY AuditInitIInv, AuditNextIInv, PTL DEF AuditSpec

\* The rows ever committed form one chain: appends that race for the advisory
\* lock, archivals and aborted calls never fork it or leave a gap (audit of
\* auth.rs).
THEOREM ChainSafety == AuditSpec => []OneChain
  <1>1. AuditIInv => OneChain
    BY ChainsLinked, Bounded DEF AuditIInv, OneChain
  <1> QED
    BY <1>1, AuditInvariance, PTL

\* audit_archive_create takes no row away that something still needs, however
\* many archivals prune at once and wherever they are cut off.
THEOREM PruneSafety == AuditSpec => []PruneKeeps
  <1>1. ASSUME AuditIInv, Committed # {} PROVE Max(Committed) \in live
    <2>1. Max(Committed) \in Committed /\ \A y \in Committed : y <= Max(Committed)
      BY <1>1, Bounded, MaxFacts DEF AuditIInv
    <2>2. PICK j \in live : Max(Committed) <= j
      BY <1>1, <2>1 DEF AuditIInv, Newest
    <2>3. j \in Committed /\ j \in Nat /\ Max(Committed) \in Nat
      BY <1>1, <2>1, Bounded DEF AuditIInv, AuditTypeOK
    <2>4. j = Max(Committed)
      BY <2>1, <2>2, <2>3
    <2> QED
      BY <2>4
  <1>2. AuditIInv => PruneKeeps
    BY <1>1 DEF AuditIInv, PruneKeeps, HeadKept
  <1> QED
    BY <1>2, AuditInvariance, PTL

\* The first row of the table continues the latest anchor, a later one the row
\* before it.
LEMMA TableLinked ==
    ASSUME AuditIInv, ~HalfPruned
    PROVE  Linked(live, LatestAnchor)
  <1> DEFINE A == LatestAnchor
  <1>1. IsLast(anchors, A)
    BY Bounded, LastFacts DEF AuditIInv, LatestAnchor
  <1>2. live \subseteq Committed /\ anchors \subseteq Committed /\ \A i \in Committed : i \in Nat
    BY Bounded DEF AuditIInv, AuditTypeOK
  <1> HIDE DEF A
  <1> SUFFICES ASSUME NEW i \in live
               PROVE  IF \E j \in live : j < i
                      THEN prev[i] \in live /\ prev[i] < i
                           /\ \A j \in live : j < i => j <= prev[i]
                      ELSE prev[i] = A
    BY DEF Linked, A
  <1>3. i \in Committed /\ i \in Nat
    BY <1>2
  <1>4. IF \E j \in Committed : j < i
        THEN prev[i] \in Committed /\ prev[i] < i
             /\ \A j \in Committed : j < i => j <= prev[i]
        ELSE prev[i] = 0
    BY <1>3 DEF AuditIInv, Linked
  <1>5. ASSUME NEW j \in live, j < i
        PROVE  prev[i] \in live /\ prev[i] < i /\ \A k \in live : k < i => k <= prev[i]
    <2>1. /\ prev[i] \in Committed /\ prev[i] < i
          /\ \A k \in Committed : k < i => k <= prev[i]
      BY <1>2, <1>4, <1>5
    <2>2. CASE j = prev[i]
      BY <1>2, <2>1, <2>2
    <2>3. CASE j < prev[i]
      BY <1>2, <2>1, <2>3 DEF AuditIInv, Suffix
    <2> QED
      BY <1>2, <1>5, <2>1, <2>2, <2>3
  <1>6. ASSUME \A j \in live : ~(j < i) PROVE prev[i] = A
    <2>1. \A a \in anchors : a < i /\ a \in Committed
      BY <1>2 DEF AuditIInv, Gone
    <2>2. CASE \A j \in Committed : ~(j < i)
      BY <1>1, <1>4, <2>1, <2>2 DEF IsLast
    <2>3. CASE \E j \in Committed : j < i
      <3>1. /\ prev[i] \in Committed \ live
            /\ \A a \in anchors : a <= prev[i]
        BY <1>4, <1>6, <2>1, <2>3
      <3>2. PICK a \in anchors : prev[i] <= a
        BY <3>1 DEF AuditIInv, Covered, HalfPruned
      <3>3. A \in anchors /\ a <= A /\ A <= prev[i]
        BY <1>1, <3>1, <3>2 DEF IsLast
      <3>4. prev[i] \in Nat /\ a \in Nat /\ A \in Nat
        BY <1>2, <3>1, <3>2, <3>3
      <3> QED
        BY <3>2, <3>3, <3>4
    <2> QED
      BY <2>2, <2>3
  <1> QED
    BY <1>5, <1>6

\* An honest log verifies, at rest and while it is being verified, unless a
\* prune was cut between its DELETE and the INSERT of its anchor
\* (verify_audit of server.rs).
THEOREM VerifySafety == AuditSpec => []VerifiesHonest
  <1>1. AuditIInv => Verifiable
    BY TableLinked, ChainsLinked, Bounded DEF AuditIInv, Verifiable
  <1>2. AuditIInv => NoFalseAlarm
    BY DEF AuditIInv, Reports, Pristine, NoFalseAlarm
  <1> QED
    BY <1>1, <1>2, AuditInvariance, PTL DEF VerifiesHonest
-----------------------------------------------------------------------------
(* The streams: queues *)

\* The first element of a queue and the rest of it.
LEMMA TailFacts ==
    ASSUME NEW S, NEW q \in Seq(S), q # <<>>
    PROVE  /\ Tail(q) \in Seq(S) /\ Len(q) \in Nat /\ Len(q) > 0
           /\ Len(Tail(q)) = Len(q) - 1
           /\ \A i \in 1..(Len(q) - 1) : Tail(q)[i] = q[i + 1]
           /\ Head(q) = q[1] /\ q[1] \in S
  OBVIOUS

\* A queue with one more element at its end.
LEMMA AppendFacts ==
    ASSUME NEW S, NEW q \in Seq(S), NEW e \in S
    PROVE  /\ Append(q, e) \in Seq(S) /\ Len(q) \in Nat
           /\ Len(Append(q, e)) = Len(q) + 1
           /\ \A i \in 1..Len(q) : Append(q, e)[i] = q[i]
           /\ Append(q, e)[Len(q) + 1] = e
  OBVIOUS

\* The queue m holds, in increasing order, exactly the members of T that are
\* above a and not above b; zeros stand for what is not of interest.
Carries(m, T, a, b) ==
    /\ \A i \in 1..Len(m) : m[i] # 0 => m[i] \in T /\ a < m[i] /\ m[i] <= b
    /\ \A i, j \in 1..Len(m) : i < j /\ m[i] # 0 /\ m[j] # 0 => m[i] < m[j]
    /\ \A t \in T : a < t /\ t <= b => \E i \in 1..Len(m) : m[i] = t

\* An empty queue carries nothing.
LEMMA CarriesNothing ==
    ASSUME NEW T, NEW a, NEW b, \A t \in T : ~(a < t /\ t <= b)
    PROVE  Carries(<<>>, T, a, b)
  BY DEF Carries

\* A zero at the head is taken away.
LEMMA CarriesSkip ==
    ASSUME NEW m \in Seq(Nat), NEW T \in SUBSET Nat, NEW a \in Nat, NEW b \in Nat,
           m # <<>>, Head(m) = 0, 0 \notin T, Carries(m, T, a, b)
    PROVE  Carries(Tail(m), T, a, b)
<1>1. /\ Len(m) \in Nat /\ Len(m) > 0 /\ Len(Tail(m)) = Len(m) - 1
      /\ \A i \in 1..(Len(m) - 1) : Tail(m)[i] = m[i + 1]
      /\ m[1] = 0
  BY TailFacts
<1>2. \A i \in 1..Len(Tail(m)) : i + 1 \in 1..Len(m)
  BY <1>1
<1>3. \A t \in T : a < t /\ t <= b => \E i \in 1..Len(Tail(m)) : Tail(m)[i] = t
  <2> SUFFICES ASSUME NEW t \in T, a < t, t <= b
               PROVE  \E i \in 1..Len(Tail(m)) : Tail(m)[i] = t
    OBVIOUS
  <2>1. PICK i \in 1..Len(m) : m[i] = t
    BY DEF Carries
  <2>2. i # 1
    BY <2>1, <1>1
  <2>3. i - 1 \in 1..Len(Tail(m)) /\ Tail(m)[i - 1] = t
    BY <2>1, <2>2, <1>1
  <2> QED BY <2>3
<1>4. \A i \in 1..Len(Tail(m)) : Tail(m)[i] = m[i + 1]
  BY <1>1
<1> QED BY <1>2, <1>3, <1>4, <1>1 DEF Carries

\* The head is the least of what the queue carries; the rest is carried by the
\* tail.
LEMMA CarriesTake ==
    ASSUME NEW m \in Seq(Nat), NEW T \in SUBSET Nat, NEW a \in Nat, NEW b \in Nat,
           m # <<>>, Head(m) # 0, Carries(m, T, a, b)
    PROVE  /\ Head(m) \in T /\ a < Head(m) /\ Head(m) <= b
           /\ \A t \in T : a < t /\ t <= b => Head(m) <= t
           /\ Carries(Tail(m), T, Head(m), b)
<1>1. /\ Len(m) \in Nat /\ Len(m) > 0 /\ Len(Tail(m)) = Len(m) - 1
      /\ \A i \in 1..(Len(m) - 1) : Tail(m)[i] = m[i + 1]
      /\ Head(m) = m[1] /\ m[1] \in Nat
  BY TailFacts
<1>2. Head(m) \in T /\ a < Head(m) /\ Head(m) <= b
  BY <1>1 DEF Carries
<1>3. \A i \in 1..Len(m) : m[i] \in Nat
  OBVIOUS
<1>4. ASSUME NEW t \in T, a < t, t <= b
      PROVE  Head(m) <= t /\ (Head(m) < t => \E i \in 1..Len(Tail(m)) : Tail(m)[i] = t)
  <2>1. PICK i \in 1..Len(m) : m[i] = t
    BY <1>4 DEF Carries
  <2>2. i = 1 => Head(m) = t
    BY <2>1, <1>1
  <2>3. t \in Nat /\ t # 0
    BY <1>4
  <2>4. i # 1 => Head(m) < t
    BY <2>1, <2>3, <1>1 DEF Carries
  <2>5. CASE i = 1
    BY <2>2, <2>3, <2>5
  <2>6. CASE i # 1
    <3>1. i - 1 \in 1..Len(Tail(m)) /\ Tail(m)[i - 1] = t
      BY <2>1, <2>6, <1>1
    <3>2. Head(m) <= t
      BY <2>3, <2>4, <2>6, <1>1
    <3> QED BY <3>1, <3>2
  <2> QED BY <2>5, <2>6
<1>5. \A i \in 1..Len(Tail(m)) : Tail(m)[i] = m[i + 1] /\ i + 1 \in 1..Len(m)
  BY <1>1
<1>6. \A i \in 1..Len(Tail(m)) : Tail(m)[i] # 0 =>
         Tail(m)[i] \in T /\ Head(m) < Tail(m)[i] /\ Tail(m)[i] <= b
  BY <1>1, <1>5 DEF Carries
<1>7. \A i, j \in 1..Len(Tail(m)) : i < j /\ Tail(m)[i] # 0 /\ Tail(m)[j] # 0
         => Tail(m)[i] < Tail(m)[j]
  BY <1>1, <1>5 DEF Carries
<1>8. \A t \in T : Head(m) < t /\ t <= b => \E i \in 1..Len(Tail(m)) : Tail(m)[i] = t
  BY <1>2, <1>4, <1>1
<1>9. Carries(Tail(m), T, Head(m), b)
  BY <1>6, <1>7, <1>8 DEF Carries
<1> QED BY <1>2, <1>4, <1>9

\* A zero at the end.
LEMMA CarriesPad ==
    ASSUME NEW m \in Seq(Nat), NEW T \in SUBSET Nat, NEW a \in Nat, NEW b \in Nat,
           Carries(m, T, a, b)
    PROVE  Carries(Append(m, 0), T, a, b)
<1>1. /\ Len(m) \in Nat /\ Len(Append(m, 0)) = Len(m) + 1
      /\ \A i \in 1..Len(m) : Append(m, 0)[i] = m[i]
      /\ Append(m, 0)[Len(m) + 1] = 0
  BY AppendFacts
<1>2. \A i \in 1..Len(Append(m, 0)) : i \in 1..Len(m) \/ Append(m, 0)[i] = 0
  BY <1>1
<1>3. \A t \in T : a < t /\ t <= b => \E i \in 1..Len(Append(m, 0)) : Append(m, 0)[i] = t
  BY <1>1 DEF Carries
<1> QED BY <1>1, <1>2, <1>3 DEF Carries

\* The next member of T at the end.
LEMMA CarriesPut ==
    ASSUME NEW m \in Seq(Nat), NEW T \in SUBSET Nat, NEW a \in Nat, NEW b \in Nat,
           NEW t \in T, t # 0, a < t, b < t, \A u \in T : b < u => t <= u, Carries(m, T, a, b)
    PROVE  Carries(Append(m, t), T, a, t)
<1>1. /\ Len(m) \in Nat /\ Len(Append(m, t)) = Len(m) + 1
      /\ \A i \in 1..Len(m) : Append(m, t)[i] = m[i]
      /\ Append(m, t)[Len(m) + 1] = t
  BY AppendFacts
<1>2. \A i \in 1..Len(Append(m, t)) : i \in 1..Len(m) \/ i = Len(m) + 1
  BY <1>1
<1>3. \A i \in 1..Len(m) : m[i] \in Nat
  OBVIOUS
<1>4. ASSUME NEW u \in T, a < u, u <= t
      PROVE  \E i \in 1..Len(Append(m, t)) : Append(m, t)[i] = u
  <2>1. CASE b < u
    <3>1. u = t
      BY <2>1, <1>4
    <3> QED BY <3>1, <1>1
  <2>2. CASE u <= b
    <3>1. PICK i \in 1..Len(m) : m[i] = u
      BY <2>2, <1>4 DEF Carries
    <3> QED BY <3>1, <1>1
  <2> QED BY <2>1, <2>2
<1>5. \A i \in 1..Len(Append(m, t)) : Append(m, t)[i] # 0 =>
         Append(m, t)[i] \in T /\ a < Append(m, t)[i] /\ Append(m, t)[i] <= t
  BY <1>1, <1>2, <1>3 DEF Carries
<1>6. \A i, j \in 1..Len(Append(m, t)) : i < j /\ Append(m, t)[i] # 0 /\ Append(m, t)[j] # 0
         => Append(m, t)[i] < Append(m, t)[j]
  BY <1>1, <1>2, <1>3 DEF Carries
<1> QED BY <1>4, <1>5, <1>6 DEF Carries

\* More members of T, all of them above b.
LEMMA CarriesGrow ==
    ASSUME NEW m \in Seq(Nat), NEW T \in SUBSET Nat, NEW U \in SUBSET Nat,
           NEW a \in Nat, NEW b \in Nat,
           T \subseteq U, \A t \in U \ T : b < t, Carries(m, T, a, b)
    PROVE  Carries(m, U, a, b)
<1>1. \A t \in U : t <= b => t \in T
  OBVIOUS
<1> QED BY <1>1 DEF Carries

-----------------------------------------------------------------------------
(* Marks: the frames of one stream and one direction, numbered in the order *)
(* in which they are sent. *)

Top == MaxChunks + 3

\* OPEN is the first, then the chunks, CLOSE is the last; 0 is another stream.
Mark(f, s) ==
    IF f.s # s THEN 0
    ELSE IF f.kind = "open" THEN 1
    ELSE IF f.kind = "data" THEN f.n + 2 ELSE Top
CmdMark(c, s) == IF c.do = "send" THEN Mark(c.f, s) ELSE 0
Marks(q, s) == [i \in 1..Len(q) |-> Mark(q[i], s)]
CmdMarks(q, s) == [i \in 1..Len(q) |-> CmdMark(q[i], s)]

\* The marks side o has queued for stream s so far, and a bound on them.
SentMarks(o, s) ==
    {t \in 1..Top : \/ t = 1 /\ o = "listener" /\ pump[o][s] # "none"
                    \/ 3 <= t /\ t <= said[o][s] + 2
                    \/ t = Top /\ ended[o][s]}
LastMark(o, s) ==
    IF ended[o][s] THEN Top
    ELSE IF o = "listener" /\ pump[o][s] = "none" THEN 0 ELSE said[o][s] + 2

\* Marks are numbers up to Top.
LEMMA MarkType ==
    /\ Top \in Nat /\ Top > 2
    /\ \A s : \A f \in Frame : Mark(f, s) \in Nat /\ Mark(f, s) <= Top
    /\ \A s : \A c \in Cmd : CmdMark(c, s) \in Nat /\ CmdMark(c, s) <= Top
<1>1. Top \in Nat /\ Top > 2 /\ Top = MaxChunks + 3 /\ MaxChunks \in Nat
  BY StreamsAssumption DEF Top
<1>2. \A s : \A f \in Frame : Mark(f, s) \in Nat /\ Mark(f, s) <= Top
  BY <1>1 DEF Mark, Frame
<1>3. \A c \in Cmd : c.do = "send" => c.f \in Frame
  BY DEF Cmd
<1>4. \A s : \A c \in Cmd : CmdMark(c, s) \in Nat /\ CmdMark(c, s) <= Top
  BY <1>1, <1>2, <1>3 DEF CmdMark
<1> QED BY <1>1, <1>2, <1>4

\* Taking a frame from a queue, or adding one, does the same to its marks.
LEMMA FrameQueue ==
    ASSUME NEW q \in Seq(Frame), NEW s
    PROVE  /\ Marks(q, s) \in Seq(Nat) /\ Len(Marks(q, s)) = Len(q)
           /\ \A i \in 1..Len(q) : Marks(q, s)[i] = Mark(q[i], s)
           /\ \A f \in Frame : Marks(Append(q, f), s) = Append(Marks(q, s), Mark(f, s))
           /\ q # <<>> => /\ Marks(q, s) # <<>> /\ Head(Marks(q, s)) = Mark(Head(q), s)
                          /\ Marks(Tail(q), s) = Tail(Marks(q, s))
<1>1. Marks(q, s) \in Seq(Nat) /\ Len(Marks(q, s)) = Len(q)
  BY MarkType DEF Marks
<1>2. ASSUME NEW f \in Frame
      PROVE  Marks(Append(q, f), s) = Append(Marks(q, s), Mark(f, s))
  BY MarkType DEF Marks
<1>3. ASSUME q # <<>>
      PROVE  /\ Marks(q, s) # <<>> /\ Head(Marks(q, s)) = Mark(Head(q), s)
             /\ Marks(Tail(q), s) = Tail(Marks(q, s))
  BY <1>3, MarkType DEF Marks
<1> QED BY <1>1, <1>2, <1>3 DEF Marks

\* The marks of a command queue follow it, element by element.
LEMMA CmdQueue ==
    ASSUME NEW q \in Seq(Cmd), NEW s
    PROVE  /\ CmdMarks(q, s) \in Seq(Nat) /\ Len(CmdMarks(q, s)) = Len(q)
           /\ \A i \in 1..Len(q) : CmdMarks(q, s)[i] = CmdMark(q[i], s)
           /\ \A c \in Cmd : CmdMarks(Append(q, c), s) = Append(CmdMarks(q, s), CmdMark(c, s))
           /\ q # <<>> => /\ CmdMarks(q, s) # <<>> /\ Head(CmdMarks(q, s)) = CmdMark(Head(q), s)
                          /\ CmdMarks(Tail(q), s) = Tail(CmdMarks(q, s))
<1>1. CmdMarks(q, s) \in Seq(Nat) /\ Len(CmdMarks(q, s)) = Len(q)
  BY MarkType DEF CmdMarks
<1>2. ASSUME NEW c \in Cmd
      PROVE  CmdMarks(Append(q, c), s) = Append(CmdMarks(q, s), CmdMark(c, s))
  BY MarkType DEF CmdMarks
<1>3. ASSUME q # <<>>
      PROVE  /\ CmdMarks(q, s) # <<>> /\ Head(CmdMarks(q, s)) = CmdMark(Head(q), s)
             /\ CmdMarks(Tail(q), s) = Tail(CmdMarks(q, s))
  BY <1>3, MarkType DEF CmdMarks
<1> QED BY <1>1, <1>2, <1>3 DEF CmdMarks

-----------------------------------------------------------------------------
(* One direction of one stream *)

\* With w, c and q the marks on the wire, in the command queue of the sender
\* and in the receiver's channel, T what has been sent and h the number of
\* chunks written: the wire has what is above a up to b, the commands what is
\* above b, and a receiver that is alive has the rest in its channel.
Flow(w, c, q, T, last, h, alive, a, b) ==
    /\ a <= b /\ b <= last
    /\ Carries(w, T, a, b) /\ Carries(c, T, b, Top)
    /\ \A i \in 1..Len(q) : q[i] \in T
    /\ alive => Carries(q, T, h + 2, a) /\ (h = 0 \/ h + 2 <= a)

\* What a sender may have sent: marks up to Top, 2 is not one of them, and no
\* chunk without the ones before it.
Sendable(T) ==
    /\ T \subseteq 1..Top /\ 2 \notin T
    /\ \A t, u \in 3..(Top - 1) : u < t /\ t \in T => u \in T

\* The next command is not of this stream.
LEMMA FlowSkipsCommand ==
    ASSUME NEW w \in Seq(Nat), NEW c \in Seq(Nat), NEW q, NEW T, Sendable(T), NEW last, NEW h,
           NEW alive, NEW a \in 0..Top, NEW b \in 0..Top, Flow(w, c, q, T, last, h, alive, a, b),
           c # <<>>, Head(c) = 0
    PROVE  Flow(w, Tail(c), q, T, last, h, alive, a, b) /\ Flow(Append(w, 0), Tail(c), q, T, last, h, alive, a, b)
<1>1. Top \in Nat /\ a \in Nat /\ b \in Nat /\ T \in SUBSET Nat /\ 0 \notin T
  BY MarkType DEF Sendable
<1>2. Carries(Tail(c), T, b, Top)
  BY <1>1, CarriesSkip DEF Flow
<1>3. Carries(Append(w, 0), T, a, b)
  BY <1>1, CarriesPad DEF Flow
<1> QED BY <1>2, <1>3 DEF Flow

\* The next command is of this stream and goes on the wire.
LEMMA FlowSends ==
    ASSUME NEW w \in Seq(Nat), NEW c \in Seq(Nat), NEW q, NEW T, Sendable(T), NEW last, NEW h,
           NEW alive, NEW a \in 0..Top, NEW b \in 0..Top, Flow(w, c, q, T, last, h, alive, a, b),
           \A t \in T : t <= last, c # <<>>, Head(c) # 0
    PROVE  /\ Head(c) \in 0..Top
           /\ Flow(Append(w, Head(c)), Tail(c), q, T, last, h, alive, a, Head(c))
<1>1. Top \in Nat /\ a \in Nat /\ b \in Nat /\ a <= b /\ T \in SUBSET Nat /\ \A t \in T : t <= Top
  BY MarkType DEF Sendable, Flow
<1>2. /\ Head(c) \in T /\ b < Head(c) /\ Head(c) <= Top
      /\ \A t \in T : b < t /\ t <= Top => Head(c) <= t
      /\ Carries(Tail(c), T, Head(c), Top)
  BY <1>1, CarriesTake DEF Flow
<1>3. Head(c) \in Nat /\ a < Head(c) /\ \A t \in T : b < t => Head(c) <= t
  BY <1>1, <1>2
<1>4. Carries(Append(w, Head(c)), T, a, Head(c))
  BY <1>1, <1>2, <1>3, CarriesPut DEF Flow
<1> QED BY <1>1, <1>2, <1>3, <1>4 DEF Flow

\* A frame of another stream leaves the wire.
LEMMA FlowSkipsFrame ==
    ASSUME NEW w \in Seq(Nat), NEW c, NEW q, NEW T, Sendable(T), NEW last, NEW h,
           NEW alive, NEW a \in 0..Top, NEW b \in 0..Top, Flow(w, c, q, T, last, h, alive, a, b),
           w # <<>>, Head(w) = 0
    PROVE  Flow(Tail(w), c, q, T, last, h, alive, a, b)
<1>1. Top \in Nat /\ a \in Nat /\ b \in Nat /\ T \in SUBSET Nat /\ 0 \notin T
  BY MarkType DEF Sendable
<1>2. Carries(Tail(w), T, a, b)
  BY <1>1, CarriesSkip DEF Flow
<1> QED BY <1>2 DEF Flow

\* A frame of this stream leaves the wire.
LEMMA FlowReceives ==
    ASSUME NEW w \in Seq(Nat), NEW c, NEW q \in Seq(Nat), NEW T, Sendable(T), NEW last, NEW h \in Nat,
           NEW alive, NEW a \in 0..Top, NEW b \in 0..Top, Flow(w, c, q, T, last, h, alive, a, b),
           w # <<>>, Head(w) # 0
    PROVE  /\ Head(w) \in 0..Top /\ Head(w) \in T /\ a < Head(w) /\ Head(w) <= b
           /\ \A t \in T : a < t => Head(w) <= t
           /\ Flow(Tail(w), c, q, T, last, h, FALSE, Head(w), b)
           /\ Head(w) = 1 => Flow(Tail(w), c, q, T, last, h, alive, Head(w), b)
           /\ Head(w) # 1 => Flow(Tail(w), c, Append(q, Head(w)), T, last, h, alive, Head(w), b)
<1>1. Top \in Nat /\ a \in Nat /\ b \in Nat /\ T \in SUBSET Nat /\ 0 \notin T
  BY MarkType DEF Sendable
<1>2. /\ Head(w) \in T /\ a < Head(w) /\ Head(w) <= b
      /\ \A t \in T : a < t /\ t <= b => Head(w) <= t
      /\ Carries(Tail(w), T, Head(w), b)
  BY <1>1, CarriesTake DEF Flow
<1>3. Head(w) \in Nat /\ Head(w) <= Top /\ \A t \in T : a < t => Head(w) <= t
  BY <1>1, <1>2
<1>4. Flow(Tail(w), c, q, T, last, h, FALSE, Head(w), b)
  BY <1>2 DEF Flow
<1>5. ASSUME Head(w) = 1
      PROVE  Flow(Tail(w), c, q, T, last, h, alive, Head(w), b)
  <2>1. ASSUME alive
        PROVE  Carries(q, T, h + 2, Head(w)) /\ h = 0
    <3>1. h = 0 /\ a = 0 /\ Carries(q, T, h + 2, a)
      BY <1>1, <1>2, <1>5, <2>1 DEF Flow
    <3>2. \A i \in 1..Len(q) : q[i] = 0
      BY <3>1, <1>1 DEF Carries
    <3> QED BY <3>1, <3>2, <1>1, <1>5 DEF Carries
  <2> QED BY <1>4, <2>1 DEF Flow
<1>6. ASSUME Head(w) # 1
      PROVE  Flow(Tail(w), c, Append(q, Head(w)), T, last, h, alive, Head(w), b)
  <2>1. \A i \in 1..Len(Append(q, Head(w))) : Append(q, Head(w))[i] \in T
    <3>1. /\ Len(q) \in Nat /\ Len(Append(q, Head(w))) = Len(q) + 1
          /\ \A i \in 1..Len(q) : Append(q, Head(w))[i] = q[i]
          /\ Append(q, Head(w))[Len(q) + 1] = Head(w)
      BY <1>3, AppendFacts
    <3>2. \A i \in 1..Len(q) : q[i] \in T
      BY DEF Flow
    <3> QED BY <3>1, <3>2, <1>2
  <2>2. ASSUME alive
        PROVE  Carries(Append(q, Head(w)), T, h + 2, Head(w)) /\ (h = 0 \/ h + 2 <= Head(w))
    <3>1. Head(w) > 2
      <4>1. Head(w) \in T /\ Head(w) \in Nat /\ Head(w) # 1
        BY <1>2, <1>3, <1>6
      <4> QED BY <4>1, SMTT(20) DEF Sendable
    <3>2. h + 2 < Head(w) /\ h + 2 \in Nat /\ Carries(q, T, h + 2, a)
      BY <1>1, <1>2, <1>3, <2>2, <3>1 DEF Flow
    <3>3. Carries(Append(q, Head(w)), T, h + 2, Head(w))
      BY <1>1, <1>2, <1>3, <3>2, CarriesPut
    <3> QED BY <3>2, <3>3, <1>3
  <2> QED BY <1>2, <2>1, <2>2 DEF Flow
<1>7. Head(w) \in 0..Top
  BY <1>1, <1>3
<1> QED BY <1>2, <1>3, <1>4, <1>5, <1>6, <1>7

\* A command that is not a frame of this stream is queued.
LEMMA FlowPads ==
    ASSUME NEW w, NEW c \in Seq(Nat), NEW q, NEW T, Sendable(T), NEW last, NEW h,
           NEW alive, NEW a \in 0..Top, NEW b \in 0..Top, Flow(w, c, q, T, last, h, alive, a, b)
    PROVE  Flow(w, Append(c, 0), q, T, last, h, alive, a, b)
<1>1. Top \in Nat /\ a \in Nat /\ b \in Nat /\ T \in SUBSET Nat
  BY MarkType DEF Sendable
<1>2. Carries(Append(c, 0), T, b, Top)
  BY <1>1, CarriesPad DEF Flow
<1> QED BY <1>2 DEF Flow

\* A frame of this stream is queued: it comes after all that was sent before.
LEMMA FlowQueues ==
    ASSUME NEW w \in Seq(Nat), NEW c \in Seq(Nat), NEW q \in Seq(Nat), NEW T, Sendable(T),
           NEW last \in Nat, NEW h \in Nat, NEW U, Sendable(U), NEW more \in 0..Top,
           NEW alive, NEW a \in 0..Top, NEW b \in 0..Top, Flow(w, c, q, T, last, h, alive, a, b),
           NEW t \in Nat, U = T \cup {t}, last < t, \A u \in T : u < t, t <= more
    PROVE  Flow(w, Append(c, t), q, U, more, h, alive, a, b)
<1>1. /\ Top \in Nat /\ a \in Nat /\ b \in Nat /\ T \in SUBSET Nat /\ U \in SUBSET Nat
      /\ t \in U /\ t # 0 /\ t <= Top /\ a <= b /\ b <= last /\ b < t /\ a < t
      /\ T \subseteq U
  BY MarkType DEF Sendable, Flow
<1>2. \A u \in U \ T : u = t
  BY <1>1
<1>3. Carries(w, U, a, b)
  BY <1>1, <1>2, CarriesGrow DEF Flow
<1>4. ASSUME alive
      PROVE  Carries(q, U, h + 2, a) /\ (h = 0 \/ h + 2 <= a)
  <2>1. h + 2 \in Nat /\ Carries(q, T, h + 2, a) /\ (h = 0 \/ h + 2 <= a)
    BY <1>4 DEF Flow
  <2>2. \A u \in U \ T : a < u
    BY <1>1, <1>2
  <2> QED BY <1>1, <2>1, <2>2, CarriesGrow
<1>5. Carries(Append(c, t), U, b, Top)
  <2>1. Carries(c, T, b, Top)
    BY DEF Flow
  <2>2. /\ Len(c) \in Nat /\ Len(Append(c, t)) = Len(c) + 1
        /\ \A i \in 1..Len(c) : Append(c, t)[i] = c[i]
        /\ Append(c, t)[Len(c) + 1] = t
    BY AppendFacts
  <2>3. \A i \in 1..Len(Append(c, t)) : i \in 1..Len(c) \/ i = Len(c) + 1
    BY <2>2
  <2>4. \A i \in 1..Len(c) : c[i] # 0 => c[i] \in T /\ b < c[i] /\ c[i] <= Top /\ c[i] < t
    BY <2>1 DEF Carries
  <2>5. \A i \in 1..Len(Append(c, t)) : Append(c, t)[i] # 0 =>
           Append(c, t)[i] \in U /\ b < Append(c, t)[i] /\ Append(c, t)[i] <= Top
    BY <1>1, <2>2, <2>3, <2>4
  <2>6. \A i, j \in 1..Len(Append(c, t)) : i < j /\ Append(c, t)[i] # 0 /\ Append(c, t)[j] # 0
           => Append(c, t)[i] < Append(c, t)[j]
    BY <2>1, <2>2, <2>3, <2>4 DEF Carries
  <2>7. ASSUME NEW u \in U, b < u, u <= Top
        PROVE  \E i \in 1..Len(Append(c, t)) : Append(c, t)[i] = u
    <3>1. CASE u = t
      BY <3>1, <2>2
    <3>2. CASE u \in T
      <4>1. PICK i \in 1..Len(c) : c[i] = u
        BY <3>2, <2>1, <2>7 DEF Carries
      <4> QED BY <4>1, <2>2
    <3> QED BY <3>1, <3>2
  <2> QED BY <2>5, <2>6, <2>7 DEF Carries
<1>6. \A i \in 1..Len(q) : q[i] \in U
  BY <1>1 DEF Flow
<1>7. b <= more
  BY <1>1
<1> QED BY <1>1, <1>3, <1>4, <1>5, <1>6, <1>7 DEF Flow

\* A message leaves the channel.  If it is a chunk it is the next one.
LEMMA FlowWrites ==
    ASSUME NEW w, NEW c, NEW q \in Seq(Nat), NEW T, Sendable(T), NEW last, NEW h \in Nat,
           NEW alive, NEW a \in 0..Top, NEW b \in 0..Top, Flow(w, c, q, T, last, h, alive, a, b),
           q # <<>>, Head(q) < Top
    PROVE  /\ Head(q) \in T
           /\ alive => Head(q) = h + 3
           /\ Flow(w, c, Tail(q), T, last, h + 1, alive, a, b)
<1>1. Top \in Nat /\ Top > 2 /\ a \in Nat /\ b \in Nat /\ T \in SUBSET Nat /\ 0 \notin T
      /\ h + 2 \in Nat
  BY MarkType DEF Sendable
<1>2. /\ Len(q) \in Nat /\ Len(q) > 0 /\ Len(Tail(q)) = Len(q) - 1
      /\ \A i \in 1..(Len(q) - 1) : Tail(q)[i] = q[i + 1]
      /\ Head(q) = q[1] /\ q[1] \in Nat
  BY TailFacts
<1>3. \A i \in 1..Len(q) : q[i] \in T
  BY DEF Flow
<1>4. \A i \in 1..Len(Tail(q)) : Tail(q)[i] \in T
  BY <1>2, <1>3
<1>5. Head(q) \in T /\ Head(q) # 0
  BY <1>1, <1>2, <1>3
<1>6. ASSUME alive
      PROVE  Head(q) = h + 3 /\ Carries(Tail(q), T, h + 3, a) /\ h + 3 <= a
  <2>1. Carries(q, T, h + 2, a)
    BY <1>6 DEF Flow
  <2>2. /\ h + 2 < Head(q) /\ Head(q) <= a
        /\ \A t \in T : h + 2 < t /\ t <= a => Head(q) <= t
        /\ Carries(Tail(q), T, Head(q), a)
    BY <1>1, <1>5, <2>1, CarriesTake
  <2>3. Head(q) \in 3..(Top - 1) /\ h + 3 <= Head(q) /\ h + 3 \in 3..(Top - 1) /\ h + 3 <= a
    BY <1>1, <1>2, <2>2
  <2>4. h + 3 \in T
    BY <1>5, <2>3 DEF Sendable
  <2>5. Head(q) <= h + 3
    BY <2>2, <2>3, <2>4
  <2>6. Head(q) = h + 3
    BY <2>3, <2>5
  <2> QED BY <2>2, <2>3, <2>6
<1>7. (h + 1) + 2 = h + 3
  OBVIOUS
<1> QED BY <1>4, <1>5, <1>6, <1>7 DEF Flow

\* The receiver is gone: what is in its channel no longer matters.
LEMMA FlowStops ==
    ASSUME NEW w, NEW c, NEW q, NEW T, NEW last, NEW h,
           NEW alive, NEW a, NEW b, Flow(w, c, q, T, last, h, alive, a, b), NEW g
    PROVE  Flow(w, c, q, T, last, g, FALSE, a, b) /\ Flow(w, c, <<>>, T, last, g, FALSE, a, b)
  BY DEF Flow

\* Nothing has been sent.
LEMMA FlowStarts ==
    ASSUME NEW alive, NEW last \in Nat
    PROVE  Flow(<<>>, <<>>, <<>>, {}, last, 0, alive, 0, 0)
  BY CarriesNothing DEF Flow

-----------------------------------------------------------------------------
(* The invariant of the streams *)

Tasks == {"none", "opening", "dial", "run", "done"}

StreamTypes ==
    /\ proto \in Protos /\ load \in Loads
    /\ cmds \in [Role -> Seq(Cmd)] /\ wire \in [Role -> Seq(Frame)]
    /\ reg \in [Role -> SUBSET Stream] /\ inq \in Over(Seq(Frame))
    /\ pump \in Over(Tasks)
    /\ reads \in Over(BOOLEAN) /\ ended \in Over(BOOLEAN)
    /\ said \in Over(0..MaxChunks) /\ heard \in Over(Seq(0..MaxChunks))
    /\ broken \subseteq Stream /\ missed \subseteq Stream

\* Nobody reads a socket whose end has been passed on or whose task is not at
\* work; a task that is done had a broken socket or an end on one of the sides.
TaskInv == \A x \in Role, s \in Stream :
    /\ ended[x][s] => ~reads[x][s] /\ pump[x][s] \in {"run", "done"}
    /\ reads[x][s] => pump[x][s] = "run"
    /\ x = "target" => pump[x][s] # "opening"
    /\ x = "listener" /\ pump[x][s] = "none" => said[x][s] = 0
    /\ x = "listener" /\ pump[x][s] # "none" => s \in DOMAIN load
    /\ pump[x][s] = "done" => s \in broken \/ ended["listener"][s] \/ ended["target"][s]

Unmissed(x, s) == x = "target" \/ s \notin missed
Live(x, s) == pump[x][s] # "done" /\ Unmissed(x, s)

\* The target has taken OPEN when its task is there, and then routes frames
\* until CLOSE has come.
Tie(x, s, a) ==
    x = "target" => /\ pump[x][s] = "none" <=> a = 0
                    /\ pump[x][s] \in {"dial", "run"} => s \in reg[x] \/ a = Top

FlowOf(x, s, a, b) ==
    /\ Flow(Marks(wire[x], s), CmdMarks(cmds[Across(x)], s), Marks(inq[x][s], s),
            SentMarks(Across(x), s), LastMark(Across(x), s), Len(heard[x][s]), Live(x, s), a, b)
    /\ Tie(x, s, a)

FlowInv == \A x \in Role, s \in Stream : \E a, b \in 0..Top : FlowOf(x, s, a, b)

HeardInv == \A x \in Role, s \in Stream :
    Unmissed(x, s) => /\ Len(heard[x][s]) <= said[Across(x)][s]
                  /\ \A i \in 1..Len(heard[x][s]) : Delivered(heard[x][s][i], i)

StreamsIInv == StreamTypes /\ TaskInv /\ FlowInv /\ HeardInv

-----------------------------------------------------------------------------
(* Types *)

LEMMA RoleFacts ==
    /\ "listener" \in Role /\ "target" \in Role
    /\ \A x \in Role : Across(x) \in Role /\ Across(x) # x /\ Across(Across(x)) = x
    /\ \A x \in Role : x = "listener" \/ x = "target"
    /\ \A x, y \in Role : y # x => y = Across(x)
    /\ Across("listener") = "target" /\ Across("target") = "listener"
  BY DEF Role, Across

\* One stream of one side is given a new value.
LEMMA OverUpdate ==
    ASSUME NEW S, NEW f \in Over(S), NEW x \in Role, NEW s \in Stream, NEW v \in S
    PROVE  /\ [f EXCEPT ![x][s] = v] \in Over(S)
           /\ \A y \in Role, r \in Stream :
                 [f EXCEPT ![x][s] = v][y][r] = IF y = x /\ r = s THEN v ELSE f[y][r]
  BY DEF Over

\* The same for Booleans.
LEMMA OverSwitch ==
    ASSUME NEW f \in Over(BOOLEAN), NEW x \in Role, NEW s \in Stream
    PROVE  /\ \A y \in Role, r \in Stream :
                 [f EXCEPT ![x][s] = TRUE][y][r] <=> ((y = x /\ r = s) \/ f[y][r])
           /\ \A y \in Role, r \in Stream :
                 [f EXCEPT ![x][s] = FALSE][y][r] <=> (f[y][r] /\ ~(y = x /\ r = s))
  BY DEF Over

\* What an application will say is bounded.
LEMMA LoadFacts ==
    ASSUME StreamTypes
    PROVE  DOMAIN load \subseteq Stream /\ \A s \in DOMAIN load : load[s] \in 0..MaxChunks
  BY StreamsAssumption DEF StreamTypes

\* The commands the pumps issue are commands.
LEMMA CommandTypes ==
    ASSUME NEW s \in Stream, NEW n \in 0..MaxChunks
    PROVE  /\ [do |-> "register", s |-> s] \in Cmd
           /\ \A k \in {"open", "data", "close"} :
                 FrameOf(k, s, n) \in Frame /\ [do |-> "send", f |-> FrameOf(k, s, n)] \in Cmd
  BY DEF Cmd, Frame, FrameOf

\* The types of the streams hold at first.
LEMMA InitStreamTypes ==
    ASSUME StreamsInit
    PROVE  StreamTypes
<1>1. /\ Everywhere(<<>>) \in Over(Seq(Frame)) /\ Everywhere(<<>>) \in Over(Seq(0..MaxChunks))
      /\ Everywhere("none") \in Over(Tasks)
      /\ Everywhere(FALSE) \in Over(BOOLEAN) /\ Everywhere(0) \in Over(0..MaxChunks)
  BY StreamsAssumption DEF Everywhere, Over, Tasks
<1>2. /\ [x \in Role |-> <<>>] \in [Role -> Seq(Cmd)]
      /\ [x \in Role |-> <<>>] \in [Role -> Seq(Frame)]
      /\ [x \in Role |-> {}] \in [Role -> SUBSET Stream]
  OBVIOUS
<1> QED BY <1>1, <1>2 DEF StreamsInit, StreamTypes

\* A socket that is read belongs to a stream the listener has accepted.
LEMMA ReadAccepted ==
    ASSUME StreamTypes, TaskInv, FlowInv, NEW x \in Role, NEW s \in Stream, reads[x][s]
    PROVE  s \in DOMAIN load /\ load[s] \in 0..MaxChunks
<1>1. pump[x][s] = "run"
  BY DEF TaskInv
<1>2. pump["listener"][s] # "none"
  <2>1. CASE x = "listener"
    BY <1>1, <2>1
  <2>2. CASE x = "target"
    <3>1. PICK a, b \in 0..Top : FlowOf("target", s, a, b)
      BY RoleFacts DEF FlowInv
    <3>2. a # 0
      BY <1>1, <2>2, <3>1 DEF FlowOf, Tie
    <3>3. a <= b /\ b <= LastMark("listener", s)
      BY <3>1, RoleFacts DEF FlowOf, Flow
    <3>4. ended["listener"][s] => pump["listener"][s] # "none"
      BY RoleFacts DEF TaskInv
    <3> QED BY <3>2, <3>3, <3>4, MarkType DEF LastMark
  <2> QED BY <2>1, <2>2, RoleFacts
<1>3. s \in DOMAIN load
  BY <1>2, RoleFacts DEF TaskInv
<1> QED BY <1>3, LoadFacts

\* A step of the streams keeps their types.
LEMMA NextStreamTypes ==
    ASSUME StreamTypes, TaskInv, FlowInv, [StreamsNext]_streamVars
    PROVE  StreamTypes'
<1>0. 0 \in 0..MaxChunks
  BY StreamsAssumption
<1>1. CASE UNCHANGED streamVars
  BY <1>1 DEF StreamTypes, streamVars
<1>2. ASSUME NEW s \in Stream, Accept(s)
      PROVE  StreamTypes'
  <2>1. [do |-> "send", f |-> FrameOf("open", s, 0)] \in Cmd
    BY <1>0, CommandTypes
  <2>2. cmds' \in [Role -> Seq(Cmd)]
    <3>1. PICK c \in Cmd : c = [do |-> "send", f |-> FrameOf("open", s, 0)]
      BY <2>1
    <3>2. cmds' = [cmds EXCEPT !["listener"] = Append(@, c)] /\ cmds \in [Role -> Seq(Cmd)]
      BY <1>2, <3>1 DEF StreamTypes, Accept, Send, Queue
    <3> QED BY <3>2, RoleFacts
  <2>3. pump' \in Over(Tasks)
    <3>1. pump' = [pump EXCEPT !["listener"][s] = "opening"] /\ pump \in Over(Tasks)
          /\ "opening" \in Tasks
      BY <1>2 DEF StreamTypes, Accept, Goes, Tasks
    <3> QED BY <3>1, RoleFacts, OverUpdate
  <2> QED BY <1>2, <2>2, <2>3 DEF StreamTypes, Accept
<1>3. ASSUME NEW s \in Stream, RegisterStream(s)
      PROVE  StreamTypes'
  <2>1. [do |-> "register", s |-> s] \in Cmd
    BY <1>0, CommandTypes
  <2> QED BY <1>3, <2>1, RoleFacts DEF StreamTypes, RegisterStream, Queue, Goes, Over, Tasks
<1>4. ASSUME NEW s \in Stream, Dial(s)
      PROVE  StreamTypes'
  BY <1>4, RoleFacts DEF StreamTypes, Dial, Goes, Over, Tasks
<1>5. ASSUME NEW s \in Stream, DialFails(s)
      PROVE  StreamTypes'
  <2>1. [do |-> "send", f |-> FrameOf("close", s, 0)] \in Cmd
    BY <1>0, CommandTypes
  <2> QED BY <1>5, <2>1, RoleFacts DEF StreamTypes, DialFails, Send, Queue, Goes, Over, Tasks
<1>6. ASSUME NEW s \in Stream, BindFails(s)
      PROVE  StreamTypes'
  BY <1>6, RoleFacts DEF StreamTypes, BindFails, Goes, Over, Tasks
<1>7. ASSUME NEW x \in Role, EngineSend(x)
      PROVE  StreamTypes'
  <2>1. Head(cmds[x]) \in Cmd /\ Tail(cmds[x]) \in Seq(Cmd)
    BY <1>7, TailFacts DEF StreamTypes, EngineSend
  <2>2. /\ Head(cmds[x]).do = "send" => Head(cmds[x]).f \in Frame
        /\ Head(cmds[x]).do # "send" => Head(cmds[x]).s \in Stream
    BY <2>1 DEF Cmd
  <2>3. Across(x) \in Role
    BY RoleFacts
  <2>4. cmds' \in [Role -> Seq(Cmd)]
    BY <1>7, <2>1 DEF StreamTypes, EngineSend
  <2>5. wire' \in [Role -> Seq(Frame)]
    <3>1. CASE Head(cmds[x]).do = "send"
      <4>1. Append(wire[Across(x)], Head(cmds[x]).f) \in Seq(Frame)
        BY <2>2, <2>3, <3>1, AppendFacts DEF StreamTypes
      <4> QED BY <1>7, <2>3, <3>1, <4>1 DEF StreamTypes, EngineSend
    <3>2. CASE Head(cmds[x]).do # "send"
      BY <1>7, <3>2 DEF StreamTypes, EngineSend
    <3> QED BY <3>1, <3>2
  <2>6. reg' \in [Role -> SUBSET Stream]
    <3>1. reg \in [Role -> SUBSET Stream]
      BY DEF StreamTypes
    <3>2. CASE Head(cmds[x]).do = "send"
      BY <1>7, <3>1, <3>2 DEF EngineSend
    <3>3. CASE Head(cmds[x]).do # "send"
      <4>1. PICK s \in Stream : s = Head(cmds[x]).s
        BY <2>2, <3>3
      <4>2. reg' = [reg EXCEPT ![x] = @ \cup {s}]
        BY <1>7, <3>3, <4>1 DEF EngineSend
      <4> QED BY <3>1, <4>2
    <3> QED BY <3>2, <3>3
  <2> QED BY <1>7, <2>4, <2>5, <2>6 DEF StreamTypes, EngineSend
<1>8. ASSUME NEW x \in Role, EngineReceive(x)
      PROVE  StreamTypes'
  <2>1. Head(wire[x]) \in Frame /\ Tail(wire[x]) \in Seq(Frame)
    BY <1>8, TailFacts DEF StreamTypes, EngineReceive
  <2>2. Head(wire[x]).s \in Stream /\ Head(wire[x]).kind \in {"open", "data", "close"}
    BY <2>1 DEF Frame
  <2>3. RoutesAfter(x, Head(wire[x])) \subseteq Stream
    BY <2>2 DEF RoutesAfter, StreamTypes
  <2>4. wire' \in [Role -> Seq(Frame)] /\ reg' \in [Role -> SUBSET Stream]
    BY <1>8, <2>1, <2>3 DEF StreamTypes, EngineReceive
  <2>5. inq' \in Over(Seq(Frame))
    BY <1>8, <2>1, <2>2 DEF StreamTypes, EngineReceive, Over
  <2>6. pump' \in Over(Tasks)
    <3>1. \/ pump' = pump
          \/ pump' = [pump EXCEPT ![x][Head(wire[x]).s] = "dial"]
      BY <1>8 DEF EngineReceive, Goes
    <3>2. "dial" \in Tasks /\ pump \in Over(Tasks)
      BY DEF StreamTypes, Tasks
    <3>3. PICK r \in Stream : r = Head(wire[x]).s
      BY <2>2
    <3>4. [pump EXCEPT ![x][r] = "dial"] \in Over(Tasks)
      BY <3>2, OverUpdate
    <3> QED BY <3>1, <3>2, <3>3, <3>4
  <2>7. missed' \subseteq Stream
    BY <1>8, <2>2 DEF StreamTypes, EngineReceive
  <2> QED BY <1>8, <2>4, <2>5, <2>6, <2>7 DEF StreamTypes, EngineReceive
<1>9. ASSUME NEW x \in Role, NEW s \in Stream, Read(x, s)
      PROVE  StreamTypes'
  <2>1. said[x][s] + 1 \in 0..MaxChunks
    <3>1. said[x][s] \in 0..MaxChunks /\ said[x][s] < load[s] /\ reads[x][s]
      BY <1>9 DEF StreamTypes, Read, Over
    <3>2. load[s] \in 0..MaxChunks
      BY <3>1, ReadAccepted
    <3> QED BY <3>1, <3>2, StreamsAssumption
  <2>2. [do |-> "send", f |-> FrameOf("data", s, said[x][s] + 1)] \in Cmd
    BY <2>1, CommandTypes
  <2> QED BY <1>9, <2>1, <2>2 DEF StreamTypes, Read, Send, Queue, Over
<1>10. ASSUME NEW x \in Role, NEW s \in Stream, ReadEnd(x, s)
       PROVE  StreamTypes'
  <2>1. [do |-> "send", f |-> FrameOf("close", s, 0)] \in Cmd
    BY <1>0, CommandTypes
  <2> QED BY <1>10, <2>1 DEF StreamTypes, ReadEnd, Send, Queue, Over
<1>11. ASSUME NEW x \in Role, NEW s \in Stream, Write(x, s)
       PROVE  StreamTypes'
  <2>0. inq[x][s] \in Seq(Frame) /\ heard[x][s] \in Seq(0..MaxChunks) /\ inq[x][s] # <<>>
    BY <1>11 DEF StreamTypes, Over, Write
  <2>1. Head(inq[x][s]) \in Frame /\ Tail(inq[x][s]) \in Seq(Frame)
    BY <2>0, TailFacts
  <2>2. Append(heard[x][s], Head(inq[x][s]).n) \in Seq(0..MaxChunks)
    BY <2>0, <2>1, AppendFacts DEF Frame
  <2>3. CASE Head(inq[x][s]).kind = "close"
    <3>1. /\ pump' = [pump EXCEPT ![x][s] = "done"] /\ reads' = [reads EXCEPT ![x][s] = FALSE]
          /\ reg' = [reg EXCEPT ![x] = @ \ {s}] /\ inq' = [inq EXCEPT ![x][s] = <<>>]
      BY <1>11, <2>3 DEF Write, Ends, Goes
    <3>2. /\ pump' \in Over(Tasks)
          /\ reads' \in Over(BOOLEAN) /\ inq' \in Over(Seq(Frame))
      <4>1. /\ "done" \in Tasks /\ FALSE \in BOOLEAN /\ <<>> \in Seq(Frame)
            /\ pump \in Over(Tasks) /\ reads \in Over(BOOLEAN) /\ inq \in Over(Seq(Frame))
        BY DEF StreamTypes, Tasks
      <4>2. pump' \in Over(Tasks)
        BY <3>1, <4>1, OverUpdate
      <4>3. reads' \in Over(BOOLEAN)
        BY <3>1, <4>1, OverUpdate
      <4>4. inq' \in Over(Seq(Frame))
        BY <3>1, <4>1, OverUpdate
      <4> QED BY <4>2, <4>3, <4>4
    <3>3. reg' \in [Role -> SUBSET Stream]
      BY <3>1 DEF StreamTypes
    <3> QED BY <1>11, <2>3, <3>2, <3>3 DEF StreamTypes, Write
  <2>4. CASE Head(inq[x][s]).kind # "close"
    <3>1. /\ inq' = [inq EXCEPT ![x][s] = Tail(inq[x][s])]
          /\ heard' = [heard EXCEPT ![x][s] = Append(heard[x][s], Head(inq[x][s]).n)]
      BY <1>11, <2>4 DEF Write, StreamTypes, Over
    <3>2. inq' \in Over(Seq(Frame)) /\ heard' \in Over(Seq(0..MaxChunks))
      BY <3>1, <2>1, <2>2, OverUpdate DEF StreamTypes
    <3> QED BY <1>11, <2>4, <3>2 DEF StreamTypes, Write
  <2> QED BY <2>3, <2>4
<1>12. ASSUME NEW x \in Role, NEW s \in Stream, WriteFails(x, s)
       PROVE  StreamTypes'
  BY <1>12 DEF StreamTypes, WriteFails, Ends, Goes, Over, Tasks
<1>13. ASSUME NEW x \in Role, NEW s \in Stream, SendFails(x, s)
       PROVE  StreamTypes'
  <2>0. inq[x][s] \in Seq(Frame) /\ heard[x][s] \in Seq(0..MaxChunks) /\ inq[x][s] # <<>>
    BY <1>13 DEF StreamTypes, Over, SendFails
  <2>1. Tail(inq[x][s]) \in Seq(Frame) /\ Append(heard[x][s], Lost) \in Seq(0..MaxChunks)
    BY <2>0, TailFacts, AppendFacts, StreamsAssumption DEF Lost
  <2>2. /\ inq' = [inq EXCEPT ![x][s] = Tail(inq[x][s])]
        /\ heard' = [heard EXCEPT ![x][s] = Append(heard[x][s], Lost)]
    BY <1>13 DEF SendFails, StreamTypes, Over
  <2>3. inq' \in Over(Seq(Frame)) /\ heard' \in Over(Seq(0..MaxChunks))
    BY <2>1, <2>2, OverUpdate DEF StreamTypes
  <2> QED BY <1>13, <2>3 DEF StreamTypes, SendFails
<1>14. ASSUME NEW s \in Stream, RecvFails(s)
       PROVE  StreamTypes'
  BY <1>14 DEF StreamTypes, RecvFails, Over
<1> QED BY <1>1, <1>2, <1>3, <1>4, <1>5, <1>6, <1>7, <1>8, <1>9, <1>10, <1>11, <1>12, <1>13, <1>14
        DEF StreamsNext, Dials, Engine, Writes

-----------------------------------------------------------------------------
(* What has been sent *)

\* The marks of a side are such as a sender may have sent.
LEMMA SentFacts ==
    ASSUME StreamTypes, TaskInv, NEW o \in Role, NEW s \in Stream
    PROVE  /\ Sendable(SentMarks(o, s)) /\ LastMark(o, s) \in 0..Top
           /\ \A t \in SentMarks(o, s) : t <= LastMark(o, s)
<1>1. said[o][s] \in 0..MaxChunks /\ MaxChunks \in Nat /\ Top = MaxChunks + 3
  BY StreamsAssumption DEF StreamTypes, Over, Top
<1>2. o = "listener" /\ pump[o][s] = "none" => said[o][s] = 0
  BY DEF TaskInv
<1>3. Sendable(SentMarks(o, s))
  BY <1>1 DEF Sendable, SentMarks
<1>4. LastMark(o, s) \in 0..Top
  BY <1>1 DEF LastMark
<1>5. \A t \in SentMarks(o, s) : t <= LastMark(o, s)
  BY <1>1, <1>2 DEF LastMark, SentMarks
<1> QED BY <1>3, <1>4, <1>5

\* What has been sent on a stream is well formed after the step, too.
LEMMA SentFactsNext ==
    ASSUME StreamTypes', TaskInv', NEW o \in Role, NEW s \in Stream
    PROVE  Sendable(SentMarks(o, s)') /\ LastMark(o, s)' \in 0..Top
<1>1. said'[o][s] \in 0..MaxChunks /\ MaxChunks \in Nat /\ Top = MaxChunks + 3
  BY StreamsAssumption DEF StreamTypes, Over, Top
<1>3. Sendable(SentMarks(o, s)')
  BY <1>1 DEF Sendable, SentMarks
<1>4. LastMark(o, s)' \in 0..Top
  BY <1>1 DEF LastMark
<1> QED BY <1>3, <1>4

\* Nothing is sent by a step that leaves alone what a side has said and ended,
\* and whether it has begun.
LEMMA SentSame ==
    ASSUME NEW o, NEW s, said'[o][s] = said[o][s], ended'[o][s] = ended[o][s],
           o = "listener" => ((pump'[o][s] = "none") <=> (pump[o][s] = "none"))
    PROVE  SentMarks(o, s)' = SentMarks(o, s) /\ LastMark(o, s)' = LastMark(o, s)
  BY DEF SentMarks, LastMark

\* The queues' types.
LEMMA QueueTypes ==
    ASSUME StreamTypes, NEW x \in Role, NEW s \in Stream
    PROVE  /\ cmds[x] \in Seq(Cmd) /\ wire[x] \in Seq(Frame) /\ inq[x][s] \in Seq(Frame)
           /\ Marks(wire[x], s) \in Seq(Nat) /\ CmdMarks(cmds[x], s) \in Seq(Nat)
           /\ Marks(inq[x][s], s) \in Seq(Nat) /\ Len(heard[x][s]) \in Nat
           /\ heard[x][s] \in Seq(0..MaxChunks)
<1>1. /\ cmds[x] \in Seq(Cmd) /\ wire[x] \in Seq(Frame) /\ inq[x][s] \in Seq(Frame)
      /\ heard[x][s] \in Seq(0..MaxChunks)
  BY DEF StreamTypes, Over
<1> QED BY <1>1, FrameQueue, CmdQueue

\* The flow of a direction after a step, from its parts.
LEMMA FlowNext ==
    ASSUME NEW x, NEW s, NEW a, NEW b, NEW alive,
           NEW w, NEW c, NEW q, NEW T, NEW last, NEW h,
           Flow(w, c, q, T, last, h, alive, a, b),
           w = Marks(wire'[x], s), c = CmdMarks(cmds'[Across(x)], s), q = Marks(inq'[x][s], s),
           T = SentMarks(Across(x), s)', last = LastMark(Across(x), s)', h = Len(heard'[x][s]),
           Live(x, s)' => alive, Tie(x, s, a)'
    PROVE  FlowOf(x, s, a, b)'
  BY DEF FlowOf, Flow

\* A step that only moves tasks and routes on.
LEMMA QuietFlow ==
    ASSUME StreamTypes, FlowInv, UNCHANGED <<cmds, wire, inq, heard, said, ended, missed>>,
           \A x \in Role, s \in Stream :
              /\ (pump'[x][s] = "none") <=> (pump[x][s] = "none")
              /\ pump[x][s] = "done" => pump'[x][s] = "done",
           \A s \in Stream, a \in 0..Top : Tie("target", s, a) => Tie("target", s, a)'
    PROVE  FlowInv'
<1> SUFFICES ASSUME NEW x \in Role, NEW s \in Stream
             PROVE  \E a, b \in 0..Top : FlowOf(x, s, a, b)'
  BY DEF FlowInv
<1>1. PICK a, b \in 0..Top : FlowOf(x, s, a, b)
  BY DEF FlowInv
<1>2. SentMarks(Across(x), s)' = SentMarks(Across(x), s)
      /\ LastMark(Across(x), s)' = LastMark(Across(x), s)
  BY RoleFacts, SentSame
<1>3. Live(x, s)' => Live(x, s)
  BY DEF Live, Unmissed
<1>4. Tie(x, s, a)'
  <2>1. x = "target" => Tie(x, s, a)'
    BY <1>1 DEF FlowOf
  <2> QED BY <2>1 DEF Tie
<1>5. FlowOf(x, s, a, b)'
  BY <1>1, <1>2, <1>3, <1>4, FlowNext DEF FlowOf
<1> QED BY <1>5

\* A step that queues a command c at side y, which is of stream r or of none.
LEMMA QueueFlow ==
    ASSUME StreamTypes, TaskInv, FlowInv, StreamTypes', TaskInv',
           NEW y \in Role, NEW r \in Stream, NEW c \in Cmd,
           cmds' = [cmds EXCEPT ![y] = Append(@, c)], UNCHANGED <<wire, inq, heard, missed>>,
           \A s \in Stream : s # r => CmdMark(c, s) = 0,
           \A x \in Role, s \in Stream : pump[x][s] = "done" => pump'[x][s] = "done",
           \A o \in Role, s \in Stream : o # y \/ s # r \/ CmdMark(c, r) = 0 =>
              SentMarks(o, s)' = SentMarks(o, s) /\ LastMark(o, s)' = LastMark(o, s),
           CmdMark(c, r) # 0 =>
              /\ SentMarks(y, r)' = SentMarks(y, r) \cup {CmdMark(c, r)}
              /\ LastMark(y, r) < CmdMark(c, r) /\ CmdMark(c, r) <= LastMark(y, r)',
           \A s \in Stream, a \in 0..Top : Tie("target", s, a) => Tie("target", s, a)'
    PROVE  FlowInv'
<1> SUFFICES ASSUME NEW x \in Role, NEW s \in Stream
             PROVE  \E a, b \in 0..Top : FlowOf(x, s, a, b)'
  BY DEF FlowInv
<1>1. PICK a, b \in 0..Top : FlowOf(x, s, a, b)
  BY DEF FlowInv
<1>2. PICK o \in Role : o = Across(x)
  BY RoleFacts
<1>3. Live(x, s)' => Live(x, s)
  BY DEF Live, Unmissed
<1>4. Tie(x, s, a)'
  <2>1. x = "target" => Tie(x, s, a)'
    BY <1>1 DEF FlowOf
  <2> QED BY <2>1 DEF Tie
<1>5. Flow(Marks(wire[x], s), CmdMarks(cmds[o], s), Marks(inq[x][s], s),
            SentMarks(o, s), LastMark(o, s), Len(heard[x][s]), Live(x, s), a, b)
  BY <1>1, <1>2 DEF FlowOf
<1>6. /\ Sendable(SentMarks(o, s)) /\ LastMark(o, s) \in 0..Top
      /\ \A t \in SentMarks(o, s) : t <= LastMark(o, s)
      /\ Sendable(SentMarks(o, s)') /\ LastMark(o, s)' \in 0..Top
  BY SentFacts, SentFactsNext
<1>7. /\ Marks(wire[x], s) \in Seq(Nat) /\ CmdMarks(cmds[o], s) \in Seq(Nat)
      /\ Marks(inq[x][s], s) \in Seq(Nat) /\ Len(heard[x][s]) \in Nat /\ cmds[o] \in Seq(Cmd)
  BY QueueTypes
<1>8. CASE o # y
  <2>1. cmds'[o] = cmds[o]
    BY <1>8 DEF StreamTypes
  <2>2. SentMarks(o, s)' = SentMarks(o, s) /\ LastMark(o, s)' = LastMark(o, s)
    BY <1>8
  <2>3. FlowOf(x, s, a, b)'
    BY <1>2, <1>3, <1>4, <1>5, <2>1, <2>2, FlowNext
  <2> QED BY <2>3
<1>9. CASE o = y
  <2>1. CmdMarks(cmds'[o], s) = Append(CmdMarks(cmds[o], s), CmdMark(c, s))
    <3>1. cmds'[o] = Append(cmds[o], c)
      BY <1>9 DEF StreamTypes
    <3> QED BY <3>1, <1>7, CmdQueue
  <2>2. CASE CmdMark(c, s) = 0
    <3>1. SentMarks(o, s)' = SentMarks(o, s) /\ LastMark(o, s)' = LastMark(o, s)
      BY <2>2
    <3>2. Flow(Marks(wire[x], s), Append(CmdMarks(cmds[o], s), 0), Marks(inq[x][s], s),
            SentMarks(o, s), LastMark(o, s), Len(heard[x][s]), Live(x, s), a, b)
      BY <1>5, <1>6, <1>7, FlowPads
    <3>3. FlowOf(x, s, a, b)'
      BY <1>2, <1>3, <1>4, <2>1, <2>2, <3>1, <3>2, FlowNext
    <3> QED BY <3>3
  <2>3. CASE CmdMark(c, s) # 0
    <3>1. s = r
      BY <2>3
    <3>2. PICK t \in Nat : t = CmdMark(c, s)
      BY MarkType
    <3>3. /\ SentMarks(o, s)' = SentMarks(o, s) \cup {t}
          /\ LastMark(o, s) < t /\ t <= LastMark(o, s)'
      BY <1>9, <2>3, <3>1, <3>2
    <3>4. \A u \in SentMarks(o, s) : u < t
      <4>1. SentMarks(o, s) \subseteq Nat /\ LastMark(o, s) \in Nat
        BY <1>6, MarkType DEF Sendable
      <4> QED BY <4>1, <1>6, <3>3
    <3>5. Flow(Marks(wire[x], s), Append(CmdMarks(cmds[o], s), t), Marks(inq[x][s], s),
            SentMarks(o, s)', LastMark(o, s)', Len(heard[x][s]), Live(x, s), a, b)
      <4>1. LastMark(o, s) \in Nat
        BY <1>6, MarkType
      <4> HIDE DEF SentMarks, LastMark, Live, Marks, CmdMarks
      <4> QED BY <1>5, <1>6, <1>7, <3>3, <3>4, <4>1, FlowQueues
    <3>6. FlowOf(x, s, a, b)'
      BY <1>2, <1>3, <1>4, <2>1, <3>2, <3>5, FlowNext
    <3> QED BY <3>6
  <2> QED BY <2>2, <2>3
<1> QED BY <1>8, <1>9

-----------------------------------------------------------------------------
(* What the next frame, and the next message of a channel, can be *)

\* OPEN comes to the target only, once and before the other frames of its
\* stream; later frames find the stream routed, or its task done.
LEMMA ReceiveFacts ==
    ASSUME StreamTypes, TaskInv, FlowInv, NEW x \in Role, wire[x] # <<>>,
           NEW f, f = Head(wire[x])
    PROVE  /\ f \in Frame /\ f.s \in Stream
           /\ f.kind = "open" => x = "target" /\ pump[x][f.s] = "none"
           /\ f.kind # "open" /\ x = "target" =>
                 pump[x][f.s] # "none" /\ (pump[x][f.s] # "done" => f.s \in reg[x])
<1>1. wire[x] \in Seq(Frame)
  BY DEF StreamTypes
<1>2. f \in Frame
  BY <1>1, TailFacts
<1>3. f.s \in Stream /\ f.n \in 0..MaxChunks /\ f.kind \in {"open", "data", "close"}
  BY <1>2 DEF Frame
<1>4. PICK s \in Stream : s = f.s
  BY <1>3
<1>5. PICK a, b \in 0..Top : FlowOf(x, s, a, b)
  BY DEF FlowInv
<1>6. PICK o \in Role : o = Across(x)
  BY RoleFacts
<1>7. PICK m \in Nat : m = Mark(f, s)
  BY <1>2, MarkType
<1>8. /\ m = 1 <=> f.kind = "open"
      /\ m # 0 /\ m <= Top
  BY <1>3, <1>4, <1>7, StreamsAssumption DEF Mark, Top
<1>9. /\ Head(Marks(wire[x], s)) = m /\ Marks(wire[x], s) # <<>>
      /\ Marks(wire[x], s) \in Seq(Nat) /\ Marks(inq[x][s], s) \in Seq(Nat)
      /\ Len(heard[x][s]) \in Nat
  BY <1>1, <1>7, FrameQueue, QueueTypes
<1>10. Sendable(SentMarks(o, s)) /\ \A t \in SentMarks(o, s) : t <= LastMark(o, s)
  BY SentFacts
<1>11. /\ m \in SentMarks(o, s) /\ a < m /\ m <= b
       /\ \A t \in SentMarks(o, s) : a < t => m <= t
  BY <1>5, <1>6, <1>8, <1>9, <1>10, FlowReceives DEF FlowOf
<1>12. f.kind = "open" => x = "target" /\ pump[x][s] = "none"
  <2> SUFFICES ASSUME f.kind = "open"
               PROVE  x = "target" /\ pump[x][s] = "none"
    OBVIOUS
  <2>1. m = 1 /\ a = 0
    BY <1>8, <1>11
  <2>2. o = "listener"
    BY <2>1, <1>11, StreamsAssumption DEF SentMarks, Top
  <2>3. x = "target"
    BY <2>2, <1>6, RoleFacts
  <2> QED BY <2>1, <2>3, <1>5 DEF FlowOf, Tie
<1>13. ASSUME f.kind # "open", x = "target"
       PROVE  pump[x][s] # "none" /\ (pump[x][s] # "done" => s \in reg[x])
  <2>1. o = "listener"
    BY <1>6, <1>13, RoleFacts
  <2>2. pump["listener"][s] # "none"
    <3>1. m <= LastMark(o, s)
      BY <1>10, <1>11
    <3>2. ended["listener"][s] => pump["listener"][s] # "none"
      BY RoleFacts DEF TaskInv
    <3> QED BY <3>1, <3>2, <2>1, <1>8 DEF LastMark
  <2>3. 1 \in SentMarks(o, s)
    BY <2>1, <2>2, MarkType DEF SentMarks
  <2>4. a # 0
    BY <2>3, <1>8, <1>11, <1>13
  <2>5. a # Top
    BY <1>8, <1>11, MarkType
  <2>6. pump[x][s] # "opening"
    BY <1>13 DEF TaskInv
  <2>7. pump[x][s] \in Tasks
    BY DEF StreamTypes, Over
  <2> QED BY <2>4, <2>5, <2>6, <2>7, <1>5, <1>13 DEF FlowOf, Tie, Tasks
<1> QED BY <1>2, <1>4, <1>12, <1>13

\* A message of a channel is a chunk, the next one unless the receiver has
\* missed some, or the end the sender has passed on.
LEMMA WriteFacts ==
    ASSUME StreamTypes, TaskInv, FlowInv, NEW x \in Role, NEW s \in Stream,
           pump[x][s] = "run", inq[x][s] # <<>>, NEW f, f = Head(inq[x][s])
    PROVE  /\ f \in Frame /\ f.s = s
           /\ f.kind = "close" => ended[Across(x)][s]
           /\ f.kind # "close" /\ Unmissed(x, s) =>
                 f.kind = "data" /\ f.n = Len(heard[x][s]) + 1 /\ f.n <= said[Across(x)][s]
<1>1. inq[x][s] \in Seq(Frame)
  BY QueueTypes
<1>2. f \in Frame
  BY <1>1, TailFacts
<1>3. f.s \in Stream /\ f.n \in 0..MaxChunks /\ f.kind \in {"open", "data", "close"}
  BY <1>2 DEF Frame
<1>5. PICK a, b \in 0..Top : FlowOf(x, s, a, b)
  BY DEF FlowInv
<1>6. PICK o \in Role : o = Across(x)
  BY RoleFacts
<1>7. PICK m \in Nat : m = Mark(f, s)
  BY <1>2, MarkType
<1>9. /\ Head(Marks(inq[x][s], s)) = m /\ Marks(inq[x][s], s) # <<>>
      /\ Marks(inq[x][s], s) \in Seq(Nat) /\ Len(heard[x][s]) \in Nat
  BY <1>1, <1>7, FrameQueue, QueueTypes
<1>10. Sendable(SentMarks(o, s))
  BY SentFacts
<1>11. m \in SentMarks(o, s)
  <2>1. \A i \in 1..Len(Marks(inq[x][s], s)) : Marks(inq[x][s], s)[i] \in SentMarks(o, s)
    BY <1>5, <1>6 DEF FlowOf, Flow
  <2>2. /\ Head(Marks(inq[x][s], s)) = Marks(inq[x][s], s)[1]
        /\ Len(Marks(inq[x][s], s)) \in Nat /\ Len(Marks(inq[x][s], s)) > 0
    BY <1>9, TailFacts
  <2> QED BY <2>1, <2>2, <1>9
<1>12. f.s = s
  BY <1>7, <1>10, <1>11 DEF Mark, Sendable
<1>13. said[o][s] \in 0..MaxChunks /\ MaxChunks \in Nat /\ Top = MaxChunks + 3
  BY StreamsAssumption DEF StreamTypes, Over, Top
<1>14. f.kind = "close" => ended[o][s]
  BY <1>7, <1>11, <1>12, <1>13 DEF Mark, SentMarks
<1>15. ASSUME f.kind # "close", Unmissed(x, s)
       PROVE  f.kind = "data" /\ f.n = Len(heard[x][s]) + 1 /\ f.n <= said[o][s]
  <2>1. m < Top
    BY <1>3, <1>7, <1>12, <1>13, <1>15 DEF Mark
  <2>2. Live(x, s)
    BY <1>15 DEF Live
  <2>3. m = Len(heard[x][s]) + 3
    BY <2>1, <2>2, <1>5, <1>6, <1>9, <1>10, FlowWrites DEF FlowOf
  <2>4. f.kind = "data" /\ m = f.n + 2
    BY <1>3, <1>7, <1>9, <1>12, <1>15, <2>3 DEF Mark
  <2>5. m <= said[o][s] + 2
    <3>1. m # 1 /\ m # Top
      <4>1. Len(heard[x][s]) \in Nat
        BY <1>9
      <4> QED BY <2>1, <2>3, <1>13, <4>1
    <3> QED BY <1>11, <3>1 DEF SentMarks
  <2>6. PICK h \in Nat : h = Len(heard[x][s])
    BY <1>9
  <2>7. PICK n \in Nat : n = f.n
    BY <1>3, <1>13
  <2>9. m = h + 3 /\ m = n + 2
    BY <2>3, <2>4, <2>6, <2>7
  <2>10. PICK k \in Nat : k = said[o][s]
    BY <1>13
  <2>11. n + 2 <= k + 2
    BY <2>5, <2>9, <2>10
  <2>8. n = h + 1 /\ n <= said[o][s]
    BY <2>9, <2>10, <2>11
  <2> QED BY <2>4, <2>6, <2>7, <2>8
<1> QED BY <1>2, <1>6, <1>12, <1>14, <1>15

-----------------------------------------------------------------------------
(* The tasks *)

\* A step of the streams keeps what the tasks know.
LEMMA NextTaskInv ==
    ASSUME StreamTypes, TaskInv, FlowInv, [StreamsNext]_streamVars
    PROVE  TaskInv'
<1>0. /\ pump \in Over(Tasks) /\ reads \in Over(BOOLEAN) /\ ended \in Over(BOOLEAN)
      /\ said \in Over(0..MaxChunks) /\ inq \in Over(Seq(Frame)) /\ heard \in Over(Seq(0..MaxChunks))
      /\ "opening" \in Tasks /\ "dial" \in Tasks /\ "run" \in Tasks /\ "done" \in Tasks
  BY DEF StreamTypes, Tasks
<1>1. CASE UNCHANGED streamVars
  BY <1>1 DEF TaskInv, streamVars
<1>2. ASSUME NEW s \in Stream, Accept(s)
      PROVE  TaskInv'
  <2>1. \A y \in Role, r \in Stream :
           pump'[y][r] = IF y = "listener" /\ r = s THEN "opening" ELSE pump[y][r]
    BY <1>0, <1>2, RoleFacts, OverUpdate DEF Accept, Goes
  <2>2. UNCHANGED <<load, reads, said, ended, broken>> /\ pump["listener"][s] = "none"
        /\ s \in DOMAIN load
    BY <1>2 DEF Accept
  <2> QED BY <2>1, <2>2, RoleFacts DEF TaskInv
<1>3. ASSUME NEW s \in Stream, RegisterStream(s)
      PROVE  TaskInv'
  <2>1. \A y \in Role, r \in Stream :
           pump'[y][r] = IF y = "listener" /\ r = s THEN "run" ELSE pump[y][r]
    <3>1. pump' = [pump EXCEPT !["listener"][s] = "run"]
      BY <1>3 DEF RegisterStream, Goes
    <3>2. pump \in Over(Tasks) /\ "run" \in Tasks /\ "listener" \in Role
      BY <1>0, RoleFacts
    <3> QED BY <3>1, <3>2, OverUpdate
  <2>2. \A y \in Role, r \in Stream :
           reads'[y][r] <=> ((y = "listener" /\ r = s) \/ reads[y][r])
    BY <1>0, <1>3, RoleFacts, OverSwitch DEF RegisterStream, Goes
  <2>3. UNCHANGED <<load, said, ended, broken>> /\ pump["listener"][s] = "opening"
    BY <1>3 DEF RegisterStream
  <2> QED BY <2>1, <2>2, <2>3, RoleFacts DEF TaskInv
<1>4. ASSUME NEW s \in Stream, Dial(s)
      PROVE  TaskInv'
  <2>1. \A y \in Role, r \in Stream :
           pump'[y][r] = IF y = "target" /\ r = s THEN "run" ELSE pump[y][r]
    BY <1>0, <1>4, RoleFacts, OverUpdate DEF Dial, Goes
  <2>2. \A y \in Role, r \in Stream :
           reads'[y][r] <=> ((y = "target" /\ r = s) \/ reads[y][r])
    BY <1>0, <1>4, RoleFacts, OverSwitch DEF Dial, Goes
  <2>3. UNCHANGED <<load, said, ended, broken>> /\ pump["target"][s] = "dial"
    BY <1>4 DEF Dial
  <2> QED BY <2>1, <2>2, <2>3, RoleFacts DEF TaskInv
<1>5. ASSUME NEW s \in Stream, DialFails(s)
      PROVE  TaskInv'
  <2>1. \A y \in Role, r \in Stream :
           pump'[y][r] = IF y = "target" /\ r = s THEN "done" ELSE pump[y][r]
    BY <1>0, <1>5, RoleFacts, OverUpdate DEF DialFails, Goes
  <2>2. \A y \in Role, r \in Stream :
           ended'[y][r] <=> ((y = "target" /\ r = s) \/ ended[y][r])
    BY <1>0, <1>5, RoleFacts, OverSwitch DEF DialFails, Goes
  <2>3. UNCHANGED <<load, said, reads, broken>> /\ pump["target"][s] = "dial"
    BY <1>5 DEF DialFails
  <2> QED BY <2>1, <2>2, <2>3, RoleFacts DEF TaskInv
<1>6. ASSUME NEW s \in Stream, BindFails(s)
      PROVE  TaskInv'
  <2>1. \A y \in Role, r \in Stream :
           pump'[y][r] = IF y = "target" /\ r = s THEN "done" ELSE pump[y][r]
    BY <1>0, <1>6, RoleFacts, OverUpdate DEF BindFails, Goes
  <2>3. UNCHANGED <<load, said, reads, ended>> /\ pump["target"][s] = "dial"
        /\ broken' = broken \cup {s}
    BY <1>6 DEF BindFails
  <2> QED BY <2>1, <2>3, RoleFacts DEF TaskInv
<1>7. ASSUME NEW x \in Role, EngineSend(x)
      PROVE  TaskInv'
  <2>1. UNCHANGED <<load, pump, reads, said, ended, broken>>
    BY <1>7 DEF EngineSend
  <2> QED BY <2>1 DEF TaskInv
<1>8. ASSUME NEW x \in Role, EngineReceive(x)
      PROVE  TaskInv'
  <2>1. UNCHANGED <<load, reads, said, ended, broken>> /\ wire[x] # <<>>
    BY <1>8 DEF EngineReceive
  <2>2. CASE pump' = pump
    BY <2>1, <2>2 DEF TaskInv
  <2>3. CASE pump' # pump
    <3>1. PICK f : f = Head(wire[x])
      OBVIOUS
    <3>2. f.kind = "open" /\ x = "target" /\ pump' = [pump EXCEPT ![x][f.s] = "dial"]
      BY <1>8, <2>3, <3>1 DEF EngineReceive, Goes
    <3>3. f.s \in Stream /\ pump[x][f.s] = "none"
      BY <2>1, <3>1, <3>2, ReceiveFacts
    <3>4. PICK s \in Stream : s = f.s
      BY <3>3
    <3>5. \A y \in Role, r \in Stream :
             pump'[y][r] = IF y = "target" /\ r = s THEN "dial" ELSE pump[y][r]
      BY <1>0, <3>2, <3>4, OverUpdate
    <3> QED BY <2>1, <3>2, <3>3, <3>4, <3>5, RoleFacts DEF TaskInv
  <2> QED BY <2>2, <2>3
<1>9. ASSUME NEW x \in Role, NEW s \in Stream, Read(x, s)
      PROVE  TaskInv'
  <2>1. UNCHANGED <<load, pump, reads, ended, broken>> /\ reads[x][s]
        /\ said' = [said EXCEPT ![x][s] = @ + 1]
    BY <1>9 DEF Read
  <2>2. \A y \in Role, r \in Stream : y # x \/ r # s => said'[y][r] = said[y][r]
    BY <1>0, <2>1 DEF Over
  <2>3. pump[x][s] = "run"
    BY <2>1 DEF TaskInv
  <2> QED BY <2>1, <2>2, <2>3 DEF TaskInv
<1>10. ASSUME NEW x \in Role, NEW s \in Stream, ReadEnd(x, s)
       PROVE  TaskInv'
  <2>1. UNCHANGED <<load, pump, said, broken>> /\ reads[x][s]
    BY <1>10 DEF ReadEnd
  <2>2. \A y \in Role, r \in Stream :
           ended'[y][r] <=> ((y = x /\ r = s) \/ ended[y][r])
    BY <1>0, <1>10, OverSwitch DEF ReadEnd
  <2>3. \A y \in Role, r \in Stream :
           reads'[y][r] <=> (reads[y][r] /\ ~(y = x /\ r = s))
    BY <1>0, <1>10, OverSwitch DEF ReadEnd
  <2> QED BY <2>1, <2>2, <2>3, RoleFacts DEF TaskInv
<1>11. ASSUME NEW x \in Role, NEW s \in Stream, Ends(x, s), UNCHANGED <<load, said, ended>>,
              (broken' = broken /\ ended[Across(x)][s]) \/ broken' = broken \cup {s},
              pump[x][s] = "run"
       PROVE  TaskInv'
  <2>1. \A y \in Role, r \in Stream :
           pump'[y][r] = IF y = x /\ r = s THEN "done" ELSE pump[y][r]
    BY <1>0, <1>11, OverUpdate DEF Ends, Goes
  <2>2. \A y \in Role, r \in Stream :
           reads'[y][r] <=> (reads[y][r] /\ ~(y = x /\ r = s))
    BY <1>0, <1>11, OverSwitch DEF Ends
  <2> QED BY <1>11, <2>1, <2>2, RoleFacts DEF TaskInv
<1>12. ASSUME NEW x \in Role, NEW s \in Stream, Write(x, s)
       PROVE  TaskInv'
  <2>1. CASE Head(inq[x][s]).kind = "close"
    <3>1. pump[x][s] = "run" /\ inq[x][s] # <<>> /\ UNCHANGED <<load, said, ended, broken>>
          /\ Ends(x, s)
      BY <1>12, <2>1 DEF Write
    <3>2. ended[Across(x)][s]
      BY <2>1, <3>1, WriteFacts
    <3> QED BY <3>1, <3>2, <1>11
  <2>2. CASE Head(inq[x][s]).kind # "close"
    <3>1. UNCHANGED <<load, pump, reads, said, ended, broken>>
      BY <1>12, <2>2 DEF Write
    <3> QED BY <3>1 DEF TaskInv
  <2> QED BY <2>1, <2>2
<1>13. ASSUME NEW x \in Role, NEW s \in Stream, WriteFails(x, s)
       PROVE  TaskInv'
  BY <1>13, <1>11 DEF WriteFails
<1>14. ASSUME NEW x \in Role, NEW s \in Stream, SendFails(x, s)
       PROVE  TaskInv'
  BY <1>14 DEF SendFails, TaskInv
<1>15. ASSUME NEW s \in Stream, RecvFails(s)
       PROVE  TaskInv'
  <2>1. UNCHANGED <<load, pump, said, ended, broken>>
    BY <1>15 DEF RecvFails
  <2>2. \A y \in Role, r \in Stream :
           reads'[y][r] <=> (reads[y][r] /\ ~(y = "target" /\ r = s))
    BY <1>0, <1>15, RoleFacts, OverSwitch DEF RecvFails
  <2> QED BY <2>1, <2>2, RoleFacts DEF TaskInv
<1> QED BY <1>1, <1>2, <1>3, <1>4, <1>5, <1>6, <1>7, <1>8, <1>9, <1>10, <1>12, <1>13, <1>14, <1>15
        DEF StreamsNext, Dials, Engine, Writes

-----------------------------------------------------------------------------
(* The flows: commands are queued *)

LEMMA AcceptFlow ==
    ASSUME StreamTypes, TaskInv, FlowInv, StreamTypes', TaskInv', NEW s \in Stream, Accept(s)
    PROVE  FlowInv'
<1>0. pump \in Over(Tasks) /\ "opening" \in Tasks /\ "opening" # "none" /\ 0 \in 0..MaxChunks
  BY StreamsAssumption DEF StreamTypes, Tasks
<1>1. \A y \in Role, r \in Stream :
         pump'[y][r] = IF y = "listener" /\ r = s THEN "opening" ELSE pump[y][r]
  BY <1>0, RoleFacts, OverUpdate DEF Accept, Goes
<1>2. PICK c \in Cmd : c = [do |-> "send", f |-> FrameOf("open", s, 0)]
  BY <1>0, CommandTypes
<1>3. \A r \in Stream : CmdMark(c, r) = IF r # s THEN 0 ELSE 1
  BY <1>0, <1>2 DEF CmdMark, Mark, FrameOf
<1>4. /\ cmds' = [cmds EXCEPT !["listener"] = Append(@, c)]
      /\ UNCHANGED <<wire, inq, heard, missed, said, ended, reg>>
      /\ pump["listener"][s] = "none"
  BY <1>2 DEF Accept, Send, Queue
<1>5. \A x \in Role, r \in Stream : pump[x][r] = "done" => pump'[x][r] = "done"
  BY <1>1, <1>4
<1>6. \A o \in Role, r \in Stream : o # "listener" \/ r # s =>
         SentMarks(o, r)' = SentMarks(o, r) /\ LastMark(o, r)' = LastMark(o, r)
  BY <1>1, <1>4, SentSame
<1>7. said["listener"][s] = 0 /\ ~ended["listener"][s] /\ pump'["listener"][s] = "opening"
  BY <1>1, <1>4, RoleFacts DEF TaskInv
<1>8. SentMarks("listener", s)' = SentMarks("listener", s) \cup {1}
  BY <1>4, <1>7, MarkType DEF SentMarks
<1>9. LastMark("listener", s) = 0 /\ LastMark("listener", s)' = 2
  BY <1>4, <1>7 DEF LastMark
<1>10. \A r \in Stream, a \in 0..Top : Tie("target", r, a) => Tie("target", r, a)'
  <2>1. \A r \in Stream : pump'["target"][r] = pump["target"][r]
    BY <1>1, RoleFacts
  <2> QED BY <2>1, <1>4 DEF Tie
<1>13. /\ \A r \in Stream : r # s => CmdMark(c, r) = 0
       /\ SentMarks("listener", s)' = SentMarks("listener", s) \cup {CmdMark(c, s)}
       /\ LastMark("listener", s) < CmdMark(c, s) /\ CmdMark(c, s) <= LastMark("listener", s)'
       /\ CmdMark(c, s) # 0
  BY <1>3, <1>8, <1>9, MarkType
<1>15. UNCHANGED <<wire, inq, heard, missed>>
  BY <1>4
<1>16. cmds' = [cmds EXCEPT !["listener"] = Append(@, c)]
  BY <1>4
<1>17. \A o \in Role, r \in Stream : o # "listener" \/ r # s \/ CmdMark(c, s) = 0 =>
         SentMarks(o, r)' = SentMarks(o, r) /\ LastMark(o, r)' = LastMark(o, r)
  BY <1>6, <1>13
<1>18. "listener" \in Role
  BY RoleFacts
<1> HIDE DEF SentMarks, LastMark, CmdMark, Tie
<1> QED BY <1>5, <1>10, <1>13, <1>15, <1>16, <1>17, <1>18, QueueFlow

\* Registering a stream keeps the flow of every stream.
LEMMA RegisterFlow ==
    ASSUME StreamTypes, TaskInv, FlowInv, StreamTypes', TaskInv', NEW s \in Stream,
           RegisterStream(s)
    PROVE  FlowInv'
<1>0. pump \in Over(Tasks) /\ "run" \in Tasks /\ 0 \in 0..MaxChunks
  BY StreamsAssumption DEF StreamTypes, Tasks
<1>1. \A y \in Role, r \in Stream :
         pump'[y][r] = IF y = "listener" /\ r = s THEN "run" ELSE pump[y][r]
  BY <1>0, RoleFacts, OverUpdate DEF RegisterStream, Goes
<1>2. PICK c \in Cmd : c = [do |-> "register", s |-> s]
  BY <1>0, CommandTypes
<1>3. \A r \in Stream : CmdMark(c, r) = 0
  BY <1>0, <1>2 DEF CmdMark, Mark, FrameOf
<1>4. /\ cmds' = [cmds EXCEPT !["listener"] = Append(@, c)]
      /\ UNCHANGED <<wire, inq, heard, missed, said, ended, reg>>
      /\ pump["listener"][s] = "opening"
  BY <1>2 DEF RegisterStream, Queue
<1>5. \A x \in Role, r \in Stream : pump[x][r] = "done" => pump'[x][r] = "done"
  BY <1>1, <1>4
<1>6. \A o \in Role, r \in Stream :
         SentMarks(o, r)' = SentMarks(o, r) /\ LastMark(o, r)' = LastMark(o, r)
  BY <1>1, <1>4, SentSame
<1>10. \A r \in Stream, a \in 0..Top : Tie("target", r, a) => Tie("target", r, a)'
  <2>1. \A r \in Stream : pump'["target"][r] = pump["target"][r]
    BY <1>1, RoleFacts
  <2> QED BY <2>1, <1>4 DEF Tie
<1>15. UNCHANGED <<wire, inq, heard, missed>>
  BY <1>4
<1>16. cmds' = [cmds EXCEPT !["listener"] = Append(@, c)]
  BY <1>4
<1>17. CmdMark(c, s) = 0 /\ \A r \in Stream : r # s => CmdMark(c, r) = 0
  BY <1>3
<1>18. "listener" \in Role
  BY RoleFacts
<1> HIDE DEF SentMarks, LastMark, CmdMark, Tie
<1> QED BY <1>5, <1>6, <1>10, <1>15, <1>16, <1>17, <1>18, QueueFlow

\* A dial that fails keeps the flow of every stream.
LEMMA DialFailsFlow ==
    ASSUME StreamTypes, TaskInv, FlowInv, StreamTypes', TaskInv', NEW s \in Stream, DialFails(s)
    PROVE  FlowInv'
<1>0. pump \in Over(Tasks) /\ ended \in Over(BOOLEAN) /\ "done" \in Tasks /\ 0 \in 0..MaxChunks
  BY StreamsAssumption DEF StreamTypes, Tasks
<1>1. \A y \in Role, r \in Stream :
         pump'[y][r] = IF y = "target" /\ r = s THEN "done" ELSE pump[y][r]
  BY <1>0, RoleFacts, OverUpdate DEF DialFails, Goes
<1>2. PICK c \in Cmd : c = [do |-> "send", f |-> FrameOf("close", s, 0)]
  BY <1>0, CommandTypes
<1>3. \A r \in Stream : CmdMark(c, r) = IF r # s THEN 0 ELSE Top
  BY <1>0, <1>2 DEF CmdMark, Mark, FrameOf
<1>4. /\ cmds' = [cmds EXCEPT !["target"] = Append(@, c)]
      /\ UNCHANGED <<wire, inq, heard, missed, said>>
      /\ pump["target"][s] = "dial"
      /\ reg' = [reg EXCEPT !["target"] = @ \ {s}]
      /\ ended' = [ended EXCEPT !["target"][s] = TRUE]
  BY <1>2 DEF DialFails, Send, Queue
<1>5. \A x \in Role, r \in Stream : pump[x][r] = "done" => pump'[x][r] = "done"
  BY <1>1, <1>4
<1>6. \A o \in Role, r \in Stream : o # "target" \/ r # s =>
         SentMarks(o, r)' = SentMarks(o, r) /\ LastMark(o, r)' = LastMark(o, r)
  <2>1. \A o \in Role, r \in Stream : o # "target" \/ r # s => ended'[o][r] = ended[o][r]
    BY <1>0, <1>4 DEF Over
  <2> QED BY <1>1, <1>4, <2>1, SentSame
<1>7. said["target"][s] \in 0..MaxChunks /\ ~ended["target"][s] /\ ended'["target"][s]
  <2>1. ended'["target"][s]
    BY <1>0, <1>4, OverSwitch, RoleFacts
  <2>2. ~ended["target"][s]
    BY <1>4, RoleFacts DEF TaskInv
  <2>3. said["target"][s] \in 0..MaxChunks
    BY RoleFacts DEF StreamTypes, Over
  <2> QED BY <2>1, <2>2, <2>3
<1>8. SentMarks("target", s)' = SentMarks("target", s) \cup {Top}
  BY <1>4, <1>7, MarkType DEF SentMarks
<1>9. LastMark("target", s) < Top /\ LastMark("target", s)' = Top
  BY <1>4, <1>7, StreamsAssumption DEF LastMark, Top
<1>10. \A r \in Stream, a \in 0..Top : Tie("target", r, a) => Tie("target", r, a)'
  <2>1. \A r \in Stream : r # s => pump'["target"][r] = pump["target"][r]
                                  /\ (r \in reg'["target"] <=> r \in reg["target"])
    BY <1>1, <1>4, RoleFacts DEF StreamTypes
  <2>2. pump'["target"][s] = "done"
    BY <1>1, RoleFacts
  <2> QED BY <2>1, <2>2, <1>4 DEF Tie
<1>13. /\ \A r \in Stream : r # s => CmdMark(c, r) = 0
       /\ SentMarks("target", s)' = SentMarks("target", s) \cup {CmdMark(c, s)}
       /\ LastMark("target", s) < CmdMark(c, s) /\ CmdMark(c, s) <= LastMark("target", s)'
       /\ CmdMark(c, s) # 0
  BY <1>3, <1>8, <1>9, MarkType
<1>15. UNCHANGED <<wire, inq, heard, missed>>
  BY <1>4
<1>16. cmds' = [cmds EXCEPT !["target"] = Append(@, c)]
  BY <1>4
<1>17. \A o \in Role, r \in Stream : o # "target" \/ r # s \/ CmdMark(c, s) = 0 =>
         SentMarks(o, r)' = SentMarks(o, r) /\ LastMark(o, r)' = LastMark(o, r)
  BY <1>6, <1>13
<1>18. "target" \in Role
  BY RoleFacts
<1> HIDE DEF SentMarks, LastMark, CmdMark, Tie
<1> QED BY <1>5, <1>10, <1>13, <1>15, <1>16, <1>17, <1>18, QueueFlow

\* Reading a chunk from a socket keeps the flow of every stream.
LEMMA ReadFlow ==
    ASSUME StreamTypes, TaskInv, FlowInv, StreamTypes', TaskInv',
           NEW x \in Role, NEW s \in Stream, Read(x, s)
    PROVE  FlowInv'
<1>0. said[x][s] \in 0..MaxChunks /\ MaxChunks \in Nat /\ said \in Over(0..MaxChunks)
  BY StreamsAssumption DEF StreamTypes, Over
<1>1. reads[x][s] /\ load[s] \in 0..MaxChunks /\ said[x][s] < load[s]
  BY ReadAccepted DEF Read
<1>2. PICK n \in 0..MaxChunks : n = said[x][s] + 1
  BY <1>0, <1>1
<1>21. PICK c \in Cmd : c = [do |-> "send", f |-> FrameOf("data", s, n)]
  BY <1>2, CommandTypes
<1>3. \A r \in Stream : CmdMark(c, r) = IF r # s THEN 0 ELSE n + 2
  BY <1>2, <1>21 DEF CmdMark, Mark, FrameOf
<1>4. /\ cmds' = [cmds EXCEPT ![x] = Append(@, c)]
      /\ UNCHANGED <<wire, inq, heard, missed, pump, ended, reg>>
      /\ said' = [said EXCEPT ![x][s] = n]
  BY <1>2, <1>21 DEF Read, Send, Queue, StreamTypes, Over
<1>5. \A o \in Role, r \in Stream :
         said'[o][r] = IF o = x /\ r = s THEN n ELSE said[o][r]
  BY <1>0, <1>4 DEF Over
<1>6. \A o \in Role, r \in Stream : o # x \/ r # s =>
         SentMarks(o, r)' = SentMarks(o, r) /\ LastMark(o, r)' = LastMark(o, r)
  BY <1>4, <1>5, SentSame
<1>7. ~ended[x][s] /\ pump[x][s] = "run"
  BY <1>1 DEF TaskInv
<1>8. SentMarks(x, s)' = SentMarks(x, s) \cup {said[x][s] + 3}
  <2>1. said'[x][s] = said[x][s] + 1
    BY <1>2, <1>5
  <2>2. said[x][s] + 3 \in 1..Top
    BY <1>0, <1>2 DEF Top
  <2> QED BY <1>0, <1>4, <2>1, <2>2 DEF SentMarks
<1>9. LastMark(x, s) = said[x][s] + 2 /\ LastMark(x, s)' = (said[x][s] + 1) + 2
  BY <1>2, <1>4, <1>5, <1>7 DEF LastMark
<1>10. \A r \in Stream, a \in 0..Top : Tie("target", r, a) => Tie("target", r, a)'
  BY <1>4 DEF Tie
<1>11. (said[x][s] + 1) + 2 = said[x][s] + 3 /\ said[x][s] + 2 < said[x][s] + 3
  BY <1>0
<1>12. CmdMark(c, s) = said[x][s] + 3
  BY <1>2, <1>3, <1>11
<1>13. /\ \A r \in Stream : r # s => CmdMark(c, r) = 0
       /\ SentMarks(x, s)' = SentMarks(x, s) \cup {CmdMark(c, s)}
       /\ LastMark(x, s) < CmdMark(c, s) /\ CmdMark(c, s) <= LastMark(x, s)'
       /\ CmdMark(c, s) # 0
  BY <1>0, <1>3, <1>8, <1>9, <1>11, <1>12
<1>14. \A y \in Role, r \in Stream : pump[y][r] = "done" => pump'[y][r] = "done"
  BY <1>4
<1>15. UNCHANGED <<wire, inq, heard, missed>>
  BY <1>4
<1>16. cmds' = [cmds EXCEPT ![x] = Append(@, c)]
  BY <1>4
<1>17. \A o \in Role, r \in Stream : o # x \/ r # s \/ CmdMark(c, s) = 0 =>
         SentMarks(o, r)' = SentMarks(o, r) /\ LastMark(o, r)' = LastMark(o, r)
  BY <1>6, <1>13
<1> HIDE DEF SentMarks, LastMark, CmdMark, Tie
<1> QED BY <1>10, <1>13, <1>14, <1>15, <1>16, <1>17, QueueFlow

\* Reading the end of a socket keeps the flow of every stream.
LEMMA ReadEndFlow ==
    ASSUME StreamTypes, TaskInv, FlowInv, StreamTypes', TaskInv',
           NEW x \in Role, NEW s \in Stream, ReadEnd(x, s)
    PROVE  FlowInv'
<1>0. ended \in Over(BOOLEAN) /\ 0 \in 0..MaxChunks /\ said[x][s] \in 0..MaxChunks
  BY StreamsAssumption DEF StreamTypes, Over
<1>2. PICK c \in Cmd : c = [do |-> "send", f |-> FrameOf("close", s, 0)]
  BY <1>0, CommandTypes
<1>3. \A r \in Stream : CmdMark(c, r) = IF r # s THEN 0 ELSE Top
  BY <1>0, <1>2 DEF CmdMark, Mark, FrameOf
<1>4. /\ cmds' = [cmds EXCEPT ![x] = Append(@, c)]
      /\ UNCHANGED <<wire, inq, heard, missed, said, pump, reg>>
      /\ ended' = [ended EXCEPT ![x][s] = TRUE] /\ reads[x][s]
  BY <1>2 DEF ReadEnd, Send, Queue
<1>5. \A y \in Role, r \in Stream : pump[y][r] = "done" => pump'[y][r] = "done"
  BY <1>4
<1>6. \A o \in Role, r \in Stream : o # x \/ r # s =>
         SentMarks(o, r)' = SentMarks(o, r) /\ LastMark(o, r)' = LastMark(o, r)
  <2>1. \A o \in Role, r \in Stream : o # x \/ r # s => ended'[o][r] = ended[o][r]
    BY <1>0, <1>4 DEF Over
  <2> QED BY <1>4, <2>1, SentSame
<1>7. ~ended[x][s] /\ ended'[x][s] /\ pump[x][s] = "run"
  <2>1. ended'[x][s]
    BY <1>0, <1>4, OverSwitch
  <2> QED BY <1>4, <2>1 DEF TaskInv
<1>8. SentMarks(x, s)' = SentMarks(x, s) \cup {Top}
  BY <1>4, <1>7, MarkType DEF SentMarks
<1>9. LastMark(x, s) < Top /\ LastMark(x, s)' = Top
  BY <1>0, <1>4, <1>7, StreamsAssumption DEF LastMark, Top
<1>10. \A r \in Stream, a \in 0..Top : Tie("target", r, a) => Tie("target", r, a)'
  BY <1>4 DEF Tie
<1>13. /\ \A r \in Stream : r # s => CmdMark(c, r) = 0
       /\ SentMarks(x, s)' = SentMarks(x, s) \cup {CmdMark(c, s)}
       /\ LastMark(x, s) < CmdMark(c, s) /\ CmdMark(c, s) <= LastMark(x, s)'
       /\ CmdMark(c, s) # 0
  BY <1>3, <1>8, <1>9, MarkType
<1>15. UNCHANGED <<wire, inq, heard, missed>>
  BY <1>4
<1>16. cmds' = [cmds EXCEPT ![x] = Append(@, c)]
  BY <1>4
<1>17. \A o \in Role, r \in Stream : o # x \/ r # s \/ CmdMark(c, s) = 0 =>
         SentMarks(o, r)' = SentMarks(o, r) /\ LastMark(o, r)' = LastMark(o, r)
  BY <1>6, <1>13
<1>18. x \in Role
  BY RoleFacts
<1> HIDE DEF SentMarks, LastMark, CmdMark, Tie
<1> QED BY <1>5, <1>10, <1>13, <1>15, <1>16, <1>17, <1>18, QueueFlow

-----------------------------------------------------------------------------
(* The flows: the engines and the pumps *)

LEMMA EngineSendFlow ==
    ASSUME StreamTypes, TaskInv, FlowInv, NEW y \in Role, EngineSend(y)
    PROVE  FlowInv'
<1> SUFFICES ASSUME NEW x \in Role, NEW s \in Stream
             PROVE  \E a, b \in 0..Top : FlowOf(x, s, a, b)'
  BY DEF FlowInv
<1>1. PICK a, b \in 0..Top : FlowOf(x, s, a, b)
  BY DEF FlowInv
<1>2. PICK o \in Role : o = Across(x) /\ x = Across(o) /\ o # x
  BY RoleFacts
<1>3. /\ cmds[y] # <<>> /\ cmds' = [cmds EXCEPT ![y] = Tail(@)]
      /\ UNCHANGED <<inq, pump, said, heard, ended, missed>>
  BY DEF EngineSend
<1>4. Live(x, s)' => Live(x, s)
  BY <1>3 DEF Live, Unmissed
<1>5. SentMarks(o, s)' = SentMarks(o, s) /\ LastMark(o, s)' = LastMark(o, s)
  BY <1>3, SentSame
<1>6. Tie(x, s, a)'
  <2>1. s \in reg[x] => s \in reg'[x]
    BY DEF EngineSend, StreamTypes
  <2>2. Tie(x, s, a)
    BY <1>1 DEF FlowOf
  <2> QED BY <1>3, <2>1, <2>2 DEF Tie
<1>7. Flow(Marks(wire[x], s), CmdMarks(cmds[o], s), Marks(inq[x][s], s),
            SentMarks(o, s), LastMark(o, s), Len(heard[x][s]), Live(x, s), a, b)
  BY <1>1, <1>2 DEF FlowOf
<1>8. /\ Sendable(SentMarks(o, s)) /\ LastMark(o, s) \in 0..Top
      /\ \A t \in SentMarks(o, s) : t <= LastMark(o, s)
  BY SentFacts
<1>9. /\ Marks(wire[x], s) \in Seq(Nat) /\ CmdMarks(cmds[o], s) \in Seq(Nat)
      /\ wire[x] \in Seq(Frame) /\ cmds[o] \in Seq(Cmd)
  BY QueueTypes
<1>10. CASE o # y
  <2>1. y = x
    BY <1>2, <1>10, RoleFacts
  <2>2. cmds'[o] = cmds[o]
    BY <1>3, <1>10 DEF StreamTypes
  <2>3. wire'[x] = wire[x]
    BY <1>2, <2>1 DEF EngineSend, StreamTypes
  <2>4. FlowOf(x, s, a, b)'
    BY <1>2, <1>3, <1>4, <1>5, <1>6, <1>7, <2>2, <2>3, FlowNext
  <2> QED BY <2>4
<1>11. CASE o = y
  <2>1. cmds'[o] = Tail(cmds[o]) /\ cmds[o] # <<>>
    BY <1>3, <1>11 DEF StreamTypes
  <2>2. PICK c \in Cmd : c = Head(cmds[o])
    BY <1>9, <2>1, TailFacts
  <2>3. /\ CmdMarks(cmds[o], s) # <<>> /\ Head(CmdMarks(cmds[o], s)) = CmdMark(c, s)
        /\ CmdMarks(cmds'[o], s) = Tail(CmdMarks(cmds[o], s))
    BY <1>9, <2>1, <2>2, CmdQueue
  <2>4. CASE c.do # "send"
    <3>1. wire'[x] = wire[x]
      BY <1>11, <2>2, <2>4 DEF EngineSend
    <3>2. CmdMark(c, s) = 0
      BY <2>4 DEF CmdMark
    <3>3. Flow(Marks(wire[x], s), Tail(CmdMarks(cmds[o], s)), Marks(inq[x][s], s),
            SentMarks(o, s), LastMark(o, s), Len(heard[x][s]), Live(x, s), a, b)
      BY <1>7, <1>8, <1>9, <2>3, <3>2, FlowSkipsCommand
    <3>4. FlowOf(x, s, a, b)'
      BY <1>2, <1>3, <1>4, <1>5, <1>6, <2>3, <3>1, <3>3, FlowNext
    <3> QED BY <3>4
  <2>5. CASE c.do = "send"
    <3>1. c.f \in Frame
      BY <2>2, <2>5 DEF Cmd
    <3>2. wire'[x] = Append(wire[x], c.f)
      BY <1>2, <1>11, <2>2, <2>5 DEF EngineSend, StreamTypes
    <3>3. CmdMark(c, s) = Mark(c.f, s)
      BY <2>5 DEF CmdMark
    <3>4. Marks(wire'[x], s) = Append(Marks(wire[x], s), Mark(c.f, s))
      BY <1>9, <3>1, <3>2, FrameQueue
    <3>5. CASE Mark(c.f, s) = 0
      <4>1. Flow(Append(Marks(wire[x], s), 0), Tail(CmdMarks(cmds[o], s)), Marks(inq[x][s], s),
            SentMarks(o, s), LastMark(o, s), Len(heard[x][s]), Live(x, s), a, b)
        BY <1>7, <1>8, <1>9, <2>3, <3>3, <3>5, FlowSkipsCommand
      <4>2. FlowOf(x, s, a, b)'
        BY <1>2, <1>3, <1>4, <1>5, <1>6, <2>3, <3>4, <3>5, <4>1, FlowNext
      <4> QED BY <4>2
    <3>6. CASE Mark(c.f, s) # 0
      <4>1. PICK t : t = Mark(c.f, s)
        OBVIOUS
      <4>2. /\ t \in 0..Top
            /\ Flow(Append(Marks(wire[x], s), t), Tail(CmdMarks(cmds[o], s)), Marks(inq[x][s], s),
                    SentMarks(o, s), LastMark(o, s), Len(heard[x][s]), Live(x, s), a, t)
        BY <1>7, <1>8, <1>9, <2>3, <3>3, <3>6, <4>1, FlowSends
      <4>3. FlowOf(x, s, a, t)'
        BY <1>2, <1>3, <1>4, <1>5, <1>6, <2>3, <3>4, <4>1, <4>2, FlowNext
      <4> QED BY <4>2, <4>3
    <3> QED BY <3>5, <3>6
  <2> QED BY <2>4, <2>5
<1> QED BY <1>10, <1>11

\* Taking a frame off the wire keeps the flow of every stream.
LEMMA EngineReceiveFlow ==
    ASSUME StreamTypes, TaskInv, FlowInv, NEW y \in Role, EngineReceive(y)
    PROVE  FlowInv'
<1> SUFFICES ASSUME NEW x \in Role, NEW s \in Stream
             PROVE  \E a, b \in 0..Top : FlowOf(x, s, a, b)'
  BY DEF FlowInv
<1>1. PICK a, b \in 0..Top : FlowOf(x, s, a, b)
  BY DEF FlowInv
<1>2. PICK o \in Role : o = Across(x)
  BY RoleFacts
<1>3. PICK f : f = Head(wire[y])
  OBVIOUS
<1>4. /\ wire[y] # <<>> /\ wire' = [wire EXCEPT ![y] = Tail(@)]
      /\ reg' = [reg EXCEPT ![y] = RoutesAfter(y, f)]
      /\ IF f.kind = "open" /\ y = "target" THEN pump' = [pump EXCEPT ![y][f.s] = "dial"]
                                            ELSE pump' = pump
      /\ inq' = IF (f.kind # "open" /\ f.s \in reg[y]) /\ pump[y][f.s] # "done"
                THEN [inq EXCEPT ![y][f.s] = Append(@, f)] ELSE inq
      /\ missed' = IF y = "listener" /\ ~(f.kind # "open" /\ f.s \in reg[y]) /\ pump[y][f.s] # "done"
                   THEN missed \cup {f.s} ELSE missed
      /\ UNCHANGED <<cmds, said, heard, ended>>
  BY <1>3 DEF EngineReceive, Goes
<1>5. /\ f \in Frame /\ f.s \in Stream
      /\ f.kind = "open" => y = "target" /\ pump[y][f.s] = "none"
      /\ f.kind # "open" /\ y = "target" =>
            pump[y][f.s] # "none" /\ (pump[y][f.s] # "done" => f.s \in reg[y])
  BY <1>3, <1>4, ReceiveFacts
<1>6. \A z \in Role, r \in Stream :
         pump'[z][r] = IF z = y /\ r = f.s /\ f.kind = "open" THEN "dial" ELSE pump[z][r]
  <2>1. CASE f.kind = "open"
    <3>1. PICK u \in Stream : u = f.s
      BY <1>5
    <3>2. pump \in Over(Tasks) /\ "dial" \in Tasks
      BY DEF StreamTypes, Tasks
    <3>3. pump' = [pump EXCEPT ![y][u] = "dial"]
      BY <1>4, <1>5, <2>1, <3>1
    <3> QED BY <2>1, <3>1, <3>2, <3>3, OverUpdate
  <2>2. CASE f.kind # "open"
    BY <1>4, <2>2
  <2> QED BY <2>1, <2>2
<1>7. \A z \in Role, r \in Stream :
         inq'[z][r] = IF z = y /\ r = f.s /\ f.kind # "open" /\ f.s \in reg[y] /\ pump[y][f.s] # "done"
                      THEN Append(inq[z][r], f) ELSE inq[z][r]
  BY <1>4, <1>5 DEF StreamTypes, Over
<1>8. SentMarks(o, s)' = SentMarks(o, s) /\ LastMark(o, s)' = LastMark(o, s)
  BY <1>4, <1>5, <1>6, SentSame
<1>9. Live(x, s)' => Live(x, s)
  <2>1. pump[x][s] = "done" => pump'[x][s] = "done"
    BY <1>5, <1>6
  <2>2. missed \subseteq missed'
    BY <1>4
  <2> QED BY <2>1, <2>2 DEF Live, Unmissed
<1>10. Flow(Marks(wire[x], s), CmdMarks(cmds[o], s), Marks(inq[x][s], s),
            SentMarks(o, s), LastMark(o, s), Len(heard[x][s]), Live(x, s), a, b)
       /\ Tie(x, s, a)
  BY <1>1, <1>2 DEF FlowOf
<1>11. /\ Sendable(SentMarks(o, s))
       /\ Marks(wire[x], s) \in Seq(Nat) /\ wire[x] \in Seq(Frame)
       /\ Marks(inq[x][s], s) \in Seq(Nat) /\ inq[x][s] \in Seq(Frame)
       /\ Len(heard[x][s]) \in Nat
  BY SentFacts, QueueTypes
<1>12. CASE x # y
  <2>1. wire'[x] = wire[x] /\ inq'[x][s] = inq[x][s] /\ pump'[x][s] = pump[x][s] /\ reg'[x] = reg[x]
    BY <1>4, <1>6, <1>7, <1>12 DEF StreamTypes
  <2>2. Tie(x, s, a)'
    BY <1>10, <2>1 DEF Tie
  <2>3. FlowOf(x, s, a, b)'
    BY <1>2, <1>4, <1>8, <1>9, <1>10, <2>1, <2>2, FlowNext
  <2> QED BY <2>3
<1>13. CASE x = y
  <2>1. wire'[x] = Tail(wire[x]) /\ wire[x] # <<>> /\ f = Head(wire[x])
    BY <1>3, <1>4, <1>13 DEF StreamTypes
  <2>2. /\ Marks(wire[x], s) # <<>> /\ Head(Marks(wire[x], s)) = Mark(f, s)
        /\ Marks(wire'[x], s) = Tail(Marks(wire[x], s))
    BY <1>11, <2>1, FrameQueue
  <2>3. reg'[x] = RoutesAfter(x, f)
    BY <1>4, <1>13 DEF StreamTypes
  <2>4. CASE f.s # s
    <3>1. Mark(f, s) = 0
      BY <2>4 DEF Mark
    <3>2. inq'[x][s] = inq[x][s] /\ pump'[x][s] = pump[x][s]
      BY <1>6, <1>7, <2>4
    <3>3. s \in reg[x] => s \in reg'[x]
      BY <2>3, <2>4, <1>5 DEF RoutesAfter, Frame
    <3>4. Tie(x, s, a)'
      BY <1>10, <3>2, <3>3 DEF Tie
    <3>5. Flow(Tail(Marks(wire[x], s)), CmdMarks(cmds[o], s), Marks(inq[x][s], s),
            SentMarks(o, s), LastMark(o, s), Len(heard[x][s]), Live(x, s), a, b)
      BY <1>10, <1>11, <2>2, <3>1, FlowSkipsFrame
    <3>6. FlowOf(x, s, a, b)'
      BY <1>2, <1>4, <1>8, <1>9, <2>2, <3>2, <3>4, <3>5, FlowNext
    <3> QED BY <3>6
  <2>5. CASE f.s = s
    <3>0. f.n \in 0..MaxChunks /\ f.kind \in {"open", "data", "close"}
      BY <1>5 DEF Frame
    <3>1. PICK m \in Nat : m = Mark(f, s)
      BY <1>5, MarkType
    <3>2. m # 0 /\ (m = 1 <=> f.kind = "open") /\ (f.kind = "close" => m = Top)
      BY <2>5, <3>0, <3>1, StreamsAssumption DEF Mark, Top
    <3>3. /\ m \in 0..Top
          /\ Flow(Tail(Marks(wire[x], s)), CmdMarks(cmds[o], s), Marks(inq[x][s], s),
                  SentMarks(o, s), LastMark(o, s), Len(heard[x][s]), FALSE, m, b)
          /\ m = 1 => Flow(Tail(Marks(wire[x], s)), CmdMarks(cmds[o], s), Marks(inq[x][s], s),
                  SentMarks(o, s), LastMark(o, s), Len(heard[x][s]), Live(x, s), m, b)
          /\ m # 1 => Flow(Tail(Marks(wire[x], s)), CmdMarks(cmds[o], s), Append(Marks(inq[x][s], s), m),
                  SentMarks(o, s), LastMark(o, s), Len(heard[x][s]), Live(x, s), m, b)
      <4>1. PICK w \in Seq(Nat) : w = Marks(wire[x], s)
        BY <1>11
      <4>2. PICK q \in Seq(Nat) : q = Marks(inq[x][s], s)
        BY <1>11
      <4>3. PICK h \in Nat : h = Len(heard[x][s])
        BY <1>11
      <4>4. Head(w) = m /\ w # <<>> /\ Head(w) # 0
        BY <2>2, <3>1, <3>2, <4>1
      <4>5. Flow(w, CmdMarks(cmds[o], s), q, SentMarks(o, s), LastMark(o, s), h, Live(x, s), a, b)
        BY <1>10, <4>1, <4>2, <4>3
      <4>6. /\ Head(w) \in 0..Top
            /\ Flow(Tail(w), CmdMarks(cmds[o], s), q, SentMarks(o, s), LastMark(o, s), h,
                    FALSE, Head(w), b)
            /\ Head(w) = 1 => Flow(Tail(w), CmdMarks(cmds[o], s), q, SentMarks(o, s),
                                   LastMark(o, s), h, Live(x, s), Head(w), b)
            /\ Head(w) # 1 => Flow(Tail(w), CmdMarks(cmds[o], s), Append(q, Head(w)), SentMarks(o, s),
                                   LastMark(o, s), h, Live(x, s), Head(w), b)
        BY <1>11, <4>4, <4>5, FlowReceives
      <4> QED BY <4>1, <4>2, <4>3, <4>4, <4>6
    <3>4. CASE f.kind = "open"
      <4>1. inq'[x][s] = inq[x][s] /\ pump'[x][s] = "dial"
        BY <1>6, <1>7, <1>13, <2>5, <3>4
      <4>2. x = "target" /\ s \in reg'[x]
        BY <1>5, <1>13, <2>3, <2>5, <3>4 DEF RoutesAfter
      <4>3. Tie(x, s, m)'
        BY <3>2, <4>1, <4>2 DEF Tie
      <4>4. FlowOf(x, s, m, b)'
        BY <1>2, <1>4, <1>8, <1>9, <2>2, <3>2, <3>3, <3>4, <4>1, <4>3, FlowNext
      <4> QED BY <3>3, <4>4
    <3>5. CASE f.kind # "open"
      <4>1. pump'[x][s] = pump[x][s]
        BY <1>6, <3>5
      <4>2. CASE s \in reg[x] /\ pump[x][s] # "done"
        <5>1. Marks(inq'[x][s], s) = Append(Marks(inq[x][s], s), m)
          <6>1. inq'[x][s] = Append(inq[x][s], f)
            BY <1>7, <1>13, <2>5, <3>5, <4>2
          <6> QED BY <1>5, <1>11, <3>1, <6>1, FrameQueue
        <5>2. Tie(x, s, m)'
          <6>1. f.kind = "data" => s \in reg'[x]
            BY <2>3, <4>2 DEF RoutesAfter
          <6>2. x = "target" => pump[x][s] # "none"
            BY <1>5, <1>13, <2>5, <3>5
          <6> QED BY <3>0, <3>2, <3>5, <4>1, <6>1, <6>2 DEF Tie
        <5>3. FlowOf(x, s, m, b)'
          BY <1>2, <1>4, <1>8, <1>9, <2>2, <3>2, <3>3, <3>5, <5>1, <5>2, FlowNext
        <5> QED BY <3>3, <5>3
      <4>3. CASE ~(s \in reg[x] /\ pump[x][s] # "done")
        <5>1. inq'[x][s] = inq[x][s]
          BY <1>7, <1>13, <2>5, <4>3
        <5>2. ~Live(x, s)'
          <6>1. CASE x = "target"
            BY <1>5, <1>13, <2>5, <3>5, <4>1, <4>3, <6>1 DEF Live
          <6>2. CASE x = "listener"
            <7>1. pump[x][s] = "done" \/ s \in missed'
              BY <1>4, <1>13, <2>5, <4>3, <6>2
            <7> QED BY <4>1, <6>2, <7>1 DEF Live, Unmissed
          <6> QED BY <6>1, <6>2, RoleFacts
        <5>3. Tie(x, s, m)'
          <6>1. x = "target" => pump'[x][s] = "done"
            BY <1>5, <1>13, <2>5, <3>5, <4>1, <4>3
          <6> QED BY <3>2, <6>1 DEF Tie
        <5>4. FlowOf(x, s, m, b)'
          BY <1>2, <1>4, <1>8, <2>2, <3>3, <5>1, <5>2, <5>3, FlowNext
        <5> QED BY <3>3, <5>4
      <4> QED BY <4>2, <4>3
    <3> QED BY <3>4, <3>5
  <2> QED BY <2>4, <2>5
<1> QED BY <1>12, <1>13

\* A task that ends leaves its channel empty.
LEMMA EndsFlow ==
    ASSUME StreamTypes, TaskInv, FlowInv, NEW y \in Role, NEW r \in Stream, Ends(y, r),
           pump[y][r] = "run", UNCHANGED <<cmds, wire, said, heard, ended, missed>>
    PROVE  FlowInv'
<1> SUFFICES ASSUME NEW x \in Role, NEW s \in Stream
             PROVE  \E a, b \in 0..Top : FlowOf(x, s, a, b)'
  BY DEF FlowInv
<1>1. PICK a, b \in 0..Top : FlowOf(x, s, a, b)
  BY DEF FlowInv
<1>2. PICK o \in Role : o = Across(x)
  BY RoleFacts
<1>3. /\ pump \in Over(Tasks) /\ "done" \in Tasks
      /\ inq \in Over(Seq(Frame)) /\ <<>> \in Seq(Frame)
  BY DEF StreamTypes, Tasks
<1>4. \A z \in Role, u \in Stream :
         pump'[z][u] = IF z = y /\ u = r THEN "done" ELSE pump[z][u]
  BY <1>3, OverUpdate DEF Ends, Goes
<1>5. \A z \in Role, u \in Stream : inq'[z][u] = IF z = y /\ u = r THEN <<>> ELSE inq[z][u]
  <2>1. inq' = [inq EXCEPT ![y][r] = <<>>]
    BY DEF Ends
  <2> QED BY <1>3, <2>1 DEF Over
<1>6. SentMarks(o, s)' = SentMarks(o, s) /\ LastMark(o, s)' = LastMark(o, s)
  BY <1>4, SentSame
<1>7. Flow(Marks(wire[x], s), CmdMarks(cmds[o], s), Marks(inq[x][s], s),
            SentMarks(o, s), LastMark(o, s), Len(heard[x][s]), Live(x, s), a, b)
       /\ Tie(x, s, a)
  BY <1>1, <1>2 DEF FlowOf
<1>8. CASE x = y /\ s = r
  <2>1. pump'[x][s] = "done" /\ pump[x][s] = "run" /\ inq'[x][s] = <<>>
    BY <1>4, <1>5, <1>8
  <2>2. ~Live(x, s)' /\ Tie(x, s, a)'
    BY <1>7, <2>1 DEF Live, Tie
  <2>3. Marks(inq'[x][s], s) = <<>>
    BY <2>1 DEF Marks
  <2>4. Flow(Marks(wire[x], s), CmdMarks(cmds[o], s), <<>>,
             SentMarks(o, s), LastMark(o, s), Len(heard[x][s]), FALSE, a, b)
    BY <1>7, FlowStops
  <2>5. FlowOf(x, s, a, b)'
    BY <1>2, <1>6, <2>2, <2>3, <2>4, FlowNext
  <2> QED BY <2>5
<1>9. CASE ~(x = y /\ s = r)
  <2>1. pump'[x][s] = pump[x][s] /\ inq'[x][s] = inq[x][s]
    BY <1>4, <1>5, <1>9
  <2>2. s \in reg[x] => s \in reg'[x]
    BY <1>9 DEF Ends, StreamTypes
  <2>3. (Live(x, s)' => Live(x, s)) /\ Tie(x, s, a)'
    BY <1>7, <2>1, <2>2 DEF Live, Unmissed, Tie
  <2>4. FlowOf(x, s, a, b)'
    BY <1>2, <1>6, <1>7, <2>1, <2>3, FlowNext
  <2> QED BY <2>4
<1> QED BY <1>8, <1>9

\* A chunk is taken off the queue of a stream, and n put down as heard.
Taken(y, r, n) ==
    /\ pump[y][r] = "run" /\ inq[y][r] # <<>> /\ Head(inq[y][r]).kind # "close"
    /\ inq' = [inq EXCEPT ![y][r] = Tail(@)]
    /\ heard' = [heard EXCEPT ![y][r] = Append(@, n)]
    /\ UNCHANGED <<cmds, wire, reg, pump, said, ended, missed>>

\* Taking a chunk off the queue of a stream, heard or lost, keeps the flow of
\* every stream.
LEMMA TakenFlow ==
    ASSUME StreamTypes, TaskInv, FlowInv, NEW y \in Role, NEW r \in Stream,
           NEW n \in 0..MaxChunks, Taken(y, r, n)
    PROVE  FlowInv'
<1> SUFFICES ASSUME NEW x \in Role, NEW s \in Stream
             PROVE  \E a, b \in 0..Top : FlowOf(x, s, a, b)'
  BY DEF FlowInv
<1>1. PICK a, b \in 0..Top : FlowOf(x, s, a, b)
  BY DEF FlowInv
<1>2. PICK o \in Role : o = Across(x)
  BY RoleFacts
<1>3. PICK f : f = Head(inq[y][r])
  OBVIOUS
<1>4. /\ pump[y][r] = "run" /\ inq[y][r] # <<>>
      /\ inq' = [inq EXCEPT ![y][r] = Tail(@)]
      /\ heard' = [heard EXCEPT ![y][r] = Append(@, n)]
      /\ UNCHANGED <<cmds, wire, reg, pump, said, ended, missed>>
  BY DEF Taken
<1>5. SentMarks(o, s)' = SentMarks(o, s) /\ LastMark(o, s)' = LastMark(o, s)
  BY <1>4, SentSame
<1>6. Flow(Marks(wire[x], s), CmdMarks(cmds[o], s), Marks(inq[x][s], s),
            SentMarks(o, s), LastMark(o, s), Len(heard[x][s]), Live(x, s), a, b)
       /\ Tie(x, s, a)
  BY <1>1, <1>2 DEF FlowOf
<1>7. (Live(x, s)' => Live(x, s)) /\ Tie(x, s, a)'
  BY <1>4, <1>6 DEF Live, Unmissed, Tie
<1>8. CASE x = y /\ s = r
  <2>1. inq'[x][s] = Tail(inq[x][s]) /\ heard'[x][s] = Append(heard[x][s], n)
        /\ inq[x][s] # <<>> /\ pump[x][s] = "run" /\ f = Head(inq[x][s])
    BY <1>3, <1>4, <1>8 DEF StreamTypes, Over
  <2>2. /\ inq[x][s] \in Seq(Frame) /\ heard[x][s] \in Seq(0..MaxChunks)
        /\ Marks(inq[x][s], s) \in Seq(Nat) /\ Len(heard[x][s]) \in Nat
        /\ Sendable(SentMarks(o, s))
    BY QueueTypes, SentFacts
  <2>3. f \in Frame /\ f.s = s
    BY <2>1, WriteFacts
  <2>4. f.n \in 0..MaxChunks /\ f.kind \in {"open", "data"}
    BY <1>3, <2>3 DEF Frame, Taken
  <2>5. /\ Marks(inq[x][s], s) # <<>> /\ Head(Marks(inq[x][s], s)) = Mark(f, s)
        /\ Marks(inq'[x][s], s) = Tail(Marks(inq[x][s], s))
    BY <2>1, <2>2, FrameQueue
  <2>6. Mark(f, s) < Top
    BY <2>3, <2>4, StreamsAssumption DEF Mark, Top
  <2>7. Len(heard'[x][s]) = Len(heard[x][s]) + 1
    BY <2>1, <2>2, AppendFacts
  <2>8. Flow(Marks(wire[x], s), CmdMarks(cmds[o], s), Tail(Marks(inq[x][s], s)),
             SentMarks(o, s), LastMark(o, s), Len(heard[x][s]) + 1, Live(x, s), a, b)
    <3>1. PICK q \in Seq(Nat), h \in Nat : q = Marks(inq[x][s], s) /\ h = Len(heard[x][s])
      BY <2>2
    <3>2. q # <<>> /\ Head(q) < Top
      BY <2>5, <2>6, <3>1
    <3>3. Flow(Marks(wire[x], s), CmdMarks(cmds[o], s), q,
               SentMarks(o, s), LastMark(o, s), h, Live(x, s), a, b)
      BY <1>6, <3>1
    <3>4. Flow(Marks(wire[x], s), CmdMarks(cmds[o], s), Tail(q),
               SentMarks(o, s), LastMark(o, s), h + 1, Live(x, s), a, b)
      BY <2>2, <3>2, <3>3, FlowWrites
    <3> QED BY <3>1, <3>4
  <2>9. FlowOf(x, s, a, b)'
    BY <1>2, <1>4, <1>5, <1>7, <2>5, <2>7, <2>8, FlowNext
  <2> QED BY <2>9
<1>9. CASE ~(x = y /\ s = r)
  <2>1. inq'[x][s] = inq[x][s] /\ heard'[x][s] = heard[x][s]
    BY <1>4, <1>9 DEF StreamTypes, Over
  <2>2. FlowOf(x, s, a, b)'
    BY <1>2, <1>4, <1>5, <1>6, <1>7, <2>1, FlowNext
  <2> QED BY <2>2
<1> QED BY <1>8, <1>9

\* Writing a chunk to a socket keeps the flow of every stream.
LEMMA WriteFlow ==
    ASSUME StreamTypes, TaskInv, FlowInv, NEW y \in Role, NEW r \in Stream,
           Write(y, r) \/ SendFails(y, r)
    PROVE  FlowInv'
<1>1. CASE Write(y, r) /\ Head(inq[y][r]).kind = "close"
  BY <1>1, EndsFlow DEF Write
<1>2. CASE Write(y, r) /\ Head(inq[y][r]).kind # "close"
  <2>1. inq[y][r] # <<>> /\ pump[y][r] = "run" /\ inq[y][r] \in Seq(Frame)
    BY <1>2 DEF Write, StreamTypes, Over
  <2>2. Head(inq[y][r]) \in Frame
    BY <2>1, TailFacts
  <2>3. PICK n \in 0..MaxChunks : n = Head(inq[y][r]).n
    BY <2>2 DEF Frame
  <2>4. Taken(y, r, n)
    BY <1>2, <2>3 DEF Write, Taken
  <2> QED BY <2>4, TakenFlow
<1>3. CASE SendFails(y, r)
  <2>1. Lost \in 0..MaxChunks
    BY StreamsAssumption DEF Lost
  <2>2. Taken(y, r, Lost)
    BY <1>3 DEF SendFails, Taken
  <2> QED BY <2>1, <2>2, TakenFlow
<1> QED BY <1>1, <1>2, <1>3

\* A dial that succeeds keeps the flow of every stream.
LEMMA DialFlow ==
    ASSUME StreamTypes, FlowInv, NEW s \in Stream, Dial(s) \/ BindFails(s)
    PROVE  FlowInv'
<1>0. pump \in Over(Tasks) /\ "run" \in Tasks /\ "done" \in Tasks
  BY DEF StreamTypes, Tasks
<1>1. PICK l \in {"run", "done"} : \A y \in Role, r \in Stream :
         pump'[y][r] = IF y = "target" /\ r = s THEN l ELSE pump[y][r]
  <2>1. CASE Dial(s)
    BY <2>1, <1>0, RoleFacts, OverUpdate DEF Dial, Goes
  <2>2. CASE BindFails(s)
    BY <2>2, <1>0, RoleFacts, OverUpdate DEF BindFails, Goes
  <2> QED BY <2>1, <2>2
<1>2. /\ UNCHANGED <<cmds, wire, inq, heard, said, ended, missed, reg>>
      /\ pump["target"][s] = "dial"
  BY DEF Dial, BindFails
<1>3. \A y \in Role, r \in Stream :
         /\ (pump'[y][r] = "none") <=> (pump[y][r] = "none")
         /\ pump[y][r] = "done" => pump'[y][r] = "done"
  BY <1>1, <1>2
<1>4. \A r \in Stream, a \in 0..Top : Tie("target", r, a) => Tie("target", r, a)'
  BY <1>1, <1>2, RoleFacts DEF Tie
<1> QED BY <1>2, <1>3, <1>4, QuietFlow

\* Every step of the streams keeps the flow of every stream.
LEMMA NextFlowInv ==
    ASSUME StreamTypes, TaskInv, FlowInv, StreamTypes', TaskInv', [StreamsNext]_streamVars
    PROVE  FlowInv'
<1>1. CASE UNCHANGED streamVars
  <2>1. UNCHANGED <<cmds, wire, inq, heard, said, ended, missed, pump, reg>>
    BY <1>1 DEF streamVars
  <2>2. \A r \in Stream, a \in 0..Top : Tie("target", r, a) => Tie("target", r, a)'
    BY <2>1 DEF Tie
  <2> QED BY <2>1, <2>2, QuietFlow
<1>2. ASSUME NEW x \in Role, NEW s \in Stream, WriteFails(x, s)
      PROVE  FlowInv'
  BY <1>2, EndsFlow DEF WriteFails
<1>3. ASSUME NEW s \in Stream, RecvFails(s)
      PROVE  FlowInv'
  <2>1. UNCHANGED <<cmds, wire, inq, heard, said, ended, missed, pump, reg>>
    BY <1>3 DEF RecvFails
  <2>2. \A r \in Stream, a \in 0..Top : Tie("target", r, a) => Tie("target", r, a)'
    BY <2>1 DEF Tie
  <2> QED BY <2>1, <2>2, QuietFlow
<1> QED BY <1>1, <1>2, <1>3, AcceptFlow, RegisterFlow, DialFlow, DialFailsFlow, EngineSendFlow,
           EngineReceiveFlow, ReadFlow, ReadEndFlow, WriteFlow
        DEF StreamsNext, Dials, Engine, Writes

-----------------------------------------------------------------------------
(* What is heard *)

LEMMA NextHeardInv ==
    ASSUME StreamTypes, TaskInv, FlowInv, HeardInv, [StreamsNext]_streamVars
    PROVE  HeardInv'
<1>1. ASSUME heard' = heard, proto' = proto, missed \subseteq missed',
             \A x \in Role, s \in Stream : said[x][s] <= said'[x][s] /\ said'[x][s] \in Nat
      PROVE  HeardInv'
  <2> SUFFICES ASSUME NEW x \in Role, NEW s \in Stream, Unmissed(x, s)'
               PROVE  /\ Len(heard[x][s]) <= said'[Across(x)][s]
                      /\ \A i \in 1..Len(heard[x][s]) : Delivered(heard[x][s][i], i)
    BY <1>1 DEF HeardInv, Delivered
  <2>1. Unmissed(x, s)
    BY <1>1 DEF Unmissed
  <2>2. PICK o \in Role : o = Across(x)
    BY RoleFacts
  <2>3. Len(heard[x][s]) \in Nat /\ said[o][s] \in Nat
    BY QueueTypes, StreamsAssumption DEF StreamTypes, Over
  <2>4. /\ Len(heard[x][s]) <= said[o][s]
        /\ \A i \in 1..Len(heard[x][s]) : Delivered(heard[x][s][i], i)
    BY <2>1, <2>2 DEF HeardInv
  <2>5. said[o][s] <= said'[o][s] /\ said'[o][s] \in Nat
    BY <1>1
  <2> QED BY <2>2, <2>3, <2>4, <2>5
<1>2. \A x \in Role, s \in Stream : said[x][s] \in Nat /\ said[x][s] <= said[x][s]
  BY StreamsAssumption DEF StreamTypes, Over
<1>3. ASSUME heard' = heard, proto' = proto, missed \subseteq missed', said' = said
      PROVE  HeardInv'
  BY <1>1, <1>2, <1>3
<1>4. ASSUME NEW x \in Role, NEW s \in Stream, Read(x, s)
      PROVE  HeardInv'
  <2>1. \A y \in Role, r \in Stream :
           said'[y][r] = IF y = x /\ r = s THEN said[x][s] + 1 ELSE said[y][r]
    BY <1>4 DEF Read, StreamTypes, Over
  <2>2. \A y \in Role, r \in Stream : said[y][r] <= said'[y][r] /\ said'[y][r] \in Nat
    BY <1>2, <2>1
  <2>3. heard' = heard /\ proto' = proto /\ missed' = missed
    BY <1>4 DEF Read
  <2> QED BY <1>1, <2>2, <2>3
<1>5. ASSUME NEW y \in Role, NEW r \in Stream, Head(inq[y][r]).kind # "close",
             Write(y, r) \/ SendFails(y, r)
      PROVE  HeardInv'
  <2> SUFFICES ASSUME NEW x \in Role, NEW s \in Stream, Unmissed(x, s)'
               PROVE  /\ Len(heard'[x][s]) <= said'[Across(x)][s]
                      /\ \A i \in 1..Len(heard'[x][s]) : Delivered(heard[x][s][i], i)'
    BY DEF HeardInv
  <2>1. PICK f : f = Head(inq[y][r])
    OBVIOUS
  <2>2. /\ pump[y][r] = "run" /\ inq[y][r] # <<>> /\ missed' = missed /\ said' = said
        /\ proto' = proto
    BY <1>5 DEF Write, SendFails
  <2>7. PICK n : /\ heard' = [heard EXCEPT ![y][r] = Append(@, n)]
                 /\ n = f.n \/ (proto = "udp" /\ n = Lost)
    BY <1>5, <2>1 DEF Write, SendFails
  <2>3. Unmissed(x, s)
    BY <2>2 DEF Unmissed
  <2>4. /\ Len(heard[x][s]) <= said[Across(x)][s]
        /\ \A i \in 1..Len(heard[x][s]) : Delivered(heard[x][s][i], i)
    BY <2>3 DEF HeardInv
  <2>5. CASE ~(x = y /\ s = r)
    <3>1. heard'[x][s] = heard[x][s]
      BY <2>5, <2>7 DEF StreamTypes, Over
    <3>2. Len(heard'[x][s]) <= said'[Across(x)][s]
      BY <2>2, <2>4, <3>1
    <3>3. \A i \in 1..Len(heard'[x][s]) : Delivered(heard[x][s][i], i)'
      BY <2>2, <2>4, <3>1 DEF Delivered
    <3> QED BY <3>2, <3>3
  <2>6. CASE x = y /\ s = r
    <3>1. heard'[x][s] = Append(heard[x][s], n)
      BY <2>6, <2>7 DEF StreamTypes, Over
    <3>7. /\ pump[x][s] = "run" /\ inq[x][s] # <<>> /\ f = Head(inq[x][s])
          /\ f.kind # "close"
      BY <1>5, <2>1, <2>2, <2>6
    <3>2. f \in Frame /\ f.n = Len(heard[x][s]) + 1 /\ f.n <= said[Across(x)][s]
      BY <2>3, <3>7, WriteFacts
    <3>3. heard[x][s] \in Seq(0..MaxChunks) /\ n \in 0..MaxChunks
      <4>1. heard[x][s] \in Seq(0..MaxChunks)
        BY QueueTypes
      <4>2. f.n \in 0..MaxChunks
        BY <3>2 DEF Frame
      <4>3. Lost \in 0..MaxChunks
        BY StreamsAssumption DEF Lost
      <4> QED BY <2>7, <4>1, <4>2, <4>3
    <3>4. /\ Len(heard[x][s]) \in Nat /\ Len(heard'[x][s]) = Len(heard[x][s]) + 1
          /\ \A i \in 1..Len(heard[x][s]) : heard'[x][s][i] = heard[x][s][i]
          /\ heard'[x][s][Len(heard[x][s]) + 1] = n
      BY <3>1, <3>3, AppendFacts
    <3>5. \A i \in 1..Len(heard'[x][s]) : i \in 1..Len(heard[x][s]) \/ i = Len(heard[x][s]) + 1
      BY <3>4
    <3>6. \A i \in 1..Len(heard'[x][s]) : Delivered(heard'[x][s][i], i)
      BY <2>4, <2>7, <3>2, <3>4, <3>5 DEF Delivered
    <3>8. \A i \in 1..Len(heard'[x][s]) : Delivered(heard[x][s][i], i)'
      BY <2>2, <3>6 DEF Delivered
    <3>9. Len(heard'[x][s]) <= said'[Across(x)][s]
      BY <2>2, <3>2, <3>4
    <3> QED BY <3>8, <3>9
  <2> QED BY <2>5, <2>6
<1>6. ASSUME NEW x \in Role, EngineSend(x) \/ EngineReceive(x)
      PROVE  HeardInv'
  <2>1. heard' = heard /\ proto' = proto /\ missed \subseteq missed' /\ said' = said
    BY <1>6 DEF EngineSend, EngineReceive
  <2> QED BY <1>3, <2>1
<1>7. ASSUME NEW x \in Role, NEW s \in Stream, Write(x, s)
      PROVE  HeardInv'
  <2>1. CASE Head(inq[x][s]).kind = "close"
    BY <1>3, <1>7, <2>1 DEF Write
  <2>2. CASE Head(inq[x][s]).kind # "close"
    BY <1>5, <1>7, <2>2
  <2> QED BY <2>1, <2>2
<1>8. ASSUME NEW x \in Role, NEW s \in Stream, WriteFails(x, s) \/ ReadEnd(x, s)
      PROVE  HeardInv'
  BY <1>3, <1>8 DEF WriteFails, ReadEnd
<1>9. ASSUME NEW s \in Stream, Accept(s) \/ RegisterStream(s) \/ Dials(s) \/ RecvFails(s)
      PROVE  HeardInv'
  BY <1>3, <1>9 DEF Accept, RegisterStream, Dials, Dial, DialFails, BindFails, RecvFails
<1>11. ASSUME NEW x \in Role, NEW s \in Stream, SendFails(x, s)
      PROVE  HeardInv'
  BY <1>5, <1>11 DEF SendFails
<1>10. CASE UNCHANGED streamVars
  BY <1>3, <1>10 DEF streamVars
<1> QED BY <1>4, <1>6, <1>7, <1>8, <1>9, <1>10, <1>11 DEF StreamsNext, Engine, Writes

-----------------------------------------------------------------------------
(* The theorems on streams *)

LEMMA InitStreamsIInv ==
    ASSUME StreamsInit
    PROVE  StreamsIInv
<1>1. StreamTypes
  BY InitStreamTypes
<1>2. \A x \in Role, s \in Stream :
         /\ inq[x][s] = <<>> /\ pump[x][s] = "none" /\ reads[x][s] = FALSE /\ said[x][s] = 0
         /\ heard[x][s] = <<>> /\ ended[x][s] = FALSE /\ cmds[x] = <<>> /\ wire[x] = <<>>
  BY DEF StreamsInit, Everywhere
<1>3. TaskInv
  BY <1>2 DEF TaskInv
<1>4. HeardInv
  BY <1>2, RoleFacts DEF HeardInv
<1>5. FlowInv
  <2> SUFFICES ASSUME NEW x \in Role, NEW s \in Stream
               PROVE  \E a, b \in 0..Top : FlowOf(x, s, a, b)
    BY DEF FlowInv
  <2>1. PICK o \in Role : o = Across(x)
    BY RoleFacts
  <2>2. Marks(wire[x], s) = <<>> /\ CmdMarks(cmds[o], s) = <<>> /\ Marks(inq[x][s], s) = <<>>
    BY <1>2 DEF Marks, CmdMarks
  <2>3. SentMarks(o, s) = {} /\ LastMark(o, s) \in Nat /\ Len(heard[x][s]) = 0
    BY <1>2 DEF SentMarks, LastMark
  <2>4. Tie(x, s, 0)
    BY <1>2 DEF Tie
  <2>5. Flow(<<>>, <<>>, <<>>, {}, LastMark(o, s), 0, Live(x, s), 0, 0)
    BY <2>3, FlowStarts
  <2>6. FlowOf(x, s, 0, 0)
    BY <2>1, <2>2, <2>3, <2>4, <2>5 DEF FlowOf
  <2> QED BY <2>6, MarkType
<1> QED BY <1>1, <1>3, <1>4, <1>5 DEF StreamsIInv

\* Whatever the engines, the listeners, the pumps and the sockets do, and in
\* whatever order: each direction of each stream is a sequence of marks that
\* the queues hold without a gap.
THEOREM StreamsInvariance == StreamsSpec => []StreamsIInv
<1>1. StreamsInit => StreamsIInv
  BY InitStreamsIInv
<1>2. StreamsIInv /\ [StreamsNext]_streamVars => StreamsIInv'
  BY NextStreamTypes, NextTaskInv, NextFlowInv, NextHeardInv DEF StreamsIInv
<1> QED BY <1>1, <1>2, PTL DEF StreamsSpec

\* pump_tcp, engine_loop, udp_reply_pump, target_udp: for any number of streams
\* and any amount of data, what a socket hears is what the socket of the other
\* end said, in order, over TCP without a gap and over UDP but for the datagrams
\* whose send failed, unless a frame overtook the registration of its stream.
THEOREM StreamsGapless == StreamsSpec => []Gapless
<1>1. StreamsIInv => Gapless
  <2> SUFFICES ASSUME StreamsIInv PROVE Gapless
    OBVIOUS
  <2>1. StreamTypes
    BY DEF StreamsIInv
  <2>2. \A x \in Role : cmds[x] \in Seq(Cmd) /\ wire[x] \in Seq(Frame) /\ reg[x] \subseteq Stream
                        /\ \A s \in Stream : inq[x][s] \in Seq(Frame)
    BY <2>1 DEF StreamTypes, Over
  <2>3. StreamsTypeOK
    BY <2>1, <2>2 DEF StreamsTypeOK, StreamTypes, Tasks
  <2>4. \A x \in Role, s \in Stream : heard[x][s] \in Seq(0..MaxChunks)
    BY <2>1 DEF StreamTypes, Over
  <2> QED BY <2>3, <2>4 DEF Gapless, StreamsIInv, HeardInv, Unmissed
<1> QED BY <1>1, StreamsInvariance, PTL

\* pump_tcp and spawn_target_stream tell the other end: a stream whose other
\* end is done, and for which nothing is on its way, goes on only if its own
\* application had stopped talking, a socket broke, or a frame was missed.
THEOREM StreamsLinger == StreamsSpec => []LingersOnlyAfterEnd
<1>1. StreamsIInv => LingersOnlyAfterEnd
  <2> SUFFICES ASSUME StreamsIInv, NEW x \in Role, NEW s \in Stream,
                      pump[x][s] = "run", pump[Across(x)][s] = "done",
                      s \notin broken, s \notin missed, ~ended[x][s]
               PROVE  InFlight(x, s)
    BY DEF LingersOnlyAfterEnd
  <2>1. StreamTypes /\ TaskInv /\ FlowInv /\ HeardInv
    BY DEF StreamsIInv
  <2>2. PICK o \in Role : o = Across(x)
    BY RoleFacts
  <2>3. ended[o][s]
    <3>1. ended["listener"][s] \/ ended["target"][s]
      BY <2>1, <2>2 DEF TaskInv
    <3> QED BY <2>2, <3>1, RoleFacts
  <2>4. PICK a, b \in 0..Top : FlowOf(x, s, a, b)
    BY <2>1 DEF FlowInv
  <2>5. Top \in SentMarks(o, s)
    BY <2>3, MarkType DEF SentMarks
  <2>6. Len(heard[x][s]) \in Nat /\ said[o][s] \in 0..MaxChunks /\ Len(heard[x][s]) <= said[o][s]
    BY <2>1, <2>2, QueueTypes DEF StreamTypes, Over, HeardInv, Unmissed
  <2>7. Live(x, s)
    BY DEF Live, Unmissed
  <2>8. /\ Carries(Marks(inq[x][s], s), SentMarks(o, s), Len(heard[x][s]) + 2, a)
        /\ Carries(Marks(wire[x], s), SentMarks(o, s), a, b)
        /\ Carries(CmdMarks(cmds[o], s), SentMarks(o, s), b, Top)
    BY <2>2, <2>4, <2>7 DEF FlowOf, Flow
  <2>9. /\ inq[x][s] \in Seq(Frame) /\ wire[x] \in Seq(Frame) /\ cmds[o] \in Seq(Cmd)
    BY <2>1, QueueTypes
  <2>10. Len(heard[x][s]) + 2 < Top /\ Top \in Nat
    BY <2>6, StreamsAssumption DEF Top
  <2>11. CASE Top <= a
    <3>1. PICK i \in 1..Len(Marks(inq[x][s], s)) : Marks(inq[x][s], s)[i] = Top
      BY <2>5, <2>8, <2>10, <2>11 DEF Carries
    <3>2. Len(Marks(inq[x][s], s)) = Len(inq[x][s])
      BY <2>9, FrameQueue
    <3>3. inq[x][s] # <<>>
      BY <2>9, <3>1, <3>2
    <3> QED BY <3>3 DEF InFlight
  <2>12. CASE a < Top /\ Top <= b
    <3>1. PICK i \in 1..Len(Marks(wire[x], s)) : Marks(wire[x], s)[i] = Top
      BY <2>5, <2>8, <2>12 DEF Carries
    <3>2. i \in 1..Len(wire[x]) /\ Mark(wire[x][i], s) = Top
      BY <2>9, <3>1, FrameQueue
    <3>3. wire[x][i].s = s
      BY <2>10, <3>2 DEF Mark
    <3> QED BY <2>9, <3>2, <3>3 DEF InFlight
  <2>13. CASE b < Top
    <3>1. PICK i \in 1..Len(CmdMarks(cmds[o], s)) : CmdMarks(cmds[o], s)[i] = Top
      BY <2>5, <2>8, <2>10, <2>13 DEF Carries
    <3>2. i \in 1..Len(cmds[o]) /\ CmdMark(cmds[o][i], s) = Top
      BY <2>9, <3>1, CmdQueue
    <3>3. cmds[o][i].do = "send" /\ cmds[o][i].f.s = s
      BY <2>10, <3>2 DEF Mark, CmdMark
    <3>4. i \in DOMAIN cmds[o]
      BY <2>9, <3>2
    <3> QED BY <2>2, <3>3, <3>4 DEF InFlight
  <2> QED BY <2>10, <2>11, <2>12, <2>13
<1> QED BY <1>1, StreamsInvariance, PTL

=============================================================================
