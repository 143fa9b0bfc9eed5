------------------------------ MODULE MasterKey ------------------------------
(***************************************************************************)
(* The master key on disk (persistence.rs): master.bbkey is the key        *)
(* hierarchy sealed under a data-encryption key (DEK), dek.meta lets the   *)
(* configured provider recover that DEK, dek and dek.mode are the raw      *)
(* layout of older volumes.                                                *)
(*                                                                         *)
(* The server resolves the DEK and loads the master key when it boots; the *)
(* operator may run rekey-dek at any time.  Every file operation is a step *)
(* and a process may be killed between any two; fs::write truncates before *)
(* it writes, so a file may be found torn.                                 *)
(***************************************************************************)
EXTENDS Naturals

CONSTANTS
    Rekeyers,    \* processes running rekey-dek
    Provider,    \* passphrases / keyfiles a process may be configured with
    Passphrases, \* the providers that are passphrases
    Volumes,     \* kinds of data directory to start from
    Crashes,     \* may a process be killed between two file operations?
    MigrateAlone,\* does the operator let a migration finish before starting
                 \* another process?
    MaxStarts,   \* bound on the number of process starts
    NoFile, Torn \* an absent file; a truncated one

Server == "server"
Proc == Rekeyers \cup {Server}

ASSUME MasterKeyAssumption ==
    /\ Server \notin Rekeyers
    /\ Passphrases \subseteq Provider
    /\ Volumes \subseteq {"fresh", "current", "legacy"}
    /\ Crashes \in BOOLEAN /\ MigrateAlone \in BOOLEAN
    /\ MaxStarts \in Nat

VARIABLES
    meta,     \* dek.meta: the DEK it recovers and for which provider
    master,   \* master.bbkey: a key sealed under a DEK
    tmp,      \* master.bbkey.migrating and master.bbkey.rekey
    raw,      \* the legacy dek file
    mode,     \* does the legacy dek.mode file exist?
    nextDek,  \* DEKs 0 .. nextDek - 1 have been minted
    nextKey,  \* master keys 0 .. nextKey - 1 have been generated
    starts,   \* processes started so far
    pc, prov, job,
    dek,      \* the DEK a process has resolved
    new,      \* the id of the DEK it has minted
    plain,    \* the master key it has decrypted or generated
    served,   \* the master keys a server has run with
    halfway   \* has a process been killed after it renamed master.bbkey and
              \* before dek.meta was complete?

files == <<meta, master, tmp, raw, mode>>
fresh == <<nextDek, nextKey>>
locals == <<prov, job, dek, new, plain>>
vars == <<files, fresh, starts, pc, locals, served, halfway>>

\* A DEK is named by what determines it: the salt or wrapping that init_dek
\* drew (id) and the provider.  dek.meta records the id, and the provider only
\* to the extent that a keyfile that is not the one it was wrapped for is
\* refused; it is modelled as the DEK it was written for.
Dek == [id : Nat, prov : Provider]
Sealed == [dek : Dek, key : Nat]

ASSUME FilesAssumption ==
    NoFile # Torn /\ NoFile \notin Dek \cup Sealed /\ Torn \notin Dek \cup Sealed

Jobs == {"none", "migrating", "rekey"}
Pcs == {"off", "resolve", "freshMeta", "migrate", "migMaster", "load",
        "initMaster", "rekeyRead", "tmp", "tmpEnd", "rename", "meta", "metaEnd",
        "eraseRaw", "eraseMode", "serving", "failed"}

\* Types of the files and of what a process holds in memory.
TypeOK ==
    /\ meta \in Dek \cup {NoFile, Torn}
    /\ master \in Sealed \cup {NoFile, Torn}
    /\ tmp \in [{"migrating", "rekey"} -> Sealed \cup {NoFile, Torn}]
    /\ raw \in Dek \cup {NoFile}
    /\ mode \in BOOLEAN
    /\ nextDek \in Nat /\ nextKey \in Nat /\ starts \in 0..MaxStarts
    /\ pc \in [Proc -> Pcs]
    /\ prov \in [Proc -> Provider]
    /\ job \in [Proc -> Jobs]
    /\ dek \in [Proc -> Dek] /\ new \in [Proc -> Nat] /\ plain \in [Proc -> Nat]
    /\ served \subseteq Nat /\ halfway \in BOOLEAN

\* A fresh directory, one a server has run with, or one of the old layout.
Init ==
    /\ \E v \in Volumes, p \in Provider :
         /\ meta = IF v = "current" THEN [id |-> 0, prov |-> p] ELSE NoFile
         /\ master = IF v = "fresh" THEN NoFile
                     ELSE [dek |-> [id |-> 0, prov |-> p], key |-> 0]
         /\ raw = IF v = "legacy" THEN [id |-> 0, prov |-> p] ELSE NoFile
         /\ mode = (v = "legacy")
         /\ nextDek = IF v = "fresh" THEN 0 ELSE 1
         /\ nextKey = IF v = "fresh" THEN 0 ELSE 1
         /\ served = IF v = "fresh" THEN {} ELSE {0}
         /\ prov = [q \in Proc |-> p]
         /\ dek = [q \in Proc |-> [id |-> 0, prov |-> p]]
    /\ tmp = [j \in {"migrating", "rekey"} |-> NoFile]
    /\ starts = 0 /\ halfway = FALSE
    /\ pc = [q \in Proc |-> "off"]
    /\ job = [q \in Proc |-> "none"]
    /\ new = [q \in Proc |-> 0]
    /\ plain = [q \in Proc |-> 0]

Goto(p, l) == pc' = [pc EXCEPT ![p] = l]
At(p, l) == pc[p] = l
\* init_dek: a DEK never used before.
Minted(p) == [id |-> new[p], prov |-> prov[p]]
Mint(p) == new' = [new EXCEPT ![p] = nextDek] /\ nextDek' = nextDek + 1

-----------------------------------------------------------------------------
(* resolve_dek *)

\* DekProvider::from_env: the operator may configure another one each time.
Configure(p) == \E q \in Provider : prov' = [prov EXCEPT ![p] = q]

\* rekey-dek refuses when there is no master key to re-key.
Start(p) ==
    /\ At(p, "off") \/ At(p, "failed")
    /\ starts < MaxStarts
    /\ MigrateAlone /\ meta = NoFile =>
          \A q \in Proc : pc[q] \in {"off", "failed", "serving"}
    /\ starts' = starts + 1
    /\ Configure(p)
    /\ job' = [job EXCEPT ![p] = "none"]
    /\ Goto(p, IF p # Server /\ master = NoFile THEN "failed" ELSE "resolve")
    /\ UNCHANGED <<files, fresh, dek, new, plain, served, halfway>>

Resolved(p) == IF p = Server THEN "load" ELSE "rekeyRead"

\* reconstruct_dek: the wrong keyfile, or the other kind of provider, is
\* refused; the wrong passphrase is not, it derives another DEK.
Accepts(m, q) ==
    m \notin {NoFile, Torn} /\ (m.prov = q \/ {m.prov, q} \subseteq Passphrases)
Reconstruct(m, q) == [m EXCEPT !.prov = q]

\* dek.meta exists; a torn file does not parse.
ResolveMeta(p) ==
    /\ At(p, "resolve") /\ meta # NoFile
    /\ IF Accepts(meta, prov[p])
       THEN /\ dek' = [dek EXCEPT ![p] = Reconstruct(meta, prov[p])]
            /\ Goto(p, Resolved(p))
       ELSE Goto(p, "failed") /\ UNCHANGED dek
    /\ UNCHANGED <<files, fresh, starts, prov, job, new, plain, served, halfway>>

ResolveLegacy(p) ==
    /\ At(p, "resolve") /\ meta = NoFile /\ (raw # NoFile \/ mode)
    /\ job' = [job EXCEPT ![p] = "migrating"]
    /\ Goto(p, "migrate")
    /\ UNCHANGED <<files, fresh, starts, prov, dek, new, plain, served, halfway>>

ResolveFresh(p) ==
    /\ At(p, "resolve") /\ meta = NoFile /\ raw = NoFile /\ ~mode
    /\ Mint(p)
    /\ meta' = Torn
    /\ Goto(p, "freshMeta")
    /\ UNCHANGED <<master, tmp, raw, mode, nextKey, starts, prov, job, dek, plain,
                   served, halfway>>

FreshMetaEnd(p) ==
    /\ At(p, "freshMeta")
    /\ meta' = Minted(p)
    /\ dek' = [dek EXCEPT ![p] = Minted(p)]
    /\ Goto(p, Resolved(p))
    /\ UNCHANGED <<master, tmp, raw, mode, fresh, starts, prov, job, new, plain,
                   served, halfway>>

-----------------------------------------------------------------------------
(* migrate_legacy_dek *)

\* The raw DEK is recovered; that fails without the file, or when dek.mode
\* asks for a passphrase and the process has none.
MigrateReadRaw(p) ==
    /\ At(p, "migrate")
    /\ \/ /\ raw # NoFile
          /\ dek' = [dek EXCEPT ![p] = raw]
          /\ Mint(p)
          /\ Goto(p, "migMaster")
       \/ Goto(p, "failed") /\ UNCHANGED <<dek, new, nextDek>>
    /\ UNCHANGED <<files, nextKey, starts, prov, job, plain, served, halfway>>

\* The master key must open under the legacy DEK; without one only dek.meta
\* is written.
MigrateReadMaster(p) ==
    /\ At(p, "migMaster")
    /\ \/ /\ master = NoFile
          /\ Goto(p, "meta") /\ UNCHANGED plain
       \/ /\ master \notin {NoFile, Torn} /\ master.dek = dek[p]
          /\ plain' = [plain EXCEPT ![p] = master.key]
          /\ Goto(p, "tmp")
       \/ /\ master # NoFile /\ (master = Torn \/ master.dek # dek[p])
          /\ Goto(p, "failed") /\ UNCHANGED plain
    /\ UNCHANGED <<files, fresh, starts, prov, job, dek, new, served, halfway>>

EraseRaw(p) ==
    /\ At(p, "eraseRaw")
    /\ raw' = NoFile
    /\ Goto(p, "eraseMode")
    /\ UNCHANGED <<meta, master, tmp, mode, fresh, starts, locals, served, halfway>>

EraseMode(p) ==
    /\ At(p, "eraseMode")
    /\ mode' = FALSE
    /\ Goto(p, "resolve")
    /\ UNCHANGED <<meta, master, tmp, raw, fresh, starts, locals, served, halfway>>

-----------------------------------------------------------------------------
(* Shared tail of migrate_legacy_dek and rekey_master_dek: seal the same key
   under the new DEK in a temporary file, rename it over master.bbkey, then
   write dek.meta. *)

\* Faulty variant: master.bbkey is rewritten in place.
TmpBeginInPlace(p) ==
    /\ At(p, "tmp")
    /\ tmp' = [tmp EXCEPT ![job[p]] = Torn]
    /\ master' = Torn
    /\ Goto(p, "tmpEnd")
    /\ UNCHANGED <<meta, raw, mode, fresh, starts, locals, served, halfway>>

TmpBegin(p) ==
    /\ At(p, "tmp")
    /\ tmp' = [tmp EXCEPT ![job[p]] = Torn]
    /\ Goto(p, "tmpEnd")
    /\ UNCHANGED <<meta, master, raw, mode, fresh, starts, locals, served, halfway>>

\* Faulty variant: the key is sealed under the old DEK.
TmpEndOldDek(p) ==
    /\ At(p, "tmpEnd")
    /\ tmp' = [tmp EXCEPT ![job[p]] = [dek |-> dek[p], key |-> plain[p]]]
    /\ Goto(p, "rename")
    /\ UNCHANGED <<meta, master, raw, mode, fresh, starts, locals, served, halfway>>

TmpEnd(p) ==
    /\ At(p, "tmpEnd")
    /\ tmp' = [tmp EXCEPT ![job[p]] = [dek |-> Minted(p), key |-> plain[p]]]
    /\ Goto(p, "rename")
    /\ UNCHANGED <<meta, master, raw, mode, fresh, starts, locals, served, halfway>>

\* Renaming a file that another process has already moved away fails.
Rename(p) ==
    /\ At(p, "rename")
    /\ IF tmp[job[p]] # NoFile
       THEN /\ master' = tmp[job[p]]
            /\ tmp' = [tmp EXCEPT ![job[p]] = NoFile]
            /\ Goto(p, "meta")
       ELSE Goto(p, "failed") /\ UNCHANGED <<master, tmp>>
    /\ UNCHANGED <<meta, raw, mode, fresh, starts, locals, served, halfway>>

MetaBegin(p) ==
    /\ At(p, "meta")
    /\ meta' = Torn
    /\ Goto(p, "metaEnd")
    /\ UNCHANGED <<master, tmp, raw, mode, fresh, starts, locals, served, halfway>>

MetaEnd(p) ==
    /\ At(p, "metaEnd")
    /\ meta' = Minted(p)
    /\ Goto(p, IF job[p] = "migrating" THEN "eraseRaw" ELSE "off")
    /\ UNCHANGED <<master, tmp, raw, mode, fresh, starts, locals, served, halfway>>

-----------------------------------------------------------------------------
(* load_or_init_master, rekey_master_dek *)

LoadMaster(p) ==
    /\ At(p, "load") /\ master # NoFile
    /\ IF master # Torn /\ master.dek = dek[p]
       THEN /\ plain' = [plain EXCEPT ![p] = master.key]
            /\ served' = served \cup {master.key}
            /\ Goto(p, "serving")
       ELSE Goto(p, "failed") /\ UNCHANGED <<plain, served>>
    /\ UNCHANGED <<files, fresh, starts, prov, job, dek, new, halfway>>

InitMaster(p) ==
    /\ At(p, "load") /\ master = NoFile
    /\ plain' = [plain EXCEPT ![p] = nextKey]
    /\ nextKey' = nextKey + 1
    /\ master' = Torn
    /\ Goto(p, "initMaster")
    /\ UNCHANGED <<meta, tmp, raw, mode, nextDek, starts, prov, job, dek, new, served,
                   halfway>>

InitMasterEnd(p) ==
    /\ At(p, "initMaster")
    /\ master' = [dek |-> dek[p], key |-> plain[p]]
    /\ served' = served \cup {plain[p]}
    /\ Goto(p, "serving")
    /\ UNCHANGED <<meta, tmp, raw, mode, fresh, starts, locals, halfway>>

RekeyRead(p) ==
    /\ At(p, "rekeyRead")
    /\ IF master \notin {NoFile, Torn} /\ master.dek = dek[p]
       THEN /\ plain' = [plain EXCEPT ![p] = master.key]
            /\ job' = [job EXCEPT ![p] = "rekey"]
            /\ Mint(p)
            /\ Goto(p, "tmp")
       ELSE Goto(p, "failed") /\ UNCHANGED <<plain, job, new, nextDek>>
    /\ UNCHANGED <<files, nextKey, starts, prov, dek, served, halfway>>

-----------------------------------------------------------------------------
\* The server is stopped; a process is killed between two file operations.
Stop(p) ==
    /\ At(p, "serving")
    /\ Goto(p, "off")
    /\ UNCHANGED <<files, fresh, starts, locals, served, halfway>>

Crash(p) ==
    /\ Crashes
    /\ pc[p] \notin {"off", "failed", "serving"}
    /\ halfway' = (halfway \/ pc[p] \in {"meta", "metaEnd"})
    /\ Goto(p, "off")
    /\ UNCHANGED <<files, fresh, starts, locals, served>>

Step(p) ==
    \/ Start(p) \/ ResolveMeta(p) \/ ResolveLegacy(p) \/ ResolveFresh(p)
    \/ FreshMetaEnd(p) \/ MigrateReadRaw(p) \/ MigrateReadMaster(p)
    \/ EraseRaw(p) \/ EraseMode(p) \/ TmpBegin(p) \/ TmpEnd(p) \/ Rename(p)
    \/ MetaBegin(p) \/ MetaEnd(p) \/ LoadMaster(p) \/ InitMaster(p)
    \/ InitMasterEnd(p) \/ RekeyRead(p) \/ Stop(p) \/ Crash(p)

Idle == {"off", "failed"}
\* The bound on starts has been reached and every process has ended.
Finished == (\A p \in Proc : pc[p] \in Idle) /\ starts = MaxStarts /\ UNCHANGED vars

Next == (\E p \in Proc : Step(p)) \/ Finished

Spec == Init /\ [][Next]_vars

-----------------------------------------------------------------------------
(* Properties *)

\* Once a server has run with a master key, master.bbkey holds that key,
\* complete, at every instant: boots, migrations and re-keys killed anywhere
\* never tear it or replace it, and no server comes to run with a second key.
ServedKeyKept ==
    TypeOK /\ \A k \in served : master \notin {NoFile, Torn} /\ master.key = k

\* What is on disk recovers, for some provider, a DEK that opens master.bbkey.
Openable ==
    /\ master \notin {NoFile, Torn}
    /\ \/ \E q \in Provider : Accepts(meta, q) /\ Reconstruct(meta, q) = master.dek
       \/ meta = NoFile /\ raw # NoFile /\ raw = master.dek

\* No process is in the middle of a change and a key has been in use.
AtRest == (\A p \in Proc : pc[p] \in Idle \cup {"serving"}) /\ served # {}

\* A volume whose key has been in use can be opened again, whatever was
\* killed where, with one exception: a re-key or a migration killed between
\* its rename and the end of its write of dek.meta.
LostOnlyHalfway == AtRest /\ ~halfway => Openable
=============================================================================
