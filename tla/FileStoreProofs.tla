----------------------------- MODULE FileStoreProofs -----------------------------
(***************************************************************************)
(* Proofs about FileStore, for any number of requests, contents, files and *)
(* caps: downloads keep to their caps (CappedDownloads), what may still be *)
(* read is intact (ReadableIntact), no step changes an immutable file or   *)
(* cleans up a live one (LiveFilesKept), and a file whose last read was    *)
(* claimed is erased by whoever claimed it (SpentErased).  They rest on    *)
(* the inductive invariant IInv: a content belongs to one page for ever, a *)
(* page keeps its flags and only loses reads, and so what a handler has    *)
(* read of them is still good when it acts on it.                          *)
(***************************************************************************)
EXTENDS FileStore, FiniteSetTheorems, TLAPS

\* A page may still be read.
Readable(w) == ~w.exhausted /\ (Cap(w.flags) # NoMax => w.readCount < Cap(w.flags))

\* Contents are numbered as they are made; a page has a content of its own,
\* and its flags are among those in use.
Tables ==
    /\ \E n \in 0..MaxContents : Minted = 1..n
    /\ \A p \in Pages : page[p].content \in contents /\ page[p].flags \in FlagChoices
    /\ \A p, q \in Pages : page[p].content = page[q].content => p = q

\* Where the bytes of a page and its row belong together.
Intact ==
    NoRekeying \/ "upload" \notin Handlers =>
        \A p \in Pages : Readable(page[p]) => Fetched(page[p])

\* What a handler has in its hands, by how far it has come.
Staged(r) ==
    /\ pc[r] = "idle" => /\ op[r] = "none" /\ pid[r] = None /\ row[r] = None /\ old[r] = None
                         /\ ticket[r] = 0 /\ todo[r] = {}
    /\ pc[r] \in {"claim", "fetch", "post", "drop"} => op[r] = "download"
    /\ pc[r] = "read" => op[r] = "rotate"
    /\ pc[r] = "delete" => op[r] = "delete"
    /\ pc[r] = "sweep" => op[r] = "cleanup"
    /\ pc[r] \in {"commit", "unlink"} => op[r] # "cleanup"
    /\ pc[r] = "commit" => op[r] \in {"upload", "rotate"} /\ row[r] # None
    /\ pc[r] = "gate" => op[r] \in {"upload", "download", "delete", "rotate"}
    /\ op[r] = "upload" /\ pc[r] \in {"gate", "commit"} => row[r] # None
    /\ op[r] = "upload" /\ pid[r] # None => row[r] # None /\ ~row[r].flags.noOverwrite
    /\ op[r] \in {"download", "rotate"} /\ pc[r] \notin {"refused"} =>
          pid[r] # None /\ row[r] # None
    /\ ticket[r] # 0 => op[r] = "download" /\ pid[r] # None /\ row[r] # None

\* What it knows of the page it goes by.
Knows(r) ==
    /\ pid[r] \in Minted \cup {None} /\ old[r] \in Minted \cup {None} /\ todo[r] \subseteq Minted
    /\ row[r] # None => row[r].flags \in FlagChoices
    /\ \A p \in Pages : page[p].content = old[r] => p = pid[r]
    /\ pid[r] \in Pages /\ row[r] # None =>
          /\ page[pid[r]].flags = row[r].flags
          /\ "upload" \notin Handlers => page[pid[r]].hash = row[r].hash

\* The reads it was granted.
Claimed(r) ==
    /\ ticket[r] # 0 => Cap(row[r].flags) # NoMax /\ ticket[r] <= Cap(row[r].flags)
    /\ ticket[r] # 0 /\ pid[r] \in Pages => ticket[r] <= page[pid[r]].readCount
    /\ op[r] = "download" /\ pc[r] \in {"fetch", "post", "drop"} =>
          Cap(row[r].flags) = NoMax \/ ticket[r] # 0

\* What it is going to erase is not to be read any more.
Erases(r) ==
    /\ pc[r] = "unlink" =>
          \A p \in Pages : page[p].content = old[r] => ~Readable(page[p])
    /\ pc[r] = "sweep" => \A p \in Pages : page[p].content \in todo[r] =>
          page[p].exhausted /\ ~page[p].flags.preserve

Sound(r) == Staged(r) /\ Knows(r) /\ Claimed(r) /\ Erases(r)
Requests == \A r \in Req : Sound(r)

\* Handlers that go by the same page agree on its flags and were granted
\* different reads.
Pairs ==
    \A r, q \in Req : r # q /\ pid[r] = pid[q] /\ pid[r] # None =>
        /\ row[r] # None /\ row[q] # None => row[r].flags = row[q].flags
        /\ ticket[r] # 0 => ticket[r] # ticket[q]

IInv == TypeOK /\ Tables /\ Intact /\ Requests /\ Pairs

-----------------------------------------------------------------------------
(* Facts about the tables *)

\* A bound on contents is a number, and numbers are not the null values.
LEMMA ContentFacts ==
    ASSUME TypeOK, Tables
    PROVE  /\ NextContent \notin Minted /\ Minted \subseteq Content /\ None \notin Minted
           /\ NextContent \in Content =>
                 \E n \in 0..MaxContents : Minted \cup {NextContent} = 1..n
  <1>1. PICK n \in 0..MaxContents : Minted = 1..n
    BY DEF Tables
  <1>2. n \in Nat /\ MaxContents \in Nat
    BY FileAssumption
  <1>3. Cardinality(1..n) = n
    BY <1>2, FS_Interval
  <1>4. NextContent = n + 1
    BY <1>1, <1>3 DEF NextContent
  <1>5. n + 1 \notin 1..n /\ 1..n \cup {n + 1} = 1..(n + 1)
    BY <1>2
  <1>6. n + 1 \in 1..MaxContents => n + 1 \in 0..MaxContents
    BY <1>2
  <1>7. Minted \subseteq Content /\ None \notin Minted
    BY FileAssumption DEF TypeOK
  <1> QED
    BY <1>1, <1>4, <1>5, <1>6, <1>7 DEF Content

\* A page has its fields, and a content.
LEMMA PageFacts ==
    ASSUME TypeOK, Tables, NEW p \in Pages
    PROVE  /\ page[p] \in PageRow /\ page[p].flags \in Flags /\ page[p].flags \in FlagChoices
           /\ page[p].readCount \in Nat /\ page[p].exhausted \in BOOLEAN
           /\ page[p].content \in contents /\ page[p].content \in Minted
           /\ page[p].content # None /\ p \in Minted
  <1>1. page[p] \in PageRow
    BY DEF TypeOK
  <1>2. page[p].content \in contents /\ contents \subseteq Minted
    BY DEF Tables, TypeOK
  <1>3. page[p].flags \in Flags /\ page[p].readCount \in Nat /\ page[p].exhausted \in BOOLEAN
    BY <1>1 DEF PageRow
  <1> QED
    BY <1>1, <1>2, <1>3, ContentFacts DEF Tables, TypeOK

\* The kinds of traffic are typed.
LEMMA TrafficFacts ==
    ASSUME TypeOK
    PROVE  FlagChoices \subseteq Flags /\ Kinds \subseteq AllKinds /\ Handlers \subseteq AllHandlers
  BY FileAssumption DEF TypeOK, FlagChoices, Kinds, Handlers

\* The cap that flags set.
LEMMA CapFacts ==
    ASSUME NEW f \in Flags
    PROVE  /\ Cap(f) \in Int \cup {NoMax}
           /\ f.deleteOnRead => Cap(f) # NoMax /\ Cap(f) <= 1
           /\ ~f.deleteOnRead => Cap(f) = f.maxReads
           /\ f.maxReads \in Int \cup {NoMax} /\ f.deleteOnRead \in BOOLEAN
  <1>1. f.maxReads \in Int \cup {NoMax} /\ f.deleteOnRead \in BOOLEAN
    BY DEF Flags
  <1>2. NoMax \notin Int
    BY FileAssumption
  <1>3. CASE f.deleteOnRead /\ f.maxReads = NoMax
    <2>1. Cap(f) = 1
      BY <1>3 DEF Cap
    <2> QED
      BY <1>1, <1>2, <1>3, <2>1
  <1>4. CASE f.deleteOnRead /\ f.maxReads # NoMax
    <2>1. Cap(f) = IF f.maxReads > 1 THEN 1 ELSE f.maxReads
      BY <1>4 DEF Cap
    <2> QED
      BY <1>1, <1>2, <1>4, <2>1
  <1>5. CASE ~f.deleteOnRead
    <2>1. Cap(f) = f.maxReads
      BY <1>5 DEF Cap
    <2> QED
      BY <1>1, <1>5, <2>1
  <1> QED
    BY <1>1, <1>3, <1>4, <1>5

\* The row of an upload.
LEMMA NewRowFacts ==
    ASSUME NEW n \in Name, NEW d \in Data, NEW f \in Flags, NEW k \in AllKinds,
           NEW c \in Content \cup {None}
    PROVE  \E w \in PageRow :
              /\ w = NewRow(n, d, f, k, c) /\ w # None
              /\ w.name = n /\ w.content = c /\ w.hash = d /\ w.kind = k /\ w.flags = f
              /\ w.readCount = 0 /\ ~w.exhausted
              /\ (w.part <=> k \in Resident) /\ (k \in {"normal", "backed"} => w.dek = c)
  <1>1. NewRow(n, d, f, k, c) \in PageRow
    BY DEF NewRow, PageRow
  <1> QED
    BY <1>1, NoneAssumption DEF NewRow

\* What can not be read can not be read again.
LEMMA ReadableFacts ==
    ASSUME NEW v \in PageRow, NEW w \in PageRow, w.flags = v.flags,
           w.readCount >= v.readCount, v.exhausted => w.exhausted, Readable(w)
    PROVE  Readable(v)
  <1>1. v.readCount \in Nat /\ w.readCount \in Nat /\ v.flags \in Flags
        /\ v.exhausted \in BOOLEAN /\ w.exhausted \in BOOLEAN
    BY DEF PageRow
  <1>2. Cap(v.flags) \in Int \cup {NoMax}
    BY <1>1, CapFacts
  <1> HIDE DEF Cap
  <1>3. Cap(v.flags) # NoMax => v.readCount < Cap(v.flags)
    BY <1>1, <1>2 DEF Readable
  <1> QED
    BY <1>1, <1>3 DEF Readable

\* What any step may do to the pages: add one, remove some, bind one to a new
\* content, count reads, exhaust one.
Evolves ==
    /\ traffic' = traffic /\ Minted \subseteq Minted'
    /\ \A p \in Pages' :
          /\ p \in Content /\ page'[p] \in PageRow /\ page'[p].content \in Content
          /\ page'[p].content \notin Minted \/ (p \in Pages /\ page'[p].content = page[p].content)
          /\ p \in Minted =>
                /\ p \in Pages /\ page'[p].flags = page[p].flags
                /\ page'[p].readCount >= page[p].readCount
                /\ page[p].exhausted => page'[p].exhausted
                /\ "upload" \notin Handlers => page'[p].hash = page[p].hash

\* After such a step what a handler knows is still so.
LEMMA KnowsKept ==
    ASSUME TypeOK, Tables, Evolves, NEW q \in Req, Knows(q), Claimed(q), Erases(q),
           pid'[q] = pid[q], row'[q] = row[q], old'[q] = old[q], ticket'[q] = ticket[q],
           todo'[q] = todo[q], op'[q] = op[q]
    PROVE  /\ Knows(q)'
           /\ pc'[q] = pc[q] => Claimed(q)' /\ Erases(q)'
           /\ ticket[q] # 0 /\ pid[q] \in Pages' => ticket[q] <= page'[pid[q]].readCount
  <1>0. None \notin Pages' /\ \A p \in Pages' : page'[p].content # None
    BY FileAssumption DEF Evolves
  <1>1. FlagChoices' = FlagChoices /\ Handlers' = Handlers
    BY DEF Evolves, FlagChoices, Handlers
  <1>2. ASSUME NEW p \in Pages', page'[p].content \in Minted
        PROVE  p \in Pages /\ page'[p].content = page[p].content /\ p \in Minted
               /\ page'[p].flags = page[p].flags /\ (page[p].exhausted => page'[p].exhausted)
               /\ (Readable(page[p])' => Readable(page[p]))
    <2>1. p \in Pages /\ page'[p].content = page[p].content
      BY <1>2 DEF Evolves
    <2>2. p \in Minted /\ page[p] \in PageRow
      BY <2>1, PageFacts
    <2>3. /\ page'[p] \in PageRow /\ page'[p].flags = page[p].flags
          /\ page'[p].readCount >= page[p].readCount
          /\ page[p].exhausted => page'[p].exhausted
      BY <2>2 DEF Evolves
    <2>4. Readable(page'[p]) => Readable(page[p])
      BY <2>2, <2>3, ReadableFacts
    <2>5. Readable(page[p])' => Readable(page'[p])
      BY DEF Readable, Cap
    <2> QED
      BY <2>1, <2>2, <2>3, <2>4, <2>5
  <1>3. pid[q] \in Pages' => /\ pid[q] \in Pages /\ pid[q] \in Minted
                             /\ page'[pid[q]].flags = page[pid[q]].flags
                             /\ page'[pid[q]].readCount >= page[pid[q]].readCount
                             /\ page[pid[q]].readCount \in Nat /\ page'[pid[q]].readCount \in Nat
                             /\ "upload" \notin Handlers => page'[pid[q]].hash = page[pid[q]].hash
    <2>1. Pages' \subseteq {p \in Pages' : page'[p] \in PageRow}
      BY DEF Evolves
    <2> SUFFICES ASSUME pid[q] \in Pages', pid[q] # None
                 PROVE  /\ pid[q] \in Pages /\ pid[q] \in Minted
                        /\ page'[pid[q]].flags = page[pid[q]].flags
                        /\ page'[pid[q]].readCount >= page[pid[q]].readCount
                        /\ page[pid[q]].readCount \in Nat /\ page'[pid[q]].readCount \in Nat
                        /\ "upload" \notin Handlers => page'[pid[q]].hash = page[pid[q]].hash
      BY <1>0
    <2>2. pid[q] \in Minted
      BY DEF Knows
    <2>3. page'[pid[q]].readCount \in Nat
      BY <2>1 DEF PageRow
    <2> QED
      BY <2>2, <2>3, PageFacts DEF Evolves
  <1>4. Knows(q)'
    <2>1. pid[q] \in Minted' \cup {None} /\ old[q] \in Minted' \cup {None} /\ todo[q] \subseteq Minted'
      BY DEF Knows, Evolves
    <2>2. \A p \in Pages' : page'[p].content = old[q] => p = pid[q]
      <3> SUFFICES ASSUME NEW p \in Pages', page'[p].content = old[q] PROVE p = pid[q]
        OBVIOUS
      <3>1. page'[p].content # None
        BY <1>0
      <3>2. old[q] \in Minted
        BY <3>1 DEF Knows
      <3> QED
        BY <1>2, <3>2 DEF Knows
    <2> QED
      BY <1>1, <1>3, <2>1, <2>2 DEF Knows
  <1>5. ticket[q] # 0 /\ pid[q] \in Pages' => ticket[q] <= page'[pid[q]].readCount
    <2>1. ticket[q] \in Nat
      BY DEF TypeOK
    <2> QED
      BY <1>3, <2>1 DEF Claimed
  <1>6. pc'[q] = pc[q] => Claimed(q)'
    BY <1>5 DEF Claimed, Cap
  <1>7. pc'[q] = pc[q] => Erases(q)'
    <2>1. ASSUME pc[q] = "unlink", NEW p \in Pages', page'[p].content = old[q]
          PROVE  ~Readable(page[p])'
      <3>1. page'[p].content \in Minted
        BY <1>0, <2>1 DEF Knows
      <3>2. page[p].content = old[q] /\ p \in Pages
        BY <1>2, <2>1, <3>1
      <3> QED
        BY <1>2, <2>1, <3>1, <3>2 DEF Erases
    <2>2. ASSUME pc[q] = "sweep", NEW p \in Pages', page'[p].content \in todo[q]
          PROVE  page'[p].exhausted /\ ~page'[p].flags.preserve
      <3>1. page'[p].content \in Minted
        BY <2>2 DEF Knows
      <3>2. page[p].content \in todo[q] /\ p \in Pages
        BY <1>2, <2>2, <3>1
      <3> QED
        BY <1>2, <2>2, <3>1, <3>2 DEF Erases
    <2> QED
      BY <2>1, <2>2 DEF Erases
  <1> QED
    BY <1>4, <1>5, <1>6, <1>7

-----------------------------------------------------------------------------
(* What the statements do to the tables *)

\* The tables are typed.
TableTypes ==
    /\ Minted \subseteq Content /\ blob \in [Minted -> Data \cup {Empty, NoFile}]
    /\ Pages \subseteq Minted /\ page \in [Pages -> PageRow] /\ contents \subseteq Minted

\* Nothing happens.
LEMMA NoChange ==
    ASSUME IInv, UNCHANGED <<page, contents, blob, traffic>>
    PROVE  Evolves /\ TableTypes' /\ Tables' /\ Intact'
  <1>1. Pages' = Pages /\ Minted' = Minted /\ page' = page /\ traffic' = traffic
        /\ blob' = blob /\ contents' = contents
    BY DEF Pages, Minted
  <1>2. TableTypes'
    BY <1>1 DEF IInv, TypeOK, TableTypes, Pages, Minted
  <1>3. Tables'
    BY <1>1 DEF IInv, Tables, FlagChoices
  <1>4. Intact'
    BY <1>1 DEF IInv, Intact, NoRekeying, Handlers, FlagChoices, Readable, Cap, Fetched
  <1>5. \A p \in Pages : /\ page[p].content \in Content /\ p \in Content /\ page[p] \in PageRow
                         /\ page[p].readCount \in Nat
    BY PageFacts, ContentFacts DEF IInv
  <1> QED
    BY <1>1, <1>2, <1>3, <1>4, <1>5 DEF Evolves

\* Pages and contents are deleted, and maybe a blob that is not to be read.
LEMMA Removal ==
    ASSUME IInv, traffic' = traffic, NEW S, page' = Without(page, S),
           contents' \subseteq contents,
           \A p \in Pages \ S : page[p].content \in contents',
           NEW b,
           \/ blob' = blob
           \/ /\ blob' = Unlink(b)
              /\ \A p \in Pages \ S : page[p].content = b => ~Readable(page[p])
    PROVE  Evolves /\ TableTypes' /\ Tables' /\ Intact'
  <1>1. Pages' = Pages \ S /\ \A p \in Pages \ S : page'[p] = page[p]
    BY DEF Pages, Without
  <1>2. Minted' = Minted /\ \A c \in Minted : c # b => blob'[c] = blob[c]
    BY DEF Minted, Unlink
  <1>3. \A p \in Pages : /\ page[p].content \in Content /\ p \in Content /\ page[p] \in PageRow
                         /\ page[p].readCount \in Nat /\ page[p].content \in Minted
    BY PageFacts, ContentFacts DEF IInv
  <1>4. Evolves
    BY <1>1, <1>2, <1>3 DEF Evolves
  <1>5. TableTypes'
    <2>1. page' \in [Pages' -> PageRow]
      BY <1>1, <1>3 DEF Without, Pages
    <2>2. blob' \in [Minted -> Data \cup {Empty, NoFile}]
      BY DEF Unlink, IInv, TypeOK
    <2>3. Minted \subseteq Content /\ Pages \subseteq Minted /\ contents \subseteq Minted
      BY DEF IInv, TypeOK
    <2> QED
      BY <1>1, <1>2, <2>1, <2>2, <2>3 DEF TableTypes
  <1>6. Tables'
    BY <1>1, <1>2 DEF IInv, Tables, FlagChoices
  <1>7. Intact'
    <2> SUFFICES ASSUME NoRekeying \/ "upload" \notin Handlers,
                        NEW p \in Pages \ S, Readable(page[p])'
                 PROVE  Fetched(page[p])'
      BY <1>1 DEF Intact, NoRekeying, Handlers, FlagChoices
    <2>1. page'[p] = page[p]
      BY <1>1
    <2>2. Readable(page[p])
      BY <2>1 DEF Readable, Cap
    <2>3. Fetched(page[p])
      BY <2>2 DEF IInv, Intact
    <2>4. page[p].content \in contents' /\ page[p].content \in Minted
      BY <1>3
    <2>5. blob'[page[p].content] = blob[page[p].content]
      BY <1>2, <2>2, <2>4
    <2> QED
      BY <2>1, <2>3, <2>4, <2>5 DEF Fetched
  <1> QED
    BY <1>4, <1>5, <1>6, <1>7

\* A page is updated in place.
LEMMA Update ==
    ASSUME IInv, UNCHANGED <<contents, blob, traffic>>, NEW p \in Pages, NEW w \in PageRow,
           page' = [page EXCEPT ![p] = w],
           w.content = page[p].content, w.flags = page[p].flags, w.hash = page[p].hash,
           w.readCount >= page[p].readCount, page[p].exhausted => w.exhausted,
           w.exhausted \/ (w.part = page[p].part /\ w.dek = page[p].dek /\ w.kind = page[p].kind)
    PROVE  Evolves /\ TableTypes' /\ Tables' /\ Intact'
  <1>0. page \in [Pages -> PageRow]
    BY DEF IInv, TypeOK
  <1>1. /\ Pages' = Pages /\ page'[p] = w /\ page' \in [Pages -> PageRow]
        /\ \A q \in Pages : q # p => page'[q] = page[q]
    BY <1>0 DEF Pages
  <1>2. Minted' = Minted /\ blob' = blob /\ contents' = contents /\ traffic' = traffic
    BY DEF Minted
  <1>3. \A q \in Pages : /\ page[q].content \in Content /\ q \in Content /\ page[q] \in PageRow
                         /\ page[q].readCount \in Nat /\ page[q].content \in Minted
    BY PageFacts, ContentFacts DEF IInv
  <1>4. Evolves
    BY <1>1, <1>2, <1>3 DEF Evolves
  <1>5. TableTypes'
    BY <1>1, <1>2 DEF TableTypes, IInv, TypeOK
  <1>6. Tables'
    BY <1>1, <1>2 DEF IInv, Tables, FlagChoices
  <1>7. Intact'
    <2> SUFFICES ASSUME NoRekeying \/ "upload" \notin Handlers, NEW q \in Pages, Readable(page[q])'
                 PROVE  Fetched(page[q])'
      BY <1>1, <1>2 DEF Intact, NoRekeying, Handlers, FlagChoices
    <2>1. Readable(page'[q])
      BY DEF Readable, Cap
    <2>2. CASE q # p
      <3>1. Fetched(page[q])
        BY <1>1, <2>1, <2>2 DEF IInv, Intact
      <3> QED
        BY <1>1, <1>2, <2>2, <3>1 DEF Fetched
    <2>3. CASE q = p
      <3>1. Readable(page[p])
        BY <1>1, <1>3, <2>1, <2>3, ReadableFacts
      <3>2. Fetched(page[p])
        BY <3>1 DEF IInv, Intact
      <3>3. ~w.exhausted
        BY <1>1, <2>1, <2>3 DEF Readable
      <3> QED
        BY <1>1, <1>2, <2>3, <3>2, <3>3 DEF Fetched
    <2> QED
      BY <2>2, <2>3
  <1> QED
    BY <1>4, <1>5, <1>6, <1>7

\* A page is bound to a new content.
LEMMA Rebinding ==
    ASSUME IInv, traffic' = traffic, NEW p, NEW c \in Content, c = NextContent, NEW d, NEW o, NEW g,
           Rebind(p, c, d, o, g), d \in Data \cup {Empty, NoFile}, o \in Minted \cup {None},
           p \in Pages =>
              /\ g \in PageRow /\ g.content = c /\ g.flags = page[p].flags
              /\ g.readCount = page[p].readCount /\ g.exhausted = page[p].exhausted
              /\ "upload" \notin Handlers => g.hash = page[p].hash
              /\ NoRekeying \/ "upload" \notin Handlers =>
                    (Readable(g) => IF g.kind \in Resident THEN g.part
                                    ELSE d = g.hash /\ (g.kind = "external" \/ g.dek = c))
    PROVE  /\ Evolves /\ TableTypes' /\ Tables' /\ Intact'
           /\ \A q \in Pages' : page'[q].content \notin {o} /\ (q = p => page'[q].content = c)
           /\ c \notin Minted
  <1>0. /\ c \notin Minted /\ c # None /\ Minted \subseteq Content
        /\ \E n \in 0..MaxContents : Minted \cup {c} = 1..n
    BY ContentFacts, FileAssumption DEF IInv
  <1> DEFINE D == {q \in Pages : q # p /\ page[q].content = o}
  <1>1. /\ blob' = With(blob, c, d) /\ contents' = (contents \cup {c}) \ {o}
        /\ page' = Without([q \in Pages |-> IF q = p THEN g ELSE page[q]], D)
    BY DEF Rebind
  <1>2. /\ Pages' = Pages \ D
        /\ \A q \in Pages \ D : page'[q] = IF q = p THEN g ELSE page[q]
    BY <1>1 DEF Without, Pages
  <1>3. /\ Minted' = Minted \cup {c} /\ blob'[c] = d /\ \A b \in Minted : b # c => blob'[b] = blob[b]
    BY <1>1 DEF With, Minted
  <1>4. \A q \in Pages : /\ page[q].content \in Content /\ q \in Content /\ page[q] \in PageRow
                         /\ page[q].readCount \in Nat /\ page[q].content \in Minted
                         /\ q \in Minted /\ page[q].content \in contents
    BY PageFacts, ContentFacts DEF IInv
  <1>5. Evolves
    BY <1>0, <1>2, <1>3, <1>4 DEF Evolves
  <1>6. \A q \in Pages' : /\ page'[q].content # o
                          /\ (q = p => page'[q].content = c /\ page'[q] = g)
                          /\ (q # p => page'[q] = page[q])
    BY <1>0, <1>2, <1>4
  <1>7. TableTypes'
    <2>1. page' \in [Pages' -> PageRow]
      <3>1. \A q \in Pages' : page'[q] \in PageRow
        BY <1>2, <1>4
      <3>2. page' = [q \in Pages' |-> page'[q]]
        BY <1>1 DEF Without, Pages
      <3> QED
        BY <3>1, <3>2
    <2>2. blob' \in [Minted' -> Data \cup {Empty, NoFile}]
      <3>1. blob \in [Minted -> Data \cup {Empty, NoFile}]
        BY DEF IInv, TypeOK
      <3> QED
        BY <1>1, <3>1 DEF With, Minted
    <2>3. contents \subseteq Minted /\ Pages \subseteq Minted
      BY DEF IInv, TypeOK
    <2> QED
      BY <1>0, <1>1, <1>2, <1>3, <2>1, <2>2, <2>3 DEF TableTypes
  <1>8. Tables'
    <2>1. \A q \in Pages' : page'[q].content \in contents' /\ page'[q].flags \in FlagChoices
      BY <1>0, <1>1, <1>2, <1>4, <1>6 DEF IInv, Tables
    <2>2. \A q, s \in Pages' : page'[q].content = page'[s].content => q = s
      BY <1>0, <1>2, <1>4, <1>6 DEF IInv, Tables
    <2> QED
      BY <1>0, <1>3, <2>1, <2>2 DEF Tables, FlagChoices
  <1>9. Intact'
    <2> SUFFICES ASSUME NoRekeying \/ "upload" \notin Handlers, NEW q \in Pages', Readable(page[q])'
                 PROVE  Fetched(page[q])'
      BY DEF Intact, NoRekeying, Handlers, FlagChoices
    <2>1. Readable(page'[q])
      BY DEF Readable, Cap
    <2>2. page'[q].content \in contents'
      BY <1>0, <1>1, <1>2, <1>4, <1>6
    <2>3. CASE q # p
      <3>1. page'[q] = page[q] /\ q \in Pages
        BY <1>2, <1>6, <2>3
      <3>2. Fetched(page[q])
        BY <2>1, <3>1 DEF IInv, Intact
      <3>3. blob'[page[q].content] = blob[page[q].content]
        BY <1>0, <1>3, <1>4, <3>1
      <3> QED
        BY <2>2, <3>1, <3>2, <3>3 DEF Fetched
    <2>4. CASE q = p
      <3>1. page'[p] = g /\ p \in Pages
        BY <1>2, <1>6, <2>4
      <3>2. IF g.kind \in Resident THEN g.part
            ELSE d = g.hash /\ (g.kind = "external" \/ g.dek = c)
        BY <2>1, <2>4, <3>1
      <3>3. g.content = c
        BY <3>1
      <3> QED
        BY <1>3, <2>2, <2>4, <3>1, <3>2, <3>3 DEF Fetched
    <2> QED
      BY <2>3, <2>4
  <1> QED
    BY <1>0, <1>5, <1>6, <1>7, <1>8, <1>9

-----------------------------------------------------------------------------
(* What the steps of a handler share *)

\* The handlers' state is typed.
LocalTypes ==
    /\ pc \in [Req -> Pcs] /\ op \in [Req -> Handlers \cup {"none"}]
    /\ pid \in [Req -> Content \cup {None}] /\ row \in [Req -> PageRow \cup {None}]
    /\ old \in [Req -> Content \cup {None}] /\ ticket \in [Req -> Nat]
    /\ todo \in [Req -> SUBSET Content]

\* The other handlers stay where they are.
Others(r) ==
    \A q \in Req : q # r =>
        /\ pc'[q] = pc[q] /\ op'[q] = op[q] /\ pid'[q] = pid[q] /\ row'[q] = row[q]
        /\ old'[q] = old[q] /\ ticket'[q] = ticket[q] /\ todo'[q] = todo[q]

\* A step of one handler.
LEMMA StepInv ==
    ASSUME IInv, NEW r \in Req, Evolves, TableTypes', Tables', Intact', LocalTypes', Others(r),
           Sound(r)', Pairs'
    PROVE  IInv'
  <1>1. TypeOK'
    BY DEF TableTypes, LocalTypes, TypeOK, IInv, Evolves
  <1>2. ASSUME NEW q \in Req, q # r PROVE Sound(q)'
    <2>1. /\ pc'[q] = pc[q] /\ op'[q] = op[q] /\ pid'[q] = pid[q] /\ row'[q] = row[q]
          /\ old'[q] = old[q] /\ ticket'[q] = ticket[q] /\ todo'[q] = todo[q]
      BY <1>2 DEF Others
    <2>2. Staged(q) /\ Knows(q) /\ Claimed(q) /\ Erases(q)
      BY DEF IInv, Requests, Sound
    <2>3. Staged(q)'
      BY <2>1, <2>2 DEF Staged
    <2>4. Knows(q)' /\ Claimed(q)' /\ Erases(q)'
      BY <2>1, <2>2, KnowsKept DEF IInv
    <2> QED
      BY <2>3, <2>4 DEF Sound
  <1> QED
    BY <1>1, <1>2 DEF IInv, Requests

\* The handlers' state is typed, for each of them.
LEMMA LocalFacts ==
    ASSUME IInv, NEW r \in Req
    PROVE  /\ pc[r] \in Pcs /\ op[r] \in Handlers \cup {"none"} /\ ticket[r] \in Nat
           /\ row[r] \in PageRow \cup {None}
           /\ row[r] # None => /\ row[r] \in PageRow /\ row[r].flags \in Flags
                               /\ row[r].flags \in FlagChoices
                               /\ row[r].name \in Name /\ row[r].hash \in Data
                               /\ row[r].kind \in AllKinds
           /\ LocalTypes /\ Sound(r)
  <1>1. LocalTypes
    BY DEF IInv, TypeOK, LocalTypes
  <1>2. Sound(r)
    BY DEF IInv, Requests
  <1>3. row[r] # None => row[r] \in PageRow
    BY <1>1 DEF LocalTypes
  <1>4. \A w \in PageRow : /\ w.flags \in Flags /\ w.name \in Name /\ w.hash \in Data
                           /\ w.kind \in AllKinds
    BY DEF PageRow
  <1> QED
    BY <1>1, <1>2, <1>3, <1>4 DEF LocalTypes, Sound, Knows

\* A step by which a handler goes on, with what it has.
LEMMA MoveInv ==
    ASSUME IInv, NEW r \in Req, NEW l \in Pcs \ {"idle"}, Evolves, TableTypes', Tables', Intact',
           Goto(r, l), UNCHANGED locals, Staged(r)',
           l \in {"fetch", "post", "drop"} => Cap(row[r].flags) = NoMax \/ ticket[r] # 0,
           Erases(r)'
    PROVE  IInv'
  <1>1. /\ pc' = [pc EXCEPT ![r] = l] /\ op' = op /\ pid' = pid /\ row' = row /\ old' = old
        /\ ticket' = ticket /\ todo' = todo /\ traffic' = traffic
    BY DEF Goto, locals
  <1>2. LocalTypes /\ Sound(r)
    BY LocalFacts
  <1>3. pc'[r] = l /\ Others(r)
    BY <1>1, <1>2 DEF Others, LocalTypes
  <1>4. LocalTypes'
    BY <1>1, <1>2 DEF LocalTypes, Handlers
  <1>5. /\ Knows(r)'
        /\ ticket[r] # 0 /\ pid[r] \in Pages' => ticket[r] <= page'[pid[r]].readCount
    BY <1>1, <1>2, KnowsKept DEF IInv, Sound
  <1>6. Claimed(r)'
    <2>1. ticket[r] # 0 => Cap(row[r].flags) # NoMax /\ ticket[r] <= Cap(row[r].flags)
      BY <1>2 DEF Sound, Claimed
    <2> QED
      BY <1>1, <1>3, <1>5, <2>1 DEF Claimed, Cap
  <1>7. Pairs'
    BY <1>1 DEF IInv, Pairs
  <1> QED
    BY <1>3, <1>4, <1>5, <1>6, <1>7, StepInv DEF Sound

\* It ends.
LEMMA EndInv ==
    ASSUME IInv, NEW r \in Req, NEW l \in Finished, Evolves, TableTypes', Tables', Intact',
           Goto(r, l), UNCHANGED locals, pc[r] \notin Finished \cup {"idle"}
    PROVE  IInv'
  <1>1. pc'[r] = l /\ l \in Pcs \ {"idle"}
    BY DEF Goto, IInv, TypeOK, Finished, Pcs
  <1>2. Staged(r)'
    <2>1. Staged(r)
      BY DEF IInv, Requests, Sound
    <2> QED
      BY <1>1, <2>1 DEF Staged, Finished, locals
  <1>3. Erases(r)'
    BY <1>1 DEF Erases, Finished
  <1> QED
    BY <1>1, <1>2, <1>3, MoveInv DEF Finished

\* It ends, and nothing else happens.
LEMMA EndQuietInv ==
    ASSUME IInv, NEW r \in Req, NEW l \in Finished, UNCHANGED <<page, contents, blob>>,
           Goto(r, l), UNCHANGED locals, pc[r] \notin Finished \cup {"idle"}
    PROVE  IInv'
  <1>1. Evolves /\ TableTypes' /\ Tables' /\ Intact'
    BY NoChange DEF Goto
  <1> QED
    BY <1>1, EndInv

\* It goes on, and nothing else happens.
LEMMA MoveQuietInv ==
    ASSUME IInv, NEW r \in Req, NEW l \in Pcs \ {"idle", "sweep", "unlink"},
           UNCHANGED <<page, contents, blob>>, Goto(r, l), UNCHANGED locals, Staged(r)',
           l \in {"fetch", "post", "drop"} => Cap(row[r].flags) = NoMax \/ ticket[r] # 0
    PROVE  IInv'
  <1>1. Evolves /\ TableTypes' /\ Tables' /\ Intact'
    BY NoChange DEF Goto
  <1>2. pc'[r] = l
    BY DEF Goto, IInv, TypeOK
  <1>3. Erases(r)'
    BY <1>2 DEF Erases
  <1> QED
    BY <1>1, <1>3, MoveInv

-----------------------------------------------------------------------------
(* Requests arrive, pass the gate and end *)

\* The request is received and its page looked up; nothing is written.
LEMMA SelectInv ==
    ASSUME IInv, NEW r \in Req, NEW h, Receive(r, h), UNCHANGED <<page, contents, blob, ticket>>,
           NEW l \in {"gate", "refused", "sweep"}, Goto(r, l), h # "cleanup" => l # "sweep",
           h = "cleanup" => l = "sweep", h \in AllHandlers,
           pid' = [pid EXCEPT ![r] = pid'[r]], row' = [row EXCEPT ![r] = row'[r]],
           old' = [old EXCEPT ![r] = old'[r]], todo' = [todo EXCEPT ![r] = todo'[r]],
           pid'[r] \in Pages \cup {None}, row'[r] \in PageRow \cup {None},
           old'[r] = IF pid'[r] = None THEN None ELSE page[pid'[r]].content,
           h \in {"download", "rotate"} /\ l # "refused" => pid'[r] # None /\ row'[r] # None,
           h = "upload" /\ l = "gate" => row'[r] # None,
           h = "upload" /\ pid'[r] # None => row'[r] # None /\ ~row'[r].flags.noOverwrite,
           row'[r] # None => row'[r].flags \in FlagChoices,
           pid'[r] # None /\ row'[r] # None =>
              /\ row'[r].flags = page[pid'[r]].flags
              /\ "upload" \notin Handlers => row'[r].hash = page[pid'[r]].hash,
           todo'[r] \subseteq {page[q].content : q \in {q \in Pages :
                                 page[q].exhausted /\ ~page[q].flags.preserve}}
    PROVE  IInv'
  <1>0. PICK p \in Pages \cup {None}, w \in PageRow \cup {None}, o \in {old'[r]}, t \in {todo'[r]} :
          p = pid'[r] /\ w = row'[r] /\ o = old'[r] /\ t = todo'[r]
    OBVIOUS
  <1>a. /\ pid' = [pid EXCEPT ![r] = p] /\ row' = [row EXCEPT ![r] = w]
        /\ old' = [old EXCEPT ![r] = o] /\ todo' = [todo EXCEPT ![r] = t]
        /\ o = IF p = None THEN None ELSE page[p].content
    BY <1>0
  <1>1. /\ pc[r] = "idle" /\ h \in Handlers /\ op' = [op EXCEPT ![r] = h]
        /\ pc' = [pc EXCEPT ![r] = l] /\ traffic' = traffic /\ ticket' = ticket
        /\ page' = page /\ contents' = contents /\ blob' = blob
    BY DEF Receive, Goto
  <1>2. LocalTypes /\ Sound(r) /\ ticket[r] = 0
    BY <1>1, LocalFacts DEF Sound, Staged
  <1>3. /\ pc'[r] = l /\ op'[r] = h /\ pid'[r] = p /\ row'[r] = w /\ old'[r] = o
        /\ ticket'[r] = 0 /\ todo'[r] = t /\ Others(r)
    BY <1>0, <1>a, <1>1, <1>2 DEF Others, LocalTypes
  <1>4. Evolves /\ TableTypes' /\ Tables' /\ Intact'
    BY <1>1, NoChange
  <1>5. /\ Pages \subseteq Content /\ Pages \subseteq Minted /\ Minted \subseteq Content
        /\ None \notin Pages /\ None \notin Minted
        /\ \A q \in Pages : page[q].content \in Minted /\ page[q].content # None
    BY PageFacts, ContentFacts DEF IInv, TypeOK
  <1>6. t \subseteq Minted /\ o \in Minted \cup {None} /\ p \in Minted \cup {None}
    BY <1>0, <1>a, <1>5
  <1>7. LocalTypes'
    <2>1. l \in Pcs
      BY DEF Pcs
    <2> QED
      BY <1>a, <1>1, <1>2, <1>5, <1>6, <2>1 DEF LocalTypes, Handlers
  <1>8. Staged(r)'
    BY <1>0, <1>3 DEF Staged, AllHandlers
  <1>9. Pages' = Pages /\ Minted' = Minted /\ FlagChoices' = FlagChoices /\ Handlers' = Handlers
    BY <1>1 DEF Pages, Minted, FlagChoices, Handlers
  <1>10. Knows(r)'
    <2>1. \A q \in Pages : page[q].content = o => q = p
      BY <1>a, <1>5 DEF IInv, Tables
    <2> QED
      BY <1>0, <1>1, <1>3, <1>5, <1>6, <1>9, <2>1 DEF Knows
  <1>11. Claimed(r)'
    BY <1>3 DEF Claimed
  <1>12. Erases(r)'
    <2>1. \A q \in Pages : page[q].content \in t => page[q].exhausted /\ ~page[q].flags.preserve
      BY <1>0 DEF IInv, Tables
    <2> QED
      BY <1>1, <1>3, <1>9, <2>1 DEF Erases
  <1>13. Pairs'
    <2> SUFFICES ASSUME NEW q \in Req, q # r, pid[q] = p, p # None
                 PROVE  w # None /\ row[q] # None => w.flags = row[q].flags
      BY <1>1, <1>3 DEF IInv, Pairs, Others
    <2>1. Knows(q)
      BY DEF IInv, Requests, Sound
    <2> QED
      BY <1>0, <2>1 DEF Knows
  <1> QED
    BY <1>3, <1>4, <1>7, <1>8, <1>10, <1>11, <1>12, <1>13, StepInv DEF Sound

\* A file that is not there is uploaded.
LEMMA UploadSelectNewInv == ASSUME IInv, NEW r \in Req, UploadSelectNew(r) PROVE IInv'
  <1>1. /\ Receive(r, "upload") /\ Goto(r, "gate") /\ UNCHANGED <<page, contents, blob, ticket>>
        /\ pid' = pid /\ old' = old /\ todo' = todo
    BY DEF UploadSelectNew
  <1>2. PICK n \in Name, d \in Data, f \in FlagChoices, k \in Kinds :
          row' = [row EXCEPT ![r] = NewRow(n, d, f, k, None)]
    BY DEF UploadSelectNew
  <1>3. f \in Flags /\ k \in AllKinds
    BY TrafficFacts DEF IInv
  <1>4. PICK w \in PageRow : /\ w = NewRow(n, d, f, k, None) /\ w # None /\ w.flags = f
    <2>1. None \in Content \cup {None}
      OBVIOUS
    <2> QED
      BY <1>3, <2>1, NewRowFacts
  <1>5. pid[r] = None /\ old[r] = None /\ todo[r] = {} /\ LocalTypes
    BY <1>1, LocalFacts DEF Receive, Sound, Staged
  <1>6. /\ pid' = [pid EXCEPT ![r] = pid'[r]] /\ old' = [old EXCEPT ![r] = old'[r]]
        /\ todo' = [todo EXCEPT ![r] = todo'[r]]
        /\ pid'[r] = None /\ old'[r] = None /\ todo'[r] = {}
    BY <1>1, <1>5 DEF LocalTypes
  <1>7. /\ row' = [row EXCEPT ![r] = row'[r]] /\ row'[r] = w
        /\ "upload" \in AllHandlers
    BY <1>2, <1>4, <1>5 DEF AllHandlers, LocalTypes
  <1> QED
    BY <1>1, <1>4, <1>6, <1>7, SelectInv

\* A file that is there is overwritten, if it is not immutable.
LEMMA UploadSelectExistingInv == ASSUME IInv, NEW r \in Req, UploadSelectExisting(r) PROVE IInv'
  <1>1. /\ Receive(r, "upload") /\ Goto(r, "gate") /\ UNCHANGED <<page, contents, blob, ticket>>
        /\ todo' = todo
    BY DEF UploadSelectExisting
  <1>a. PICK n \in Name, d \in Data, k \in Kinds : \E p \in Lookup(n) :
          /\ ~page[p].flags.noOverwrite
          /\ row' = [row EXCEPT ![r] = NewRow(n, d, page[p].flags, k, None)]
          /\ pid' = [pid EXCEPT ![r] = p] /\ old' = [old EXCEPT ![r] = page[p].content]
    BY DEF UploadSelectExisting
  <1>2. PICK p \in Lookup(n) :
          /\ ~page[p].flags.noOverwrite
          /\ row' = [row EXCEPT ![r] = NewRow(n, d, page[p].flags, k, None)]
          /\ pid' = [pid EXCEPT ![r] = p] /\ old' = [old EXCEPT ![r] = page[p].content]
    BY <1>a
  <1>3. p \in Pages /\ k \in AllKinds
    BY TrafficFacts DEF IInv, Lookup
  <1>4. page[p].flags \in Flags /\ page[p].flags \in FlagChoices /\ p # None
    BY <1>3, PageFacts, ContentFacts DEF IInv
  <1>5. PICK w \in PageRow : /\ w = NewRow(n, d, page[p].flags, k, None) /\ w # None
                             /\ w.flags = page[p].flags
    <2>1. None \in Content \cup {None}
      OBVIOUS
    <2> QED
      BY <1>3, <1>4, <2>1, NewRowFacts
  <1>6. todo[r] = {} /\ LocalTypes
    BY <1>1, LocalFacts DEF Receive, Sound, Staged
  <1>7. /\ todo' = [todo EXCEPT ![r] = todo'[r]] /\ todo'[r] = {}
        /\ pid' = [pid EXCEPT ![r] = pid'[r]] /\ pid'[r] = p
        /\ old' = [old EXCEPT ![r] = old'[r]] /\ old'[r] = page[p].content
        /\ row' = [row EXCEPT ![r] = row'[r]] /\ row'[r] = w
    BY <1>1, <1>2, <1>5, <1>6 DEF LocalTypes
  <1>8. "upload" \in AllHandlers /\ "upload" \in Handlers
    BY <1>1 DEF AllHandlers, Receive
  <1> QED
    BY <1>1, <1>2, <1>3, <1>4, <1>5, <1>7, <1>8, SelectInv

\* A request that is refused at once.
LEMMA RefusedInv ==
    ASSUME IInv, NEW r \in Req, NEW h \in AllHandlers \ {"cleanup"}, Receive(r, h),
           Goto(r, "refused"), UNCHANGED <<page, contents, blob, pid, row, old, ticket, todo>>
    PROVE  IInv'
  <1>1. pid[r] = None /\ row[r] = None /\ old[r] = None /\ todo[r] = {} /\ LocalTypes
    BY LocalFacts DEF Receive, Sound, Staged
  <1>2. /\ pid' = [pid EXCEPT ![r] = pid'[r]] /\ old' = [old EXCEPT ![r] = old'[r]]
        /\ todo' = [todo EXCEPT ![r] = todo'[r]] /\ row' = [row EXCEPT ![r] = row'[r]]
        /\ pid'[r] = None /\ old'[r] = None /\ todo'[r] = {} /\ row'[r] = None
    BY <1>1 DEF LocalTypes
  <1> QED
    BY <1>2, SelectInv

\* The lookup of a download or of a rotation.
LEMMA LookupInv ==
    ASSUME IInv, NEW r \in Req, NEW h \in {"download", "rotate"}, Receive(r, h), Goto(r, "gate"),
           UNCHANGED <<page, contents, blob, ticket, todo>>, NEW p \in Pages,
           pid' = [pid EXCEPT ![r] = p], row' = [row EXCEPT ![r] = page[p]],
           old' = [old EXCEPT ![r] = page[p].content]
    PROVE  IInv'
  <1>1. todo[r] = {} /\ LocalTypes
    BY LocalFacts DEF Receive, Sound, Staged
  <1>2. /\ todo' = [todo EXCEPT ![r] = todo'[r]] /\ todo'[r] = {}
        /\ pid' = [pid EXCEPT ![r] = pid'[r]] /\ pid'[r] = p
        /\ old' = [old EXCEPT ![r] = old'[r]] /\ old'[r] = page[p].content
        /\ row' = [row EXCEPT ![r] = row'[r]] /\ row'[r] = page[p]
    BY <1>1 DEF LocalTypes
  <1>3. /\ page[p] \in PageRow /\ page[p] # None /\ p # None /\ page[p].flags \in FlagChoices
        /\ h \in AllHandlers
    BY PageFacts, ContentFacts, NoneAssumption DEF IInv, AllHandlers
  <1> QED
    BY <1>2, <1>3, SelectInv

\* DeleteSelect keeps the invariant.
LEMMA DeleteSelectInv == ASSUME IInv, NEW r \in Req, DeleteSelect(r) PROVE IInv'
  <1>1. /\ Receive(r, "delete") /\ Goto(r, "gate") /\ UNCHANGED <<page, contents, blob, ticket>>
        /\ todo' = todo /\ row' = row
    BY DEF DeleteSelect
  <1>2. PICK p \in Pages : pid' = [pid EXCEPT ![r] = p] /\ old' = [old EXCEPT ![r] = page[p].content]
    BY DEF DeleteSelect
  <1>3. todo[r] = {} /\ row[r] = None /\ LocalTypes
    BY <1>1, LocalFacts DEF Receive, Sound, Staged
  <1>4. /\ todo' = [todo EXCEPT ![r] = todo'[r]] /\ todo'[r] = {}
        /\ pid' = [pid EXCEPT ![r] = pid'[r]] /\ pid'[r] = p
        /\ old' = [old EXCEPT ![r] = old'[r]] /\ old'[r] = page[p].content
        /\ row' = [row EXCEPT ![r] = row'[r]] /\ row'[r] = None
    BY <1>1, <1>2, <1>3 DEF LocalTypes
  <1>5. p # None /\ "delete" \in AllHandlers
    BY PageFacts, ContentFacts DEF IInv, AllHandlers
  <1>6. /\ old'[r] = IF pid'[r] = None THEN None ELSE page[pid'[r]].content
        /\ pid'[r] \in Pages \cup {None} /\ row'[r] \in PageRow \cup {None}
    BY <1>4, <1>5
  <1> QED
    BY <1>1, <1>4, <1>5, <1>6, SelectInv

\* CleanupSelect keeps the invariant.
LEMMA CleanupSelectInv == ASSUME IInv, NEW r \in Req, CleanupSelect(r) PROVE IInv'
  <1>1. /\ Receive(r, "cleanup") /\ Goto(r, "sweep") /\ UNCHANGED <<page, contents, blob, ticket>>
        /\ pid' = pid /\ row' = row /\ old' = old
    BY DEF CleanupSelect
  <1>2. PICK t : /\ t = {page[p].content : p \in {q \in Pages :
                            page[q].exhausted /\ ~page[q].flags.preserve}}
                 /\ todo' = [todo EXCEPT ![r] = t]
    BY DEF CleanupSelect
  <1>3. pid[r] = None /\ row[r] = None /\ old[r] = None /\ LocalTypes
    BY <1>1, LocalFacts DEF Receive, Sound, Staged
  <1>4. /\ pid' = [pid EXCEPT ![r] = pid'[r]] /\ old' = [old EXCEPT ![r] = old'[r]]
        /\ todo' = [todo EXCEPT ![r] = todo'[r]] /\ row' = [row EXCEPT ![r] = row'[r]]
        /\ pid'[r] = None /\ old'[r] = None /\ todo'[r] = t /\ row'[r] = None
        /\ "cleanup" \in AllHandlers
    BY <1>1, <1>2, <1>3 DEF LocalTypes, AllHandlers
  <1> QED
    BY <1>1, <1>2, <1>4, SelectInv

\* The gate.
LEMMA GatePassInv == ASSUME IInv, NEW r \in Req, GatePass(r) PROVE IInv'
  <1>1. /\ pc[r] = "gate" /\ UNCHANGED <<page, contents, blob>> /\ UNCHANGED locals
    BY DEF GatePass
  <1>2. Staged(r) /\ op[r] \in {"upload", "download", "delete", "rotate"}
    BY <1>1, LocalFacts DEF Sound, Staged
  <1>3. PICK l \in {"commit", "claim", "delete", "read"} :
          /\ Goto(r, l)
          /\ op[r] = "upload" => l = "commit"
          /\ op[r] = "download" => l = "claim"
          /\ op[r] = "delete" => l = "delete"
          /\ op[r] = "rotate" => l = "read"
    BY <1>2 DEF GatePass
  <1>4. pc'[r] = l /\ op' = op /\ pid' = pid /\ row' = row /\ old' = old /\ ticket' = ticket
        /\ todo' = todo
    BY <1>1, <1>3 DEF Goto, IInv, TypeOK, locals
  <1>5. Staged(r)'
    BY <1>1, <1>2, <1>3, <1>4 DEF Staged
  <1>6. l \in Pcs \ {"idle", "sweep", "unlink"}
    BY DEF Pcs
  <1> QED
    BY <1>1, <1>3, <1>5, <1>6, MoveQuietInv

\* GateRefuse keeps the invariant.
LEMMA GateRefuseInv == ASSUME IInv, NEW r \in Req, GateRefuse(r) PROVE IInv'
  BY EndQuietInv DEF GateRefuse, Finished

\* Abort keeps the invariant.
LEMMA AbortInv == ASSUME IInv, NEW r \in Req, Abort(r) PROVE IInv'
  BY EndQuietInv DEF Abort, Finished

\* remove_file: what no page needs any more.
LEMMA UnlinkOldInv == ASSUME IInv, NEW r \in Req, UnlinkOld(r) PROVE IInv'
  <1>1. /\ pc[r] = "unlink" /\ blob' = Unlink(old[r]) /\ UNCHANGED <<page, contents>>
        /\ UNCHANGED locals
    BY DEF UnlinkOld
  <1>2. PICK l \in Finished : Goto(r, l)
    BY DEF UnlinkOld, Finished
  <1>3. \A p \in Pages : page[p].content = old[r] => ~Readable(page[p])
    BY <1>1, LocalFacts DEF Sound, Erases
  <1>4. page' = Without(page, {}) /\ page \in [Pages -> PageRow]
    BY <1>1 DEF Without, IInv, TypeOK, Pages
  <1>5. \A p \in Pages : page[p].content \in contents'
    BY <1>1, PageFacts DEF IInv
  <1>6. Evolves /\ TableTypes' /\ Tables' /\ Intact'
    BY <1>1, <1>2, <1>3, <1>4, <1>5, Removal DEF Goto
  <1> QED
    BY <1>1, <1>2, <1>6, EndInv DEF Finished

-----------------------------------------------------------------------------
(* upload_file *)

LEMMA UploadReplaceInv == ASSUME IInv, NEW r \in Req, UploadReplace(r) PROVE IInv'
  <1> DEFINE p == pid[r]
             w == row[r]
  <1>1. /\ pc[r] = "commit" /\ op[r] = "upload" /\ p # None /\ Goto(r, "unlink")
        /\ UNCHANGED locals
    BY DEF UploadReplace
  <1>2. PICK c \in {NextContent} \cap Content :
          Rebind(p, c, Stored(w.hash, w.kind), old[r],
                 [NewRow(w.name, w.hash, w.flags, w.kind, c) EXCEPT
                     !.readCount = page[p].readCount, !.exhausted = page[p].exhausted])
    BY DEF UploadReplace
  <1>3. /\ w \in PageRow /\ w.flags \in Flags /\ w.name \in Name /\ w.hash \in Data
        /\ w.kind \in AllKinds /\ ~w.flags.noOverwrite /\ Knows(r) /\ Staged(r)
    BY <1>1, LocalFacts DEF Sound, Staged
  <1>4. PICK n \in PageRow : /\ n = NewRow(w.name, w.hash, w.flags, w.kind, c)
                             /\ n.content = c /\ n.hash = w.hash /\ n.kind = w.kind
                             /\ n.flags = w.flags /\ (n.part <=> w.kind \in Resident)
                             /\ w.kind \in {"normal", "backed"} => n.dek = c
    <2>1. c \in Content \cup {None}
      OBVIOUS
    <2> HIDE DEF w
    <2> QED
      BY <1>3, <2>1, NewRowFacts
  <1> DEFINE g == [n EXCEPT !.readCount = page[p].readCount, !.exhausted = page[p].exhausted]
  <1>5. p \in Pages => /\ g \in PageRow /\ g.content = c /\ g.flags = w.flags
                       /\ g.readCount = page[p].readCount /\ g.exhausted = page[p].exhausted
                       /\ g.kind = w.kind /\ g.hash = w.hash /\ g.part = n.part /\ g.dek = n.dek
    BY <1>4, PageFacts DEF IInv, PageRow
  <1>6. p \in Pages => page[p].flags = w.flags
    BY <1>3, NoneAssumption DEF Knows
  <1>7. "upload" \in Handlers
    BY <1>1, LocalFacts
  <1>8. Stored(w.hash, w.kind) \in Data \cup {Empty, NoFile}
        /\ (w.kind \notin Resident => Stored(w.hash, w.kind) = w.hash)
    BY <1>3 DEF Stored, Resident
  <1>9. w.kind \in Resident \/ w.kind \in {"normal", "external"}
    BY <1>3 DEF AllKinds, Resident
  <1>10. old[r] \in Minted \cup {None} /\ traffic' = traffic /\ c \in Content /\ c = NextContent
    BY <1>1, <1>3 DEF Knows, Goto
  <1> HIDE DEF g
  <1>11. Rebind(p, c, Stored(w.hash, w.kind), old[r], g)
    BY <1>2, <1>4 DEF g
  <1>12. p \in Pages => IF g.kind \in Resident THEN g.part
                        ELSE Stored(w.hash, w.kind) = g.hash /\ (g.kind = "external" \/ g.dek = c)
    BY <1>4, <1>5, <1>8, <1>9
  <1>13. /\ Evolves /\ TableTypes' /\ Tables' /\ Intact'
         /\ \A q \in Pages' : page'[q].content \notin {old[r]}
    <2> HIDE DEF p, w
    <2> QED
      BY <1>5, <1>6, <1>7, <1>8, <1>10, <1>11, <1>12, Rebinding
  <1>14. pc'[r] = "unlink" /\ "unlink" \in Pcs
    BY <1>1 DEF Goto, IInv, TypeOK, Pcs
  <1>15. Staged(r)'
    BY <1>1, <1>3, <1>14, NoneAssumption DEF Staged, locals
  <1>16. Erases(r)'
    BY <1>1, <1>13, <1>14 DEF Erases, locals
  <1> QED
    BY <1>1, <1>13, <1>14, <1>15, <1>16, MoveInv

\* UploadInsert keeps the invariant.
LEMMA UploadInsertInv == ASSUME IInv, NEW r \in Req, UploadInsert(r) PROVE IInv'
  <1> DEFINE w == row[r]
  <1>1. /\ pc[r] = "commit" /\ op[r] = "upload" /\ pid[r] = None /\ UNCHANGED locals
    BY DEF UploadInsert
  <1>2. PICK c \in {NextContent} \cap Content :
          /\ blob' = With(blob, c, Stored(w.hash, w.kind))
          /\ IF Lookup(w.name) = {}
             THEN /\ contents' = contents \cup {c}
                  /\ page' = With(page, c, NewRow(w.name, w.hash, w.flags, w.kind, c))
                  /\ Goto(r, "ok")
             ELSE Goto(r, "failed") /\ UNCHANGED <<page, contents>>
    BY DEF UploadInsert
  <1>3. /\ w \in PageRow /\ w.flags \in Flags /\ w.flags \in FlagChoices /\ w.name \in Name
        /\ w.hash \in Data /\ w.kind \in AllKinds
    BY <1>1, LocalFacts DEF Sound, Staged
  <1>4. PICK n \in PageRow : /\ n = NewRow(w.name, w.hash, w.flags, w.kind, c)
                             /\ n.content = c /\ n.hash = w.hash /\ n.kind = w.kind
                             /\ n.flags = w.flags /\ (n.part <=> w.kind \in Resident)
                             /\ w.kind \in {"normal", "backed"} => n.dek = c
    <2>1. c \in Content \cup {None}
      OBVIOUS
    <2> HIDE DEF w
    <2> QED
      BY <1>3, <2>1, NewRowFacts
  <1>5. PICK d \in Data \cup {Empty, NoFile} :
          d = Stored(w.hash, w.kind) /\ (w.kind \notin Resident => d = w.hash)
    BY <1>3 DEF Stored, Resident
  <1>6. n.kind \in Resident \/ n.kind \in {"normal", "external"}
    BY <1>3, <1>4 DEF AllKinds, Resident
  <1>7. /\ c \notin Minted /\ Minted \subseteq Content /\ c \in Content
        /\ \E m \in 0..MaxContents : Minted \cup {c} = 1..m
    BY ContentFacts DEF IInv
  <1>8. /\ blob' = With(blob, c, d) /\ traffic' = traffic
        /\ \/ contents' = contents /\ page' = page
           \/ contents' = contents \cup {c} /\ page' = With(page, c, n)
    BY <1>2, <1>4, <1>5 DEF Goto
  <1>9. PICK l \in Finished : Goto(r, l)
    BY <1>2 DEF Finished
  <1> HIDE DEF w
  <1>10. Minted' = Minted \cup {c} /\ blob'[c] = d /\ \A b \in Minted : blob'[b] = blob[b]
    BY <1>7, <1>8 DEF With, Minted
  <1>11. \A q \in Pages : /\ page[q].content \in Content /\ q \in Content /\ page[q] \in PageRow
                          /\ page[q].readCount \in Nat /\ page[q].content \in Minted
                          /\ q \in Minted /\ page[q].content \in contents
    BY PageFacts, ContentFacts DEF IInv
  <1>12. /\ Pages' = Pages \/ (Pages' = Pages \cup {c} /\ page'[c] = n /\ c \in contents')
         /\ \A q \in Pages : page'[q] = page[q]
    BY <1>7, <1>8, <1>11 DEF With, Pages
  <1>13. Evolves
    BY <1>4, <1>7, <1>8, <1>10, <1>11, <1>12 DEF Evolves
  <1>14. TableTypes'
    <2>1. page' \in [Pages' -> PageRow]
      <3>1. \A q \in Pages' : page'[q] \in PageRow
        BY <1>11, <1>12
      <3>2. page \in [Pages -> PageRow]
        BY DEF IInv, TypeOK
      <3>3. page' = [q \in Pages' |-> page'[q]]
        BY <1>8, <3>2 DEF With, Pages
      <3> QED
        BY <3>1, <3>3
    <2>2. blob' \in [Minted' -> Data \cup {Empty, NoFile}]
      <3>1. blob \in [Minted -> Data \cup {Empty, NoFile}]
        BY DEF IInv, TypeOK
      <3> QED
        BY <1>8, <3>1 DEF With, Minted
    <2>3. contents \subseteq Minted /\ Pages \subseteq Minted
      BY DEF IInv, TypeOK
    <2> QED
      BY <1>7, <1>8, <1>10, <1>12, <2>1, <2>2, <2>3 DEF TableTypes
  <1>15. Tables'
    <2>1. \A q \in Pages' : page'[q].content \in contents' /\ page'[q].flags \in FlagChoices
      <3>1. n.flags \in FlagChoices
        BY <1>3, <1>4
      <3> QED
        BY <1>4, <1>8, <1>11, <1>12, <3>1 DEF IInv, Tables
    <2>2. \A q, s \in Pages' : page'[q].content = page'[s].content => q = s
      BY <1>4, <1>7, <1>11, <1>12 DEF IInv, Tables
    <2> QED
      BY <1>7, <1>8, <1>10, <2>1, <2>2 DEF Tables, FlagChoices
  <1>16. Intact'
    <2> SUFFICES ASSUME NoRekeying \/ "upload" \notin Handlers, NEW q \in Pages', Readable(page[q])'
                 PROVE  Fetched(page[q])'
      BY <1>8 DEF Intact, NoRekeying, Handlers, FlagChoices
    <2>1. Readable(page'[q])
      BY DEF Readable, Cap
    <2>2. CASE q \in Pages
      <3>1. Fetched(page[q])
        BY <1>12, <2>1, <2>2 DEF IInv, Intact
      <3>2. blob'[page[q].content] = blob[page[q].content] /\ contents \subseteq contents'
        BY <1>8, <1>10, <1>11, <2>2
      <3> QED
        BY <1>12, <2>2, <3>1, <3>2 DEF Fetched
    <2>3. CASE q = c /\ page'[c] = n /\ c \in contents'
      BY <1>4, <1>5, <1>6, <1>10, <2>3 DEF Fetched
    <2> QED
      BY <1>12, <2>2, <2>3
  <1> QED
    BY <1>1, <1>9, <1>13, <1>14, <1>15, <1>16, EndInv DEF Finished

-----------------------------------------------------------------------------
(* download_file *)

\* The state of a download past the claim.
LEMMA DownloadFacts ==
    ASSUME IInv, NEW r \in Req, pc[r] \in {"claim", "fetch", "post", "drop"}
    PROVE  /\ op[r] = "download" /\ pid[r] # None /\ row[r] # None /\ row[r].flags \in Flags
           /\ pid[r] \in Minted /\ Staged(r)
           /\ pc[r] # "claim" => Cap(row[r].flags) = NoMax \/ ticket[r] # 0
           /\ Cap(row[r].flags) \in Int \cup {NoMax} /\ NoMax \notin Int
           /\ ticket[r] \in Nat
  <1>1. Staged(r) /\ Knows(r) /\ Claimed(r) /\ ticket[r] \in Nat
    BY LocalFacts DEF Sound
  <1>2. op[r] = "download" /\ pid[r] # None /\ row[r] # None
    BY <1>1 DEF Staged
  <1>3. row[r].flags \in Flags
    BY <1>2, LocalFacts
  <1>4. pc[r] # "claim" => Cap(row[r].flags) = NoMax \/ ticket[r] # 0
    BY <1>1, <1>2 DEF Claimed
  <1> QED
    BY <1>1, <1>2, <1>3, <1>4, CapFacts, FileAssumption DEF Knows

\* A download that has claimed the last read makes its page unreadable.
LEMMA LastRead ==
    ASSUME IInv, NEW r \in Req, pc[r] \in {"post", "drop"},
           row[r].flags.deleteOnRead \/ ReachedMax(r),
           NEW p \in Pages, page[p].content = old[r]
    PROVE  ~Readable(page[p]) /\ p = pid[r] /\ ticket[r] # 0
  <1>1. p = pid[r] /\ page[p].flags = row[r].flags
    BY DownloadFacts, LocalFacts DEF Sound, Knows
  <1>2. row[r].flags.deleteOnRead => Cap(row[r].flags) # NoMax /\ Cap(row[r].flags) <= 1
    BY DownloadFacts, CapFacts
  <1>3. ~row[r].flags.deleteOnRead => Cap(row[r].flags) = row[r].flags.maxReads
    BY DownloadFacts, CapFacts
  <1>4. Cap(row[r].flags) # NoMax
    BY <1>2, <1>3 DEF ReachedMax
  <1>5. ticket[r] # 0 /\ ticket[r] \in Nat /\ Cap(row[r].flags) \in Int
    BY <1>4, DownloadFacts
  <1>6. ticket[r] >= Cap(row[r].flags)
    BY <1>2, <1>3, <1>5 DEF ReachedMax
  <1>7. ticket[r] <= page[p].readCount /\ page[p].readCount \in Nat
    BY <1>1, <1>5, LocalFacts, PageFacts DEF Sound, Claimed, IInv
  <1>8. ~(page[p].readCount < Cap(row[r].flags))
    BY <1>5, <1>6, <1>7
  <1> QED
    BY <1>1, <1>4, <1>5, <1>8 DEF Readable

\* A read is counted on the page.
LEMMA CountFacts ==
    ASSUME IInv, NEW p \in Pages, UNCHANGED <<contents, blob, traffic>>,
           page' = [page EXCEPT ![p].readCount = @ + 1]
    PROVE  /\ Evolves /\ TableTypes' /\ Tables' /\ Intact'
           /\ Pages' = Pages /\ page'[p].readCount = page[p].readCount + 1
           /\ page'[p].flags = page[p].flags
           /\ \A q \in Pages : /\ page'[q].content = page[q].content
                               /\ page'[q].hash = page[q].hash
  <1>1. page[p] \in PageRow /\ page[p].readCount \in Nat /\ page \in [Pages -> PageRow]
    BY PageFacts DEF IInv, TypeOK
  <1>2. PICK w \in PageRow : w = [page[p] EXCEPT !.readCount = page[p].readCount + 1]
    BY <1>1 DEF PageRow
  <1>3. /\ w.content = page[p].content /\ w.flags = page[p].flags /\ w.hash = page[p].hash
        /\ w.readCount = page[p].readCount + 1 /\ w.exhausted = page[p].exhausted
        /\ w.part = page[p].part /\ w.dek = page[p].dek /\ w.kind = page[p].kind
    BY <1>1, <1>2 DEF PageRow
  <1>4. page' = [page EXCEPT ![p] = w]
    BY <1>2
  <1>5. w.readCount >= page[p].readCount
    BY <1>1, <1>3
  <1>6. Evolves /\ TableTypes' /\ Tables' /\ Intact'
    BY <1>3, <1>4, <1>5, Update
  <1>7. page'[p] = w /\ Pages' = Pages /\ \A q \in Pages : q # p => page'[q] = page[q]
    BY <1>1, <1>4 DEF Pages
  <1> QED
    BY <1>1, <1>3, <1>6, <1>7

\* The claim gives out the next ticket.
LEMMA DownloadClaimInv == ASSUME IInv, NEW r \in Req, DownloadClaim(r) PROVE IInv'
  <1>1. /\ pc[r] = "claim" /\ Cap(row[r].flags) # NoMax
        /\ UNCHANGED <<contents, blob, op, pid, row, old, todo>>
    BY DEF DownloadClaim
  <1>2. CASE Claimable(pid[r], Cap(row[r].flags))
    <2>1. PICK p \in Pages : p = pid[r]
      BY <1>2 DEF Claimable
    <2>2. /\ page' = [page EXCEPT ![p].readCount = @ + 1]
          /\ ticket' = [ticket EXCEPT ![r] = page[p].readCount + 1]
          /\ pc' = [pc EXCEPT ![r] = "fetch"] /\ traffic' = traffic
          /\ page[p].readCount < Cap(row[r].flags)
      BY <1>2, <2>1 DEF DownloadClaim, Goto, Claimable
    <2>3. /\ Evolves /\ TableTypes' /\ Tables' /\ Intact' /\ Pages' = Pages
          /\ page'[p].readCount = page[p].readCount + 1
      BY <1>1, <2>2, CountFacts
    <2>4. page[p].readCount \in Nat /\ Cap(row[r].flags) \in Int
      BY <1>1, PageFacts, DownloadFacts DEF IInv
    <2>5. LocalTypes /\ Sound(r)
      BY LocalFacts
    <2>6. /\ pc'[r] = "fetch" /\ ticket'[r] = page[p].readCount + 1 /\ ticket'[r] # 0
          /\ op' = op /\ pid' = pid /\ row' = row /\ old' = old /\ todo' = todo
          /\ Others(r)
      BY <1>1, <2>2, <2>4, <2>5 DEF Others, LocalTypes
    <2>7. LocalTypes'
      BY <1>1, <2>2, <2>4, <2>5 DEF LocalTypes, Handlers, Pcs
    <2>8. Staged(r)'
      BY <1>1, <2>5, <2>6, DownloadFacts DEF Sound, Staged
    <2>9. Knows(r)'
      <3>1. Handlers' = Handlers /\ FlagChoices' = FlagChoices
        BY <2>2 DEF Handlers, FlagChoices
      <3>2. Pages \subseteq Minted /\ Minted' = Minted
        BY <1>1 DEF IInv, TypeOK, Minted
      <3>3. page'[p].flags = page[p].flags
        BY <1>1, <2>2, CountFacts
      <3>4. \A q \in Pages : /\ page'[q].content = page[q].content
                             /\ "upload" \notin Handlers => page'[q].hash = page[q].hash
        BY <1>1, <2>2, CountFacts
      <3> QED
        BY <2>1, <2>3, <2>5, <2>6, <3>1, <3>2, <3>3, <3>4 DEF Sound, Knows
    <2>10. Claimed(r)'
      <3>1. ticket'[r] <= Cap(row[r].flags)
        BY <2>2, <2>4, <2>6
      <3>2. ticket'[r] <= page'[p].readCount
        BY <2>3, <2>4, <2>6
      <3>3. Cap(row[r].flags)' = Cap(row[r].flags)
        BY <2>6 DEF Cap
      <3> QED
        BY <1>1, <2>1, <2>6, <3>1, <3>2, <3>3 DEF Claimed
    <2>11. Erases(r)'
      BY <2>6 DEF Erases
    <2>12. Pairs'
      <3> SUFFICES ASSUME NEW q \in Req, q # r, pid[q] = p
                   PROVE  ticket[q] # page[p].readCount + 1
        BY <2>1, <2>6 DEF IInv, Pairs, Others
      <3>1. ticket[q] \in Nat /\ (ticket[q] # 0 => ticket[q] <= page[p].readCount)
        BY LocalFacts DEF Sound, Claimed
      <3> QED
        BY <2>4, <3>1
    <2> QED
      BY <2>3, <2>6, <2>7, <2>8, <2>9, <2>10, <2>11, <2>12, StepInv DEF Sound
  <1>3. CASE ~Claimable(pid[r], Cap(row[r].flags))
    <2>1. Goto(r, "refused") /\ UNCHANGED <<page, ticket>>
      BY <1>3 DEF DownloadClaim
    <2> QED
      BY <1>1, <2>1, EndQuietInv DEF Finished, locals
  <1> QED
    BY <1>2, <1>3

\* DownloadCount keeps the invariant.
LEMMA DownloadCountInv == ASSUME IInv, NEW r \in Req, DownloadCount(r) PROVE IInv'
  <1>1. /\ pc[r] = "claim" /\ Cap(row[r].flags) = NoMax /\ Goto(r, "fetch")
        /\ UNCHANGED <<contents, blob>> /\ UNCHANGED locals
    BY DEF DownloadCount
  <1>2. pc'[r] = "fetch" /\ "fetch" \in Pcs
    BY <1>1 DEF Goto, IInv, TypeOK, Pcs
  <1>3. Staged(r)'
    BY <1>1, <1>2, DownloadFacts DEF Staged, locals
  <1>4. CASE UNCHANGED page
    BY <1>1, <1>2, <1>3, <1>4, MoveQuietInv
  <1>5. CASE ~UNCHANGED page
    <2>1. PICK p \in Pages : page' = [page EXCEPT ![p].readCount = @ + 1]
      BY <1>5 DEF DownloadCount
    <2>2. Evolves /\ TableTypes' /\ Tables' /\ Intact'
      BY <1>1, <2>1, CountFacts DEF Goto
    <2>3. Erases(r)'
      BY <1>2 DEF Erases
    <2> QED
      BY <1>1, <1>2, <1>3, <2>2, <2>3, MoveInv
  <1> QED
    BY <1>4, <1>5

\* DownloadFetch keeps the invariant.
LEMMA DownloadFetchInv == ASSUME IInv, NEW r \in Req, DownloadFetch(r) PROVE IInv'
  <1>1. /\ pc[r] = "fetch" /\ UNCHANGED <<page, contents, blob>> /\ UNCHANGED locals
    BY DEF DownloadFetch
  <1>2. CASE Goto(r, "failed")
    BY <1>1, <1>2, EndQuietInv DEF Finished
  <1>3. CASE Goto(r, "post")
    <2>1. pc'[r] = "post" /\ "post" \in Pcs
      BY <1>3 DEF Goto, IInv, TypeOK, Pcs
    <2>2. Staged(r)'
      BY <1>1, <2>1, DownloadFacts DEF Staged, locals
    <2>3. Cap(row[r].flags) = NoMax \/ ticket[r] # 0
      BY <1>1, DownloadFacts
    <2> QED
      BY <1>1, <1>3, <2>1, <2>2, <2>3, MoveQuietInv
  <1> QED
    BY <1>2, <1>3 DEF DownloadFetch

\* PostNone keeps the invariant.
LEMMA PostNoneInv == ASSUME IInv, NEW r \in Req, PostNone(r) PROVE IInv'
  BY EndQuietInv DEF PostNone, Finished

\* PostBackup keeps the invariant.
LEMMA PostBackupInv == ASSUME IInv, NEW r \in Req, PostBackup(r) PROVE IInv'
  <1>1. /\ pc[r] = "post" /\ row[r].flags.deleteOnRead /\ Goto(r, "drop")
        /\ UNCHANGED <<page, contents>> /\ UNCHANGED locals
        /\ blob' = blob \/ blob' = Unlink(old[r])
    BY DEF PostBackup
  <1>2. pc'[r] = "drop" /\ "drop" \in Pcs
    BY <1>1 DEF Goto, IInv, TypeOK, Pcs
  <1>3. Staged(r)'
    BY <1>1, <1>2, DownloadFacts DEF Staged, locals
  <1>4. Cap(row[r].flags) = NoMax \/ ticket[r] # 0
    BY <1>1, DownloadFacts
  <1>5. \A p \in Pages : page[p].content = old[r] => ~Readable(page[p])
    BY <1>1, LastRead
  <1>6. page' = Without(page, {}) /\ page \in [Pages -> PageRow]
    BY <1>1 DEF Without, IInv, TypeOK, Pages
  <1>7. \A p \in Pages : page[p].content \in contents'
    BY <1>1, PageFacts DEF IInv
  <1>8. Evolves /\ TableTypes' /\ Tables' /\ Intact'
    BY <1>1, <1>5, <1>6, <1>7, Removal DEF Goto
  <1>9. Erases(r)'
    BY <1>2 DEF Erases
  <1> QED
    BY <1>1, <1>2, <1>3, <1>4, <1>8, <1>9, MoveInv

\* A download comes to its end, or to the unlink of what no one may read.
LEMMA PostInv ==
    ASSUME IInv, NEW r \in Req, pc[r] \in {"post", "drop"}, NEW l \in {"served", "unlink"},
           Goto(r, l), UNCHANGED locals, Evolves, TableTypes', Tables', Intact',
           \A q \in Pages' : page'[q].content = old[r] => ~Readable(page'[q])
    PROVE  IInv'
  <1>1. pc'[r] = l /\ l \in Pcs
    BY DEF Goto, IInv, TypeOK, Pcs
  <1>2. Staged(r)'
    BY <1>1, DownloadFacts DEF Staged, locals
  <1>3. Erases(r)'
    BY <1>1 DEF Erases, locals, Readable, Cap
  <1> QED
    BY <1>1, <1>2, <1>3, MoveInv

\* PostDelete keeps the invariant.
LEMMA PostDeleteInv == ASSUME IInv, NEW r \in Req, PostDelete(r) PROVE IInv'
  <1>1. /\ pc[r] \in {"post", "drop"} /\ row[r].flags.deleteOnRead
        /\ UNCHANGED blob /\ UNCHANGED locals
    BY DEF PostDelete
  <1>2. PICK l \in {"served", "unlink"} : Goto(r, l)
    BY DEF PostDelete
  <1>3. \A p \in Pages : page[p].content = old[r] => ~Readable(page[p])
    BY <1>1, LastRead
  <1>4. CASE DeleteContent(old[r])
    <2>1. PICK S : S = {p \in Pages : page[p].content = old[r]}
      OBVIOUS
    <2>2. contents' = contents \ {old[r]} /\ page' = Without(page, S)
      BY <1>4, <2>1 DEF DeleteContent
    <2>3. \A p \in Pages \ S : page[p].content \in contents'
      BY <2>1, <2>2, PageFacts DEF IInv
    <2>4. Evolves /\ TableTypes' /\ Tables' /\ Intact'
      BY <1>1, <1>2, <2>2, <2>3, Removal DEF Goto
    <2>5. \A q \in Pages' : page'[q].content # old[r]
      BY <2>1, <2>2 DEF Without, Pages
    <2> QED
      BY <1>1, <1>2, <2>4, <2>5, PostInv
  <1>5. CASE UNCHANGED <<page, contents>>
    <2>1. Evolves /\ TableTypes' /\ Tables' /\ Intact'
      BY <1>1, <1>2, <1>5, NoChange DEF Goto
    <2>2. page' = page /\ Pages' = Pages
      BY <1>5 DEF Pages
    <2> QED
      BY <1>1, <1>2, <1>3, <2>1, <2>2, PostInv
  <1> QED
    BY <1>4, <1>5 DEF PostDelete

\* PostTombstone keeps the invariant.
LEMMA PostTombstoneInv == ASSUME IInv, NEW r \in Req, PostTombstone(r) PROVE IInv'
  <1>1. /\ pc[r] = "post" /\ ReachedMax(r) /\ UNCHANGED <<contents, blob>> /\ UNCHANGED locals
    BY DEF PostTombstone
  <1>2. PICK l \in {"served", "unlink"} : Goto(r, l)
    BY DEF PostTombstone
  <1>3. \A p \in Pages : page[p].content = old[r] => ~Readable(page[p])
    BY <1>1, LastRead
  <1>4. CASE UNCHANGED page
    <2>1. Evolves /\ TableTypes' /\ Tables' /\ Intact'
      BY <1>1, <1>2, <1>4, NoChange DEF Goto
    <2>2. page' = page /\ Pages' = Pages
      BY <1>4 DEF Pages
    <2> QED
      BY <1>1, <1>2, <1>3, <2>1, <2>2, PostInv
  <1>5. CASE ~UNCHANGED page
    <2>1. PICK p \in Pages :
            page' = [page EXCEPT ![p] =
               IF row[r].kind \in Resident THEN [@ EXCEPT !.part = FALSE, !.exhausted = TRUE]
                                           ELSE [@ EXCEPT !.dek = None, !.exhausted = TRUE]]
      BY <1>5 DEF PostTombstone
    <2>2. page[p] \in PageRow /\ page \in [Pages -> PageRow] /\ page[p].readCount \in Nat
      BY PageFacts DEF IInv, TypeOK
    <2>3. PICK w :
            w = IF row[r].kind \in Resident
                THEN [page[p] EXCEPT !.part = FALSE, !.exhausted = TRUE]
                ELSE [page[p] EXCEPT !.dek = None, !.exhausted = TRUE]
      OBVIOUS
    <2>4. /\ w \in PageRow /\ w.content = page[p].content /\ w.flags = page[p].flags
          /\ w.hash = page[p].hash /\ w.readCount = page[p].readCount /\ w.exhausted
      BY <2>2, <2>3 DEF PageRow
    <2>5. page' = [page EXCEPT ![p] = w]
      BY <2>1, <2>3
    <2>6. Evolves /\ TableTypes' /\ Tables' /\ Intact'
      <3>1. UNCHANGED <<contents, blob, traffic>>
        BY <1>1, <1>2 DEF Goto
      <3>2. w.readCount >= page[p].readCount
        BY <2>2, <2>4
      <3> HIDE DEF Readable
      <3> QED
        BY <2>4, <2>5, <3>1, <3>2, Update
    <2>7. \A q \in Pages' : page'[q].content = old[r] => ~Readable(page'[q])
      <3>1. Pages' = Pages /\ page'[p] = w /\ \A q \in Pages : q # p => page'[q] = page[q]
        BY <2>2, <2>5 DEF Pages
      <3>2. ~Readable(w)
        BY <2>4 DEF Readable
      <3> QED
        BY <1>3, <3>1, <3>2
    <2> QED
      BY <1>1, <1>2, <2>6, <2>7, PostInv
  <1> QED
    BY <1>4, <1>5

\* What a handler read of a page is stored again under a new content.
LEMMA RekeyFacts ==
    ASSUME IInv, NEW r \in Req, row[r] # None, pid[r] # None, ~NoRekeying, traffic' = traffic,
           NEW c \in {NextContent} \cap Content, NEW o \in Minted \cup {None},
           Rebind(pid[r], c, row[r].hash, o, [page[pid[r]] EXCEPT !.content = c, !.dek = c])
    PROVE  /\ Evolves /\ TableTypes' /\ Tables' /\ Intact'
           /\ \A q \in Pages' : page'[q].content # old[r]
  <1>1. Knows(r) /\ row[r].hash \in Data
    BY LocalFacts DEF Sound
  <1>2. PICK p, g : p = pid[r] /\ g = [page[p] EXCEPT !.content = c, !.dek = c]
    OBVIOUS
  <1>3. p \in Pages => /\ g \in PageRow /\ g.content = c /\ g.flags = page[p].flags
                       /\ g.readCount = page[p].readCount /\ g.exhausted = page[p].exhausted
                       /\ g.hash = page[p].hash /\ g.dek = c /\ g.kind = page[p].kind
                       /\ g.part = page[p].part
    BY <1>2, PageFacts DEF IInv, PageRow
  <1>4. p \in Pages /\ "upload" \notin Handlers =>
           (Readable(g) => IF g.kind \in Resident THEN g.part
                           ELSE row[r].hash = g.hash /\ (g.kind = "external" \/ g.dek = c))
    <2> SUFFICES ASSUME p \in Pages, "upload" \notin Handlers, Readable(g)
                 PROVE  IF g.kind \in Resident THEN g.part
                        ELSE row[r].hash = g.hash /\ (g.kind = "external" \/ g.dek = c)
      OBVIOUS
    <2>1. Readable(page[p])
      BY <1>3 DEF Readable
    <2>2. Fetched(page[p])
      BY <2>1 DEF IInv, Intact
    <2>3. page[p].hash = row[r].hash
      BY <1>1, <1>2 DEF Knows
    <2> QED
      BY <1>3, <2>2, <2>3 DEF Fetched
  <1>5. Rebind(p, c, row[r].hash, o, g)
    BY <1>2
  <1>6. /\ Evolves /\ TableTypes' /\ Tables' /\ Intact' /\ c \notin Minted
        /\ \A q \in Pages' : q = p => page'[q].content = c
    BY <1>1, <1>3, <1>4, <1>5, Rebinding
  <1>7. ASSUME NEW q \in Pages', page'[q].content = old[r] PROVE FALSE
    <2>1. old[r] \in Minted /\ q # p
      <3>1. page'[q].content # None /\ c # None
        BY <1>6, FileAssumption DEF Evolves
      <3> QED
        BY <1>1, <1>6, <1>7, <3>1 DEF Knows
    <2>2. q \in Pages /\ page[q].content = old[r]
      BY <1>6, <1>7, <2>1 DEF Evolves
    <2> QED
      BY <1>1, <1>2, <2>1, <2>2 DEF Knows
  <1> QED
    BY <1>6, <1>7

\* PostRotate keeps the invariant.
LEMMA PostRotateInv == ASSUME IInv, NEW r \in Req, PostRotate(r) PROVE IInv'
  <1>1. /\ pc[r] = "post" /\ Rotates(r) /\ Goto(r, "unlink") /\ UNCHANGED locals
    BY DEF PostRotate
  <1>2. PICK c \in {NextContent} \cap Content :
          Rebind(pid[r], c, row[r].hash, old[r], [page[pid[r]] EXCEPT !.content = c, !.dek = c])
    BY DEF PostRotate
  <1>3. row[r] # None /\ row[r].flags \in FlagChoices /\ row[r].hash \in Data /\ Knows(r)
    BY <1>1, DownloadFacts, LocalFacts DEF Sound
  <1>4. ~NoRekeying
    BY <1>1, <1>3 DEF Rotates, NoRekeying
  <1>5. /\ Evolves /\ TableTypes' /\ Tables' /\ Intact'
        /\ \A q \in Pages' : page'[q].content # old[r]
    BY <1>1, <1>2, <1>3, <1>4, DownloadFacts, RekeyFacts DEF Knows, Goto
  <1> QED
    BY <1>1, <1>5, PostInv

-----------------------------------------------------------------------------
(* delete_file, rotate_file, cleanup_secrets *)

LEMMA DeletePageInv == ASSUME IInv, NEW r \in Req, DeletePage(r) PROVE IInv'
  <1>1. /\ pc[r] = "delete" /\ page' = Without(page, {pid[r]}) /\ Goto(r, "unlink")
        /\ UNCHANGED <<contents, blob>> /\ UNCHANGED locals
    BY DEF DeletePage
  <1>2. Staged(r) /\ Knows(r) /\ op[r] = "delete"
    BY <1>1, LocalFacts DEF Sound, Staged
  <1>3. \A p \in Pages \ {pid[r]} : page[p].content \in contents'
    BY <1>1, PageFacts DEF IInv
  <1>4. Evolves /\ TableTypes' /\ Tables' /\ Intact'
    BY <1>1, <1>3, Removal DEF Goto
  <1>5. pc'[r] = "unlink" /\ "unlink" \in Pcs
    BY <1>1 DEF Goto, IInv, TypeOK, Pcs
  <1>6. Staged(r)'
    BY <1>2, <1>5, <1>1 DEF Staged, locals
  <1>7. Erases(r)'
    <2>1. \A q \in Pages' : q \in Pages /\ q # pid[r] /\ page'[q] = page[q]
      BY <1>1 DEF Without, Pages
    <2>2. \A q \in Pages' : page'[q].content # old[r]
      BY <1>2, <2>1 DEF Knows
    <2> QED
      BY <1>1, <1>5, <2>2 DEF Erases, locals
  <1> QED
    BY <1>1, <1>4, <1>5, <1>6, <1>7, MoveInv

\* RotateRead keeps the invariant.
LEMMA RotateReadInv == ASSUME IInv, NEW r \in Req, RotateRead(r) PROVE IInv'
  <1>1. /\ pc[r] = "read" /\ UNCHANGED <<page, contents, blob>> /\ UNCHANGED locals
    BY DEF RotateRead
  <1>2. CASE Goto(r, "failed")
    BY <1>1, <1>2, EndQuietInv DEF Finished
  <1>3. CASE Goto(r, "commit")
    <2>1. pc'[r] = "commit" /\ "commit" \in Pcs
      BY <1>3 DEF Goto, IInv, TypeOK, Pcs
    <2>2. Staged(r)'
      BY <1>1, <2>1, LocalFacts DEF Sound, Staged, locals
    <2> QED
      BY <1>1, <1>3, <2>1, <2>2, MoveQuietInv
  <1> QED
    BY <1>2, <1>3 DEF RotateRead

\* A blob that no page is bound to changes nothing.
LEMMA OrphanInv ==
    ASSUME IInv, NEW r \in Req, NEW l \in Finished, NEW c \in {NextContent} \cap Content,
           NEW d \in Data, blob' = With(blob, c, d), UNCHANGED <<page, contents>>,
           Goto(r, l), UNCHANGED locals, pc[r] \notin Finished \cup {"idle"}
    PROVE  IInv'
  <1>1. /\ c \notin Minted /\ Minted \subseteq Content /\ c \in Content
        /\ \E m \in 0..MaxContents : Minted \cup {c} = 1..m
    BY ContentFacts DEF IInv
  <1>2. Minted' = Minted \cup {c} /\ \A b \in Minted : blob'[b] = blob[b]
    BY <1>1 DEF With, Minted
  <1>3. Pages' = Pages /\ traffic' = traffic
    BY DEF Pages, Goto
  <1>4. \A q \in Pages : /\ page[q].content \in Content /\ q \in Content /\ page[q] \in PageRow
                         /\ page[q].readCount \in Nat /\ page[q].content \in Minted
                         /\ q \in Minted
    BY PageFacts, ContentFacts DEF IInv
  <1>5. Evolves
    BY <1>2, <1>3, <1>4 DEF Evolves
  <1>6. TableTypes'
    <2>1. blob \in [Minted -> Data \cup {Empty, NoFile}]
      BY DEF IInv, TypeOK
    <2>2. blob' \in [Minted' -> Data \cup {Empty, NoFile}]
      BY <2>1 DEF With, Minted
    <2>3. contents \subseteq Minted /\ Pages \subseteq Minted /\ page \in [Pages -> PageRow]
      BY DEF IInv, TypeOK
    <2> QED
      BY <1>1, <1>2, <1>3, <2>2, <2>3 DEF TableTypes
  <1>7. Tables'
    BY <1>1, <1>2, <1>3 DEF IInv, Tables, FlagChoices
  <1>8. Intact'
    <2> SUFFICES ASSUME NoRekeying \/ "upload" \notin Handlers, NEW q \in Pages, Readable(page[q])'
                 PROVE  Fetched(page[q])'
      BY <1>3 DEF Intact, NoRekeying, Handlers, FlagChoices
    <2>1. Readable(page[q])
      BY DEF Readable, Cap
    <2>2. Fetched(page[q])
      BY <2>1 DEF IInv, Intact
    <2>3. blob'[page[q].content] = blob[page[q].content]
      BY <1>2, <1>4
    <2> QED
      BY <2>2, <2>3 DEF Fetched
  <1> QED
    BY <1>5, <1>6, <1>7, <1>8, EndInv

\* RotateCommit keeps the invariant.
LEMMA RotateCommitInv == ASSUME IInv, NEW r \in Req, RotateCommit(r) PROVE IInv'
  <1>1. pc[r] = "commit" /\ op[r] = "rotate" /\ UNCHANGED locals
    BY DEF RotateCommit
  <1>2. CASE pid[r] \notin Pages
    <2>1. PICK c \in {NextContent} \cap Content :
            /\ blob' = With(blob, c, row[r].hash) /\ Goto(r, "failed")
            /\ UNCHANGED <<page, contents>>
      BY <1>2 DEF RotateCommit
    <2>2. row[r] # None
      BY <1>1, LocalFacts DEF Sound, Staged
    <2>3. PICK d \in Data : d = row[r].hash
      BY <2>2, LocalFacts
    <2> QED
      BY <1>1, <2>1, <2>3, OrphanInv DEF Finished
  <1>3. CASE pid[r] \in Pages
    <2>1. Goto(r, "unlink")
      BY <1>3 DEF RotateCommit
    <2>2. PICK c \in {NextContent} \cap Content :
            Rebind(pid[r], c, row[r].hash, page[pid[r]].content,
                   [page[pid[r]] EXCEPT !.content = c, !.dek = c])
      BY <1>3 DEF RotateCommit
    <2>3. Staged(r) /\ pid[r] # None /\ row[r] # None
      BY <1>1, LocalFacts DEF Sound, Staged
    <2>4. ~NoRekeying
      BY <1>1, LocalFacts DEF NoRekeying
    <2>5. page[pid[r]].content \in Minted
      BY <1>3, PageFacts DEF IInv
    <2>6. /\ Evolves /\ TableTypes' /\ Tables' /\ Intact'
          /\ \A q \in Pages' : page'[q].content # old[r]
      BY <2>1, <2>2, <2>3, <2>4, <2>5, RekeyFacts DEF Goto
    <2>7. pc'[r] = "unlink" /\ "unlink" \in Pcs
      BY <2>1 DEF Goto, IInv, TypeOK, Pcs
    <2>8. Staged(r)'
      BY <1>1, <2>3, <2>7 DEF Staged, locals
    <2>9. Erases(r)'
      BY <1>1, <2>6, <2>7 DEF Erases, locals
    <2> QED
      BY <1>1, <2>1, <2>6, <2>7, <2>8, <2>9, MoveInv
  <1> QED
    BY <1>2, <1>3

\* CleanupDelete keeps the invariant.
LEMMA CleanupDeleteInv == ASSUME IInv, NEW r \in Req, CleanupDelete(r) PROVE IInv'
  <1>1. /\ pc[r] = "sweep"
        /\ pc' = pc /\ op' = op /\ pid' = pid /\ row' = row /\ old' = old /\ ticket' = ticket
        /\ traffic' = traffic
    BY DEF CleanupDelete
  <1>2. PICK c \in todo[r] :
          /\ todo' = [todo EXCEPT ![r] = @ \ {c}] /\ blob' = Unlink(c)
          /\ DeleteContent(c) \/ UNCHANGED <<page, contents>>
    BY DEF CleanupDelete
  <1>3. LocalTypes /\ Staged(r) /\ Knows(r) /\ Claimed(r) /\ Erases(r)
    BY LocalFacts DEF Sound
  <1>4. \A p \in Pages : page[p].content \in todo[r] =>
          page[p].exhausted /\ ~page[p].flags.preserve /\ ~Readable(page[p])
    BY <1>1, <1>3 DEF Erases, Readable
  <1>5. PICK S :
          /\ page' = Without(page, S) /\ contents' \subseteq contents
          /\ \A p \in Pages \ S : page[p].content \in contents'
    <2>1. CASE DeleteContent(c)
      <3>1. PICK S : S = {p \in Pages : page[p].content = c}
        OBVIOUS
      <3>2. contents' = contents \ {c} /\ page' = Without(page, S)
        BY <2>1, <3>1 DEF DeleteContent
      <3>3. \A p \in Pages \ S : page[p].content \in contents'
        BY <3>1, <3>2, PageFacts DEF IInv
      <3> QED
        BY <3>2, <3>3
    <2>2. CASE UNCHANGED <<page, contents>>
      <3>1. page' = Without(page, {}) /\ page \in [Pages -> PageRow]
        BY <2>2 DEF Without, IInv, TypeOK, Pages
      <3>2. \A p \in Pages : page[p].content \in contents'
        BY <2>2, PageFacts DEF IInv
      <3> QED
        BY <2>2, <3>1, <3>2
    <2> QED
      BY <1>2, <2>1, <2>2
  <1>6. Evolves /\ TableTypes' /\ Tables' /\ Intact'
    BY <1>1, <1>2, <1>4, <1>5, Removal
  <1>7. todo'[r] = todo[r] \ {c} /\ Others(r)
    BY <1>1, <1>2, <1>3 DEF Others, LocalTypes
  <1>8. LocalTypes'
    <2>1. todo[r] \ {c} \in SUBSET Content
      BY <1>3 DEF LocalTypes
    <2> QED
      BY <1>1, <1>2, <1>3, <2>1 DEF LocalTypes, Handlers
  <1>9. \A p \in Pages' : p \in Pages /\ page'[p] = page[p]
    BY <1>5 DEF Without, Pages
  <1>10. Minted' = Minted /\ FlagChoices' = FlagChoices /\ Handlers' = Handlers
    BY <1>1, <1>2 DEF Unlink, Minted, FlagChoices, Handlers
  <1>11. Staged(r)'
    BY <1>1, <1>3 DEF Staged
  <1>12. Knows(r)'
    BY <1>1, <1>3, <1>7, <1>9, <1>10 DEF Knows
  <1>13. Claimed(r)'
    BY <1>1, <1>3, <1>9 DEF Claimed, Cap
  <1>14. Erases(r)'
    BY <1>1, <1>4, <1>7, <1>9 DEF Erases
  <1>15. Pairs'
    BY <1>1 DEF IInv, Pairs
  <1> QED
    BY <1>6, <1>7, <1>8, <1>11, <1>12, <1>13, <1>14, <1>15, StepInv DEF Sound

\* CleanupDone keeps the invariant.
LEMMA CleanupDoneInv == ASSUME IInv, NEW r \in Req, CleanupDone(r) PROVE IInv'
  BY EndQuietInv DEF CleanupDone, Finished

-----------------------------------------------------------------------------
(* The invariant, and what it implies *)

\* One file is stored, or none, and no request is under way.
LEMMA InitIInv == Init => IInv
  <1> SUFFICES ASSUME Init PROVE IInv
    OBVIOUS
  <1>1. /\ traffic \in Traffics
        /\ pc = [r \in Req |-> "idle"] /\ op = [r \in Req |-> "none"]
        /\ pid = [r \in Req |-> None] /\ row = [r \in Req |-> None]
        /\ old = [r \in Req |-> None] /\ ticket = [r \in Req |-> 0]
        /\ todo = [r \in Req |-> {}]
    BY DEF Init
  <1>2. LocalTypes
    BY <1>1 DEF LocalTypes, Pcs
  <1>3. TableTypes /\ Tables /\ Intact
    <2>1. CASE page = [c \in {} |-> None] /\ contents = {} /\ blob = [c \in {} |-> NoFile]
      <3>1. Pages = {} /\ Minted = {}
        BY <2>1 DEF Pages, Minted
      <3>2. {} = 1..0 /\ 0 \in 0..MaxContents
        BY FileAssumption
      <3> QED
        BY <2>1, <3>1, <3>2 DEF TableTypes, Tables, Intact
    <2>2. CASE ~(page = [c \in {} |-> None] /\ contents = {} /\ blob = [c \in {} |-> NoFile])
      <3>1. PICK c \in {1}, n \in Name, d \in Data, f \in FlagChoices, k \in Kinds :
              /\ page = [p \in {c} |-> NewRow(n, d, f, k, c)]
              /\ contents = {c} /\ blob = [b \in {c} |-> Stored(d, k)]
        BY <2>2 DEF Init
      <3>2. f \in Flags /\ k \in AllKinds
        BY <1>1, FileAssumption DEF FlagChoices, Kinds
      <3>3. c \in Content /\ c \in Content \cup {None}
        BY FileAssumption DEF Content
      <3>4. PICK w \in PageRow : /\ w = NewRow(n, d, f, k, c) /\ w.content = c /\ w.hash = d
                                 /\ w.kind = k /\ w.flags = f /\ (w.part <=> k \in Resident)
                                 /\ k \in {"normal", "backed"} => w.dek = c
        BY <3>2, <3>3, NewRowFacts
      <3>5. page = [p \in {c} |-> w]
        BY <3>1, <3>4
      <3>6. PICK e \in Data \cup {Empty, NoFile} :
              e = Stored(d, k) /\ (k \notin Resident => e = d)
        BY DEF Stored, Resident
      <3>7. Pages = {c} /\ Minted = {c} /\ page[c] = w /\ blob[c] = e
        BY <3>1, <3>5, <3>6 DEF Pages, Minted
      <3>8. TableTypes
        BY <3>1, <3>3, <3>5, <3>6, <3>7 DEF TableTypes
      <3>9. Tables
        <4>1. {c} = 1..1 /\ 1 \in 0..MaxContents
          BY FileAssumption
        <4> QED
          BY <3>1, <3>4, <3>7, <4>1 DEF Tables
      <3>10. Fetched(w)
        <4>1. k \in Resident \/ k \in {"normal", "external"}
          BY <3>2 DEF AllKinds, Resident
        <4> QED
          BY <3>1, <3>4, <3>6, <3>7, <4>1 DEF Fetched
      <3>11. Intact
        BY <3>7, <3>10 DEF Intact
      <3> QED
        BY <3>8, <3>9, <3>11
    <2> QED
      BY <2>1, <2>2
  <1>4. TypeOK
    BY <1>1, <1>2, <1>3 DEF TypeOK, TableTypes, LocalTypes
  <1>5. Requests
    <2> SUFFICES ASSUME NEW r \in Req PROVE Sound(r)
      BY DEF Requests
    <2>1. /\ pc[r] = "idle" /\ op[r] = "none" /\ pid[r] = None /\ row[r] = None
          /\ old[r] = None /\ ticket[r] = 0 /\ todo[r] = {}
      BY <1>1
    <2>2. Staged(r)
      BY <2>1 DEF Staged
    <2>3. Knows(r)
      BY <1>3, <1>4, <2>1, PageFacts, ContentFacts DEF Knows, TypeOK
    <2>4. Claimed(r) /\ Erases(r)
      BY <2>1 DEF Claimed, Erases
    <2> QED
      BY <2>2, <2>3, <2>4 DEF Sound
  <1>6. Pairs
    BY <1>1 DEF Pairs
  <1> QED
    BY <1>3, <1>4, <1>5, <1>6 DEF IInv

\* Nothing moves.
LEMMA StutterInv == ASSUME IInv, UNCHANGED vars PROVE IInv'
  <1>1. UNCHANGED <<page, contents, blob, traffic>> /\ UNCHANGED <<pc, op, pid, row, old, ticket, todo>>
    BY DEF vars
  <1>2. Evolves /\ TableTypes' /\ Tables' /\ Intact'
    BY <1>1, NoChange
  <1>3. TypeOK'
    BY <1>1 DEF IInv, TypeOK, Minted, Pages, Handlers
  <1>4. ASSUME NEW r \in Req PROVE Sound(r)'
    <2>1. Sound(r)
      BY LocalFacts
    <2>2. Staged(r)'
      BY <1>1, <2>1 DEF Sound, Staged
    <2>3. Knows(r)' /\ Claimed(r)' /\ Erases(r)'
      BY <1>1, <1>2, <2>1, KnowsKept DEF Sound, IInv
    <2> QED
      BY <2>2, <2>3 DEF Sound
  <1>5. Pairs'
    BY <1>1 DEF IInv, Pairs
  <1> QED
    BY <1>2, <1>3, <1>4, <1>5 DEF IInv, Requests

\* Every step of a handler keeps the invariant.
LEMMA NextIInv == IInv /\ [Next]_vars => IInv'
  <1> SUFFICES ASSUME IInv, [Next]_vars PROVE IInv'
    OBVIOUS
  <1>1. ASSUME NEW r \in Req, Step(r) PROVE IInv'
    <2>1. CASE Upload(r)
      <3>1. CASE UploadConflict(r)
        BY <3>1, RefusedInv DEF UploadConflict, AllHandlers
      <3> QED
        BY <2>1, <3>1, UploadSelectNewInv, UploadSelectExistingInv, UploadReplaceInv,
           UploadInsertInv DEF Upload
    <2>2. CASE Download(r)
      <3>1. CASE DownloadSelect(r)
        BY <3>1, LookupInv DEF DownloadSelect
      <3> QED
        BY <2>2, <3>1, DownloadClaimInv, DownloadCountInv, DownloadFetchInv, PostBackupInv,
           PostDeleteInv, PostTombstoneInv, PostRotateInv, PostNoneInv DEF Download
    <2>3. CASE Rotate(r)
      <3>1. CASE RotateSelect(r)
        BY <3>1, LookupInv DEF RotateSelect
      <3> QED
        BY <2>3, <3>1, RotateReadInv, RotateCommitInv DEF Rotate
    <2>4. CASE Shared(r)
      <3>1. CASE NotFound(r)
        <4>1. PICK h \in {"download", "delete", "rotate"} : Receive(r, h)
          BY <3>1 DEF NotFound
        <4>2. h \in AllHandlers \ {"cleanup"}
          BY DEF AllHandlers
        <4> QED
          BY <3>1, <4>1, <4>2, RefusedInv DEF NotFound
      <3> QED
        BY <2>4, <3>1, GatePassInv, GateRefuseInv, UnlinkOldInv DEF Shared
    <2> QED
      BY <1>1, <2>1, <2>2, <2>3, <2>4, DeleteSelectInv, DeletePageInv, CleanupSelectInv,
         CleanupDeleteInv, CleanupDoneInv DEF Step, Delete, Cleanup
  <1>2. CASE UNCHANGED vars
    BY <1>2, StutterInv
  <1> QED
    BY <1>1, <1>2, AbortInv DEF Next, Terminated

\* IInv holds in every reachable state of the file store.
THEOREM Invariance == Spec => []IInv
  BY InitIInv, NextIInv, PTL DEF Spec

\* However downloads of a file interleave with overwrites, rotations, deletes
\* and faults, no more of them get past the claim than its cap allows: they
\* hold different tickets up to the cap (download_file).
THEOREM CapSafety == Spec => []CappedDownloads
  <1>1. ASSUME IInv, NEW r \in Req, op[r] = "download", ticket[r] # 0
        PROVE  Cardinality({q \in Req : op[q] = "download" /\ ticket[q] # 0
                                        /\ pid[q] = pid[r]}) <= Cap(row[r].flags)
    <2> DEFINE Q == {q \in Req : op[q] = "download" /\ ticket[q] # 0 /\ pid[q] = pid[r]}
               cap == Cap(row[r].flags)
               f == [q \in Q |-> ticket[q]]
    <2>1. pid[r] # None /\ row[r] # None /\ cap # NoMax /\ ticket[r] <= cap /\ ticket[r] \in Nat
      BY <1>1, LocalFacts DEF Sound, Staged, Claimed
    <2>2. cap \in Nat
      <3>1. row[r].flags \in Flags
        BY <1>1, <2>1, LocalFacts
      <3>2. cap \in Int
        BY <2>1, <3>1, CapFacts
      <3> HIDE DEF cap
      <3> QED
        BY <2>1, <3>2
    <2>3. \A q \in Q : ticket[q] \in 1..cap
      <3> SUFFICES ASSUME NEW q \in Q PROVE ticket[q] \in 1..cap
        OBVIOUS
      <3>1. row[q] # None /\ ticket[q] <= Cap(row[q].flags) /\ ticket[q] \in Nat /\ ticket[q] # 0
        BY <1>1, LocalFacts DEF Sound, Staged, Claimed
      <3>2. row[q].flags = row[r].flags
        BY <1>1, <2>1, <3>1 DEF IInv, Pairs
      <3> QED
        BY <2>2, <3>1, <3>2
    <2>4. \A p, q \in Q : ticket[p] = ticket[q] => p = q
      BY <1>1, <2>1 DEF IInv, Pairs
    <2>5. f \in Injection(Q, 1..cap)
      BY <2>3, <2>4 DEF Injection, IsInjective
    <2>6. IsFiniteSet(1..cap) /\ Cardinality(1..cap) = cap
      BY <2>2, FS_Interval
    <2> HIDE DEF f, Q
    <2>7. Cardinality(Q) <= Cardinality(1..cap)
      BY <2>5, <2>6, FS_Injection
    <2> QED
      BY <2>6, <2>7 DEF Q
  <1>2. IInv => CappedDownloads
    BY <1>1 DEF CappedDownloads
  <1> QED
    BY <1>2, Invariance, PTL

\* A page that may still be read can be read: its content row, blob, DEK and
\* hash belong together, whatever went on around it (rekey_file_dek,
\* rotate_file, cleanup_secrets), as long as no overwrite meets a re-keying.
THEOREM ReadSafety == Spec => []ReadableIntact
  <1>1. IInv => ReadableIntact
    BY DEF IInv, Intact, Readable, ReadableIntact
  <1> QED
    BY <1>1, Invariance, PTL

\* No step overwrites an immutable file, whatever uploads were under way, and
\* cleanup, which goes by content ids selected earlier, takes along only the
\* pages of tombstones that are not preserved.
THEOREM LiveSafety == Spec => LiveFilesKept
  <1>1. ASSUME IInv, Next PROVE KeepsImmutable
    <2> SUFFICES ASSUME NEW p \in Pages, p \in DOMAIN page', page[p].flags.noOverwrite
                 PROVE  page'[p].hash = page[p].hash
      BY DEF KeepsImmutable
    <2>1. page[p] \in PageRow /\ page \in [Pages -> PageRow]
      BY <1>1, PageFacts DEF IInv, TypeOK
    <2>2. CASE UNCHANGED page
      BY <2>2
    <2>3. CASE ~UNCHANGED page
      <3>1. PICK r \in Req : Step(r)
        BY <1>1, <2>3 DEF Next, Abort, Terminated, vars
      <3>2. \/ UploadReplace(r) \/ UploadInsert(r) \/ DownloadClaim(r) \/ DownloadCount(r)
            \/ PostDelete(r) \/ PostTombstone(r) \/ PostRotate(r)
            \/ DeletePage(r) \/ RotateCommit(r) \/ CleanupDelete(r)
        BY <2>3, <3>1 DEF Step, Upload, Download, Delete, Rotate, Cleanup, Shared,
           UploadSelectNew, UploadSelectExisting, UploadConflict, DownloadSelect, DownloadFetch,
           PostBackup, PostNone, DeleteSelect, RotateSelect, RotateRead, CleanupSelect,
           CleanupDone, GatePass, GateRefuse, UnlinkOld, NotFound
      <3>3. CASE UploadReplace(r)
        <4>1. pid[r] # p
          <5>1. op[r] = "upload" /\ pid[r] # None
            BY <3>3 DEF UploadReplace
          <5>2. row[r] # None /\ ~row[r].flags.noOverwrite /\ Knows(r)
            BY <1>1, <5>1, LocalFacts DEF Sound, Staged
          <5> QED
            BY <5>2 DEF Knows
        <4>2. PICK c, d, o, g : Rebind(pid[r], c, d, o, g)
          BY <3>3 DEF UploadReplace
        <4> QED
          BY <4>1, <4>2 DEF Rebind, Without, Pages
      <3>4. CASE UploadInsert(r)
        <4>0. PICK c \in {NextContent} \cap Content : \E w : page' = page \/ page' = With(page, c, w)
          BY <3>4 DEF UploadInsert
        <4>1. PICK w : page' = page \/ page' = With(page, c, w)
          BY <4>0
        <4>2. p # c
          BY <1>1, PageFacts, ContentFacts DEF IInv
        <4> QED
          BY <4>1, <4>2 DEF With, Pages
      <3>5. CASE DownloadClaim(r) \/ DownloadCount(r)
        <4>1. PICK q : page' = [page EXCEPT ![q].readCount = @ + 1]
          BY <2>3, <3>5 DEF DownloadClaim, DownloadCount
        <4> QED
          BY <2>1, <4>1 DEF PageRow
      <3>6. CASE PostDelete(r) \/ CleanupDelete(r) \/ DeletePage(r)
        <4>1. PICK S : page' = Without(page, S)
          BY <2>3, <3>6 DEF PostDelete, CleanupDelete, DeletePage, DeleteContent
        <4> QED
          BY <4>1 DEF Without, Pages
      <3>7. CASE PostTombstone(r)
        <4>1. page' = [page EXCEPT ![pid[r]] =
                IF row[r].kind \in Resident THEN [@ EXCEPT !.part = FALSE, !.exhausted = TRUE]
                                            ELSE [@ EXCEPT !.dek = None, !.exhausted = TRUE]]
          BY <2>3, <3>7 DEF PostTombstone
        <4> QED
          BY <2>1, <4>1 DEF PageRow
      <3>8. CASE PostRotate(r) \/ RotateCommit(r)
        <4>1. PICK c, d, o : Rebind(pid[r], c, d, o, [page[pid[r]] EXCEPT !.content = c, !.dek = c])
          BY <2>3, <3>8 DEF PostRotate, RotateCommit
        <4>2. page'[p] = page[p] \/ page'[p] = [page[p] EXCEPT !.content = c, !.dek = c]
          BY <4>1 DEF Rebind, Without, Pages
        <4> QED
          BY <2>1, <4>2 DEF PageRow
      <3> QED
        BY <3>2, <3>3, <3>4, <3>5, <3>6, <3>7, <3>8
    <2> QED
      BY <2>2, <2>3
  <1>2. ASSUME IInv, Next PROVE CleanupSparesLive
    <2> SUFFICES ASSUME NEW r \in Req, pc[r] = "sweep", todo'[r] # todo[r],
                        NEW p \in Pages, p \notin DOMAIN page'
                 PROVE  page[p].exhausted /\ ~page[p].flags.preserve
      BY DEF CleanupSparesLive
    <2>1. todo \in [Req -> SUBSET Content]
      BY <1>2 DEF IInv, TypeOK
    <2>2. PICK q \in Req : Step(q)
      BY <1>2 DEF Next, Abort, Terminated, vars, locals
    <2>3. CleanupSelect(q) \/ CleanupDelete(q)
      BY <2>2 DEF Step, Upload, Download, Delete, Rotate, Cleanup, Shared, locals,
         UploadSelectNew, UploadSelectExisting, UploadConflict, UploadReplace, UploadInsert,
         DownloadSelect, DownloadClaim, DownloadCount, DownloadFetch, PostBackup, PostDelete,
         PostTombstone, PostRotate, PostNone, DeleteSelect, DeletePage, RotateSelect,
         RotateRead, RotateCommit, CleanupDone, GatePass, GateRefuse, UnlinkOld, NotFound
    <2>4. q = r
      BY <2>1, <2>3 DEF CleanupSelect, CleanupDelete
    <2>5. CleanupDelete(r)
      BY <2>3, <2>4 DEF CleanupSelect, Receive
    <2>6. PICK c \in todo[r] : DeleteContent(c) \/ UNCHANGED page
      BY <2>5 DEF CleanupDelete
    <2>7. page[p].content = c
      BY <2>6 DEF DeleteContent, Without, Pages
    <2> QED
      BY <1>2, <2>7, LocalFacts DEF Sound, Erases
  <1>3. ASSUME IInv, [Next]_vars PROVE [KeepsImmutable /\ CleanupSparesLive]_vars
    BY <1>1, <1>2, <1>3
  <1> QED
    BY <1>3, Invariance, PTL DEF Spec, LiveFilesKept

-----------------------------------------------------------------------------
(* Spent files are erased *)

\* The request holds the last read of the page and has yet to see it through.
Last(r, p) ==
    /\ pc[r] \in {"fetch", "post", "drop"} /\ pid[r] = p /\ ticket[r] # 0
    /\ ticket[r] = Cap(page[p].flags)

\* A page that is not a tombstone can be read.  A tombstone is erased, but for
\* the blob that some request is about to unlink.  A page without further reads
\* is a tombstone or some request holds its last read.
Whole(p) == ~page[p].exhausted => Fetched(page[p])
Scrubbed(p) ==
    page[p].exhausted =>
        IF page[p].kind \in Resident THEN ~page[p].part
        ELSE \/ blob[page[p].content] = NoFile
             \/ \E r \in Req : pc[r] = "unlink" /\ old[r] = page[p].content
Spent(p) ==
    page[p].readCount > 0 /\ page[p].readCount = Cap(page[p].flags) =>
        page[p].exhausted \/ \E r \in Req : Last(r, p)

\* The copy a request has of its page is good until the page is a tombstone; it
\* unlinks the blobs of tombstones only; with the last read in the hands of a
\* request, the page is no tombstone yet.
Copied(r) ==
    \A p \in Pages : pid[r] = p /\ row[r] # None =>
        /\ old[r] = page[p].content /\ row[r].content = page[p].content
        /\ row[r].hash = page[p].hash /\ row[r].kind = page[p].kind
        /\ ~page[p].exhausted => row[r].dek = page[p].dek /\ (row[r].part <=> page[p].part)
Unlinks(r) ==
    pc[r] = "unlink" => \A p \in Pages : page[p].content = old[r] => page[p].exhausted
Pending(r) == \A p \in Pages : Last(r, p) => ~page[p].exhausted

SpentInv ==
    Undisturbed => /\ \A p \in Pages : Whole(p) /\ Scrubbed(p) /\ Spent(p)
                   /\ \A r \in Req : Copied(r) /\ Unlinks(r) /\ Pending(r)

\* What a step does to the tables when nothing is disturbed: pages wear out and
\* go, and blobs go that nothing needs.
Wears ==
    /\ traffic' = traffic
    /\ \A p \in Pages' :
          /\ p \in Pages /\ page'[p].content = page[p].content /\ page'[p].hash = page[p].hash
          /\ page'[p].kind = page[p].kind /\ page'[p].flags = page[p].flags
          /\ page[p].exhausted => page'[p].exhausted
          /\ ~page'[p].exhausted => page'[p].dek = page[p].dek /\ (page'[p].part <=> page[p].part)
          /\ ~page[p].part => ~page'[p].part
          /\ \/ blob'[page[p].content] = blob[page[p].content]
             \/ /\ blob'[page[p].content] = NoFile
                /\ page'[p].exhausted \/ page[p].kind \in Resident

\* A step of r that makes a tombstone holds the last read, and scrubs.
Entombs(r) ==
    \A p \in Pages' : ~page[p].exhausted /\ page'[p].exhausted =>
        /\ pid[r] = p /\ ticket[r] # 0 /\ ticket[r] = Cap(page[p].flags) /\ Scrubbed(p)'
\* A step of r at its unlink removes the blob.
Removes(r) ==
    pc[r] = "unlink" => \A p \in Pages' : page[p].content = old[r] => blob'[old[r]] = NoFile
\* A step of r that holds a last read keeps it or makes the tombstone.
Holds(r) ==
    \A p \in Pages' : Last(r, p) => Last(r, p)' \/ page'[p].exhausted
\* A step of r that counts a read of a capped page has got it.
Counts(r) ==
    \A p \in Pages' : page'[p].readCount # page[p].readCount =>
        \/ Cap(page[p].flags) = NoMax
        \/ pid'[r] = p /\ pc'[r] = "fetch" /\ ticket'[r] = page'[p].readCount

\* The bytes of a file that is no tombstone are there after such a step.
LEMMA WearsFetched ==
    ASSUME Wears, Tables', NEW p \in Pages', ~page'[p].exhausted, Fetched(page[p])
    PROVE  Fetched(page[p])'
  <1>1. /\ page'[p].content = page[p].content /\ page'[p].hash = page[p].hash
        /\ page'[p].kind = page[p].kind
        /\ page'[p].dek = page[p].dek /\ (page'[p].part <=> page[p].part)
    BY DEF Wears
  <1>2. page'[p].content \in contents'
    BY DEF Tables
  <1>3. CASE page[p].kind \in Resident
    BY <1>1, <1>3 DEF Fetched
  <1>4. CASE page[p].kind \notin Resident
    <2>1. blob'[page[p].content] = blob[page[p].content]
      BY <1>4 DEF Wears
    <2> QED
      BY <1>1, <1>2, <1>4, <2>1 DEF Fetched
  <1> QED
    BY <1>3, <1>4

\* The cap of a page, after a step.
LEMMA CapPrime == \A p : Cap(page[p].flags)' = Cap(page'[p].flags)
  BY DEF Cap

\* A step that does the above keeps the invariant.
LEMMA SpentStep ==
    ASSUME IInv, IInv', SpentInv, Undisturbed, NEW r \in Req, Others(r), Wears,
           Entombs(r), Removes(r), Holds(r), Counts(r), Copied(r)', Unlinks(r)', Pending(r)'
    PROVE  SpentInv'
  <1> SUFFICES /\ \A p \in Pages' : Whole(p)' /\ Scrubbed(p)' /\ Spent(p)'
               /\ \A q \in Req : Copied(q)' /\ Unlinks(q)' /\ Pending(q)'
    BY DEF SpentInv
  <1>2. \A q \in Req : q # r =>
          /\ pc'[q] = pc[q] /\ op'[q] = op[q] /\ pid'[q] = pid[q] /\ row'[q] = row[q]
          /\ old'[q] = old[q] /\ ticket'[q] = ticket[q]
    BY DEF Others
  <1>3. \A p \in Pages : Whole(p) /\ Scrubbed(p) /\ Spent(p)
    BY DEF SpentInv
  <1>4. \A q \in Req : Copied(q) /\ Unlinks(q) /\ Pending(q)
    BY DEF SpentInv
  <1>5. ASSUME NEW q \in Req, NEW p \in Pages', q # r PROVE Last(q, p)' <=> Last(q, p)
    <2>1. page'[p].flags = page[p].flags
      BY DEF Wears
    <2> QED
      BY <1>2, <1>5, <2>1, CapPrime DEF Last
  <1>6. ASSUME NEW p \in Pages' PROVE Whole(p)'
    <2> SUFFICES ASSUME ~page'[p].exhausted PROVE Fetched(page[p])'
      BY DEF Whole
    <2>1. p \in Pages /\ ~page[p].exhausted
      BY DEF Wears
    <2> QED
      BY <1>3, <2>1, WearsFetched DEF Whole, IInv
  <1>7. ASSUME NEW p \in Pages' PROVE Scrubbed(p)'
    <2>1. /\ p \in Pages /\ page'[p].content = page[p].content /\ page'[p].kind = page[p].kind
          /\ ~page[p].part => ~page'[p].part
          /\ blob'[page[p].content] = blob[page[p].content] \/ blob'[page[p].content] = NoFile
      BY DEF Wears
    <2>2. CASE ~page[p].exhausted
      BY <2>2 DEF Entombs, Scrubbed
    <2>3. CASE page[p].exhausted /\ page[p].kind \in Resident
      BY <1>3, <2>1, <2>3 DEF Scrubbed
    <2>4. CASE page[p].exhausted /\ page[p].kind \notin Resident
      <3>1. CASE blob[page[p].content] = NoFile
        BY <2>1, <2>4, <3>1 DEF Scrubbed
      <3>2. CASE blob[page[p].content] # NoFile
        <4>1. PICK q \in Req : pc[q] = "unlink" /\ old[q] = page[p].content
          BY <1>3, <2>1, <2>4, <3>2 DEF Scrubbed
        <4>2. CASE q = r
          <5>1. blob'[page[p].content] = NoFile
            BY <2>1, <4>1, <4>2 DEF Removes
          <5> QED
            BY <2>1, <2>4, <5>1 DEF Scrubbed
        <4>3. CASE q # r
          <5>1. pc'[q] = "unlink" /\ old'[q] = page'[p].content
            BY <1>2, <2>1, <4>1, <4>3
          <5> QED
            BY <2>1, <2>4, <5>1 DEF Scrubbed
        <4> QED
          BY <4>2, <4>3
      <3> QED
        BY <3>1, <3>2
    <2> QED
      BY <2>2, <2>3, <2>4
  <1>8. ASSUME NEW p \in Pages' PROVE Spent(p)'
    <2>1. p \in Pages /\ page'[p].flags = page[p].flags /\ (page[p].exhausted => page'[p].exhausted)
      BY DEF Wears
    <2>2. page'[p].readCount \in Nat /\ NoMax \notin Int
      BY PageFacts, FileAssumption DEF IInv, TypeOK, PageRow
    <2> SUFFICES ASSUME page'[p].readCount > 0, page'[p].readCount = Cap(page[p].flags)
                 PROVE  page'[p].exhausted \/ \E q \in Req : Last(q, p)'
      BY <2>1, CapPrime DEF Spent
    <2>3. CASE page'[p].readCount = page[p].readCount
      <3>1. CASE page[p].exhausted
        BY <2>1, <3>1
      <3>2. CASE ~page[p].exhausted
        <4>1. PICK q \in Req : Last(q, p)
          BY <1>3, <2>1, <2>3, <3>2 DEF Spent
        <4>2. CASE q = r
          BY <4>1, <4>2 DEF Holds
        <4>3. CASE q # r
          BY <1>5, <4>1, <4>3
        <4> QED
          BY <4>2, <4>3
      <3> QED
        BY <3>1, <3>2
    <2>4. CASE page'[p].readCount # page[p].readCount
      <3>1. pid'[r] = p /\ pc'[r] = "fetch" /\ ticket'[r] = page'[p].readCount
        BY <2>2, <2>4 DEF Counts
      <3>2. ticket'[r] # 0 /\ ticket'[r] = Cap(page'[p].flags)
        BY <2>1, <2>2, <3>1
      <3>3. Last(r, p)'
        BY <3>1, <3>2, CapPrime DEF Last
      <3> QED
        BY <3>3
    <2> QED
      BY <2>3, <2>4
  <1>9. ASSUME NEW q \in Req, q # r PROVE Copied(q)' /\ Unlinks(q)' /\ Pending(q)'
    <2>1. Copied(q)'
      BY <1>2, <1>4, <1>9 DEF Copied, Wears
    <2>2. Unlinks(q)'
      BY <1>2, <1>4, <1>9 DEF Unlinks, Wears
    <2>3. Pending(q)'
      <3> SUFFICES ASSUME NEW p \in Pages', Last(q, p)', page'[p].exhausted PROVE FALSE
        BY DEF Pending
      <3>1. Last(q, p) /\ p \in Pages
        BY <1>5, <1>9 DEF Wears
      <3>2. ~page[p].exhausted
        BY <1>4, <3>1 DEF Pending
      <3>3. pid[r] = p /\ ticket[r] # 0 /\ ticket[r] = Cap(page[p].flags)
        BY <3>2 DEF Entombs
      <3>4. pid[q] = p /\ ticket[q] = Cap(page[p].flags) /\ p # None
        BY <3>1, PageFacts, ContentFacts DEF Last, IInv
      <3> QED
        BY <1>9, <3>3, <3>4 DEF IInv, Pairs
    <2> QED
      BY <2>1, <2>2, <2>3
  <1> QED
    BY <1>6, <1>7, <1>8, <1>9

\* A step of a handler that only goes on.
LEMMA GoFacts ==
    ASSUME IInv, NEW r \in Req, NEW l, Goto(r, l), UNCHANGED locals
    PROVE  /\ Others(r) /\ pc'[r] = l /\ traffic' = traffic
           /\ op' = op /\ pid' = pid /\ row' = row /\ old' = old /\ ticket' = ticket
  BY DEF IInv, TypeOK, Goto, locals, Others

\* What a handler may be at when nothing is disturbed.
LEMMA QuietOps ==
    ASSUME IInv, Undisturbed, NEW r \in Req
    PROVE  /\ "upload" \notin Handlers /\ "rotate" \notin Handlers /\ ~Faults
           /\ op[r] \notin {"upload", "rotate"} /\ pc[r] \notin {"read", "commit"}
           /\ row[r] # None => ~row[r].flags.rotateOnRead
  <1>1. "upload" \notin Handlers /\ "rotate" \notin Handlers /\ ~Faults
        /\ \A f \in FlagChoices : ~f.rotateOnRead
    BY DEF Undisturbed, NoRekeying
  <1>2. op[r] \notin {"upload", "rotate"}
    BY <1>1, LocalFacts
  <1> QED
    BY <1>1, <1>2, LocalFacts DEF Sound, Staged

\* What a handler that has not read a row has copied.
LEMMA NothingCopied ==
    ASSUME NEW r \in Req, row'[r] = None PROVE Copied(r)'
  BY DEF Copied

\* A handler that goes on with the page unchanged has the copy it had.
LEMMA CopyKept ==
    ASSUME NEW r \in Req, Copied(r), Wears, row'[r] = row[r], pid'[r] = pid[r], old'[r] = old[r]
    PROVE  Copied(r)'
  BY DEF Copied, Wears

\* The tables stay as they are, and r neither comes to its unlink nor leaves it.
LEMMA SpentMove ==
    ASSUME IInv, IInv', SpentInv, Undisturbed, NEW r \in Req, Others(r),
           page' = page, contents' = contents, blob' = blob, traffic' = traffic,
           pc[r] # "unlink", pc'[r] # "unlink",
           Copied(r)', \A p \in Pages : Last(r, p)' <=> Last(r, p)
    PROVE  SpentInv'
  <1>1. Pages' = Pages
    BY DEF Pages
  <1>2. Wears
    BY <1>1 DEF Wears
  <1>3. Entombs(r) /\ Removes(r) /\ Counts(r) /\ Holds(r)
    BY <1>1 DEF Entombs, Removes, Counts, Holds
  <1>4. Unlinks(r)'
    BY DEF Unlinks
  <1>5. Pending(r)'
    <2>1. Pending(r)
      BY DEF SpentInv
    <2> QED
      BY <1>1, <2>1 DEF Pending
  <1> QED
    BY <1>2, <1>3, <1>4, <1>5, SpentStep

\* A request arrives.
LEMMA SpentSelect ==
    ASSUME IInv, IInv', SpentInv, Undisturbed, NEW r \in Req,
           \/ DownloadSelect(r) \/ DeleteSelect(r) \/ CleanupSelect(r) \/ NotFound(r)
    PROVE  SpentInv'
  <1>1. /\ pc[r] = "idle" /\ page' = page /\ contents' = contents /\ blob' = blob
        /\ traffic' = traffic /\ ticket' = ticket
    BY DEF DownloadSelect, DeleteSelect, CleanupSelect, NotFound, Receive, Goto
  <1>2. row[r] = None
    BY <1>1, LocalFacts DEF Sound, Staged
  <1>3. pc'[r] \in {"gate", "refused", "sweep"} /\ Others(r)
    BY DEF DownloadSelect, DeleteSelect, CleanupSelect, NotFound, Receive, Goto, IInv, TypeOK,
       Others
  <1>4. Pages' = Pages
    BY <1>1 DEF Pages
  <1>5. Copied(r)'
    <2>1. CASE DownloadSelect(r)
      <3>1. PICK p \in Pages : /\ pid' = [pid EXCEPT ![r] = p]
                               /\ row' = [row EXCEPT ![r] = page[p]]
                               /\ old' = [old EXCEPT ![r] = page[p].content]
        BY <2>1 DEF DownloadSelect
      <3>2. pid'[r] = p /\ row'[r] = page[p] /\ old'[r] = page[p].content
        BY <3>1 DEF IInv, TypeOK
      <3> QED
        BY <1>1, <1>4, <3>2 DEF Copied
    <2>2. CASE ~DownloadSelect(r)
      <3>1. row' = row
        BY <2>2 DEF DeleteSelect, CleanupSelect, NotFound
      <3> QED
        BY <1>2, <3>1, NothingCopied
    <2> QED
      BY <2>1, <2>2
  <1>6. \A p : ~Last(r, p) /\ ~Last(r, p)'
    BY <1>1, <1>3 DEF Last
  <1> QED
    BY <1>1, <1>3, <1>5, <1>6, SpentMove

\* A request without a last read goes on or ends, and nothing else happens.
LEMMA SpentPass ==
    ASSUME IInv, IInv', SpentInv, Undisturbed, NEW r \in Req, NEW l, Goto(r, l),
           UNCHANGED <<page, contents, blob>>, UNCHANGED locals,
           pc[r] # "unlink", l # "unlink",
           \A p \in Pages : Last(r, p)' <=> Last(r, p)
    PROVE  SpentInv'
  <1>1. /\ Others(r) /\ pc'[r] = l /\ traffic' = traffic
        /\ op' = op /\ pid' = pid /\ row' = row /\ old' = old /\ ticket' = ticket
    BY GoFacts
  <1>2. Pages' = Pages /\ page' = page
    BY DEF Pages
  <1>3. Copied(r)
    BY DEF SpentInv
  <1>4. Copied(r)'
    BY <1>1, <1>2, <1>3 DEF Copied
  <1> QED
    BY <1>1, <1>2, <1>4, SpentMove

\* Who holds no last read does not get one by going on.
LEMMA NoLast ==
    ASSUME IInv, NEW r \in Req, pc[r] \notin {"fetch", "post", "drop"},
           pc'[r] \notin {"fetch", "post", "drop"}
    PROVE  \A p \in Pages : Last(r, p)' <=> Last(r, p)
  BY DEF Last

\* The last read is of a page whose cap the handler knows.
LEMMA LastFacts ==
    ASSUME IInv, NEW r \in Req, NEW p \in Pages, Last(r, p)
    PROVE  /\ row[r] # None /\ row[r].flags = page[p].flags /\ row[r].flags \in Flags
           /\ Cap(row[r].flags) = ticket[r] /\ ticket[r] \in Nat /\ ticket[r] > 0
           /\ ~row[r].flags.deleteOnRead => ReachedMax(r)
           /\ Cap(row[r].flags) # NoMax
  <1>1. pc[r] \in {"fetch", "post", "drop"} /\ pid[r] = p /\ ticket[r] # 0
        /\ ticket[r] = Cap(page[p].flags)
    BY DEF Last
  <1>2. row[r] # None /\ row[r].flags \in Flags /\ ticket[r] \in Nat /\ NoMax \notin Int
    BY <1>1, DownloadFacts
  <1>3. row[r].flags = page[p].flags
    BY <1>1, <1>2, LocalFacts DEF Sound, Knows
  <1>4. Cap(row[r].flags) = ticket[r] /\ ticket[r] # NoMax
    BY <1>1, <1>2, <1>3
  <1>5. ~row[r].flags.deleteOnRead => Cap(row[r].flags) = row[r].flags.maxReads
    BY <1>2, CapFacts
  <1>6. ~row[r].flags.deleteOnRead => ReachedMax(r)
    BY <1>2, <1>4, <1>5 DEF ReachedMax
  <1> QED
    BY <1>1, <1>2, <1>3, <1>4, <1>6

\* The bytes are fetched: whoever holds the last read finds them.
LEMMA SpentFetch ==
    ASSUME IInv, IInv', SpentInv, Undisturbed, NEW r \in Req, DownloadFetch(r)
    PROVE  SpentInv'
  <1>1. PICK l \in {"post", "failed"} : l = IF Fetched(row[r]) THEN "post" ELSE "failed"
    OBVIOUS
  <1>2. pc[r] = "fetch" /\ Goto(r, l) /\ UNCHANGED <<page, contents, blob>> /\ UNCHANGED locals
    BY <1>1 DEF DownloadFetch
  <1>3. /\ pc'[r] = l /\ page' = page /\ pid' = pid /\ ticket' = ticket
    BY <1>2, GoFacts
  <1>4. ASSUME NEW p \in Pages, Last(r, p) PROVE l = "post"
    <2>1. row[r] # None /\ pid[r] = p
      BY <1>4, LastFacts DEF Last
    <2>2. ~page[p].exhausted /\ Fetched(page[p])
      BY <1>4 DEF SpentInv, Pending, Whole
    <2>3. /\ row[r].content = page[p].content /\ row[r].hash = page[p].hash
          /\ row[r].kind = page[p].kind /\ row[r].dek = page[p].dek
          /\ row[r].part <=> page[p].part
      BY <2>1, <2>2 DEF SpentInv, Copied
    <2>4. Fetched(row[r])
      BY <2>2, <2>3 DEF Fetched
    <2> QED
      BY <1>1, <2>4
  <1>5. \A p \in Pages : Last(r, p)' <=> Last(r, p)
    <2> SUFFICES ASSUME NEW p \in Pages PROVE Last(r, p)' <=> Last(r, p)
      OBVIOUS
    <2>1. Last(r, p)' => Last(r, p)
      BY <1>2, <1>3, CapPrime DEF Last
    <2>2. Last(r, p) => Last(r, p)'
      BY <1>3, <1>4, CapPrime DEF Last
    <2> QED
      BY <2>1, <2>2
  <1> QED
    BY <1>2, <1>5, SpentPass

\* A read is counted.
LEMMA SpentCounted ==
    ASSUME IInv, IInv', SpentInv, Undisturbed, NEW r \in Req, Others(r), NEW p \in Pages,
           page' = [page EXCEPT ![p].readCount = @ + 1], contents' = contents, blob' = blob,
           traffic' = traffic, pc[r] = "claim", pc'[r] = "fetch", pid[r] = p,
           row' = row, pid' = pid, old' = old,
           \/ Cap(page[p].flags) = NoMax
           \/ ticket'[r] = page[p].readCount + 1 /\ ~page[p].exhausted
    PROVE  SpentInv'
  <1>1. page[p] \in PageRow /\ page[p].readCount \in Nat /\ page \in [Pages -> PageRow]
    BY PageFacts DEF IInv, TypeOK
  <1>2. Pages' = Pages /\ \A q \in Pages : q # p => page'[q] = page[q]
    BY <1>1 DEF Pages
  <1>3. /\ page'[p].content = page[p].content /\ page'[p].hash = page[p].hash
        /\ page'[p].kind = page[p].kind /\ page'[p].flags = page[p].flags
        /\ page'[p].exhausted = page[p].exhausted /\ page'[p].dek = page[p].dek
        /\ page'[p].part = page[p].part /\ page'[p].readCount = page[p].readCount + 1
    BY <1>1 DEF PageRow
  <1>4. Wears
    BY <1>2, <1>3 DEF Wears
  <1>5. Entombs(r) /\ Removes(r) /\ Unlinks(r)'
    BY <1>2, <1>3 DEF Entombs, Removes, Unlinks
  <1>6. Holds(r)
    BY DEF Holds, Last
  <1>7. Counts(r)
    BY <1>2, <1>3 DEF Counts
  <1>8. Copied(r)'
    BY <1>4, CopyKept DEF SpentInv
  <1>9. Pending(r)'
    <2> SUFFICES ASSUME NEW q \in Pages, Last(r, q)' PROVE ~page'[q].exhausted
      BY <1>2 DEF Pending
    <2>1. q = p /\ ticket'[r] = Cap(page'[p].flags)
      BY CapPrime DEF Last
    <2>2. ticket'[r] \in Nat /\ NoMax \notin Int
      BY FileAssumption DEF IInv, TypeOK
    <2>3. ~page[p].exhausted
      BY <1>3, <2>1, <2>2
    <2> QED
      BY <1>3, <2>1, <2>3
  <1> QED
    BY <1>4, <1>5, <1>6, <1>7, <1>8, <1>9, SpentStep

\* A claim is made, or refused.
LEMMA SpentClaim ==
    ASSUME IInv, IInv', SpentInv, Undisturbed, NEW r \in Req, DownloadClaim(r)
    PROVE  SpentInv'
  <1>1. /\ pc[r] = "claim" /\ Cap(row[r].flags) # NoMax
        /\ UNCHANGED <<contents, blob, op, pid, row, old, todo>>
    BY DEF DownloadClaim
  <1>2. CASE Claimable(pid[r], Cap(row[r].flags))
    <2>1. PICK p \in Pages : p = pid[r]
      BY <1>2 DEF Claimable
    <2>2. /\ page' = [page EXCEPT ![p].readCount = @ + 1]
          /\ ticket' = [ticket EXCEPT ![r] = page[p].readCount + 1]
          /\ pc' = [pc EXCEPT ![r] = "fetch"] /\ traffic' = traffic
          /\ ~page[p].exhausted
      BY <1>2, <2>1 DEF DownloadClaim, Goto, Claimable
    <2>3. Others(r) /\ pc'[r] = "fetch" /\ ticket'[r] = page[p].readCount + 1
      BY <1>1, <2>2 DEF Others, IInv, TypeOK
    <2> QED
      BY <1>1, <2>1, <2>2, <2>3, SpentCounted
  <1>3. CASE ~Claimable(pid[r], Cap(row[r].flags))
    <2>1. Goto(r, "refused") /\ UNCHANGED <<page, contents, blob>> /\ UNCHANGED locals
      BY <1>1, <1>3 DEF DownloadClaim, locals
    <2>2. pc'[r] = "refused"
      BY <2>1, GoFacts
    <2> QED
      BY <1>1, <2>1, <2>2, NoLast, SpentPass
  <1> QED
    BY <1>2, <1>3

\* The read of an uncapped file is counted, or not.
LEMMA SpentCount ==
    ASSUME IInv, IInv', SpentInv, Undisturbed, NEW r \in Req, DownloadCount(r)
    PROVE  SpentInv'
  <1>1. /\ pc[r] = "claim" /\ Cap(row[r].flags) = NoMax /\ Goto(r, "fetch")
        /\ UNCHANGED <<contents, blob>> /\ UNCHANGED locals
    BY DEF DownloadCount
  <1>2. /\ Others(r) /\ pc'[r] = "fetch" /\ traffic' = traffic
        /\ pid' = pid /\ row' = row /\ old' = old /\ ticket' = ticket
    BY <1>1, GoFacts
  <1>3. row[r] # None /\ ticket[r] \in Nat /\ NoMax \notin Int
    BY <1>1, DownloadFacts
  <1>4. pid[r] \in Pages => page[pid[r]].flags = row[r].flags
    BY <1>3, LocalFacts DEF Sound, Knows
  <1>5. CASE page' = page
    <2>1. ASSUME NEW p \in Pages PROVE ~Last(r, p)' /\ ~Last(r, p)
      <3>1. Last(r, p)' => pid[r] = p /\ ticket[r] = Cap(page[p].flags)
        BY <1>2, <1>5, CapPrime DEF Last
      <3> QED
        BY <1>1, <1>3, <1>4, <3>1 DEF Last
    <2> QED
      BY <1>1, <1>5, <2>1, SpentPass
  <1>6. CASE page' # page
    <2>1. pid[r] \in Pages /\ page' = [page EXCEPT ![pid[r]].readCount = @ + 1]
      BY <1>6 DEF DownloadCount
    <2>2. Cap(page[pid[r]].flags) = NoMax
      BY <1>1, <1>4, <2>1
    <2> QED
      BY <1>1, <1>2, <2>1, <2>2, SpentCounted
  <1> QED
    BY <1>5, <1>6

\* A read without effect is no last read.
LEMMA SpentNone ==
    ASSUME IInv, IInv', SpentInv, Undisturbed, NEW r \in Req, PostNone(r)
    PROVE  SpentInv'
  <1>1. /\ pc[r] = "post" /\ ~row[r].flags.deleteOnRead /\ ~ReachedMax(r) /\ Goto(r, "served")
        /\ UNCHANGED <<page, contents, blob>> /\ UNCHANGED locals
    BY DEF PostNone
  <1>2. pc'[r] = "served"
    BY <1>1, GoFacts
  <1>3. \A p \in Pages : ~Last(r, p)
    BY <1>1, LastFacts
  <1>4. \A p \in Pages : ~Last(r, p)'
    BY <1>2 DEF Last
  <1> QED
    BY <1>1, <1>3, <1>4, SpentPass

\* The backup of a resident file is removed.
LEMMA SpentBackup ==
    ASSUME IInv, IInv', SpentInv, Undisturbed, NEW r \in Req, PostBackup(r)
    PROVE  SpentInv'
  <1>1. /\ pc[r] = "post" /\ row[r].kind = "backed" /\ Goto(r, "drop")
        /\ page' = page /\ contents' = contents /\ UNCHANGED locals
        /\ blob' = blob \/ blob' = Unlink(old[r])
    BY DEF PostBackup
  <1>2. /\ Others(r) /\ pc'[r] = "drop" /\ traffic' = traffic
        /\ pid' = pid /\ row' = row /\ old' = old /\ ticket' = ticket
    BY <1>1, GoFacts
  <1>3. Pages' = Pages /\ row[r] # None /\ Copied(r) /\ Knows(r)
    BY <1>1, DownloadFacts, LocalFacts DEF Pages, SpentInv, Sound
  <1>4. ASSUME NEW p \in Pages
        PROVE  \/ blob'[page[p].content] = blob[page[p].content]
               \/ blob'[page[p].content] = NoFile /\ page[p].kind \in Resident
    <2>1. page[p].content \in Minted
      BY PageFacts DEF IInv
    <2>2. CASE page[p].content = old[r]
      <3>1. p = pid[r]
        BY <1>3, <2>2 DEF Knows
      <3>2. page[p].kind = "backed"
        BY <1>1, <1>3, <3>1 DEF Copied
      <3>3. blob'[page[p].content] \in {blob[page[p].content], NoFile}
        BY <1>1, <2>1 DEF Unlink
      <3> QED
        BY <3>2, <3>3 DEF Resident
    <2>3. CASE page[p].content # old[r]
      BY <1>1, <2>1, <2>3 DEF Unlink
    <2> QED
      BY <2>2, <2>3
  <1>5. Wears
    BY <1>1, <1>2, <1>3, <1>4 DEF Wears
  <1>6. Entombs(r) /\ Removes(r) /\ Counts(r) /\ Unlinks(r)'
    BY <1>1, <1>2, <1>3 DEF Entombs, Removes, Counts, Unlinks
  <1>7. \A p \in Pages : Last(r, p)' <=> Last(r, p)
    BY <1>1, <1>2, CapPrime DEF Last
  <1>8. Holds(r) /\ Pending(r)'
    BY <1>1, <1>3, <1>7 DEF Holds, Pending, SpentInv
  <1>9. Copied(r)'
    BY <1>2, <1>3, <1>5, CopyKept
  <1> QED
    BY <1>2, <1>5, <1>6, <1>8, <1>9, SpentStep

\* Pages go, with their content rows and maybe a blob that nothing needs.
LEMMA SpentGone ==
    ASSUME IInv, IInv', SpentInv, Undisturbed, NEW r \in Req, Others(r), NEW S,
           page' = Without(page, S), traffic' = traffic,
           row' = row, pid' = pid, old' = old, ticket' = ticket, pc[r] # "unlink",
           NEW b, blob' = blob \/ blob' = Unlink(b),
           \A p \in Pages \ S : page[p].content = b => page[p].exhausted,
           \A p \in Pages \ S : ~Last(r, p) /\ ~Last(r, p)',
           pc'[r] = "unlink" => \A p \in Pages \ S : page[p].content # old[r]
    PROVE  SpentInv'
  <1>1. Pages' = Pages \ S /\ \A p \in Pages \ S : page'[p] = page[p]
    BY DEF Without, Pages
  <1>2. \A p \in Pages : page[p].content \in Minted
    BY PageFacts DEF IInv
  <1>3. \A p \in Pages \ S : \/ blob'[page[p].content] = blob[page[p].content]
                             \/ blob'[page[p].content] = NoFile /\ page[p].exhausted
    BY <1>2 DEF Unlink
  <1>4. Wears
    BY <1>1, <1>3 DEF Wears
  <1>5. Entombs(r) /\ Removes(r) /\ Counts(r) /\ Holds(r) /\ Pending(r)'
    BY <1>1 DEF Entombs, Removes, Counts, Holds, Pending
  <1>6. Unlinks(r)'
    BY <1>1 DEF Unlinks
  <1>7. Copied(r)'
    BY <1>4, CopyKept DEF SpentInv
  <1> QED
    BY <1>4, <1>5, <1>6, <1>7, SpentStep

\* A delete_on_read download deletes its page.
LEMMA SpentDelete ==
    ASSUME IInv, IInv', SpentInv, Undisturbed, NEW r \in Req, PostDelete(r)
    PROVE  SpentInv'
  <1>1. pc[r] \in {"post", "drop"} /\ blob' = blob /\ UNCHANGED locals /\ DeleteContent(old[r])
    BY QuietOps DEF PostDelete
  <1>2. PICK l \in {"served", "unlink"} : Goto(r, l)
    BY DEF PostDelete
  <1>3. /\ Others(r) /\ pc'[r] = l /\ traffic' = traffic
        /\ pid' = pid /\ row' = row /\ old' = old /\ ticket' = ticket
    BY <1>1, <1>2, GoFacts
  <1>4. PICK S : S = {p \in Pages : page[p].content = old[r]}
    OBVIOUS
  <1>5. page' = Without(page, S)
    BY <1>1, <1>4 DEF DeleteContent
  <1>6. ASSUME NEW p \in Pages \ S PROVE ~Last(r, p) /\ ~Last(r, p)'
    <2>1. row[r] # None /\ Copied(r)
      BY <1>1, DownloadFacts DEF SpentInv
    <2>2. pid[r] # p
      BY <1>4, <2>1 DEF Copied
    <2> QED
      BY <1>3, <2>2 DEF Last
  <1>7. \A p \in Pages \ S : page[p].content # old[r]
    BY <1>4
  <1> QED
    BY <1>1, <1>3, <1>5, <1>6, <1>7, SpentGone

\* A page is deleted.
LEMMA SpentDeletePage ==
    ASSUME IInv, IInv', SpentInv, Undisturbed, NEW r \in Req, DeletePage(r)
    PROVE  SpentInv'
  <1>1. /\ pc[r] = "delete" /\ page' = Without(page, {pid[r]}) /\ Goto(r, "unlink")
        /\ blob' = blob /\ UNCHANGED locals
    BY DEF DeletePage
  <1>2. /\ Others(r) /\ pc'[r] = "unlink" /\ traffic' = traffic
        /\ pid' = pid /\ row' = row /\ old' = old /\ ticket' = ticket
    BY <1>1, GoFacts
  <1>3. PICK S, b : S = {pid[r]} /\ b = old[r]
    OBVIOUS
  <1>4. page' = Without(page, S) /\ blob' = blob /\ pc[r] # "unlink"
    BY <1>1, <1>3
  <1>5. /\ \A p \in Pages \ S : page[p].content = b => page[p].exhausted
        /\ \A p \in Pages \ S : page[p].content # old[r]
    BY <1>3, LocalFacts DEF Sound, Knows
  <1>6. \A p \in Pages \ S : ~Last(r, p) /\ ~Last(r, p)'
    BY <1>1, <1>2 DEF Last
  <1> HIDE <1>1, <1>3
  <1> QED
    BY <1>2, <1>4, <1>5, <1>6, SpentGone

\* Cleanup deletes a tombstone.
LEMMA SpentCleanup ==
    ASSUME IInv, IInv', SpentInv, Undisturbed, NEW r \in Req, CleanupDelete(r)
    PROVE  SpentInv'
  <1>1. /\ pc[r] = "sweep" /\ pc' = pc /\ op' = op /\ pid' = pid /\ row' = row /\ old' = old
        /\ ticket' = ticket /\ traffic' = traffic
    BY DEF CleanupDelete
  <1>2. PICK c \in todo[r] :
          /\ todo' = [todo EXCEPT ![r] = @ \ {c}] /\ blob' = Unlink(c) /\ DeleteContent(c)
    BY QuietOps DEF CleanupDelete
  <1>3. PICK S : S = {p \in Pages : page[p].content = c}
    OBVIOUS
  <1>4. page' = Without(page, S)
    BY <1>2, <1>3 DEF DeleteContent
  <1>5. Others(r)
    BY <1>1, <1>2 DEF Others, IInv, TypeOK
  <1>6. \A p \in Pages \ S : page[p].content # c
    BY <1>3
  <1>7. \A p : ~Last(r, p) /\ ~Last(r, p)'
    BY <1>1 DEF Last
  <1> QED
    BY <1>1, <1>2, <1>4, <1>5, <1>6, <1>7, SpentGone

\* The unlink.
LEMMA SpentUnlink ==
    ASSUME IInv, IInv', SpentInv, Undisturbed, NEW r \in Req, UnlinkOld(r)
    PROVE  SpentInv'
  <1>1. PICK l \in {"served", "ok"} : Goto(r, l)
    BY DEF UnlinkOld
  <1>2. /\ pc[r] = "unlink" /\ blob' = Unlink(old[r]) /\ page' = page /\ contents' = contents
        /\ UNCHANGED locals
    BY DEF UnlinkOld
  <1>3. /\ Others(r) /\ pc'[r] = l /\ traffic' = traffic
        /\ pid' = pid /\ row' = row /\ old' = old /\ ticket' = ticket
    BY <1>1, <1>2, GoFacts
  <1>4. Pages' = Pages /\ Unlinks(r) /\ Copied(r)
    BY <1>2 DEF Pages, SpentInv
  <1>5. ASSUME NEW p \in Pages
        PROVE  /\ page[p].content = old[r] => blob'[old[r]] = NoFile /\ page[p].exhausted
               /\ page[p].content # old[r] => blob'[page[p].content] = blob[page[p].content]
    <2>1. page[p].content \in Minted
      BY PageFacts DEF IInv
    <2> QED
      BY <1>2, <1>4, <2>1 DEF Unlink, Unlinks
  <1>6. Wears
    BY <1>2, <1>3, <1>4, <1>5 DEF Wears
  <1>7. Entombs(r) /\ Removes(r) /\ Counts(r) /\ Unlinks(r)'
    BY <1>2, <1>3, <1>4, <1>5 DEF Entombs, Removes, Counts, Unlinks
  <1>8. Holds(r) /\ Pending(r)'
    BY <1>2, <1>3 DEF Holds, Pending, Last
  <1>9. Copied(r)'
    BY <1>3, <1>4, <1>6, CopyKept
  <1> QED
    BY <1>3, <1>6, <1>7, <1>8, <1>9, SpentStep

\* The final read makes the page a tombstone.
LEMMA SpentTombstone ==
    ASSUME IInv, IInv', SpentInv, Undisturbed, NEW r \in Req, PostTombstone(r)
    PROVE  SpentInv'
  <1>1. /\ pc[r] = "post" /\ ~row[r].flags.deleteOnRead /\ ReachedMax(r)
        /\ contents' = contents /\ blob' = blob /\ UNCHANGED locals
    BY DEF PostTombstone
  <1>2. PICK l \in {"served", "unlink"} :
          l = IF row[r].kind \in Resident THEN "served" ELSE "unlink"
    OBVIOUS
  <1>3. /\ Others(r) /\ pc'[r] = l /\ traffic' = traffic
        /\ pid' = pid /\ row' = row /\ old' = old /\ ticket' = ticket
    BY <1>1, <1>2, GoFacts DEF PostTombstone
  <1>4. /\ row[r] # None /\ row[r].flags \in Flags /\ ticket[r] \in Nat
        /\ Copied(r) /\ Knows(r) /\ Claimed(r) /\ ticket[r] # 0
        /\ ticket[r] = Cap(row[r].flags)
    <2>1. row[r] # None /\ row[r].flags \in Flags /\ ticket[r] \in Nat /\ NoMax \notin Int
      BY <1>1, DownloadFacts
    <2>2. Copied(r) /\ Knows(r) /\ Claimed(r)
      BY LocalFacts DEF SpentInv, Sound
    <2>3. Cap(row[r].flags) = row[r].flags.maxReads /\ row[r].flags.maxReads \in Int \cup {NoMax}
      BY <1>1, <2>1, CapFacts
    <2>4. Cap(row[r].flags) \in Int /\ ticket[r] >= Cap(row[r].flags)
      BY <1>1, <2>3 DEF ReachedMax
    <2>5. ticket[r] # 0
      BY <1>1, <2>1, <2>4, DownloadFacts
    <2>6. ticket[r] <= Cap(row[r].flags)
      BY <2>2, <2>5 DEF Claimed
    <2> QED
      BY <2>1, <2>2, <2>4, <2>5, <2>6
  <1>5. CASE pid[r] \notin Pages
    <2>1. page' = page /\ Pages' = Pages
      BY <1>5 DEF PostTombstone, Pages
    <2>2. Wears
      BY <1>1, <1>3, <2>1 DEF Wears
    <2>3. Entombs(r) /\ Removes(r) /\ Counts(r)
      BY <1>1, <2>1 DEF Entombs, Removes, Counts
    <2>4. Holds(r) /\ Pending(r)'
      BY <1>3, <1>5, <2>1 DEF Holds, Pending, Last
    <2>5. Unlinks(r)'
      BY <1>3, <1>5, <1>4, <2>1 DEF Unlinks, Knows
    <2>6. Copied(r)'
      BY <1>3, <1>4, <2>2, CopyKept
    <2> QED
      BY <1>3, <2>2, <2>3, <2>4, <2>5, <2>6, SpentStep
  <1>6. CASE pid[r] \in Pages
    <2>1. PICK p \in Pages : p = pid[r]
      BY <1>6
    <2>2. /\ page[p] \in PageRow /\ page \in [Pages -> PageRow]
          /\ page[p].kind = row[r].kind /\ page[p].content = old[r]
          /\ page[p].flags = row[r].flags
      BY <1>4, <2>1, PageFacts DEF IInv, TypeOK, Copied, Knows
    <2>3. PICK w \in PageRow :
            /\ w.content = page[p].content /\ w.hash = page[p].hash /\ w.kind = page[p].kind
            /\ w.flags = page[p].flags /\ w.exhausted /\ w.readCount = page[p].readCount
            /\ IF row[r].kind \in Resident THEN ~w.part ELSE w.part = page[p].part
            /\ page' = [page EXCEPT ![p] = w]
      <3>1. CASE row[r].kind \in Resident
        <4>1. PICK w : w = [page[p] EXCEPT !.part = FALSE, !.exhausted = TRUE]
          OBVIOUS
        <4>2. w \in PageRow
          BY <2>2, <4>1 DEF PageRow
        <4>3. /\ w.content = page[p].content /\ w.hash = page[p].hash /\ w.kind = page[p].kind
              /\ w.flags = page[p].flags /\ w.exhausted /\ w.readCount = page[p].readCount
              /\ ~w.part
          BY <2>2, <4>1 DEF PageRow
        <4>4. page' = [page EXCEPT ![p] = w]
          BY <2>1, <3>1, <4>1, QuietOps DEF PostTombstone
        <4> QED
          BY <3>1, <4>2, <4>3, <4>4
      <3>2. CASE row[r].kind \notin Resident
        <4>1. PICK w : w = [page[p] EXCEPT !.dek = None, !.exhausted = TRUE]
          OBVIOUS
        <4>2. w \in PageRow
          BY <2>2, <4>1 DEF PageRow
        <4>3. /\ w.content = page[p].content /\ w.hash = page[p].hash /\ w.kind = page[p].kind
              /\ w.flags = page[p].flags /\ w.exhausted /\ w.readCount = page[p].readCount
              /\ w.part = page[p].part
          BY <2>2, <4>1 DEF PageRow
        <4>4. page' = [page EXCEPT ![p] = w]
          BY <2>1, <3>2, <4>1, QuietOps DEF PostTombstone
        <4> QED
          BY <3>2, <4>2, <4>3, <4>4
      <3> QED
        BY <3>1, <3>2
    <2>4. Pages' = Pages /\ page'[p] = w /\ \A q \in Pages : q # p => page'[q] = page[q]
      BY <2>2, <2>3 DEF Pages
    <2>5. Wears
      <3>1. ~page[p].part => ~w.part
        BY <2>3
      <3> QED
        BY <1>1, <1>3, <2>3, <2>4, <3>1 DEF Wears
    <2>6. Scrubbed(p)'
      <3>1. CASE row[r].kind \in Resident
        BY <2>2, <2>3, <2>4, <3>1 DEF Scrubbed
      <3>2. CASE row[r].kind \notin Resident
        <4>1. pc'[r] = "unlink" /\ old'[r] = page'[p].content
          BY <1>2, <1>3, <2>2, <2>3, <2>4, <3>2
        <4> QED
          BY <2>2, <2>3, <2>4, <3>2, <4>1 DEF Scrubbed
      <3> QED
        BY <3>1, <3>2
    <2>7. Entombs(r)
      <3> SUFFICES ASSUME NEW q \in Pages', ~page[q].exhausted, page'[q].exhausted
                   PROVE  q = p
        BY <1>4, <2>1, <2>2, <2>6 DEF Entombs
      <3> QED
        BY <2>4
    <2>8. Removes(r) /\ Counts(r)
      BY <1>1, <2>3, <2>4 DEF Removes, Counts
    <2>9. Holds(r)
      BY <2>1, <2>3, <2>4 DEF Holds, Last
    <2>10. Pending(r)'
      BY <1>3 DEF Pending, Last
    <2>11. Unlinks(r)'
      <3> SUFFICES ASSUME NEW q \in Pages, page'[q].content = old[r] PROVE page'[q].exhausted
        BY <1>3, <2>4 DEF Unlinks
      <3>1. page[q].content = old[r]
        BY <2>3, <2>4
      <3>2. q = p
        BY <1>4, <2>1, <3>1 DEF Knows
      <3> QED
        BY <2>3, <2>4, <3>2
    <2>12. Copied(r)'
      BY <1>3, <1>4, <2>5, CopyKept
    <2> QED
      BY <1>3, <2>5, <2>7, <2>8, <2>9, <2>10, <2>11, <2>12, SpentStep
  <1> QED
    BY <1>5, <1>6

\* A request passes the gate, is refused there, or finds nothing more to clean.
LEMMA SpentGate ==
    ASSUME IInv, IInv', SpentInv, Undisturbed, NEW r \in Req,
           GatePass(r) \/ GateRefuse(r) \/ CleanupDone(r)
    PROVE  SpentInv'
  <1>1. pc[r] \in {"gate", "sweep"} /\ UNCHANGED <<page, contents, blob>> /\ UNCHANGED locals
    BY DEF GatePass, GateRefuse, CleanupDone
  <1>2. PICK l \in {"commit", "claim", "delete", "read", "refused", "ok"} : Goto(r, l)
    <2>1. CASE GatePass(r)
      <3>1. op[r] \in {"upload", "download", "delete", "rotate"}
        BY <2>1, LocalFacts DEF GatePass, Sound, Staged
      <3> QED
        BY <2>1, <3>1 DEF GatePass
    <2> QED
      BY <2>1 DEF GateRefuse, CleanupDone
  <1>3. pc'[r] = l
    BY <1>1, <1>2, GoFacts
  <1>4. \A p \in Pages : Last(r, p)' <=> Last(r, p)
    BY <1>1, <1>3, NoLast
  <1> QED
    BY <1>1, <1>2, <1>4, SpentPass

\* At first no read has been claimed, and the file that is stored is whole.
LEMMA InitSpentInv == Init => SpentInv
  <1> SUFFICES ASSUME Init PROVE SpentInv
    OBVIOUS
  <1>1. IInv
    BY InitIInv
  <1>2. ASSUME NEW r \in Req PROVE Copied(r) /\ Unlinks(r) /\ Pending(r)
    <2>1. pc[r] = "idle" /\ row[r] = None
      BY DEF Init
    <2> QED
      BY <2>1 DEF Copied, Unlinks, Pending, Last
  <1>3. ASSUME NEW p \in Pages PROVE Whole(p) /\ Scrubbed(p) /\ Spent(p)
    <2>1. PICK c \in {1}, n \in Name, d \in Data, f \in FlagChoices, k \in Kinds :
            /\ page = [q \in {c} |-> NewRow(n, d, f, k, c)]
            /\ contents = {c} /\ blob = [b \in {c} |-> Stored(d, k)]
      BY <1>3 DEF Init, Pages
    <2>2. /\ page[p].readCount = 0 /\ ~page[p].exhausted /\ page[p].content = c
          /\ page[p].hash = d /\ page[p].kind = k /\ (k = "normal" => page[p].dek = c)
          /\ page[p].part <=> k \in Resident
      BY <2>1 DEF Pages, NewRow
    <2>3. k \in AllKinds
      BY <1>1, TrafficFacts DEF IInv
    <2>4. Fetched(page[p])
      BY <2>1, <2>2, <2>3 DEF Fetched, Stored, Resident, AllKinds
    <2> QED
      BY <2>2, <2>4 DEF Whole, Scrubbed, Spent
  <1> QED
    BY <1>2, <1>3 DEF SpentInv

\* Every step keeps it.
LEMMA NextSpentInv == IInv /\ IInv' /\ SpentInv /\ [Next]_vars => SpentInv'
  <1> SUFFICES ASSUME IInv, IInv', SpentInv, [Next]_vars PROVE SpentInv'
    OBVIOUS
  <1>1. CASE UNCHANGED vars
    <2>1. /\ page' = page /\ contents' = contents /\ blob' = blob /\ pc' = pc /\ pid' = pid
          /\ row' = row /\ old' = old /\ ticket' = ticket /\ traffic' = traffic
      BY <1>1 DEF vars
    <2>2. Pages' = Pages /\ (Undisturbed' <=> Undisturbed)
      BY <2>1 DEF Pages, Undisturbed, NoRekeying, Handlers, FlagChoices, Faults
    <2>3. \A p, r : Last(r, p)' <=> Last(r, p)
      BY <2>1, CapPrime DEF Last
    <2>4. \A r : (Copied(r)' <=> Copied(r)) /\ (Unlinks(r)' <=> Unlinks(r))
                 /\ (Pending(r)' <=> Pending(r))
      BY <2>1, <2>2, <2>3 DEF Copied, Unlinks, Pending
    <2>5. \A p : (Whole(p)' <=> Whole(p)) /\ (Scrubbed(p)' <=> Scrubbed(p))
      BY <2>1 DEF Whole, Scrubbed, Fetched
    <2>6. \A p : Spent(p)' <=> Spent(p)
      BY <2>1, <2>3, CapPrime DEF Spent
    <2> QED
      BY <2>2, <2>4, <2>5, <2>6 DEF SpentInv
  <1>2. ASSUME NEW r \in Req, Step(r) \/ Abort(r) PROVE SpentInv'
    <2>1. traffic' = traffic
      <3>1. CASE CleanupDelete(r)
        BY <3>1 DEF CleanupDelete
      <3>2. CASE ~CleanupDelete(r)
        <4>1. CASE Upload(r)
          <5>1. CASE UploadReplace(r)
            BY <5>1, Zenon DEF UploadReplace, Goto
          <5>2. CASE UploadInsert(r)
            BY <5>2, Zenon DEF UploadInsert, Goto
          <5> QED
            BY <4>1, <5>1, <5>2 DEF Upload, UploadSelectNew, UploadSelectExisting, UploadConflict, Goto
        <4>2. CASE Download(r)
          <5>1. CASE PostDelete(r)
            BY <5>1, Zenon DEF PostDelete, Goto
          <5>2. CASE PostTombstone(r)
            BY <5>2, Zenon DEF PostTombstone, Goto
          <5>3. CASE PostRotate(r)
            BY <5>3, Zenon DEF PostRotate, Goto
          <5> QED
            BY <4>2, <5>1, <5>2, <5>3 DEF Download, DownloadSelect, DownloadClaim, DownloadCount, DownloadFetch,
               PostBackup, PostNone, Goto
        <4>3. CASE Rotate(r)
          <5>1. CASE RotateCommit(r)
            BY <5>1, Zenon DEF RotateCommit, Goto
          <5> QED
            BY <4>3, <5>1 DEF Rotate, RotateSelect, RotateRead, Goto
        <4>4. CASE Delete(r) \/ Cleanup(r)
          BY <3>2, <4>4 DEF Delete, DeleteSelect, DeletePage, Cleanup, CleanupSelect,
             CleanupDone, Goto
        <4>5. CASE Shared(r) \/ Abort(r)
          BY <4>5 DEF Shared, GatePass, GateRefuse, UnlinkOld, NotFound, Abort, Goto
        <4> QED
          BY <1>2, <4>1, <4>2, <4>3, <4>4, <4>5 DEF Step
      <3> QED
        BY <3>1, <3>2
    <2>2. Undisturbed' <=> Undisturbed
      BY <2>1 DEF Undisturbed, NoRekeying, Handlers, FlagChoices, Faults
    <2>3. CASE ~Undisturbed
      BY <2>2, <2>3 DEF SpentInv
    <2>4. CASE Undisturbed
      <3>1. /\ "upload" \notin Handlers /\ "rotate" \notin Handlers /\ ~Faults
            /\ op[r] \notin {"upload", "rotate"} /\ pc[r] \notin {"read", "commit"}
            /\ row[r] # None => ~row[r].flags.rotateOnRead
        BY <2>4, QuietOps
      <3>2. ~Upload(r) /\ ~Rotate(r) /\ ~Abort(r)
        <4>1. ~Receive(r, "upload") /\ ~Receive(r, "rotate")
          BY <3>1 DEF Receive
        <4>2. ~UploadSelectNew(r) /\ ~UploadSelectExisting(r) /\ ~UploadConflict(r)
              /\ ~RotateSelect(r)
          BY <4>1 DEF UploadSelectNew, UploadSelectExisting, UploadConflict, RotateSelect
        <4>3. /\ UploadReplace(r) => pc[r] = "commit" /\ op[r] = "upload"
              /\ UploadInsert(r) => pc[r] = "commit" /\ op[r] = "upload"
              /\ RotateRead(r) => pc[r] = "read"
              /\ RotateCommit(r) => pc[r] = "commit" /\ op[r] = "rotate"
          BY Zenon DEF UploadReplace, UploadInsert, RotateRead, RotateCommit
        <4>4. ~Abort(r)
          BY <3>1 DEF Abort
        <4> QED
          BY <3>1, <4>2, <4>3, <4>4 DEF Upload, Rotate
      <3>3. ~PostRotate(r)
        <4>1. PostRotate(r) => pc[r] = "post" /\ row[r].flags.rotateOnRead
          BY DEF PostRotate, Rotates
        <4>2. pc[r] = "post" => row[r] # None
          BY DownloadFacts
        <4> QED
          BY <3>1, <4>1, <4>2
      <3>4. Download(r) \/ Delete(r) \/ Cleanup(r) \/ Shared(r)
        BY <1>2, <3>2 DEF Step
      <3> QED
        BY <2>4, <3>3, <3>4, SpentSelect, SpentClaim, SpentCount, SpentFetch, SpentBackup,
           SpentDelete, SpentTombstone, SpentNone, SpentDeletePage, SpentCleanup, SpentUnlink,
           SpentGate DEF Download, Delete, Cleanup, Shared
    <2> QED
      BY <2>3, <2>4
  <1> QED
    BY <1>1, <1>2 DEF Next, Terminated

\* Without faults, overwrites and rotations, a file whose last read was claimed,
\* and which is not a resident one with a backup, is erased when every request has ended (download_file): the request that got
\* the last read finds the file whole and is the one that erases it.
THEOREM EraseSafety == Spec => []SpentErased
  <1>1. ASSUME IInv, SpentInv, Undisturbed, \A r \in Req : pc[r] \in Finished \cup {"idle"},
               NEW p \in Pages, page[p].readCount > 0, page[p].readCount = Cap(page[p].flags),
               page[p].kind # "backed"
        PROVE  Erased(page[p])
    <2>1. \A r \in Req : ~Last(r, p) /\ pc[r] # "unlink"
      BY <1>1 DEF Last, Finished
    <2>2. Spent(p) /\ Scrubbed(p)
      BY <1>1 DEF SpentInv
    <2>3. page[p].exhausted
      BY <1>1, <2>1, <2>2 DEF Spent
    <2> QED
      BY <1>1, <2>1, <2>2, <2>3 DEF Scrubbed, Erased, Resident
  <1>2. IInv /\ SpentInv => SpentErased
    BY <1>1 DEF SpentErased
  <1> QED
    BY <1>2, Invariance, InitSpentInv, NextSpentInv, PTL DEF Spec
=============================================================================
