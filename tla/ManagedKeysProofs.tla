--------------------------- MODULE ManagedKeysProofs ---------------------------
(***************************************************************************)
(* Proofs about ManagedKeys, for any number of handlers, names and         *)
(* versions: the answers and outputs (OutputsOpen, AnswersRight), the rows *)
(* a request may change (ActsOnSeen) and the refinement of KeyRing.  All   *)
(* rest on one inductive invariant, IInv: what the copy that find_key      *)
(* returned still says about the tables when it is used.                   *)
(***************************************************************************)
EXTENDS ManagedKeys, Sequences, TLAPS

\* Somebody knows a key by this id, name and type: the table has it, a request
\* has found it, or something it made is around.
Sighted(i, n, t) ==
    \/ key[n] # NoKey /\ key[n].id = i /\ key[n].type = t
    \/ \E s \in Slot : /\ snap[s] # NoKey /\ snap[s].id = i
                       /\ name[s] = n /\ snap[s].type = t
    \/ \E o \in out : o.id = i /\ o.name = n /\ o.type = t

\* An id stands for one key, however long ago it was seen.
OneOwner ==
    \A i \in Ids, n, m \in Name, t, u \in KeyTypes :
        Sighted(i, n, t) /\ Sighted(i, m, u) => n = m /\ t = u /\ i < nextId

\* A key has exactly its versions, and only the keys of the table have any.
Complete ==
    /\ \A n \in Name, v \in Versions :
          key[n] # NoKey => (mat[key[n].id][v] # NoMaterial <=> v <= key[n].latest)
    /\ \A i \in Ids, v \in Versions : mat[i][v] # NoMaterial => i \in Live

\* What the server generated is in the versions of one key only.
OneHome ==
    \A i, j \in Ids, v, w \in Versions :
        mat[i][v] = mat[j][w] /\ mat[i][v] \in Generated => i = j

\* Generated material was counted, and an output was made with material that
\* only the key of its id may have had.
Counted ==
    /\ \A i \in Ids, v \in Versions : mat[i][v] \in Generated => mat[i][v] < nextMat
    /\ \A o \in out : o.mat \in Generated =>
          /\ o.mat < nextMat
          /\ \A j \in Ids, v \in Versions : mat[j][v] = o.mat => j = o.id

\* Whatever a key that is still there has handed out can be opened.
Openable ==
    \A o \in out, n \in Name :
        key[n] # NoKey /\ key[n].id = o.id => o.v <= key[n].latest /\ mat[o.id][o.v] = o.mat

\* A copy is never ahead of the row it was taken from.
NotAhead ==
    \A s \in Slot, n \in Name :
        snap[s] # NoKey /\ key[n] # NoKey /\ key[n].id = snap[s].id
        => snap[s].latest <= key[n].latest

\* What a request presents was handed out before it found its key.
Presented ==
    \A s \in Slot :
        /\ (arg[s] = NoOutput) <=> (ep[s].takes = "nothing")
        /\ arg[s] # NoOutput =>
              /\ arg[s] \in out
              /\ snap[s] # NoKey /\ snap[s].id = arg[s].id => arg[s].v <= snap[s].latest

\* Where a request is, given its endpoint and whether it has found a key.
Placed ==
    \A s \in Slot :
        /\ pc[s] \in {"bump", "bumpCommit", "remove", "load"} => snap[s] # NoKey
        /\ pc[s] = "gate" => ((snap[s] = NoKey) <=> (ep[s].op = "create"))
        /\ pc[s] = "remove" => ep[s].op = "delete"

\* The locks of the open transactions.
Locked ==
    /\ \A n \in Name, s \in Slot :
          index[n] = s <=> pc[s] = "insertCommit" /\ name[s] = n
    /\ \A n \in Name : index[n] # NoSlot => key[n] = NoKey
    /\ \A i \in Ids, s \in Slot :
          lock[i] = s => pc[s] = "bumpCommit" /\ snap[s].id = i
    /\ \A s \in Slot : pc[s] = "bumpCommit" =>
          /\ lock[snap[s].id] = s
          /\ key[name[s]] # NoKey /\ key[name[s]].id = snap[s].id
          /\ key[name[s]].latest < MaxVersion

\* An answer is about a key id that was used.
Answered ==
    \A s \in Slot : res[s].code # "none" => res[s].id \in Ids /\ res[s].id < nextId

IInv ==
    /\ TypeOK /\ OneOwner /\ Complete /\ OneHome /\ Counted /\ Openable /\ NotAhead
    /\ Presented /\ Placed /\ Locked /\ Answered /\ AnswersRight

-----------------------------------------------------------------------------
(* Facts about endpoints, rows and outputs *)

\* What an endpoint makes and takes.
LEMMA EndpointFacts ==
    \A e \in Uses \cup Lifecycle :
        /\ e.op \in {"use", "create", "rotate", "delete", "show"}
        /\ e.makes \in {"nothing", "versioned", "token"}
        /\ e.makes # "nothing" \/ e.op # "use" => e.takes = "nothing"
  BY DEF Uses, Lifecycle, Encrypt, Decrypt, Datakey, Sign, Hmac, Verify, IssueToken,
     VerifyToken, Use, Endpoint

\* A handler at rest is a fresh Encrypt call.
LEMMA EncryptFacts ==
    Encrypt \in Uses \cup Lifecycle /\ Encrypt.takes = "nothing" /\ AnyName \in Name
  <1>1. Encrypt \in Uses \cup Lifecycle /\ Encrypt.takes = "nothing"
    BY DEF Uses, Encrypt, Use, Endpoint
  <1>2. AnyName \in Name
    BY NullsAssumption DEF AnyName
  <1> QED
    BY <1>1, <1>2

\* The fields of a row and of an output, and what their sets leave out.
LEMMA FieldFacts ==
    /\ \A r \in Row : r.id \in Ids /\ r.type \in KeyTypes /\ r.latest \in Versions
    /\ \A o \in Output : /\ o.id \in Ids /\ o.type \in KeyTypes /\ o.v \in Versions
                         /\ o.mat \in Material /\ o.name \in Name
    /\ NoAnswer \in Reply /\ NoAnswer.code = "none"
    /\ Ids \subseteq Nat /\ Versions \subseteq Nat /\ 0 \notin Ids
  BY KeysAssumption DEF Row, Output, Ids, Versions, NoAnswer, Reply

\* Those who know a key by its id agree on its name and type.
LEMMA Owner ==
    ASSUME IInv
    PROVE  /\ \A n \in Name : key[n] # NoKey =>
                 key[n] \in Row /\ key[n].id \in Ids /\ key[n].id < nextId
           /\ \A s \in Slot : snap[s] # NoKey =>
                 snap[s] \in Row /\ snap[s].id \in Ids /\ snap[s].id < nextId
           /\ \A o \in out : o.id \in Ids /\ o.id < nextId
           /\ \A n, m \in Name : key[n] # NoKey /\ key[m] # NoKey /\ key[n].id = key[m].id
                 => n = m
           /\ \A s \in Slot, n \in Name :
                 snap[s] # NoKey /\ key[n] # NoKey /\ key[n].id = snap[s].id
                 => n = name[s] /\ key[n].type = snap[s].type
           /\ \A s \in Slot, o \in out : snap[s] # NoKey /\ o.id = snap[s].id
                 => o.name = name[s] /\ o.type = snap[s].type
           /\ \A n \in Name, o \in out : key[n] # NoKey /\ o.id = key[n].id
                 => o.name = n /\ o.type = key[n].type
  <1>1. \A n \in Name : key[n] # NoKey =>
           key[n] \in Row /\ key[n].id \in Ids /\ key[n].type \in KeyTypes
           /\ Sighted(key[n].id, n, key[n].type)
    BY FieldFacts DEF IInv, TypeOK, Sighted
  <1>2. \A s \in Slot : snap[s] # NoKey =>
           snap[s] \in Row /\ snap[s].id \in Ids /\ snap[s].type \in KeyTypes
           /\ name[s] \in Name /\ Sighted(snap[s].id, name[s], snap[s].type)
    BY FieldFacts DEF IInv, TypeOK, Sighted
  <1>3. \A o \in out : /\ o.id \in Ids /\ o.type \in KeyTypes /\ o.name \in Name
                       /\ Sighted(o.id, o.name, o.type)
    BY FieldFacts DEF IInv, TypeOK, Sighted
  <1>4. OneOwner
    BY DEF IInv
  <1> QED
    BY <1>1, <1>2, <1>3, <1>4 DEF OneOwner

\* A handler that holds no lock ends and leaves the tables alone.
LEMMA EndKeeps ==
    ASSUME IInv, NEW s \in Slot, End(s), UNCHANGED tables,
           pc[s] \notin {"insertCommit", "bumpCommit"}, res' \in [Slot -> Reply]
    PROVE  /\ TypeOK' /\ OneOwner' /\ Complete' /\ OneHome' /\ Counted' /\ Openable'
           /\ NotAhead' /\ Presented' /\ Placed' /\ Locked'
  <1> USE DEF IInv, End, Goto, tables
  <1>1. TypeOK'
    BY KeysAssumption, NullsAssumption, EncryptFacts, FieldFacts DEF TypeOK, Pcs
  <1>2. OneOwner'
    BY KeysAssumption, NullsAssumption, EncryptFacts, FieldFacts DEF TypeOK, OneOwner, Sighted
  <1>3. Complete'
    BY KeysAssumption, NullsAssumption, EncryptFacts, FieldFacts DEF TypeOK, Complete, Live
  <1>4. OneHome'
    BY KeysAssumption, NullsAssumption, EncryptFacts, FieldFacts DEF TypeOK, OneHome
  <1>5. Counted'
    BY KeysAssumption, NullsAssumption, EncryptFacts, FieldFacts DEF TypeOK, Counted
  <1>6. Openable'
    BY KeysAssumption, NullsAssumption, EncryptFacts, FieldFacts DEF TypeOK, Openable
  <1>7. NotAhead'
    BY KeysAssumption, NullsAssumption, EncryptFacts, FieldFacts DEF TypeOK, NotAhead
  <1>8. Presented'
    BY KeysAssumption, NullsAssumption, EncryptFacts, FieldFacts DEF TypeOK, Presented
  <1>9. Placed'
    BY KeysAssumption, NullsAssumption, EncryptFacts, FieldFacts DEF TypeOK, Placed
  <1>10. Locked'
    BY KeysAssumption, NullsAssumption, EncryptFacts, FieldFacts DEF TypeOK, Locked
  <1> QED
    BY <1>1, <1>2, <1>3, <1>4, <1>5, <1>6, <1>7, <1>8, <1>9, <1>10

\* A handler ends without an answer worth remembering.
LEMMA FinishInv ==
    ASSUME IInv, NEW s \in Slot, Finish(s), UNCHANGED tables,
           pc[s] \notin {"insertCommit", "bumpCommit"}
    PROVE  IInv'
  <1>1. res' = [res EXCEPT ![s] = NoAnswer] /\ res' \in [Slot -> Reply] /\ End(s)
    BY FieldFacts DEF Finish, IInv, TypeOK
  <1>2. Live' = Live /\ nextId' = nextId
    BY DEF Live, tables
  <1>3. Answered'
    BY <1>1, <1>2, FieldFacts DEF IInv, TypeOK, Answered
  <1>4. AnswersRight'
    BY <1>1, <1>2, FieldFacts DEF IInv, TypeOK, AnswersRight, MissingOnlyDeleted,
       GenuineAccepted, DeletedStaysClosed
  <1> QED
    BY <1>1, <1>3, <1>4, EndKeeps DEF IInv

\* A handler ends with an answer that is right for the key it had found.
LEMMA AnswerInv ==
    ASSUME IInv, NEW s \in Slot, UNCHANGED tables,
           pc[s] \notin {"insertCommit", "bumpCommit"}, snap[s] # NoKey,
           NEW c \in {"ok", "unknown_version", "invalid", "internal"}, Answer(s, c),
           c = "internal" => snap[s].id \notin Live,
           c \in {"unknown_version", "invalid"} => arg[s].id # snap[s].id,
           c = "ok" /\ arg[s] # NoOutput /\ arg[s].id # snap[s].id => arg[s].mat \in Imported
    PROVE  IInv'
  <1> DEFINE r == [code |-> c, id |-> snap[s].id, given |-> arg[s]]
  <1>1. snap[s].id \in Ids /\ snap[s].id < nextId /\ arg[s] \in Output \cup {NoOutput}
    BY Owner DEF IInv, TypeOK
  <1>2. r \in Reply /\ r.code = c /\ r.id = snap[s].id /\ r.given = arg[s]
    BY <1>1 DEF Reply
  <1>3. res' = [res EXCEPT ![s] = r] /\ End(s)
    BY DEF Answer
  <1> HIDE DEF r
  <1>4. res' \in [Slot -> Reply] /\ res'[s] = r /\ \A q \in Slot : q # s => res'[q] = res[q]
    BY <1>2, <1>3 DEF IInv, TypeOK
  <1>5. Live' = Live /\ nextId' = nextId
    BY DEF Live, tables
  <1>6. Answered'
    BY <1>1, <1>2, <1>4, <1>5 DEF IInv, Answered
  <1>7. AnswersRight'
    BY <1>2, <1>4, <1>5 DEF IInv, AnswersRight, MissingOnlyDeleted, GenuineAccepted,
       DeletedStaysClosed
  <1> QED
    BY <1>3, <1>4, <1>6, <1>7, EndKeeps DEF IInv

-----------------------------------------------------------------------------
(* One lemma for each action *)

\* What a request presents was handed out before.
LEMMA RequestInv ==
    ASSUME IInv, NEW s \in Slot, Request(s)
    PROVE  IInv'
  <1> USE DEF IInv, Request, End, Finish, Answer, Goto, tables, call
  <1>1. TypeOK'
    <2>1. /\ key' \in [Name -> Row \cup {NoKey}]
          /\ mat' \in [Ids -> [Versions -> Material \cup {NoMaterial}]]
          /\ nextId' \in 1..(MaxId + 1) /\ nextMat' \in Nat \ {0} /\ out' \subseteq Output
      BY KeysAssumption, NullsAssumption, EncryptFacts, FieldFacts DEF TypeOK
    <2>2. /\ index' \in [Name -> Slot \cup {NoSlot}]
          /\ lock' \in [Ids -> Slot \cup {NoSlot}]
          /\ pc' \in [Slot -> Pcs]
      BY KeysAssumption, NullsAssumption, EncryptFacts, FieldFacts DEF TypeOK, Pcs
    <2>3. /\ ep' \in [Slot -> Uses \cup Lifecycle]
          /\ name' \in [Slot -> Name]
          /\ arg' \in [Slot -> Output \cup {NoOutput}]
          /\ snap' \in [Slot -> Row \cup {NoKey}]
      BY KeysAssumption, NullsAssumption, EncryptFacts, FieldFacts DEF TypeOK
    <2>4. res' \in [Slot -> Reply]
      BY KeysAssumption, NullsAssumption, EncryptFacts, FieldFacts DEF TypeOK
    <2> QED
      BY <2>1, <2>2, <2>3, <2>4 DEF TypeOK
  <1>2. OneOwner'
    BY KeysAssumption, NullsAssumption, EncryptFacts, FieldFacts DEF TypeOK, OneOwner, Sighted
  <1>3. Complete'
    BY KeysAssumption, NullsAssumption, EncryptFacts, FieldFacts DEF TypeOK, Complete, Live
  <1>4. OneHome'
    BY KeysAssumption, NullsAssumption, EncryptFacts, FieldFacts DEF TypeOK, OneHome
  <1>5. Counted'
    BY KeysAssumption, NullsAssumption, EncryptFacts, FieldFacts DEF TypeOK, Counted
  <1>6. Openable'
    BY KeysAssumption, NullsAssumption, EncryptFacts, FieldFacts DEF TypeOK, Openable
  <1>7. NotAhead'
    BY KeysAssumption, NullsAssumption, EncryptFacts, FieldFacts DEF TypeOK, NotAhead
  <1>8. Presented'
    BY KeysAssumption, NullsAssumption, EncryptFacts, FieldFacts DEF TypeOK, Presented
  <1>9. Placed'
    BY KeysAssumption, NullsAssumption, EncryptFacts, FieldFacts DEF TypeOK, Placed
  <1>10. Locked'
    BY KeysAssumption, NullsAssumption, EncryptFacts, FieldFacts DEF TypeOK, Locked
  <1>11. Answered'
    BY KeysAssumption, NullsAssumption, EncryptFacts, FieldFacts DEF TypeOK, Answered
  <1>12. AnswersRight'
    BY KeysAssumption, NullsAssumption, EncryptFacts, FieldFacts DEF TypeOK, AnswersRight, MissingOnlyDeleted, GenuineAccepted, DeletedStaysClosed, Live
  <1> QED
    BY <1>1, <1>2, <1>3, <1>4, <1>5, <1>6, <1>7, <1>8, <1>9, <1>10, <1>11, <1>12

\* The copy is the row of the moment.
LEMMA FindFoundInv ==
    ASSUME IInv, NEW s \in Slot, FindKey(s),
           (key[name[s]] = NoKey) <=> (ep[s].op = "create")
    PROVE  IInv'
  <1> USE DEF IInv, call, tables
  <1>a. /\ pc[s] = "find" /\ pc' = [pc EXCEPT ![s] = "gate"]
        /\ snap' = [snap EXCEPT ![s] = key[name[s]]]
        /\ UNCHANGED <<key, mat, nextId, nextMat, index, lock, out, ep, name, arg, res>>
    BY DEF FindKey, Goto
  <1>b. name[s] \in Name /\ snap'[s] = key[name[s]]
    BY <1>a DEF TypeOK
  <1>c. \A q \in Slot : q # s => snap'[q] = snap[q]
    BY <1>a DEF TypeOK
  <1>1. TypeOK'
    <2>1. /\ key' \in [Name -> Row \cup {NoKey}]
          /\ mat' \in [Ids -> [Versions -> Material \cup {NoMaterial}]]
          /\ nextId' \in 1..(MaxId + 1) /\ nextMat' \in Nat \ {0} /\ out' \subseteq Output
      BY <1>a, <1>b, <1>c DEF TypeOK
    <2>2. /\ index' \in [Name -> Slot \cup {NoSlot}]
          /\ lock' \in [Ids -> Slot \cup {NoSlot}]
          /\ pc' \in [Slot -> Pcs]
      BY <1>a, <1>b, <1>c DEF TypeOK, Pcs
    <2>3. /\ ep' \in [Slot -> Uses \cup Lifecycle]
          /\ name' \in [Slot -> Name]
          /\ arg' \in [Slot -> Output \cup {NoOutput}]
          /\ snap' \in [Slot -> Row \cup {NoKey}]
      BY <1>a, <1>b, <1>c DEF TypeOK
    <2>4. res' \in [Slot -> Reply]
      BY <1>a, <1>b, <1>c DEF TypeOK
    <2> QED
      BY <2>1, <2>2, <2>3, <2>4 DEF TypeOK
  <1>2. OneOwner'
    <2>1. ASSUME NEW i \in Ids, NEW n \in Name, NEW t \in KeyTypes, Sighted(i, n, t)'
          PROVE  Sighted(i, n, t)
      BY <1>a, <1>b, <1>c, <2>1 DEF Sighted
    <2> QED
      BY <1>a, <2>1 DEF OneOwner
  <1>3. Complete'
    BY <1>a, <1>b, <1>c DEF TypeOK, Complete, Live
  <1>4. OneHome'
    BY <1>a, <1>b, <1>c DEF TypeOK, OneHome
  <1>5. Counted'
    BY <1>a, <1>b, <1>c DEF TypeOK, Counted
  <1>6. Openable'
    BY <1>a, <1>b, <1>c DEF TypeOK, Openable
  <1>7. NotAhead'
    <2> SUFFICES ASSUME NEW q \in Slot, NEW n \in Name, snap'[q] # NoKey,
                        key[n] # NoKey, key[n].id = snap'[q].id
                 PROVE  snap'[q].latest <= key[n].latest
      BY <1>a DEF NotAhead
    <2>1. CASE q = s
      <3>1. n = name[s]
        BY <1>b, <2>1, Owner
      <3>2. key[n].latest \in Nat
        BY Owner, FieldFacts
      <3> QED
        BY <1>b, <2>1, <3>1, <3>2
    <2>2. CASE q # s
      BY <1>c, <2>2 DEF NotAhead
    <2> QED
      BY <2>1, <2>2
  <1>8. Presented'
    <2>1. arg[s] # NoOutput => arg[s] \in out
      BY DEF Presented
    <2>2. ASSUME arg[s] # NoOutput, snap'[s] # NoKey, snap'[s].id = arg[s].id
          PROVE  arg[s].v <= snap'[s].latest
      BY <1>b, <2>1, <2>2 DEF Openable
    <2> QED
      BY <1>a, <1>b, <1>c, <2>2 DEF Presented
  <1>9. Placed'
    BY <1>a, <1>b, <1>c DEF TypeOK, Placed
  <1>10. Locked'
    BY <1>a, <1>b, <1>c DEF TypeOK, Locked
  <1>11. Answered'
    BY <1>a, <1>b, <1>c DEF TypeOK, Answered
  <1>12. AnswersRight'
    BY <1>a, <1>b, <1>c DEF TypeOK, AnswersRight, MissingOnlyDeleted, GenuineAccepted, DeletedStaysClosed, Live
  <1> QED
    BY <1>1, <1>2, <1>3, <1>4, <1>5, <1>6, <1>7, <1>8, <1>9, <1>10, <1>11, <1>12

\* The endpoint decides where a request goes.
LEMMA GatePassesInv ==
    ASSUME IInv, NEW s \in Slot, GatePasses(s)
    PROVE  IInv'
  <1> USE DEF IInv, call, tables
  <1>a. /\ pc[s] = "gate"
        /\ UNCHANGED <<key, mat, nextId, nextMat, index, lock, out, ep, name, arg, snap, res>>
    BY DEF GatePasses
  <1>b. ep[s].op \in {"use", "create", "rotate", "delete", "show"}
    BY EndpointFacts DEF TypeOK
  <1>c. PICK l \in {"insert", "bump", "remove", "reread", "load"} :
            /\ pc' = [pc EXCEPT ![s] = l]
            /\ l = "remove" => ep[s].op = "delete"
            /\ l \in {"bump", "remove", "load"} => ep[s].op # "create"
    BY <1>b DEF GatePasses, Goto
  <1>1. TypeOK'
    <2>1. /\ key' \in [Name -> Row \cup {NoKey}]
          /\ mat' \in [Ids -> [Versions -> Material \cup {NoMaterial}]]
          /\ nextId' \in 1..(MaxId + 1) /\ nextMat' \in Nat \ {0} /\ out' \subseteq Output
      BY <1>a, <1>c DEF TypeOK
    <2>2. /\ index' \in [Name -> Slot \cup {NoSlot}]
          /\ lock' \in [Ids -> Slot \cup {NoSlot}]
          /\ pc' \in [Slot -> Pcs]
      BY <1>a, <1>c DEF TypeOK, Pcs
    <2>3. /\ ep' \in [Slot -> Uses \cup Lifecycle]
          /\ name' \in [Slot -> Name]
          /\ arg' \in [Slot -> Output \cup {NoOutput}]
          /\ snap' \in [Slot -> Row \cup {NoKey}]
      BY <1>a, <1>c DEF TypeOK
    <2>4. res' \in [Slot -> Reply]
      BY <1>a, <1>c DEF TypeOK
    <2> QED
      BY <2>1, <2>2, <2>3, <2>4 DEF TypeOK
  <1>2. OneOwner'
    BY <1>a, <1>c DEF TypeOK, OneOwner, Sighted
  <1>3. Complete'
    BY <1>a, <1>c DEF TypeOK, Complete, Live
  <1>4. OneHome'
    BY <1>a, <1>c DEF TypeOK, OneHome
  <1>5. Counted'
    BY <1>a, <1>c DEF TypeOK, Counted
  <1>6. Openable'
    BY <1>a, <1>c DEF TypeOK, Openable
  <1>7. NotAhead'
    BY <1>a, <1>c DEF TypeOK, NotAhead
  <1>8. Presented'
    BY <1>a, <1>c DEF TypeOK, Presented
  <1>9. Placed'
    BY <1>a, <1>c DEF TypeOK, Placed
  <1>10. Locked'
    BY <1>a, <1>c DEF TypeOK, Locked
  <1>11. Answered'
    BY <1>a, <1>c DEF TypeOK, Answered
  <1>12. AnswersRight'
    BY <1>a, <1>c DEF TypeOK, AnswersRight, MissingOnlyDeleted, GenuineAccepted, DeletedStaysClosed, Live
  <1> QED
    BY <1>1, <1>2, <1>3, <1>4, <1>5, <1>6, <1>7, <1>8, <1>9, <1>10, <1>11, <1>12

\* The entry in the unique index is taken while no row has the name.
LEMMA CreateInsertInv ==
    ASSUME IInv, NEW s \in Slot, CreateInsert(s)
    PROVE  IInv'
  <1> USE DEF IInv, CreateInsert, End, Finish, Answer, Goto, tables, call
  <1>1. TypeOK'
    <2>1. /\ key' \in [Name -> Row \cup {NoKey}]
          /\ mat' \in [Ids -> [Versions -> Material \cup {NoMaterial}]]
          /\ nextId' \in 1..(MaxId + 1) /\ nextMat' \in Nat \ {0} /\ out' \subseteq Output
      BY KeysAssumption, NullsAssumption, EncryptFacts, FieldFacts DEF TypeOK
    <2>2. /\ index' \in [Name -> Slot \cup {NoSlot}]
          /\ lock' \in [Ids -> Slot \cup {NoSlot}]
          /\ pc' \in [Slot -> Pcs]
      BY KeysAssumption, NullsAssumption, EncryptFacts, FieldFacts DEF TypeOK, Pcs
    <2>3. /\ ep' \in [Slot -> Uses \cup Lifecycle]
          /\ name' \in [Slot -> Name]
          /\ arg' \in [Slot -> Output \cup {NoOutput}]
          /\ snap' \in [Slot -> Row \cup {NoKey}]
      BY KeysAssumption, NullsAssumption, EncryptFacts, FieldFacts DEF TypeOK
    <2>4. res' \in [Slot -> Reply]
      BY KeysAssumption, NullsAssumption, EncryptFacts, FieldFacts DEF TypeOK
    <2> QED
      BY <2>1, <2>2, <2>3, <2>4 DEF TypeOK
  <1>2. OneOwner'
    BY KeysAssumption, NullsAssumption, EncryptFacts, FieldFacts DEF TypeOK, OneOwner, Sighted
  <1>3. Complete'
    BY KeysAssumption, NullsAssumption, EncryptFacts, FieldFacts DEF TypeOK, Complete, Live
  <1>4. OneHome'
    BY KeysAssumption, NullsAssumption, EncryptFacts, FieldFacts DEF TypeOK, OneHome
  <1>5. Counted'
    BY KeysAssumption, NullsAssumption, EncryptFacts, FieldFacts DEF TypeOK, Counted
  <1>6. Openable'
    BY KeysAssumption, NullsAssumption, EncryptFacts, FieldFacts DEF TypeOK, Openable
  <1>7. NotAhead'
    BY KeysAssumption, NullsAssumption, EncryptFacts, FieldFacts DEF TypeOK, NotAhead
  <1>8. Presented'
    BY KeysAssumption, NullsAssumption, EncryptFacts, FieldFacts DEF TypeOK, Presented
  <1>9. Placed'
    BY KeysAssumption, NullsAssumption, EncryptFacts, FieldFacts DEF TypeOK, Placed
  <1>10. Locked'
    BY KeysAssumption, NullsAssumption, EncryptFacts, FieldFacts DEF TypeOK, Locked
  <1>11. Answered'
    BY KeysAssumption, NullsAssumption, EncryptFacts, FieldFacts DEF TypeOK, Answered
  <1>12. AnswersRight'
    BY KeysAssumption, NullsAssumption, EncryptFacts, FieldFacts DEF TypeOK, AnswersRight, MissingOnlyDeleted, GenuineAccepted, DeletedStaysClosed, Live
  <1> QED
    BY <1>1, <1>2, <1>3, <1>4, <1>5, <1>6, <1>7, <1>8, <1>9, <1>10, <1>11, <1>12

\* The new key has an id and, unless it was imported, a material nobody had.
LEMMA CreateCommitInv ==
    ASSUME IInv, NEW s \in Slot, CreateCommit(s)
    PROVE  IInv'
  <1> USE DEF IInv, call, tables
  <1>a. PICK t \in Types, m \in Imported \cup {nextMat}, f \in MfaFlags :
            /\ key' = [key EXCEPT ![name[s]] =
                          [id |-> nextId, type |-> t, latest |-> 1, mfa |-> f]]
            /\ mat' = [mat EXCEPT ![nextId][1] = m]
            /\ nextMat' = IF m \in Imported THEN nextMat ELSE nextMat + 1
    BY Zenon DEF CreateCommit
  <1>b. /\ pc[s] = "insertCommit" /\ nextId <= MaxId /\ nextMat <= MaxGenerated
        /\ nextId' = nextId + 1
        /\ index' = [index EXCEPT ![name[s]] = NoSlot]
        /\ pc' = [pc EXCEPT ![s] = "reread"]
        /\ UNCHANGED <<lock, out, ep, name, arg, snap, res>>
    BY DEF CreateCommit, Goto
  <1> DEFINE n0 == name[s]
             r == [id |-> nextId, type |-> t, latest |-> 1, mfa |-> f]
  <1>c. nextId \in Ids /\ 1 \in Versions /\ n0 \in Name /\ nextMat \in Generated
    BY <1>b, KeysAssumption DEF TypeOK, Ids, Versions, Generated
  <1>d. r \in Row /\ r.id = nextId /\ r.type = t /\ r.latest = 1 /\ t \in KeyTypes /\ r # NoKey
    BY <1>c, KeysAssumption, NullsAssumption DEF Row
  <1> HIDE DEF r
  <1>e. key[n0] = NoKey /\ key'[n0] = r /\ \A n \in Name : n # n0 => key'[n] = key[n]
    BY <1>a, <1>b, <1>c, KeysAssumption DEF TypeOK, Locked, r
  <1>f. \A i \in Ids, v \in Versions :
            mat'[i][v] = IF i = nextId /\ v = 1 THEN m ELSE mat[i][v]
    BY <1>a, <1>c DEF TypeOK
  <1>g. \A i \in Live : i < nextId /\ i \in Ids
    BY Owner DEF Live
  <1>h. \A v \in Versions : mat[nextId][v] = NoMaterial
    BY <1>c, <1>g, FieldFacts DEF Complete
  <1>i. /\ m \in Material /\ m # NoMaterial
        /\ m \in Generated => m = nextMat /\ nextMat' = nextMat + 1
        /\ nextMat' \in Nat \ {0} /\ nextMat <= nextMat'
    BY <1>a, <1>c, KeysAssumption, NullsAssumption DEF TypeOK, Material, Generated
  <1>j. Live' = Live \cup {nextId}
    <2>1. \A i : i \in Live' <=> \E n \in Name : key'[n] # NoKey /\ key'[n].id = i
      BY DEF Live
    <2>2. \A i : i \in Live <=> \E n \in Name : key[n] # NoKey /\ key[n].id = i
      BY DEF Live
    <2>3. \A i : i \in Live' <=> i \in Live \/ i = nextId
      BY <1>c, <1>d, <1>e, <2>1, <2>2
    <2> QED
      BY <2>3
  <1> HIDE DEF n0
  <1>k. \A i \in Ids, v \in Versions : i < nextId => mat'[i][v] = mat[i][v] /\ i # nextId
    BY <1>c, <1>f, FieldFacts
  <1>1. TypeOK'
    <2>1. /\ key' \in [Name -> Row \cup {NoKey}]
          /\ mat' \in [Ids -> [Versions -> Material \cup {NoMaterial}]]
          /\ nextId' \in 1..(MaxId + 1) /\ nextMat' \in Nat \ {0} /\ out' \subseteq Output
      <3>1. key' \in [Name -> Row \cup {NoKey}]
        BY <1>a, <1>c, <1>d DEF TypeOK, r, n0
      <3>2. mat' \in [Ids -> [Versions -> Material \cup {NoMaterial}]]
        BY <1>a, <1>c, <1>i DEF TypeOK
      <3>3. nextId' \in 1..(MaxId + 1)
        BY <1>b, KeysAssumption DEF TypeOK
      <3> QED
        BY <1>b, <1>i, <3>1, <3>2, <3>3 DEF TypeOK
    <2>2. /\ index' \in [Name -> Slot \cup {NoSlot}]
          /\ lock' \in [Ids -> Slot \cup {NoSlot}]
          /\ pc' \in [Slot -> Pcs]
      BY <1>b DEF TypeOK, Pcs
    <2>3. /\ ep' \in [Slot -> Uses \cup Lifecycle]
          /\ name' \in [Slot -> Name]
          /\ arg' \in [Slot -> Output \cup {NoOutput}]
          /\ snap' \in [Slot -> Row \cup {NoKey}]
      BY <1>b DEF TypeOK
    <2>4. res' \in [Slot -> Reply]
      BY <1>b DEF TypeOK
    <2> QED
      BY <2>1, <2>2, <2>3, <2>4 DEF TypeOK
  <1>2. OneOwner'
    <2>1. ASSUME NEW i \in Ids, NEW n \in Name, NEW u \in KeyTypes, Sighted(i, n, u)'
          PROVE  Sighted(i, n, u) \/ (i = nextId /\ n = n0 /\ u = t)
      BY <1>b, <1>d, <1>e, <2>1 DEF Sighted
    <2>2. ASSUME NEW n \in Name, NEW u \in KeyTypes, Sighted(nextId, n, u) PROVE FALSE
      BY <1>c, <2>2, FieldFacts DEF OneOwner
    <2>3. \A i \in Ids : i < nextId => i < nextId'
      BY <1>b, <1>c, FieldFacts
    <2>4. nextId < nextId'
      BY <1>b, <1>c, FieldFacts
    <2> QED
      BY <1>c, <2>1, <2>2, <2>3, <2>4 DEF OneOwner
  <1>3. Complete'
    <2>1. ASSUME NEW n \in Name, NEW v \in Versions, key'[n] # NoKey
          PROVE  mat'[key'[n].id][v] # NoMaterial <=> v <= key'[n].latest
      <3>1. CASE n = n0
        <4>1. mat'[nextId][v] # NoMaterial <=> v = 1
          BY <1>c, <1>f, <1>h, <1>i
        <4>2. v <= 1 <=> v = 1
          BY DEF Versions
        <4> QED
          BY <1>d, <1>e, <3>1, <4>1, <4>2
      <3>2. CASE n # n0
        <4>1. key'[n] = key[n] /\ key[n].id \in Ids /\ key[n].id < nextId
          BY <1>e, <2>1, <3>2, Owner
        <4> QED
          BY <1>k, <2>1, <4>1 DEF Complete
      <3> QED
        BY <3>1, <3>2
    <2>2. ASSUME NEW i \in Ids, NEW v \in Versions, mat'[i][v] # NoMaterial
          PROVE  i \in Live'
      BY <1>f, <1>j, <2>2 DEF Complete
    <2> QED
      BY <2>1, <2>2 DEF Complete
  <1>4. OneHome'
    <2> SUFFICES ASSUME NEW i \in Ids, NEW j \in Ids, NEW v \in Versions, NEW w \in Versions,
                        mat'[i][v] = mat'[j][w], mat'[i][v] \in Generated
                 PROVE  i = j
      BY DEF OneHome
    <2>1. \A k \in Ids, u \in Versions : mat[k][u] \in Generated => mat[k][u] # nextMat
      BY <1>c DEF Counted, Generated
    <2> QED
      BY <1>f, <1>i, <2>1 DEF OneHome
  <1>5. Counted'
    <2>1. ASSUME NEW i \in Ids, NEW v \in Versions, mat'[i][v] \in Generated
          PROVE  mat'[i][v] < nextMat'
      BY <1>c, <1>f, <1>i, <2>1 DEF Counted, Generated
    <2>2. ASSUME NEW o \in out, o.mat \in Generated PROVE o.mat < nextMat' /\ o.mat # nextMat
      BY <1>c, <1>i, <2>2 DEF Counted, Generated
    <2>3. ASSUME NEW o \in out, o.mat \in Generated, NEW j \in Ids, NEW v \in Versions,
                 mat'[j][v] = o.mat
          PROVE  j = o.id
      BY <1>f, <1>i, <2>2, <2>3 DEF Counted
    <2> QED
      BY <1>b, <2>1, <2>2, <2>3 DEF Counted
  <1>6. Openable'
    <2>1. ASSUME NEW o \in out, NEW n \in Name, key'[n] # NoKey, key'[n].id = o.id
          PROVE  o.v <= key'[n].latest /\ mat'[o.id][o.v] = o.mat
      <3>1. o.id \in Ids /\ o.id < nextId /\ o.v \in Versions /\ o.id # nextId
        BY Owner, FieldFacts DEF TypeOK
      <3>2. key'[n] = key[n]
        BY <1>d, <1>e, <2>1, <3>1
      <3> QED
        BY <1>k, <2>1, <3>1, <3>2 DEF Openable
    <2> QED
      BY <1>b, <2>1 DEF Openable
  <1>7. NotAhead'
    <2>1. \A q \in Slot : snap[q] # NoKey => snap[q].id # nextId
      BY <1>c, Owner, FieldFacts
    <2> QED
      BY <1>b, <1>d, <1>e, <2>1 DEF NotAhead
  <1>8. Presented'
    BY <1>b, <1>c, <1>d, <1>e, <1>f, <1>g, <1>h, <1>i, <1>j, FieldFacts DEF TypeOK, Presented
  <1>9. Placed'
    BY <1>b, <1>c, <1>d, <1>e, <1>f, <1>g, <1>h, <1>i, <1>j, FieldFacts DEF TypeOK, Placed
  <1>10. Locked'
    <2>1. \A q \in Slot : pc'[q] = IF q = s THEN "reread" ELSE pc[q]
      BY <1>b DEF TypeOK
    <2>2. \A n \in Name : index'[n] = IF n = n0 THEN NoSlot ELSE index[n]
      BY <1>b, <1>c DEF TypeOK, n0
    <2>3. \A n \in Name, q \in Slot :
              index'[n] = q <=> pc'[q] = "insertCommit" /\ name[q] = n
      BY <1>b, <2>1, <2>2, KeysAssumption DEF Locked, n0
    <2>4. \A n \in Name : index'[n] # NoSlot => key'[n] = NoKey
      BY <1>e, <2>2 DEF Locked
    <2>5. \A i \in Ids, q \in Slot : lock[i] = q => pc'[q] = "bumpCommit" /\ snap[q].id = i
      BY <1>b, <2>1 DEF Locked
    <2>6. \A q \in Slot : pc'[q] = "bumpCommit" =>
              /\ lock[snap[q].id] = q
              /\ key'[name[q]] # NoKey /\ key'[name[q]].id = snap[q].id
              /\ key'[name[q]].latest < MaxVersion
      BY <1>e, <2>1 DEF TypeOK, Locked
    <2> QED
      BY <1>b, <2>3, <2>4, <2>5, <2>6 DEF Locked
  <1>11. Answered'
    BY <1>b, <1>c, FieldFacts DEF Answered
  <1>12. AnswersRight'
    <2>1. \A q \in Slot : res[q].code = "internal" => res[q].id # nextId
      BY <1>c, FieldFacts DEF Answered
    <2> QED
      BY <1>b, <1>j, <2>1 DEF AnswersRight, MissingOnlyDeleted, GenuineAccepted,
         DeletedStaysClosed
  <1> QED
    BY <1>1, <1>2, <1>3, <1>4, <1>5, <1>6, <1>7, <1>8, <1>9, <1>10, <1>11, <1>12

\* A rotation finds the key gone.
LEMMA RotateGoneInv ==
    ASSUME IInv, NEW s \in Slot, RotateGone(s)
    PROVE  IInv'
  <1>1. pc[s] = "bump" /\ snap[s] # NoKey /\ snap[s].id \notin Live
        /\ Answer(s, "internal") /\ UNCHANGED tables
    BY DEF RotateGone, IInv, Placed
  <1> QED
    BY <1>1, AnswerInv

\* The row's lock is taken by one rotation at a time.
LEMMA RotateBumpInv ==
    ASSUME IInv, NEW s \in Slot, RotateBump(s)
    PROVE  IInv'
  <1> USE DEF IInv, call, tables
  <1>a. /\ pc[s] = "bump" /\ snap[s].id \in Live /\ lock[snap[s].id] = NoSlot
        /\ key[name[s]].latest < MaxVersion
        /\ lock' = [lock EXCEPT ![snap[s].id] = s]
        /\ pc' = [pc EXCEPT ![s] = "bumpCommit"]
        /\ UNCHANGED <<key, mat, nextId, nextMat, index, out, ep, name, arg, snap, res>>
    BY DEF RotateBump, Goto
  <1>b. snap[s] # NoKey /\ snap[s].id \in Ids
    BY <1>a, Owner DEF Placed
  <1>c. key[name[s]] # NoKey /\ key[name[s]].id = snap[s].id
    <2>1. PICK n \in Name : key[n] # NoKey /\ key[n].id = snap[s].id
      BY <1>a DEF Live
    <2> QED
      BY <1>b, <2>1, Owner
  <1>1. TypeOK'
    <2>1. /\ key' \in [Name -> Row \cup {NoKey}]
          /\ mat' \in [Ids -> [Versions -> Material \cup {NoMaterial}]]
          /\ nextId' \in 1..(MaxId + 1) /\ nextMat' \in Nat \ {0} /\ out' \subseteq Output
      BY <1>a, <1>b, <1>c, KeysAssumption DEF TypeOK
    <2>2. /\ index' \in [Name -> Slot \cup {NoSlot}]
          /\ lock' \in [Ids -> Slot \cup {NoSlot}]
          /\ pc' \in [Slot -> Pcs]
      BY <1>a, <1>b, <1>c, KeysAssumption DEF TypeOK, Pcs
    <2>3. /\ ep' \in [Slot -> Uses \cup Lifecycle]
          /\ name' \in [Slot -> Name]
          /\ arg' \in [Slot -> Output \cup {NoOutput}]
          /\ snap' \in [Slot -> Row \cup {NoKey}]
      BY <1>a, <1>b, <1>c, KeysAssumption DEF TypeOK
    <2>4. res' \in [Slot -> Reply]
      BY <1>a, <1>b, <1>c, KeysAssumption DEF TypeOK
    <2> QED
      BY <2>1, <2>2, <2>3, <2>4 DEF TypeOK
  <1>2. OneOwner'
    BY <1>a, <1>b, <1>c, KeysAssumption DEF TypeOK, OneOwner, Sighted
  <1>3. Complete'
    BY <1>a, <1>b, <1>c, KeysAssumption DEF TypeOK, Complete, Live
  <1>4. OneHome'
    BY <1>a, <1>b, <1>c, KeysAssumption DEF TypeOK, OneHome
  <1>5. Counted'
    BY <1>a, <1>b, <1>c, KeysAssumption DEF TypeOK, Counted
  <1>6. Openable'
    BY <1>a, <1>b, <1>c, KeysAssumption DEF TypeOK, Openable
  <1>7. NotAhead'
    BY <1>a, <1>b, <1>c, KeysAssumption DEF TypeOK, NotAhead
  <1>8. Presented'
    BY <1>a, <1>b, <1>c, KeysAssumption DEF TypeOK, Presented
  <1>9. Placed'
    BY <1>a, <1>b, <1>c, KeysAssumption DEF TypeOK, Placed
  <1>10. Locked'
    <2>1. \A i \in Ids : lock'[i] = IF i = snap[s].id THEN s ELSE lock[i]
      BY <1>a, <1>b DEF TypeOK
    <2>2. \A q \in Slot : pc'[q] = IF q = s THEN "bumpCommit" ELSE pc[q]
      BY <1>a DEF TypeOK
    <2>3. \A q \in Slot : q # s /\ pc[q] = "bumpCommit" => snap[q].id # snap[s].id
      BY <1>a, KeysAssumption DEF Locked
    <2>4. \A q \in Slot : pc[q] = "bumpCommit" => snap[q].id \in Ids
      BY Owner DEF Placed
    <2>5. \A i \in Ids, q \in Slot : lock'[i] = q => pc'[q] = "bumpCommit" /\ snap[q].id = i
      BY <1>a, <2>1, <2>2 DEF Locked
    <2>6. \A q \in Slot : pc'[q] = "bumpCommit" =>
              /\ lock'[snap[q].id] = q
              /\ key[name[q]] # NoKey /\ key[name[q]].id = snap[q].id
              /\ key[name[q]].latest < MaxVersion
      BY <1>a, <1>b, <1>c, <2>1, <2>2, <2>3, <2>4 DEF Locked
    <2>7. \A n \in Name, q \in Slot : index[n] = q <=> pc'[q] = "insertCommit" /\ name[q] = n
      BY <1>a, <2>2 DEF Locked
    <2> QED
      BY <1>a, <2>5, <2>6, <2>7 DEF Locked
  <1>11. Answered'
    BY <1>a, <1>b, <1>c, KeysAssumption DEF TypeOK, Answered
  <1>12. AnswersRight'
    BY <1>a, <1>b, <1>c, KeysAssumption DEF TypeOK, AnswersRight, MissingOnlyDeleted, GenuineAccepted, DeletedStaysClosed, Live
  <1> QED
    BY <1>1, <1>2, <1>3, <1>4, <1>5, <1>6, <1>7, <1>8, <1>9, <1>10, <1>11, <1>12

\* The new version follows the row's latest, which the lock has kept.
LEMMA RotateCommitInv ==
    ASSUME IInv, NEW s \in Slot, RotateCommit(s)
    PROVE  IInv'
  <1> USE DEF IInv, call, tables
  <1> DEFINE n0 == name[s]
             i0 == snap[s].id
             v0 == key[n0].latest + 1
  <1>a. /\ pc[s] = "bumpCommit" /\ nextMat <= MaxGenerated
        /\ key' = [key EXCEPT ![n0].latest = v0]
        /\ mat' = [mat EXCEPT ![i0][v0] = nextMat]
        /\ nextMat' = nextMat + 1
        /\ lock' = [lock EXCEPT ![i0] = NoSlot]
        /\ pc' = [pc EXCEPT ![s] = "reread"]
        /\ UNCHANGED <<nextId, index, out, ep, name, arg, snap, res>>
    BY DEF RotateCommit, Goto
  <1>b. /\ n0 \in Name /\ i0 \in Ids /\ snap[s] # NoKey
        /\ key[n0] # NoKey /\ key[n0] \in Row /\ key[n0].id = i0 /\ key[n0].latest < MaxVersion
    BY <1>a, Owner DEF TypeOK, Locked, Placed
  <1>c. v0 \in Versions /\ key[n0].latest \in Nat /\ key[n0].latest < v0
    BY <1>b, KeysAssumption, FieldFacts DEF Versions
  <1>d. \A v \in Versions : v <= v0 <=> v <= key[n0].latest \/ v = v0
    <2>1. \A v \in Versions : v \in Nat
      BY DEF Versions
    <2>2. v0 = key[n0].latest + 1 /\ key[n0].latest \in Nat
      BY <1>c
    <2> QED
      BY <2>1, <2>2
  <1>e. /\ key'[n0] = [key[n0] EXCEPT !.latest = v0]
        /\ \A n \in Name : n # n0 => key'[n] = key[n]
    BY <1>a, <1>b DEF TypeOK
  <1> HIDE DEF v0, i0
  <1>f. /\ key'[n0] \in Row /\ key'[n0] # NoKey
        /\ key'[n0].id = i0 /\ key'[n0].latest = v0 /\ key'[n0].type = key[n0].type
    BY <1>b, <1>c, <1>e, NullsAssumption DEF Row
  <1> HIDE DEF n0
  <1>g. \A i \in Ids, v \in Versions :
            mat'[i][v] = IF i = i0 /\ v = v0 THEN nextMat ELSE mat[i][v]
    BY <1>a, <1>b, <1>c DEF TypeOK
  <1>h. nextMat \in Generated /\ nextMat \in Material /\ nextMat # NoMaterial /\ nextMat \in Nat
    BY <1>a, KeysAssumption, NullsAssumption DEF TypeOK, Generated, Material
  <1>i. \A n \in Name : /\ key'[n] # NoKey <=> key[n] # NoKey
                        /\ key[n] # NoKey => key'[n].id = key[n].id /\ key'[n].type = key[n].type
                                             /\ key[n].latest <= key'[n].latest
    <2>1. \A n \in Name : key[n] # NoKey => key[n].latest \in Nat
      BY Owner, FieldFacts
    <2>2. key[n0].latest <= v0
      BY <1>c, FieldFacts
    <2>3. \A n \in Name : key[n] # NoKey => key[n].latest <= key[n].latest
      BY <2>1
    <2> HIDE DEF Ids, Row
    <2> QED
      BY <1>b, <1>e, <1>f, <2>2, <2>3
  <1>j. Live' = Live
    BY <1>i DEF Live
  <1>k. \A n \in Name : key[n] # NoKey /\ n # n0 => key[n].id # i0
    BY <1>b, Owner
  <1>1. TypeOK'
    <2>1. /\ key' \in [Name -> Row \cup {NoKey}]
          /\ mat' \in [Ids -> [Versions -> Material \cup {NoMaterial}]]
          /\ nextId' \in 1..(MaxId + 1) /\ nextMat' \in Nat \ {0} /\ out' \subseteq Output
      <3>1. key' \in [Name -> Row \cup {NoKey}]
        BY <1>a, <1>e, <1>f DEF TypeOK
      <3>2. mat' \in [Ids -> [Versions -> Material \cup {NoMaterial}]]
        BY <1>a, <1>b, <1>c, <1>h DEF TypeOK
      <3> QED
        BY <1>a, <1>h, <3>1, <3>2 DEF TypeOK
    <2>2. /\ index' \in [Name -> Slot \cup {NoSlot}]
          /\ lock' \in [Ids -> Slot \cup {NoSlot}]
          /\ pc' \in [Slot -> Pcs]
      BY <1>a DEF TypeOK, Pcs
    <2>3. /\ ep' \in [Slot -> Uses \cup Lifecycle]
          /\ name' \in [Slot -> Name]
          /\ arg' \in [Slot -> Output \cup {NoOutput}]
          /\ snap' \in [Slot -> Row \cup {NoKey}]
      BY <1>a DEF TypeOK
    <2>4. res' \in [Slot -> Reply]
      BY <1>a DEF TypeOK
    <2> QED
      BY <2>1, <2>2, <2>3, <2>4 DEF TypeOK
  <1>2. OneOwner'
    <2>1. ASSUME NEW i \in Ids, NEW n \in Name, NEW u \in KeyTypes, Sighted(i, n, u)'
          PROVE  Sighted(i, n, u)
      BY <1>a, <1>i, <2>1 DEF Sighted
    <2> QED
      BY <1>a, <2>1 DEF OneOwner
  <1>3. Complete'
    <2>1. ASSUME NEW n \in Name, NEW v \in Versions, key'[n] # NoKey
          PROVE  mat'[key'[n].id][v] # NoMaterial <=> v <= key'[n].latest
      <3>1. CASE n = n0
        <4>1. mat[i0][v] # NoMaterial <=> v <= key[n0].latest
          BY <1>b DEF Complete
        <4>2. mat'[i0][v] = IF v = v0 THEN nextMat ELSE mat[i0][v]
          BY <1>b, <1>g
        <4> QED
          BY <1>d, <1>f, <1>h, <3>1, <4>1, <4>2
      <3>2. CASE n # n0
        <4>1. key'[n] = key[n] /\ key[n].id \in Ids /\ key[n].id # i0
          BY <1>e, <1>k, <2>1, <3>2, Owner
        <4> QED
          BY <1>g, <2>1, <4>1 DEF Complete
      <3> QED
        BY <3>1, <3>2
    <2>2. ASSUME NEW i \in Ids, NEW v \in Versions, mat'[i][v] # NoMaterial
          PROVE  i \in Live'
      <3>1. i0 \in Live
        BY <1>b DEF Live
      <3> QED
        BY <1>g, <1>j, <2>2, <3>1 DEF Complete
    <2> QED
      BY <2>1, <2>2 DEF Complete
  <1>4. OneHome'
    <2> SUFFICES ASSUME NEW i \in Ids, NEW j \in Ids, NEW v \in Versions, NEW w \in Versions,
                        mat'[i][v] = mat'[j][w], mat'[i][v] \in Generated
                 PROVE  i = j
      BY DEF OneHome
    <2>1. \A k \in Ids, u \in Versions : mat[k][u] \in Generated => mat[k][u] # nextMat
      BY <1>h DEF Counted, Generated
    <2> QED
      BY <1>g, <1>h, <2>1 DEF OneHome
  <1>5. Counted'
    <2>1. ASSUME NEW i \in Ids, NEW v \in Versions, mat'[i][v] \in Generated
          PROVE  mat'[i][v] < nextMat'
      BY <1>a, <1>g, <1>h, <2>1 DEF Counted, Generated
    <2>2. ASSUME NEW o \in out, o.mat \in Generated PROVE o.mat < nextMat' /\ o.mat # nextMat
      BY <1>a, <1>h, <2>2 DEF Counted, Generated
    <2>3. ASSUME NEW o \in out, o.mat \in Generated, NEW j \in Ids, NEW v \in Versions,
                 mat'[j][v] = o.mat
          PROVE  j = o.id
      BY <1>g, <2>2, <2>3 DEF Counted
    <2> QED
      BY <1>a, <2>1, <2>2, <2>3 DEF Counted
  <1>6. Openable'
    <2>1. ASSUME NEW o \in out, NEW n \in Name, key'[n] # NoKey, key'[n].id = o.id
          PROVE  o.v <= key'[n].latest /\ mat'[o.id][o.v] = o.mat
      <3>1. o.id \in Ids /\ o.v \in Versions /\ key[n] # NoKey /\ key[n].id = o.id
        BY <1>i, <2>1, Owner, FieldFacts DEF TypeOK
      <3>2. o.v <= key[n].latest /\ mat[o.id][o.v] = o.mat
        BY <3>1 DEF Openable
      <3>3. CASE n = n0
        <4>1. o.v # v0 /\ o.v <= v0
          <5>1. o.v <= key[n0].latest /\ o.v \in Nat /\ v0 \in Nat
            BY <1>c, <3>1, <3>2, <3>3, FieldFacts
          <5> QED
            BY <1>c, <5>1
        <4> QED
          BY <1>f, <1>g, <3>1, <3>2, <3>3, <4>1
      <3>4. CASE n # n0
        BY <1>e, <1>g, <1>k, <3>1, <3>2, <3>4
      <3> QED
        BY <3>3, <3>4
    <2> QED
      BY <1>a, <2>1 DEF Openable
  <1>7. NotAhead'
    <2> SUFFICES ASSUME NEW q \in Slot, NEW n \in Name, snap[q] # NoKey,
                        key'[n] # NoKey, key'[n].id = snap[q].id
                 PROVE  snap[q].latest <= key'[n].latest
      BY <1>a DEF NotAhead
    <2>1. key[n] # NoKey /\ key[n].id = snap[q].id /\ key[n].latest <= key'[n].latest
      BY <1>i
    <2>2. snap[q].latest <= key[n].latest
      BY <2>1 DEF NotAhead
    <2>3. snap[q].latest \in Nat /\ key[n].latest \in Nat /\ key'[n].latest \in Nat
      BY <1>c, <1>e, <1>f, <2>1, Owner, FieldFacts
    <2> QED
      BY <2>1, <2>2, <2>3
  <1>8. Presented'
    BY <1>a DEF TypeOK, Presented
  <1>9. Placed'
    BY <1>a DEF TypeOK, Placed
  <1>10. Locked'
    <2>1. \A q \in Slot : pc'[q] = IF q = s THEN "reread" ELSE pc[q]
      BY <1>a DEF TypeOK
    <2>2. \A i \in Ids : lock'[i] = IF i = i0 THEN NoSlot ELSE lock[i]
      BY <1>a, <1>b DEF TypeOK
    <2>3. \A n \in Name, q \in Slot : index[n] = q <=> pc'[q] = "insertCommit" /\ name[q] = n
      BY <1>a, <2>1 DEF Locked
    <2>4. \A n \in Name : index[n] # NoSlot => key'[n] = NoKey
      BY <1>i DEF Locked
    <2>5. \A i \in Ids, q \in Slot : lock'[i] = q => pc'[q] = "bumpCommit" /\ snap[q].id = i
      BY <1>a, <2>1, <2>2, KeysAssumption DEF Locked, i0
    <2>6. ASSUME NEW q \in Slot, pc'[q] = "bumpCommit"
          PROVE  /\ lock'[snap[q].id] = q
                 /\ key'[name[q]] # NoKey /\ key'[name[q]].id = snap[q].id
                 /\ key'[name[q]].latest < MaxVersion
      <3>1. /\ q # s /\ pc[q] = "bumpCommit" /\ lock[snap[q].id] = q /\ lock[i0] = s
            /\ name[q] \in Name /\ key[name[q]] # NoKey /\ key[name[q]].id = snap[q].id
            /\ key[name[q]].latest < MaxVersion
        BY <1>a, <2>1, <2>6 DEF TypeOK, Locked, i0
      <3>2. snap[q].id # i0 /\ name[q] # n0 /\ snap[q].id \in Ids
        BY <1>b, <3>1, Owner
      <3> QED
        BY <1>e, <2>2, <3>1, <3>2
    <2> QED
      BY <1>a, <2>3, <2>4, <2>5, <2>6 DEF Locked
  <1>11. Answered'
    BY <1>a DEF TypeOK, Answered
  <1>12. AnswersRight'
    BY <1>a, <1>j DEF AnswersRight, MissingOnlyDeleted, GenuineAccepted,
       DeletedStaysClosed
  <1> QED
    BY <1>1, <1>2, <1>3, <1>4, <1>5, <1>6, <1>7, <1>8, <1>9, <1>10, <1>11, <1>12

\* The row of the id goes with all its versions; a row of a later key stays.
LEMMA DeleteInv ==
    ASSUME IInv, NEW s \in Slot, Delete(s)
    PROVE  IInv'
  <1> USE DEF IInv, call, tables
  <1> DEFINE i0 == snap[s].id
  <1>a. /\ pc[s] = "remove" /\ lock[i0] = NoSlot
        /\ key' = IF i0 \in Live THEN [key EXCEPT ![name[s]] = NoKey] ELSE key
        /\ mat' = [mat EXCEPT ![i0] = NoVersions]
        /\ Answer(s, "ok")
        /\ UNCHANGED <<nextId, nextMat, index, lock, out>>
    BY DEF Delete
  <1>b. snap[s] # NoKey /\ i0 \in Ids /\ i0 < nextId
    BY <1>a, Owner DEF Placed
  <1>c. /\ pc' = [pc EXCEPT ![s] = "idle"] /\ ep' = [ep EXCEPT ![s] = Encrypt]
        /\ name' = [name EXCEPT ![s] = AnyName] /\ arg' = [arg EXCEPT ![s] = NoOutput]
        /\ snap' = [snap EXCEPT ![s] = NoKey]
    BY <1>a DEF Answer, End, Goto
  <1>d. \A n \in Name : key'[n] = IF key[n] # NoKey /\ key[n].id = i0 THEN NoKey ELSE key[n]
    <2>1. CASE i0 \in Live
      <3>1. PICK m \in Name : key[m] # NoKey /\ key[m].id = i0
        BY <2>1 DEF Live
      <3>2. m = name[s]
        BY <1>b, <3>1, Owner
      <3> HIDE DEF i0
      <3>3. \A n \in Name : n # m => ~(key[n] # NoKey /\ key[n].id = i0)
        BY <3>1, Owner
      <3>4. key' = [key EXCEPT ![m] = NoKey]
        BY <1>a, <2>1, <3>2
      <3> QED
        BY <3>1, <3>3, <3>4 DEF TypeOK
    <2>2. CASE i0 \notin Live
      BY <1>a, <2>2 DEF Live
    <2> QED
      BY <2>1, <2>2
  <1> HIDE DEF i0
  <1>e. \A i \in Ids, v \in Versions :
            mat'[i][v] = IF i = i0 THEN NoMaterial ELSE mat[i][v]
    BY <1>a, <1>b DEF TypeOK, NoVersions
  <1>f. \A i : i \in Live' <=> i \in Live /\ i # i0
    <2>1. \A i : i \in Live' <=> \E n \in Name : key'[n] # NoKey /\ key'[n].id = i
      BY DEF Live
    <2>2. \A i : i \in Live <=> \E n \in Name : key[n] # NoKey /\ key[n].id = i
      BY DEF Live
    <2> QED
      BY <1>d, <2>1, <2>2
  <1>g. arg[s] = NoOutput
    BY <1>a, EndpointFacts DEF TypeOK, Placed, Presented
  <1> DEFINE r == [code |-> "ok", id |-> i0, given |-> arg[s]]
  <1>h. res' = [res EXCEPT ![s] = r]
    BY <1>a DEF Answer, i0
  <1>i. r \in Reply /\ r.code = "ok" /\ r.id = i0 /\ r.given = NoOutput
    BY <1>b, <1>g DEF Reply
  <1> HIDE DEF r
  <1>j. \A q \in Slot : res'[q] = IF q = s THEN r ELSE res[q]
    BY <1>h DEF TypeOK
  <1>k. \A n \in Name : key'[n] # NoKey => key'[n] = key[n] /\ key[n].id # i0
    BY <1>d
  <1>l. \A q \in Slot : /\ q # s => pc'[q] = pc[q] /\ name'[q] = name[q] /\ snap'[q] = snap[q]
                        /\ pc'[s] = "idle" /\ snap'[s] = NoKey
    BY <1>c DEF TypeOK
  <1>1. TypeOK'
    <2>1. /\ key' \in [Name -> Row \cup {NoKey}]
          /\ mat' \in [Ids -> [Versions -> Material \cup {NoMaterial}]]
          /\ nextId' \in 1..(MaxId + 1) /\ nextMat' \in Nat \ {0} /\ out' \subseteq Output
      <3>1. key' \in [Name -> Row \cup {NoKey}]
        BY <1>a DEF TypeOK
      <3>2. mat' \in [Ids -> [Versions -> Material \cup {NoMaterial}]]
        BY <1>a, <1>b DEF TypeOK, NoVersions
      <3> QED
        BY <1>a, <3>1, <3>2 DEF TypeOK
    <2>2. /\ index' \in [Name -> Slot \cup {NoSlot}]
          /\ lock' \in [Ids -> Slot \cup {NoSlot}]
          /\ pc' \in [Slot -> Pcs]
      BY <1>a, <1>c, EncryptFacts DEF TypeOK, Pcs
    <2>3. /\ ep' \in [Slot -> Uses \cup Lifecycle]
          /\ name' \in [Slot -> Name]
          /\ arg' \in [Slot -> Output \cup {NoOutput}]
          /\ snap' \in [Slot -> Row \cup {NoKey}]
      BY <1>a, <1>c, EncryptFacts DEF TypeOK
    <2>4. res' \in [Slot -> Reply]
      BY <1>h, <1>i DEF TypeOK
    <2> QED
      BY <2>1, <2>2, <2>3, <2>4 DEF TypeOK
  <1>2. OneOwner'
    <2>1. ASSUME NEW i \in Ids, NEW n \in Name, NEW u \in KeyTypes, Sighted(i, n, u)'
          PROVE  Sighted(i, n, u)
      BY <1>a, <1>k, <1>l, <2>1 DEF Sighted
    <2> QED
      BY <1>a, <2>1 DEF OneOwner
  <1>3. Complete'
    <2>1. ASSUME NEW n \in Name, NEW v \in Versions, key'[n] # NoKey
          PROVE  mat'[key'[n].id][v] # NoMaterial <=> v <= key'[n].latest
      BY <1>e, <1>k, <2>1, Owner DEF Complete
    <2>2. ASSUME NEW i \in Ids, NEW v \in Versions, mat'[i][v] # NoMaterial
          PROVE  i \in Live'
      BY <1>e, <1>f, <2>2 DEF Complete
    <2> QED
      BY <2>1, <2>2 DEF Complete
  <1>4. OneHome'
    BY <1>e, NullsAssumption DEF OneHome, Material
  <1>5. Counted'
    BY <1>a, <1>e, NullsAssumption DEF Counted, Material
  <1>6. Openable'
    <2>1. ASSUME NEW o \in out, NEW n \in Name, key'[n] # NoKey, key'[n].id = o.id
          PROVE  o.v <= key'[n].latest /\ mat'[o.id][o.v] = o.mat
      <3>1. o.id \in Ids /\ o.v \in Versions
        BY FieldFacts DEF TypeOK
      <3> QED
        BY <1>e, <1>k, <2>1, <3>1 DEF Openable
    <2> QED
      BY <1>a, <2>1 DEF Openable
  <1>7. NotAhead'
    BY <1>k, <1>l DEF NotAhead
  <1>8. Presented'
    BY <1>a, <1>c, EncryptFacts DEF TypeOK, Presented
  <1>9. Placed'
    BY <1>a, <1>c, EncryptFacts DEF TypeOK, Placed
  <1>10. Locked'
    <2>1. \A n \in Name, q \in Slot :
              index[n] = q <=> pc'[q] = "insertCommit" /\ name'[q] = n
      BY <1>a, <1>l DEF Locked
    <2>2. \A n \in Name : index[n] # NoSlot => key'[n] = NoKey
      BY <1>d DEF Locked
    <2>3. \A i \in Ids, q \in Slot : lock[i] = q => pc'[q] = "bumpCommit" /\ snap'[q].id = i
      BY <1>a, <1>l DEF Locked
    <2>4. ASSUME NEW q \in Slot, pc'[q] = "bumpCommit"
          PROVE  /\ lock[snap'[q].id] = q
                 /\ key'[name'[q]] # NoKey /\ key'[name'[q]].id = snap'[q].id
                 /\ key'[name'[q]].latest < MaxVersion
      <3>1. /\ q # s /\ pc[q] = "bumpCommit" /\ name'[q] = name[q] /\ snap'[q] = snap[q]
            /\ name[q] \in Name /\ lock[snap[q].id] = q
            /\ key[name[q]] # NoKey /\ key[name[q]].id = snap[q].id
            /\ key[name[q]].latest < MaxVersion
        BY <1>l, <2>4 DEF TypeOK, Locked
      <3>2. snap[q].id # i0
        BY <1>a, <3>1, KeysAssumption DEF i0
      <3> QED
        BY <1>d, <3>1, <3>2
    <2> QED
      BY <1>a, <2>1, <2>2, <2>3, <2>4 DEF Locked
  <1>11. Answered'
    BY <1>a, <1>b, <1>i, <1>j DEF Answered
  <1>12. AnswersRight'
    BY <1>f, <1>i, <1>j DEF AnswersRight, MissingOnlyDeleted, GenuineAccepted,
       DeletedStaysClosed
  <1> QED
    BY <1>1, <1>2, <1>3, <1>4, <1>5, <1>6, <1>7, <1>8, <1>9, <1>10, <1>11, <1>12

\* A request finds the material of its key gone.
LEMMA MakeFailsInv ==
    ASSUME IInv, NEW s \in Slot, Make(s), Loaded(snap[s], snap[s].latest) = NoMaterial
    PROVE  IInv'
  <1>1. pc[s] = "load" /\ Answer(s, "internal") /\ UNCHANGED tables
    BY DEF Make, tables
  <1>2. snap[s] # NoKey /\ snap[s] \in Row
    BY <1>1, Owner DEF IInv, Placed
  <1>3. ASSUME snap[s].id \in Live PROVE FALSE
    <2>1. PICK n \in Name : key[n] # NoKey /\ key[n].id = snap[s].id
      BY <1>3 DEF Live
    <2>2. snap[s].latest <= key[n].latest /\ snap[s].latest \in Versions
      BY <1>2, <2>1, FieldFacts DEF IInv, NotAhead
    <2> QED
      BY <2>1, <2>2 DEF IInv, Complete, Loaded
  <1> QED
    BY <1>1, <1>2, <1>3, AnswerInv

\* Decryption and verification by the version an output carries.
LEMMA TakeInv ==
    ASSUME IInv, NEW s \in Slot, Take(s)
    PROVE  IInv'
  <1> DEFINE r == snap[s]
             o == arg[s]
             m == Loaded(r, o.v)
             c == IF ~KidFits(s) THEN "invalid"
                  ELSE IF ~KnownVersion(r, o.v) THEN "unknown_version"
                  ELSE IF m = NoMaterial THEN "internal"
                  ELSE IF Opens(o, r, m) THEN "ok" ELSE "invalid"
  <1>1. pc[s] = "load" /\ ep[s].takes # "nothing" /\ Answer(s, c) /\ UNCHANGED tables
    BY DEF Take
  <1>2. /\ r # NoKey /\ r \in Row /\ r.id \in Ids /\ r.latest \in Nat
        /\ o # NoOutput /\ o \in out /\ o \in Output /\ o.id \in Ids /\ o.v \in Versions
        /\ o.v \in Nat /\ 1 <= o.v /\ o.mat \in Material
    BY <1>1, Owner, FieldFacts DEF IInv, TypeOK, Placed, Presented, Versions
  <1>3. c \in {"ok", "unknown_version", "invalid", "internal"}
    OBVIOUS
  <1>4. ASSUME NEW n \in Name, key[n] # NoKey, key[n].id = r.id, o.v <= r.latest
        PROVE  m # NoMaterial
    <2>1. r.latest <= key[n].latest /\ key[n].latest \in Nat
      BY <1>2, <1>4, Owner, FieldFacts DEF IInv, NotAhead
    <2>2. o.v <= key[n].latest
      BY <1>2, <1>4, <2>1
    <2> QED
      BY <1>2, <1>4, <2>2 DEF IInv, Complete, Loaded
  <1>5. c = "internal" => r.id \notin Live
    BY <1>2, <1>4 DEF KnownVersion, Live
  <1>6. ASSUME o.id = r.id PROVE c \in {"ok", "internal"}
    <2>1. KidFits(s) /\ o.type = r.type
      BY <1>2, <1>6, Owner DEF KidFits
    <2>2. KnownVersion(r, o.v)
      BY <1>2, <1>6 DEF IInv, Presented, KnownVersion
    <2>3. ASSUME m # NoMaterial PROVE o.mat = m
      <3>1. PICK n \in Name : key[n] # NoKey /\ key[n].id = r.id
        BY <1>2, <2>3 DEF IInv, Complete, Loaded, Live
      <3> QED
        BY <1>2, <1>6, <3>1 DEF IInv, Openable, Loaded
    <2> QED
      BY <2>1, <2>2, <2>3 DEF Opens
  <1>7. ASSUME c = "ok", o.id # r.id PROVE o.mat \in Imported
    <2>1. o.mat = mat[r.id][o.v]
      BY <1>7 DEF Opens, Loaded
    <2> QED
      BY <1>2, <1>7, <2>1 DEF IInv, Counted, Material
  <1> HIDE DEF c
  <1> QED
    BY <1>1, <1>2, <1>3, <1>5, <1>6, <1>7, AnswerInv

\* What is made carries the version and the material of the key that was found.
LEMMA MakesInv ==
    ASSUME IInv, NEW s \in Slot, Make(s),
           Loaded(snap[s], snap[s].latest) # NoMaterial
    PROVE  IInv'
  <1> USE DEF IInv, call, tables
  <1> DEFINE r == snap[s]
             m == mat[r.id][r.latest]
             o == [kind |-> ep[s].makes, name |-> name[s], id |-> r.id, v |-> r.latest,
                   mat |-> m, type |-> r.type]
             a == [code |-> "ok", id |-> r.id, given |-> arg[s]]
  <1>a. /\ pc[s] = "load" /\ ep[s].makes # "nothing" /\ m # NoMaterial
        /\ out' = out \cup {o}
        /\ Answer(s, "ok")
        /\ UNCHANGED <<key, mat, nextId, nextMat, index, lock>>
    BY DEF Make, Loaded
  <1>b. /\ r # NoKey /\ r \in Row /\ r.id \in Ids /\ r.id < nextId /\ r.latest \in Versions
        /\ r.type \in KeyTypes /\ name[s] \in Name /\ m \in Material
    BY <1>a, Owner, FieldFacts DEF TypeOK, Placed
  <1>c. /\ pc' = [pc EXCEPT ![s] = "idle"] /\ ep' = [ep EXCEPT ![s] = Encrypt]
        /\ name' = [name EXCEPT ![s] = AnyName] /\ arg' = [arg EXCEPT ![s] = NoOutput]
        /\ snap' = [snap EXCEPT ![s] = NoKey] /\ res' = [res EXCEPT ![s] = a]
    BY <1>a DEF Answer, End, Goto
  <1>d. arg[s] = NoOutput /\ ep[s].makes \in {"versioned", "token"}
    BY <1>a, EndpointFacts DEF TypeOK, Presented
  <1>e. /\ o \in Output /\ o.id = r.id /\ o.v = r.latest /\ o.mat = m
        /\ o.name = name[s] /\ o.type = r.type
    BY <1>b, <1>d DEF Output
  <1>f. a \in Reply /\ a.code = "ok" /\ a.id = r.id /\ a.given = NoOutput
    BY <1>b, <1>d DEF Reply
  <1> HIDE DEF m, o, a
  <1>g. \A q \in Slot : res'[q] = IF q = s THEN a ELSE res[q]
    BY <1>c DEF TypeOK
  <1>h. Live' = Live
    BY <1>a DEF Live
  <1>l. \A q \in Slot : /\ q # s => pc'[q] = pc[q] /\ name'[q] = name[q] /\ snap'[q] = snap[q]
                        /\ pc'[s] = "idle" /\ snap'[s] = NoKey
    BY <1>c DEF TypeOK
  <1>1. TypeOK'
    <2>1. /\ key' \in [Name -> Row \cup {NoKey}]
          /\ mat' \in [Ids -> [Versions -> Material \cup {NoMaterial}]]
          /\ nextId' \in 1..(MaxId + 1) /\ nextMat' \in Nat \ {0} /\ out' \subseteq Output
      BY <1>a, <1>e DEF TypeOK
    <2>2. /\ index' \in [Name -> Slot \cup {NoSlot}]
          /\ lock' \in [Ids -> Slot \cup {NoSlot}]
          /\ pc' \in [Slot -> Pcs]
      BY <1>a, <1>c, EncryptFacts DEF TypeOK, Pcs
    <2>3. /\ ep' \in [Slot -> Uses \cup Lifecycle]
          /\ name' \in [Slot -> Name]
          /\ arg' \in [Slot -> Output \cup {NoOutput}]
          /\ snap' \in [Slot -> Row \cup {NoKey}]
      BY <1>a, <1>c, EncryptFacts DEF TypeOK
    <2>4. res' \in [Slot -> Reply]
      BY <1>c, <1>f DEF TypeOK
    <2> QED
      BY <2>1, <2>2, <2>3, <2>4 DEF TypeOK
  <1>2. OneOwner'
    <2>1. ASSUME NEW i \in Ids, NEW n \in Name, NEW u \in KeyTypes, Sighted(i, n, u)'
          PROVE  Sighted(i, n, u)
      BY <1>a, <1>b, <1>e, <1>l, <2>1 DEF Sighted
    <2> QED
      BY <1>a, <2>1 DEF OneOwner
  <1>3. Complete'
    BY <1>a, <1>c, EncryptFacts DEF TypeOK, Complete, Live
  <1>4. OneHome'
    BY <1>a, <1>c, EncryptFacts DEF TypeOK, OneHome
  <1>5. Counted'
    <2>1. ASSUME m \in Generated, NEW j \in Ids, NEW v \in Versions, mat[j][v] = m
          PROVE  j = r.id
      BY <1>b, <2>1 DEF OneHome, m
    <2>2. m \in Generated => m < nextMat
      BY <1>b DEF Counted, m
    <2> QED
      BY <1>a, <1>e, <2>1, <2>2 DEF Counted
  <1>6. Openable'
    <2>1. ASSUME NEW n \in Name, key[n] # NoKey, key[n].id = r.id
          PROVE  r.latest <= key[n].latest /\ mat[r.id][r.latest] = m
      BY <1>b, <2>1 DEF NotAhead, m
    <2> QED
      BY <1>a, <1>e, <2>1 DEF Openable
  <1>7. NotAhead'
    BY <1>a, <1>l DEF NotAhead
  <1>8. Presented'
    BY <1>a, <1>c, EncryptFacts DEF TypeOK, Presented
  <1>9. Placed'
    BY <1>a, <1>c, EncryptFacts DEF TypeOK, Placed
  <1>10. Locked'
    BY <1>a, <1>c, EncryptFacts DEF TypeOK, Locked
  <1>11. Answered'
    BY <1>a, <1>b, <1>f, <1>g DEF Answered
  <1>12. AnswersRight'
    BY <1>f, <1>g, <1>h DEF AnswersRight, MissingOnlyDeleted, GenuineAccepted,
       DeletedStaysClosed
  <1> QED
    BY <1>1, <1>2, <1>3, <1>4, <1>5, <1>6, <1>7, <1>8, <1>9, <1>10, <1>11, <1>12

\* A handler that is dropped gives up the locks of its transaction.
LEMMA DropInv ==
    ASSUME IInv, NEW s \in Slot, Drop(s)
    PROVE  IInv'
  <1> USE DEF IInv, Drop, End, Finish, Answer, Goto, tables, call
  <1>1. TypeOK'
    <2>1. /\ key' \in [Name -> Row \cup {NoKey}]
          /\ mat' \in [Ids -> [Versions -> Material \cup {NoMaterial}]]
          /\ nextId' \in 1..(MaxId + 1) /\ nextMat' \in Nat \ {0} /\ out' \subseteq Output
      BY KeysAssumption, NullsAssumption, EncryptFacts, FieldFacts DEF TypeOK
    <2>2. /\ index' \in [Name -> Slot \cup {NoSlot}]
          /\ lock' \in [Ids -> Slot \cup {NoSlot}]
          /\ pc' \in [Slot -> Pcs]
      BY KeysAssumption, NullsAssumption, EncryptFacts, FieldFacts DEF TypeOK, Pcs
    <2>3. /\ ep' \in [Slot -> Uses \cup Lifecycle]
          /\ name' \in [Slot -> Name]
          /\ arg' \in [Slot -> Output \cup {NoOutput}]
          /\ snap' \in [Slot -> Row \cup {NoKey}]
      BY KeysAssumption, NullsAssumption, EncryptFacts, FieldFacts DEF TypeOK
    <2>4. res' \in [Slot -> Reply]
      BY KeysAssumption, NullsAssumption, EncryptFacts, FieldFacts DEF TypeOK
    <2> QED
      BY <2>1, <2>2, <2>3, <2>4 DEF TypeOK
  <1>2. OneOwner'
    BY KeysAssumption, NullsAssumption, EncryptFacts, FieldFacts DEF TypeOK, OneOwner, Sighted
  <1>3. Complete'
    BY KeysAssumption, NullsAssumption, EncryptFacts, FieldFacts DEF TypeOK, Complete, Live
  <1>4. OneHome'
    BY KeysAssumption, NullsAssumption, EncryptFacts, FieldFacts DEF TypeOK, OneHome
  <1>5. Counted'
    BY KeysAssumption, NullsAssumption, EncryptFacts, FieldFacts DEF TypeOK, Counted
  <1>6. Openable'
    BY KeysAssumption, NullsAssumption, EncryptFacts, FieldFacts DEF TypeOK, Openable
  <1>7. NotAhead'
    BY KeysAssumption, NullsAssumption, EncryptFacts, FieldFacts DEF TypeOK, NotAhead
  <1>8. Presented'
    BY KeysAssumption, NullsAssumption, EncryptFacts, FieldFacts DEF TypeOK, Presented
  <1>9. Placed'
    BY KeysAssumption, NullsAssumption, EncryptFacts, FieldFacts DEF TypeOK, Placed
  <1>10. Locked'
    BY KeysAssumption, NullsAssumption, EncryptFacts, FieldFacts DEF TypeOK, Locked
  <1>11. Answered'
    BY KeysAssumption, NullsAssumption, EncryptFacts, FieldFacts DEF TypeOK, Answered
  <1>12. AnswersRight'
    BY KeysAssumption, NullsAssumption, EncryptFacts, FieldFacts DEF TypeOK, AnswersRight, MissingOnlyDeleted, GenuineAccepted, DeletedStaysClosed, Live
  <1> QED
    BY <1>1, <1>2, <1>3, <1>4, <1>5, <1>6, <1>7, <1>8, <1>9, <1>10, <1>11, <1>12

-----------------------------------------------------------------------------
(* The invariant *)

\* No keys, no requests.
LEMMA InitIInv == Init => IInv
  <1> SUFFICES ASSUME Init PROVE IInv
    OBVIOUS
  <1> USE DEF Init
  <1>1. TypeOK
    <2>1. /\ key \in [Name -> Row \cup {NoKey}]
          /\ mat \in [Ids -> [Versions -> Material \cup {NoMaterial}]]
          /\ nextId \in 1..(MaxId + 1) /\ nextMat \in Nat \ {0} /\ out \subseteq Output
      BY KeysAssumption DEF NoVersions
    <2>2. /\ index \in [Name -> Slot \cup {NoSlot}]
          /\ lock \in [Ids -> Slot \cup {NoSlot}]
          /\ pc \in [Slot -> Pcs]
      BY DEF Pcs
    <2>3. /\ ep \in [Slot -> Uses \cup Lifecycle]
          /\ name \in [Slot -> Name]
          /\ arg \in [Slot -> Output \cup {NoOutput}]
          /\ snap \in [Slot -> Row \cup {NoKey}]
          /\ res \in [Slot -> Reply]
      BY EncryptFacts, FieldFacts
    <2> QED
      BY <2>1, <2>2, <2>3 DEF TypeOK
  <1>2. OneOwner /\ NotAhead /\ Openable
    BY DEF OneOwner, Sighted, NotAhead, Openable
  <1>3. \A i \in Ids, v \in Versions : mat[i][v] = NoMaterial
    BY DEF NoVersions
  <1>4. Complete /\ OneHome /\ Counted
    BY <1>3, NullsAssumption DEF Complete, OneHome, Counted, Material
  <1>5. Presented /\ Placed /\ Locked
    BY KeysAssumption, EncryptFacts DEF Presented, Placed, Locked
  <1>6. Answered /\ AnswersRight
    BY FieldFacts DEF Answered, AnswersRight, MissingOnlyDeleted, GenuineAccepted,
       DeletedStaysClosed
  <1> QED
    BY <1>1, <1>2, <1>4, <1>5, <1>6 DEF IInv

\* Every step of every handler keeps the invariant.
LEMMA NextIInv == IInv /\ [Next]_vars => IInv'
  <1> SUFFICES ASSUME IInv, [Next]_vars PROVE IInv'
    OBVIOUS
  <1>1. ASSUME NEW s \in Slot, FindKey(s) PROVE IInv'
    <2>1. CASE (key[name[s]] = NoKey) <=> (ep[s].op = "create")
      BY <1>1, <2>1, FindFoundInv
    <2>2. CASE ~((key[name[s]] = NoKey) <=> (ep[s].op = "create"))
      <3>1. pc[s] = "find" /\ Finish(s) /\ UNCHANGED tables
        BY <1>1, <2>2 DEF FindKey
      <3> QED
        BY <3>1, FinishInv
    <2> QED
      BY <2>1, <2>2
  <1>2. ASSUME NEW s \in Slot,
               GateRefuses(s) \/ MfaRefuses(s) \/ CreateConflict(s) \/ Reread(s)
        PROVE  IInv'
    <2>1. pc[s] \in {"gate", "insert", "reread"} /\ Finish(s) /\ UNCHANGED tables
      BY <1>2 DEF GateRefuses, MfaRefuses, CreateConflict, Reread
    <2> QED
      BY <2>1, FinishInv
  <1>3. ASSUME NEW s \in Slot, Make(s) PROVE IInv'
    BY <1>3, MakeFailsInv, MakesInv
  <1>4. CASE UNCHANGED vars
    BY <1>4 DEF vars, IInv, TypeOK, OneOwner, Sighted, Complete, OneHome, Counted, Openable,
       NotAhead, Presented, Placed, Locked, Answered, AnswersRight, MissingOnlyDeleted,
       GenuineAccepted, DeletedStaysClosed, Live
  <1>5. ASSUME NEW s \in Slot, Request(s) \/ Step(s) \/ Drop(s) PROVE IInv'
    BY <1>1, <1>2, <1>3, <1>5, RequestInv, GatePassesInv, CreateInsertInv, CreateCommitInv,
       RotateGoneInv, RotateBumpInv, RotateCommitInv, DeleteInv, TakeInv, DropInv DEF Step
  <1> QED
    BY <1>4, <1>5 DEF Next

\* IInv holds in every reachable state.
THEOREM Invariance == Spec => []IInv
  BY InitIInv, NextIInv, PTL DEF Spec

\* Whatever a key that still exists has handed out can be opened with the
\* version it carries, however often it was rotated since.
THEOREM OutputSafety == Spec => []OutputsOpen
  <1>1. IInv => OutputsOpen
    BY DEF IInv, OutputsOpen, Openable
  <1> QED
    BY <1>1, Invariance, PTL

\* An answer is right although it was given from the copy that find_key made:
\* no spurious 500, nothing genuine turned away, no deleted key revived.
THEOREM AnswerSafety == Spec => []AnswersRight
  <1>1. IInv => AnswersRight
    BY DEF IInv
  <1> QED
    BY <1>1, Invariance, PTL

-----------------------------------------------------------------------------
(* What a step does to the rows *)

\* A step that is not the commit of a creation, of a rotation or of a deletion
\* leaves the keys and their versions alone.
LEMMA OnlyCommits ==
    ASSUME Next, key' # key \/ mat' # mat \/ nextMat' # nextMat
    PROVE  \E s \in Slot : CreateCommit(s) \/ RotateCommit(s) \/ Delete(s)
  BY DEF Next, Step, Request, FindKey, GateRefuses, MfaRefuses, GatePasses, CreateConflict,
     CreateInsert, Reread, RotateGone, RotateBump, Make, Take, Drop, tables

\* What a deletion removes is the key that it found, if it is still there.
LEMMA DeleteEffect ==
    ASSUME IInv, NEW s \in Slot, Delete(s)
    PROVE  /\ snap[s] # NoKey /\ snap[s].id \in Ids /\ name[s] \in Name
           /\ nextMat' = nextMat /\ mat' = [mat EXCEPT ![snap[s].id] = NoVersions]
           /\ \/ key' = key /\ \A n \in Name : key[n] # NoKey => key[n].id # snap[s].id
              \/ /\ key' = [key EXCEPT ![name[s]] = NoKey]
                 /\ key[name[s]] # NoKey /\ key[name[s]].id = snap[s].id
  <1>1. /\ pc[s] = "remove" /\ nextMat' = nextMat
        /\ key' = IF snap[s].id \in Live THEN [key EXCEPT ![name[s]] = NoKey] ELSE key
        /\ mat' = [mat EXCEPT ![snap[s].id] = NoVersions]
    BY DEF Delete
  <1>2. snap[s] # NoKey /\ snap[s].id \in Ids /\ name[s] \in Name
    BY <1>1, Owner DEF IInv, TypeOK, Placed
  <1>3. CASE snap[s].id \in Live
    <2>1. PICK m \in Name : key[m] # NoKey /\ key[m].id = snap[s].id
      BY <1>3 DEF Live
    <2>2. m = name[s]
      BY <1>2, <2>1, Owner
    <2> QED
      BY <1>1, <1>2, <1>3, <2>1, <2>2
  <1>4. CASE snap[s].id \notin Live
    BY <1>1, <1>2, <1>4 DEF Live
  <1> QED
    BY <1>3, <1>4

\* A creation commits under a name that has no key.
LEMMA CreateEffect ==
    ASSUME IInv, NEW s \in Slot, CreateCommit(s)
    PROVE  /\ name[s] \in Name /\ key[name[s]] = NoKey /\ nextId \in Ids
           /\ nextMat \in Generated
           /\ \E t \in Types, m \in Imported \cup {nextMat}, f \in MfaFlags :
                 /\ key' = [key EXCEPT ![name[s]] =
                               [id |-> nextId, type |-> t, latest |-> 1, mfa |-> f]]
                 /\ mat' = [mat EXCEPT ![nextId][1] = m]
                 /\ nextMat' = IF m \in Imported THEN nextMat ELSE nextMat + 1
  <1>1. pc[s] = "insertCommit" /\ nextId <= MaxId /\ nextMat <= MaxGenerated
    BY DEF CreateCommit
  <1>2. name[s] \in Name /\ nextId \in Ids /\ nextMat \in Generated
    BY <1>1, KeysAssumption DEF IInv, TypeOK, Ids, Generated
  <1>3. key[name[s]] = NoKey
    BY <1>1, <1>2, KeysAssumption DEF IInv, Locked
  <1>4. \E t \in Types, m \in Imported \cup {nextMat}, f \in MfaFlags :
                 /\ key' = [key EXCEPT ![name[s]] =
                               [id |-> nextId, type |-> t, latest |-> 1, mfa |-> f]]
                 /\ mat' = [mat EXCEPT ![nextId][1] = m]
                 /\ nextMat' = IF m \in Imported THEN nextMat ELSE nextMat + 1
    BY Zenon DEF CreateCommit
  <1> QED
    BY <1>2, <1>3, <1>4

\* A rotation commits on the row it had locked, which is that of the key found.
LEMMA RotateEffect ==
    ASSUME IInv, NEW s \in Slot, RotateCommit(s)
    PROVE  /\ name[s] \in Name /\ snap[s].id \in Ids
           /\ key[name[s]] # NoKey /\ key[name[s]] \in Row /\ key[name[s]].id = snap[s].id
           /\ key[name[s]].latest + 1 \in Versions /\ nextMat \in Generated
           /\ key' = [key EXCEPT ![name[s]].latest = key[name[s]].latest + 1]
           /\ mat' = [mat EXCEPT ![snap[s].id][key[name[s]].latest + 1] = nextMat]
           /\ nextMat' = nextMat + 1
  <1>1. /\ pc[s] = "bumpCommit" /\ nextMat <= MaxGenerated
        /\ key' = [key EXCEPT ![name[s]].latest = key[name[s]].latest + 1]
        /\ mat' = [mat EXCEPT ![snap[s].id][key[name[s]].latest + 1] = nextMat]
        /\ nextMat' = nextMat + 1
    BY DEF RotateCommit
  <1>2. /\ name[s] \in Name /\ key[name[s]] # NoKey /\ key[name[s]].id = snap[s].id
        /\ key[name[s]].latest < MaxVersion
    BY <1>1 DEF IInv, TypeOK, Locked
  <1>3. key[name[s]] \in Row /\ snap[s].id \in Ids
    BY <1>2, Owner
  <1>4. key[name[s]].latest + 1 \in Versions
    BY <1>2, <1>3, KeysAssumption DEF Row, Versions
  <1>5. nextMat \in Generated
    BY <1>1, KeysAssumption DEF IInv, TypeOK, Generated
  <1> QED
    BY <1>1, <1>2, <1>3, <1>4, <1>5

\* A row changes only by a request that had found that very key: a rotation
\* or deletion that was overtaken by another deletion and creation of the name
\* does not touch the new key.
THEOREM RowSafety == Spec => ActsOnSeen
  <1> DEFINE Acts == \A n \in Name :
                key[n] # NoKey /\ key'[n] # key[n] =>
                   \E s \in Slot : pc[s] \in {"bumpCommit", "remove"} /\ pc'[s] # pc[s]
                                   /\ snap[s].id = key[n].id
  <1>1. ASSUME IInv, [Next]_vars PROVE Acts \/ UNCHANGED vars
    <2> SUFFICES ASSUME Next, NEW n \in Name, key[n] # NoKey, key'[n] # key[n]
                 PROVE  \E s \in Slot : pc[s] \in {"bumpCommit", "remove"} /\ pc'[s] # pc[s]
                                        /\ snap[s].id = key[n].id
      BY <1>1
    <2>1. PICK s \in Slot : CreateCommit(s) \/ RotateCommit(s) \/ Delete(s)
      BY OnlyCommits
    <2>2. key \in [Name -> Row \cup {NoKey}] /\ pc \in [Slot -> Pcs]
      BY <1>1 DEF IInv, TypeOK
    <2>3. CASE CreateCommit(s)
      BY <1>1, <2>2, <2>3, CreateEffect
    <2>4. CASE RotateCommit(s)
      <3>1. n = name[s]
        BY <1>1, <2>2, <2>4, RotateEffect
      <3>2. pc[s] = "bumpCommit" /\ pc' = [pc EXCEPT ![s] = "reread"]
        BY <2>4 DEF RotateCommit, Goto
      <3> QED
        BY <1>1, <2>2, <2>4, <3>1, <3>2, RotateEffect
    <2>5. CASE Delete(s)
      <3>1. n = name[s] /\ key[n].id = snap[s].id
        BY <1>1, <2>2, <2>5, DeleteEffect
      <3>2. pc[s] = "remove" /\ pc' = [pc EXCEPT ![s] = "idle"]
        BY <2>5 DEF Delete, Answer, End, Goto
      <3> QED
        BY <2>2, <3>1, <3>2
    <2> QED
      BY <2>1, <2>3, <2>4, <2>5
  <1> QED
    BY <1>1, Invariance, PTL DEF Spec, ActsOnSeen

-----------------------------------------------------------------------------
(* The refinement of KeyRing *)

\* One more element at the end of a sequence.
LEMMA AppendIs ==
    ASSUME NEW M, NEW l \in Nat, NEW s \in Seq(M), Len(s) = l, NEW t \in Seq(M),
           Len(t) = l + 1, \A v \in 1..l : t[v] = s[v]
    PROVE  t = Append(s, t[l + 1])
  OBVIOUS

\* The materials of a name are a sequence, empty when it has no key.
LEMMA MaterialsFacts ==
    ASSUME IInv, NEW n \in Name
    PROVE  /\ key[n] = NoKey => Materials(n) = <<>>
           /\ key[n] # NoKey =>
                /\ Materials(n) \in Seq(Material) /\ Materials(n) # <<>>
                /\ Len(Materials(n)) = key[n].latest
                /\ \A v \in 1..key[n].latest : Materials(n)[v] = mat[key[n].id][v]
  <1>1. CASE key[n] = NoKey
    BY <1>1 DEF Materials
  <1>2. CASE key[n] # NoKey
    <2>1. key[n].id \in Ids /\ key[n].latest \in Nat /\ 1 <= key[n].latest
          /\ 1..key[n].latest \subseteq Versions
      BY <1>2, Owner, FieldFacts, KeysAssumption DEF Versions
    <2>2. \A v \in 1..key[n].latest : mat[key[n].id][v] \in Material
      <3> SUFFICES ASSUME NEW v \in 1..key[n].latest PROVE mat[key[n].id][v] \in Material
        OBVIOUS
      <3>1. v \in Versions /\ v <= key[n].latest
        BY <2>1
      <3> QED
        BY <1>2, <2>1, <3>1 DEF IInv, TypeOK, Complete
    <2>3. Materials(n) = [v \in 1..key[n].latest |-> mat[key[n].id][v]]
      BY <1>2 DEF Materials
    <2> QED
      BY <1>2, <2>1, <2>2, <2>3
  <1> QED
    BY <1>1, <1>2

\* No keys are an empty ring.
LEMMA RingInit == Init => Ring!Init
  BY DEF Init, Ring!Init, Materials

\* A name whose row and versions stay as they are keeps its materials.
LEMMA SameMaterials ==
    ASSUME NEW n \in Name, key'[n] = key[n], key[n] # NoKey => mat'[key[n].id] = mat[key[n].id]
    PROVE  Materials(n)' = Materials(n)
  BY DEF Materials

\* A creation puts one material under a name that had none.
LEMMA RingCreate ==
    ASSUME IInv, IInv', NEW s \in Slot, CreateCommit(s)
    PROVE  Ring!Next
  <1>0. PICK n0 \in Name : n0 = name[s]
    BY CreateEffect
  <1>1. n0 \in Name /\ key[n0] = NoKey /\ nextId \in Ids /\ nextMat \in Generated
    BY <1>0, CreateEffect
  <1>2. PICK t \in Types, m \in Imported \cup {nextMat}, f \in MfaFlags :
            /\ key' = [key EXCEPT ![n0] =
                          [id |-> nextId, type |-> t, latest |-> 1, mfa |-> f]]
            /\ mat' = [mat EXCEPT ![nextId][1] = m]
            /\ nextMat' = IF m \in Imported THEN nextMat ELSE nextMat + 1
    BY <1>0, CreateEffect, Zenon
  <1>3. /\ key'[n0] = [id |-> nextId, type |-> t, latest |-> 1, mfa |-> f]
        /\ \A n \in Name : n # n0 => key'[n] = key[n]
        /\ mat'[nextId][1] = m /\ \A i \in Ids : i # nextId => mat'[i] = mat[i]
    BY <1>1, <1>2, KeysAssumption DEF IInv, TypeOK, Versions
  <1>4. key'[n0].id = nextId /\ key'[n0].latest = 1 /\ key'[n0] # NoKey
    <2>1. [id |-> nextId, type |-> t, latest |-> 1, mfa |-> f] \in Row
      BY <1>1, KeysAssumption DEF Row, Versions
    <2> QED
      BY <1>3, <2>1, NullsAssumption
  <1>5. ASSUME NEW n \in Name, n # n0 PROVE Materials(n)' = Materials(n)
    <2>1. key[n] # NoKey => key[n].id \in Ids /\ key[n].id # nextId
      BY Owner, FieldFacts, <1>1
    <2> QED
      BY <1>3, <1>5, <2>1, SameMaterials
  <1>6. Materials(n0)' = <<m>>
    <2>1. Materials(n0)' = [v \in 1..1 |-> mat'[nextId][v]]
      BY <1>4 DEF Materials
    <2> QED
      BY <1>3, <2>1
  <1>7. Materials(n0) = <<>>
    BY <1>1 DEF Materials
  <1>8. m \in Material /\ (m \in Imported \/ m \notin 1..(nextMat - 1))
    BY <1>1 DEF Material, Generated
  <1>9. 1..(nextMat' - 1) = IF m \in Imported THEN 1..(nextMat - 1)
                            ELSE 1..(nextMat - 1) \cup {m}
    <2>1. nextMat \in Nat /\ 1 <= nextMat
      BY <1>1, KeysAssumption DEF Generated
    <2>2. CASE m \in Imported
      BY <1>2, <2>2
    <2>3. CASE m \notin Imported
      <3>1. m = nextMat /\ nextMat' = nextMat + 1
        BY <1>2, <2>3
      <3>2. \A x : x \in 1..nextMat <=> x \in 1..(nextMat - 1) \/ x = nextMat
        BY <2>1
      <3>3. nextMat' - 1 = nextMat
        BY <2>1, <3>1
      <3> QED
        BY <2>3, <3>1, <3>2, <3>3
    <2> QED
      BY <2>2, <2>3
  <1>10. [n \in Name |-> Materials(n)]'
         = [[n \in Name |-> Materials(n)] EXCEPT ![n0] = <<m>>]
    BY <1>1, <1>5, <1>6
  <1>11. Ring!Create(n0, m)
    BY <1>1, <1>7, <1>8, <1>9, <1>10 DEF Ring!Create
  <1> QED
    BY <1>1, <1>8, <1>11 DEF Ring!Next

\* A rotation appends one new material.
LEMMA RingRotate ==
    ASSUME IInv, IInv', NEW s \in Slot, RotateCommit(s)
    PROVE  Ring!Next
  <1>0. PICK n0 \in Name, i0 \in Ids, l \in {key[name[s]].latest} :
            n0 = name[s] /\ i0 = snap[s].id /\ l = key[n0].latest
    BY RotateEffect
  <1>1. /\ n0 \in Name /\ i0 \in Ids /\ key[n0] # NoKey /\ key[n0] \in Row /\ key[n0].id = i0
        /\ l + 1 \in Versions /\ nextMat \in Generated
        /\ key' = [key EXCEPT ![n0].latest = l + 1]
        /\ mat' = [mat EXCEPT ![i0][l + 1] = nextMat]
        /\ nextMat' = nextMat + 1
    BY <1>0, RotateEffect
  <1>2. l \in Nat /\ l \in Versions
    BY <1>0, <1>1, FieldFacts
  <1>3. /\ key'[n0] = [key[n0] EXCEPT !.latest = l + 1]
        /\ \A n \in Name : n # n0 => key'[n] = key[n]
        /\ \A i \in Ids : i # i0 => mat'[i] = mat[i]
        /\ mat'[i0][l + 1] = nextMat /\ \A v \in Versions : v # l + 1 => mat'[i0][v] = mat[i0][v]
    BY <1>0, <1>1 DEF IInv, TypeOK
  <1>4. key'[n0].id = i0 /\ key'[n0].latest = l + 1 /\ key'[n0] # NoKey
    BY <1>1, <1>3, NullsAssumption DEF Row
  <1>5. ASSUME NEW n \in Name, n # n0 PROVE Materials(n)' = Materials(n)
    <2>1. key[n] # NoKey => key[n].id \in Ids /\ key[n].id # i0
      BY <1>1, <1>5, Owner
    <2> QED
      BY <1>3, <1>5, <2>1, SameMaterials
  <1>6. /\ Materials(n0) \in Seq(Material) /\ Materials(n0) # <<>> /\ Len(Materials(n0)) = l
        /\ \A v \in 1..l : Materials(n0)[v] = mat[i0][v]
    BY <1>1, <1>0, MaterialsFacts
  <1>7. /\ Materials(n0)' \in Seq(Material) /\ Len(Materials(n0)') = l + 1
        /\ \A v \in 1..(l + 1) : Materials(n0)'[v] = mat'[i0][v]
    <2>1. Materials(n0)' = [v \in 1..(l + 1) |-> mat'[i0][v]]
      BY <1>4 DEF Materials
    <2>2. \A v \in 1..(l + 1) : mat'[i0][v] \in Material
      <3> SUFFICES ASSUME NEW v \in 1..(l + 1) PROVE mat'[i0][v] \in Material
        OBVIOUS
      <3>1. v \in Versions
        BY <1>1, <1>2, KeysAssumption DEF Versions
      <3>2. mat'[i0][v] # NoMaterial
        BY <1>1, <1>2, <1>4, <3>1 DEF IInv, Complete
      <3> QED
        BY <1>1, <3>1, <3>2 DEF IInv, TypeOK
    <2> QED
      BY <1>2, <2>1, <2>2
  <1>8. Materials(n0)' = Append(Materials(n0), nextMat)
    <2>1. \A v \in 1..l : Materials(n0)'[v] = Materials(n0)[v]
      <3> SUFFICES ASSUME NEW v \in 1..l PROVE Materials(n0)'[v] = Materials(n0)[v]
        OBVIOUS
      <3>1. v \in Versions /\ v # l + 1 /\ v \in 1..(l + 1)
        BY <1>1, <1>2, KeysAssumption DEF Versions
      <3> QED
        BY <1>3, <1>6, <1>7, <3>1
    <2>2. Materials(n0)'[l + 1] = nextMat
      BY <1>2, <1>3, <1>7
    <2> QED
      BY <1>2, <1>6, <1>7, <2>1, <2>2, AppendIs
  <1>9. nextMat \in Material /\ nextMat \notin 1..(nextMat - 1) \cup Imported
    BY <1>1, KeysAssumption DEF Material, Generated
  <1>10. 1..(nextMat' - 1) = 1..(nextMat - 1) \cup {nextMat}
    BY <1>1, KeysAssumption DEF Generated
  <1>11. [n \in Name |-> Materials(n)]'
         = [[n \in Name |-> Materials(n)] EXCEPT ![n0] = Append(@, nextMat)]
    BY <1>1, <1>5, <1>8
  <1>12. Ring!Rotate(n0, nextMat)
    BY <1>1, <1>6, <1>9, <1>10, <1>11 DEF Ring!Rotate
  <1> QED
    BY <1>1, <1>9, <1>12 DEF Ring!Next

\* A deletion destroys the key, or finds it destroyed.
LEMMA RingDelete ==
    ASSUME IInv, IInv', NEW s \in Slot, Delete(s)
    PROVE  Ring!Next \/ UNCHANGED Ring!vars
  <1>0. PICK n0 \in Name, i0 \in Ids : n0 = name[s] /\ i0 = snap[s].id
    BY DeleteEffect
  <1>1. n0 \in Name /\ i0 \in Ids /\ nextMat' = nextMat /\ \A i \in Ids : i # i0 => mat'[i] = mat[i]
    BY <1>0, DeleteEffect DEF IInv, TypeOK
  <1>2. CASE key' = key /\ \A n \in Name : key[n] # NoKey => key[n].id # i0
    <2>1. \A n \in Name : Materials(n)' = Materials(n)
      BY <1>1, <1>2, Owner, SameMaterials
    <2> QED
      BY <1>1, <2>1 DEF Ring!vars
  <1>3. CASE key' = [key EXCEPT ![n0] = NoKey] /\ key[n0] # NoKey /\ key[n0].id = i0
    <2>1. key'[n0] = NoKey /\ \A n \in Name : n # n0 => key'[n] = key[n]
      BY <1>1, <1>3 DEF IInv, TypeOK
    <2>2. ASSUME NEW n \in Name, n # n0 PROVE Materials(n)' = Materials(n)
      <3>1. key[n] # NoKey => key[n].id \in Ids /\ key[n].id # i0
        BY <1>1, <1>3, <2>2, Owner
      <3> QED
        BY <1>1, <2>1, <2>2, <3>1, SameMaterials
    <2>3. Materials(n0)' = <<>> /\ Materials(n0) # <<>>
      BY <1>1, <1>3, <2>1, MaterialsFacts DEF Materials
    <2>4. [n \in Name |-> Materials(n)]'
          = [[n \in Name |-> Materials(n)] EXCEPT ![n0] = <<>>]
      BY <1>1, <2>2, <2>3
    <2>5. Ring!Destroy(n0)
      BY <1>1, <2>3, <2>4 DEF Ring!Destroy
    <2> QED
      BY <1>1, <2>5 DEF Ring!Next
  <1> QED
    BY <1>0, <1>2, <1>3, DeleteEffect

\* The handlers implement KeyRing: seen from outside, a key is created,
\* rotated and destroyed in single steps that skip, replace and share nothing.
THEOREM Refinement == Spec => RefinesKeyRing
  <1>1. ASSUME IInv, IInv', [Next]_vars PROVE [Ring!Next]_(Ring!vars)
    <2>1. CASE key' = key /\ mat' = mat /\ nextMat' = nextMat
      <3>1. \A n \in Name : Materials(n)' = Materials(n)
        BY <2>1, SameMaterials
      <3> QED
        BY <2>1, <3>1 DEF Ring!vars
    <2>2. CASE ~(key' = key /\ mat' = mat /\ nextMat' = nextMat)
      <3>1. Next
        BY <1>1, <2>2 DEF vars
      <3>2. PICK s \in Slot : CreateCommit(s) \/ RotateCommit(s) \/ Delete(s)
        BY <2>2, <3>1, OnlyCommits
      <3> QED
        BY <1>1, <3>2, RingCreate, RingRotate, RingDelete
    <2> QED
      BY <2>1, <2>2
  <1> QED
    BY <1>1, RingInit, Invariance, PTL DEF Spec, RefinesKeyRing, Ring!Spec
=============================================================================
