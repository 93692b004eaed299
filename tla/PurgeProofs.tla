---------------------------- MODULE PurgeProofs -----------------------------
(***************************************************************************)
(* Proofs of what a scan does to the rows of its mirror, for any number of  *)
(* scans, hashers and clean-ups that delete rows and let them be created    *)
(* again under other ids meanwhile: a purge is left with files the listing  *)
(* did not have (PurgeSparesListed); and, where no two scans share a mirror, *)
(* a partial scan is sound and a completed one exact.                       *)
(***************************************************************************)
EXTENDS ScanProofs

-----------------------------------------------------------------------------
(* The inductive invariant: what a scan's memory says of the table.        *)

\* The file of an open transaction is the one recorded row of its path.
Unseen(p) ==
  \A i \in files_in_db[p] \cap Live(filearr) :
    filearr[i].path = txn[p].path => i = txn[p].id

\* A listed file that is still recorded as not seen will be looked up.
ToBeSeen(p) ==
  \A i \in files_in_db[p] \cap Live(filearr) :
    filearr[i].path \in listing[p] => filearr[i].path \in todo[p]

\* The ids of the rows being inserted, and those to come, are not recorded.
OldIds(p) ==
  /\ \A i \in files_in_db[p] : i < nextId
  /\ \A q \in Session : Locked(q) /\ Inserts(q) => txn[q].id \notin files_in_db[p]

MemoryInv(p) ==
  /\ OldIds(p)
  /\ pc[p] \notin {"adding", "purging"} => Idle(p)
  /\ pc[p] = "purging" => todo[p] = {}
  /\ pc[p] \in {"adding", "purging"} => ToBeSeen(p)
  /\ pc[p] = "adding" /\ ~Idle(p) => Unseen(p)

ScanInv == \A p \in Scanner : MemoryInv(p)

-----------------------------------------------------------------------------
(* What any step does to the ids and to the sessions that do not take it.  *)

\* A row is there because it was there, or because an INSERT commits.
LEMMA RowsComeFrom ==
  ASSUME CatalogInv, [Next]_vars, NEW i \in Live(filearr)'
  PROVE  \/ i \in Live(filearr) /\ filearr'[i].path = filearr[i].path
         \/ \E q \in Session : Locked(q) /\ Inserts(q) /\ txn[q].id = i
<1>1. Scanner \subseteq Session /\ Hasher \subseteq Session /\ filearr \in Table
  BY DEF Session, CatalogInv, TypeOK
<1>2. CASE filearr'[i] = filearr[i]
  BY <1>2 DEF Live
<1>3. ASSUME NEW s \in Session, Commit(s), filearr'[i] # filearr[i]
      PROVE  \/ i \in Live(filearr) /\ filearr'[i].path = filearr[i].path
             \/ Locked(s) /\ Inserts(s) /\ txn[s].id = i
  BY <1>1, <1>3, CommitFacts, NoRowAssumption DEF Table, Live
<1>4. ASSUME NEW p \in Scanner, Start(p) \/ ScanStep(p) \/ Kill(p),
             ~(AddCommit(p) \/ DelCommit(p))
      PROVE  filearr' = filearr
  BY <1>4 DEF Start, ScanStep, Kill, GetListing, OnlyList, DryLookup, AddBegin,
              Write, EndAdding, DelBegin, EndPurge, ScanError, RowsUnchanged, catalog
<1>5. ASSUME NEW h \in Hasher, HashBegin(h) \/ HashStep(h), ~HashCommit(h)
      PROVE  filearr' = filearr
  BY <1>5 DEF HashBegin, HashStep, Write, HashError, catalog
<1>6. CleanBegin \/ UNCHANGED vars => filearr' = filearr
  BY DEF CleanBegin, catalog, vars
<1>7. CleanCommit => filearr'[i] = filearr[i]
  BY DEF CleanCommit, Deleted, Live
<1> QED
  BY <1>1, <1>2, <1>3, <1>4, <1>5, <1>6, <1>7
     DEF Next, AddCommit, DelCommit, HashCommit

\* A session's transaction as the steps of others leave it.
SameTxn(q) ==
  /\ txn'[q].step = txn[q].step /\ txn'[q].op = txn[q].op
  /\ txn'[q].path = txn[q].path /\ txn'[q].id = txn[q].id
  /\ txn'[q].base = txn[q].base

LEMMA SameTxnFacts ==
  ASSUME NEW q \in Session, SameTxn(q)
  PROVE  /\ Inserts(q)' <=> Inserts(q)
         /\ Locked(q)' <=> Locked(q)
         /\ Idle(q)' <=> Idle(q)
  BY DEF SameTxn, Inserts, Locked, Idle

\* A session other than the one that takes the step keeps its transaction, and
\* the one that takes it changes to an idle, a new or a locked one.
LEMMA TxnSteps ==
  ASSUME CatalogInv, [Next]_vars
  PROVE  /\ nextId <= nextId'
         /\ \A q \in Session :
              \/ SameTxn(q)
              \/ ~Locked(q)'
              \/ Inserts(q)' /\ txn'[q].id = nextId
              \/ ~Inserts(q)'
         /\ \A p \in Scanner :
              \/ Start(p) \/ ScanStep(p) \/ Kill(p)
              \/ /\ SameTxn(p)
                 /\ pc'[p] = pc[p] /\ listing'[p] = listing[p]
                 /\ todo'[p] = todo[p] /\ files_in_db'[p] = files_in_db[p]
<1> DEFINE Own(s) ==
      /\ nextId <= nextId'
      /\ \/ ~Locked(s)'
         \/ Inserts(s)' /\ txn'[s].id = nextId
         \/ ~Inserts(s)'
         \/ SameTxn(s)
      /\ \A q \in Session \ {s} : SameTxn(q)
<1>1. /\ Scanner \subseteq Session /\ Hasher \subseteq Session
      /\ txn \in [Session -> Txn] /\ nextId \in Nat
      /\ pc \in [Scanner -> ScanPc] /\ listing \in [Scanner -> SUBSET Path]
      /\ todo \in [Scanner -> SUBSET Path]
      /\ files_in_db \in [Scanner -> SUBSET FileId]
  BY DEF Session, CatalogInv, TypeOK
<1>2. ASSUME NEW s \in Session, NEW op, NEW path, NEW id,
             BeginTxn(s, op, path, id), UNCHANGED nextId
      PROVE  Own(s)
  <2>1. txn'[s].step = "snapshot"
    BY <1>1, <1>2 DEF BeginTxn
  <2> QED
    BY <1>1, <1>2, <2>1 DEF BeginTxn, Locked, SameTxn
<1>3. ASSUME NEW s \in Session, Write(s) PROVE Own(s)
  <2>1. /\ nextId <= nextId'
        /\ \A q \in Session \ {s} : SameTxn(q)
    BY <1>1, <1>3 DEF Write, SameTxn
  <2>2. CASE txn' = [txn EXCEPT ![s].step = "locked"] /\ ~Inserts(s)
    <3>1. /\ txn'[s].op = txn[s].op /\ txn'[s].base = txn[s].base
      BY <1>1, <2>2 DEF Txn
    <3> QED
      BY <2>1, <2>2, <3>1 DEF Inserts
  <2>3. CASE /\ txn' = [txn EXCEPT ![s].step = "locked", ![s].id = nextId]
             /\ Inserts(s)
    <3>1. /\ txn'[s].op = txn[s].op /\ txn'[s].base = txn[s].base
          /\ txn'[s].id = nextId
      BY <1>1, <2>3 DEF Txn
    <3> QED
      BY <2>1, <2>3, <3>1 DEF Inserts
  <2>4. Updates(s) \/ References(s) => ~Inserts(s)
    BY DEF Updates, References, Inserts
  <2> QED
    BY <1>3, <2>2, <2>3, <2>4 DEF Write
<1>4. ASSUME NEW s \in Session, Commit(s), UNCHANGED nextId PROVE Own(s)
  <2>1. \E ids : txn' = AfterChange(s, ids)
    BY <1>4 DEF Commit
  <2>2. /\ txn'[s] = NoTxn
        /\ \A q \in Session \ {s} :
             txn'[q] = txn[q] \/ txn'[q] = [txn[q] EXCEPT !.overtaken = TRUE]
    BY <2>1 DEF AfterChange
  <2>3. ASSUME NEW q \in Session \ {s} PROVE SameTxn(q)
    <3>1. CASE txn'[q] = txn[q]
      BY <3>1 DEF SameTxn
    <3>2. CASE txn'[q] = [txn[q] EXCEPT !.overtaken = TRUE]
      BY <1>1, <3>2 DEF SameTxn, Txn
    <3> QED
      BY <2>2, <3>1, <3>2
  <2> QED
    BY <1>1, <1>4, <2>2, <2>3 DEF NoTxn, Locked
<1>5. ASSUME NEW s \in Session, Rollback(s), UNCHANGED nextId PROVE Own(s)
  BY <1>1, <1>5 DEF Rollback, NoTxn, SameTxn, Locked
<1>6. ASSUME UNCHANGED <<txn, nextId>> PROVE \A s \in Session : Own(s)
  BY <1>1, <1>6 DEF SameTxn
<1>7. ASSUME NEW s \in Session,
             \/ s \in Scanner /\ (Start(s) \/ ScanStep(s) \/ Kill(s))
             \/ s \in Hasher /\ (HashBegin(s) \/ HashStep(s))
      PROVE  Own(s)
  <2> HIDE DEF Own
  <2>1. CASE s \in Scanner /\ (Start(s) \/ GetListing(s) \/ OnlyList(s)
                               \/ DryLookup(s) \/ EndAdding(s) \/ EndPurge(s))
    BY <1>6, <2>1 DEF Start, GetListing, OnlyList, DryLookup, EndAdding,
                      EndPurge, RowsUnchanged, catalog
  <2>2. CASE s \in Scanner /\ (AddBegin(s) \/ DelBegin(s))
    BY <1>2, <2>2 DEF AddBegin, DelBegin, catalog
  <2>3. CASE s \in Hasher /\ HashBegin(s)
    BY <1>2, <2>3 DEF HashBegin, catalog
  <2>4. CASE Write(s)
    BY <1>3, <2>4
  <2>5. CASE AddCommit(s) \/ DelCommit(s) \/ HashCommit(s)
    BY <1>4, <2>5 DEF AddCommit, DelCommit, HashCommit
  <2>6. CASE ScanError(s) \/ Kill(s) \/ HashError(s)
    BY <1>5, <2>6 DEF ScanError, Kill, HashError, catalog
  <2> QED
    BY <1>7, <2>1, <2>2, <2>3, <2>4, <2>5, <2>6 DEF ScanStep, HashStep
<1>8. ASSUME NEW p \in Scanner, NEW s \in Scanner \ {p},
             Start(s) \/ ScanStep(s) \/ Kill(s)
      PROVE  /\ pc'[p] = pc[p] /\ listing'[p] = listing[p]
             /\ todo'[p] = todo[p] /\ files_in_db'[p] = files_in_db[p]
  BY <1>1, <1>8 DEF Start, ScanStep, Kill, GetListing, OnlyList, DryLookup,
                    AddBegin, Write, AddCommit, EndAdding, DelBegin, DelCommit,
                    EndPurge, ScanError, Exit, Seen, scans
<1>9. CASE CleanBegin \/ CleanCommit \/ UNCHANGED vars
  <2>1. UNCHANGED <<scans, nextId>> /\ \A q \in Session : SameTxn(q)
    BY <1>1, <1>9 DEF CleanBegin, CleanCommit, SameTxn, Txn, catalog, vars
  <2> QED
    BY <1>1, <2>1 DEF scans
<1>10. ASSUME NEW s \in Scanner, Start(s) \/ ScanStep(s) \/ Kill(s)
       PROVE  Own(s) /\ s \in Session
  BY <1>1, <1>7, <1>10
<1>11. ASSUME NEW h \in Hasher, HashBegin(h) \/ HashStep(h)
       PROVE  /\ Own(h) /\ h \in Session /\ h \notin Scanner
              /\ UNCHANGED scans
  BY <1>1, <1>7, <1>11, ScanAssumption
     DEF HashBegin, HashStep, Write, HashCommit, HashError
<1> QED
  BY <1>1, <1>8, <1>9, <1>10, <1>11 DEF Next, scans

-----------------------------------------------------------------------------
(* The steps of one scan keep its memory sound.                            *)

\* Forgetting files never hurts, whoever takes the step.
LEMMA OldIdsStep ==
  ASSUME CatalogInv, [Next]_vars, NEW p \in Scanner, OldIds(p),
         files_in_db'[p] \subseteq files_in_db[p]
  PROVE  /\ OldIds(p)'
         /\ \A i \in files_in_db'[p] \cap Live(filearr)' :
              i \in Live(filearr) /\ filearr'[i].path = filearr[i].path
<1>1. /\ nextId \in Nat /\ nextId' \in Nat /\ files_in_db[p] \subseteq FileId
      /\ FileId \subseteq Nat
  BY StepCatalogInv, IdAssumption DEF CatalogInv, TypeOK
<1>2. \A i \in files_in_db'[p] : i < nextId'
  <2>1. nextId <= nextId'
    BY TxnSteps
  <2>2. ASSUME NEW i \in files_in_db'[p] PROVE i < nextId'
    <3>1. i \in Nat /\ i < nextId
      BY <1>1, <2>2 DEF OldIds
    <3> QED
      BY <1>1, <2>1, <3>1
  <2> QED
    BY <2>2
<1>3. ASSUME NEW q \in Session, Locked(q)', Inserts(q)'
      PROVE  txn'[q].id \notin files_in_db'[p]
  <2>1. CASE SameTxn(q)
    BY <1>3, <2>1, SameTxnFacts DEF OldIds, SameTxn
  <2>2. CASE txn'[q].id = nextId
    BY <1>1, <2>2 DEF OldIds
  <2> QED
    BY <1>3, <2>1, <2>2, TxnSteps
<1> QED
  BY <1>2, <1>3, RowsComeFrom DEF OldIds

\* Steps of others.
LEMMA MemoryFrame ==
  ASSUME CatalogInv, [Next]_vars, NEW p \in Scanner, MemoryInv(p), SameTxn(p),
         pc'[p] = pc[p], listing'[p] = listing[p],
         todo'[p] = todo[p], files_in_db'[p] = files_in_db[p]
  PROVE  MemoryInv(p)'
<1>1. /\ OldIds(p)'
      /\ \A i \in files_in_db'[p] \cap Live(filearr)' :
           i \in Live(filearr) /\ filearr'[i].path = filearr[i].path
      /\ p \in Session
  BY OldIdsStep DEF MemoryInv, Session
<1>2. ToBeSeen(p) => ToBeSeen(p)'
  BY <1>1 DEF ToBeSeen
<1>3. Unseen(p) => Unseen(p)'
  BY <1>1 DEF Unseen, SameTxn
<1> QED
  BY <1>1, <1>2, <1>3, SameTxnFacts DEF MemoryInv

\* The process is gone.
LEMMA MemoryGone ==
  ASSUME CatalogInv, CatalogInv', NEW p \in Scanner, NEW status,
         Exit(p, status), status \in {"done", "failed"}, Idle(p)'
  PROVE  MemoryInv(p)'
<1>1. files_in_db'[p] = {} /\ pc'[p] = status
  BY DEF Exit, CatalogInv, TypeOK
<1> QED
  BY <1>1 DEF MemoryInv, OldIds

LEMMA StartMemory ==
  ASSUME CatalogInv, NEW p \in Scanner, MemoryInv(p), Start(p)
  PROVE  MemoryInv(p)'
<1>1. /\ UNCHANGED <<filearr, nextId, txn>>
      /\ pc'[p] = "listing"
      /\ files_in_db'[p] = FilesOf(filearr, MirrorOf[p])
      /\ Idle(p)
  BY DEF Start, RowsUnchanged, catalog, CatalogInv, TypeOK, MemoryInv, Running
<1>2. FilesOf(filearr, MirrorOf[p]) \subseteq Live(filearr)
  BY DEF FilesOf
<1>3. Idle(p)' /\ \A q \in Session : /\ Locked(q)' <=> Locked(q)
                                     /\ Inserts(q)' <=> Inserts(q)
  BY <1>1 DEF Idle, Locked, Inserts
<1>4. OldIds(p)'
  BY <1>1, <1>2, <1>3 DEF OldIds, CatalogInv, RowsInv, TableInv, LockInv, Live
<1> QED
  BY <1>1, <1>3, <1>4 DEF MemoryInv

LEMMA LookupMemory ==
  ASSUME CatalogInv, [Next]_vars, NEW p \in Scanner, MemoryInv(p), DryLookup(p)
  PROVE  MemoryInv(p)'
<1>1. PICK path \in todo[p] : Seen(p, path, FileIdOf(filearr, path))
  BY DEF DryLookup
<1>2. /\ UNCHANGED <<filearr, txn>> /\ pc'[p] = pc[p] /\ pc[p] = "adding"
      /\ listing'[p] = listing[p]
      /\ todo'[p] = todo[p] \ {path} /\ path \in Path
      /\ files_in_db'[p] = files_in_db[p] \ {FileIdOf(filearr, path)}
      /\ filearr \in Table
  BY <1>1 DEF DryLookup, Seen, RowsUnchanged, catalog, CatalogInv, TypeOK
<1>3. \A i \in Live(filearr) : filearr[i].path = path => i = FileIdOf(filearr, path)
  BY <1>2, FileIdOfFacts DEF CatalogInv, RowsInv, TableInv
<1>4. OldIds(p)'
  BY <1>2, OldIdsStep DEF MemoryInv
<1>5. ToBeSeen(p)'
  BY <1>2, <1>3 DEF MemoryInv, ToBeSeen, Live
<1>6. ~Idle(p)' => Unseen(p)'
  BY <1>2 DEF MemoryInv, Unseen, Idle, Live
<1> QED
  BY <1>2, <1>4, <1>5, <1>6 DEF MemoryInv

\* BEGIN finds the row of the path, a granted INSERT finds no row of it.
LEMMA BeginMemory ==
  ASSUME CatalogInv, [Next]_vars, NEW p \in Scanner, MemoryInv(p),
         AddBegin(p) \/ DelBegin(p) \/ Write(p)
  PROVE  MemoryInv(p)'
<1>1. /\ UNCHANGED filearr /\ pc'[p] = pc[p] /\ listing'[p] = listing[p]
      /\ todo'[p] = todo[p] /\ files_in_db'[p] = files_in_db[p]
      /\ filearr \in Table /\ txn \in [Session -> Txn] /\ p \in Session
      /\ todo[p] \subseteq Path
  BY DEF AddBegin, DelBegin, Write, scans, catalog, CatalogInv, TypeOK, Session
<1>2. OldIds(p)'
  BY <1>1, OldIdsStep DEF MemoryInv
<1>3. pc[p] \in {"adding", "purging"}
  <2>1. CASE Write(p)
    BY <2>1 DEF Write, MemoryInv, Idle
  <2> QED
    BY <2>1 DEF AddBegin, DelBegin
<1>4. ToBeSeen(p)'
  BY <1>1, <1>3 DEF MemoryInv, ToBeSeen, Live
<1>5. CASE DelBegin(p)
  BY <1>1, <1>2, <1>3, <1>4, <1>5 DEF MemoryInv, DelBegin
<1>6. CASE AddBegin(p)
  <2>1. PICK path \in todo[p] : BeginTxn(p, "add", path, FileIdOf(filearr, path))
    BY <1>6 DEF AddBegin
  <2>2. txn'[p].path = path /\ txn'[p].id = FileIdOf(filearr, path)
    BY <1>1, <2>1 DEF BeginTxn
  <2>3. \A i \in Live(filearr) : filearr[i].path = path => i = FileIdOf(filearr, path)
    BY <1>1, <2>1, FileIdOfFacts DEF CatalogInv, RowsInv, TableInv
  <2>4. Unseen(p)'
    BY <1>1, <2>2, <2>3 DEF Unseen, Live
  <2> QED
    BY <1>1, <1>2, <1>3, <1>4, <1>6, <2>4 DEF MemoryInv, AddBegin
<1>7. CASE Write(p)
  <2>1. txn'[p].path = txn[p].path /\ ~Idle(p)
    BY <1>1, <1>7 DEF Write, Txn, Idle
  <2>2. CASE Inserts(p)
    <3>1. IdsAt(filearr, txn[p].path) = {}
      BY <1>7, <2>2 DEF Write, Rejected, UniqueConflict
    <3>2. Unseen(p)'
      BY <1>1, <2>1, <3>1 DEF Unseen, IdsAt, Live
    <3> QED
      BY <1>1, <1>2, <1>3, <1>4, <3>2 DEF MemoryInv
  <2>3. CASE ~Inserts(p)
    <3>1. txn'[p].id = txn[p].id
      BY <1>1, <1>7, <2>3 DEF Write, Txn
    <3>2. pc[p] = "adding" => Unseen(p)'
      BY <1>1, <2>1, <3>1 DEF MemoryInv, Unseen, Live
    <3> QED
      BY <1>1, <1>2, <1>3, <1>4, <3>2 DEF MemoryInv
  <2> QED
    BY <2>2, <2>3
<1> QED
  BY <1>5, <1>6, <1>7

\* COMMIT: the file, and no other of its path, is forgotten.
LEMMA CommitMemory ==
  ASSUME CatalogInv, [Next]_vars, NEW p \in Scanner, MemoryInv(p),
         AddCommit(p) \/ DelCommit(p)
  PROVE  MemoryInv(p)'
<1>1. /\ pc'[p] = pc[p] /\ listing'[p] = listing[p]
      /\ files_in_db'[p] = files_in_db[p] \ {txn[p].id}
      /\ Commit(p)
      /\ p \in Session
  BY DEF AddCommit, DelCommit, Seen, CatalogInv, TypeOK, Session
<1>2. Idle(p)' /\ ~Idle(p)
  BY <1>1 DEF Commit, CanCommit, AfterChange, NoTxn, Idle, Locked
<1>3. /\ OldIds(p)'
      /\ \A i \in files_in_db'[p] \cap Live(filearr)' :
           i \in Live(filearr) /\ filearr'[i].path = filearr[i].path
  BY <1>1, OldIdsStep DEF MemoryInv
<1>4. CASE AddCommit(p)
  <2>1. todo'[p] = todo[p] \ {txn[p].path} /\ pc[p] = "adding"
    BY <1>4 DEF AddCommit, Seen, CatalogInv, TypeOK
  <2>2. ToBeSeen(p)'
    BY <1>1, <1>2, <1>3, <2>1 DEF MemoryInv, ToBeSeen, Unseen
  <2> QED
    BY <1>1, <1>2, <1>3, <2>1, <2>2 DEF MemoryInv
<1>5. CASE DelCommit(p)
  <2>1. todo'[p] = todo[p] /\ pc[p] = "purging"
    BY <1>5 DEF DelCommit
  <2>2. ToBeSeen(p)'
    BY <1>1, <1>3, <2>1 DEF MemoryInv, ToBeSeen
  <2> QED
    BY <1>1, <1>2, <1>3, <2>1, <2>2 DEF MemoryInv
<1> QED
  BY <1>4, <1>5

\* The listing arrives, the last path is processed, the process ends.
LEMMA PhaseMemory ==
  ASSUME CatalogInv, [Next]_vars, NEW p \in Scanner, MemoryInv(p),
         GetListing(p) \/ OnlyList(p) \/ EndAdding(p) \/ EndPurge(p)
           \/ ScanError(p) \/ Kill(p)
  PROVE  MemoryInv(p)'
<1>1. CatalogInv' /\ p \in Session
  BY StepCatalogInv DEF Session
<1>2. CASE ScanError(p) \/ Kill(p)
  <2>1. Idle(p)'
    BY <1>1, <1>2 DEF ScanError, Kill, Rollback, Idle, NoTxn, CatalogInv, TypeOK
  <2> QED
    BY <1>1, <1>2, <2>1, MemoryGone DEF ScanError, Kill
<1>3. CASE GetListing(p) \/ OnlyList(p) \/ EndAdding(p) \/ EndPurge(p)
  <2>1. UNCHANGED <<filearr, nextId, txn>> /\ Idle(p) /\ Idle(p)'
    BY <1>3 DEF GetListing, OnlyList, EndAdding, EndPurge, RowsUnchanged,
                catalog, MemoryInv, Idle
  <2>2. ASSUME Exit(p, "done") PROVE MemoryInv(p)'
    BY <1>1, <2>1, <2>2, MemoryGone
  <2>3. CASE GetListing(p)
    <3>1. /\ pc'[p] = "adding" /\ todo'[p] = listing'[p]
          /\ files_in_db' = files_in_db
      BY <2>3 DEF GetListing, CatalogInv, TypeOK
    <3>2. OldIds(p)' /\ ToBeSeen(p)'
      BY <3>1, OldIdsStep DEF MemoryInv, ToBeSeen
    <3> QED
      BY <2>1, <3>1, <3>2 DEF MemoryInv
  <2>4. CASE EndAdding(p) /\ ~Exit(p, "done")
    <3>1. /\ pc[p] = "adding" /\ pc'[p] = "purging" /\ todo[p] = {}
          /\ UNCHANGED <<todo, files_in_db, listing>>
      BY <2>4 DEF EndAdding, CatalogInv, TypeOK
    <3>2. OldIds(p)' /\ ToBeSeen(p)'
      BY <2>1, <3>1, OldIdsStep DEF MemoryInv, ToBeSeen, Live
    <3> QED
      BY <2>1, <3>1, <3>2 DEF MemoryInv
  <2> QED
    BY <1>3, <2>2, <2>3, <2>4 DEF OnlyList, EndPurge
<1> QED
  BY <1>2, <1>3

LEMMA StepScanInv == CatalogInv /\ ScanInv /\ [Next]_vars => ScanInv'
<1> SUFFICES ASSUME CatalogInv, ScanInv, [Next]_vars, NEW p \in Scanner
             PROVE  MemoryInv(p)'
  BY DEF ScanInv
<1>1. MemoryInv(p) /\ p \in Session
  BY DEF ScanInv, Session
<1>2. CASE Start(p) \/ ScanStep(p) \/ Kill(p)
  BY <1>1, <1>2, StartMemory, LookupMemory, BeginMemory, CommitMemory, PhaseMemory
     DEF ScanStep
<1>3. CASE ~(Start(p) \/ ScanStep(p) \/ Kill(p))
  BY <1>1, <1>3, TxnSteps, MemoryFrame
<1> QED
  BY <1>2, <1>3

LEMMA InitScanInv == Init => ScanInv
<1> SUFFICES ASSUME Init, NEW p \in Scanner PROVE MemoryInv(p)
  BY DEF ScanInv
<1>1. p \in Session
  BY DEF Session
<1> QED
  BY <1>1 DEF Init, MemoryInv, OldIds, Idle, NoTxn

THEOREM ScanInvariant == Spec => []ScanInv
  BY InitScanInv, StepScanInv, CatalogInvariant, PTL DEF Spec

\* A purge is left with files the listing did not have, even when rows were
\* deleted and created again under other ids while the scan was running.
THEOREM PurgeIsSafe == Spec => []PurgeSparesListed
<1>1. ScanInv => PurgeSparesListed
  BY DEF ScanInv, MemoryInv, ToBeSeen, PurgeSparesListed
<1> QED
  BY <1>1, ScanInvariant, PTL

-----------------------------------------------------------------------------
(* Scans that share no mirror: what a scan leaves on the rows.             *)

\* Nobody else scans the mirror.  A command scans the one mirror it is given;
\* when two overlap on one mirror, what the rows then say depends on which of
\* them came last to which row, and only the theorems above hold.
Alone(p) == \A q \in Scanner \ {p} : MirrorOf[q] # MirrorOf[p]

OneScanPerMirror == \A p \in Scanner : Alone(p)

\* An id that no INSERT, granted or to come, is about.
Old(i) ==
  /\ i \in FileId /\ i < nextId
  /\ \A q \in Session : Locked(q) /\ Inserts(q) => txn[q].id # i

Has(i, p) == Marked(filearr[i], MirrorOf[p])

\* What is marked was or is listed, and will be looked at in the purge if it
\* is not listed.
MarkedOnes(p) ==
  \A i \in Live(filearr) : Has(i, p) =>
    /\ i \in before[p] \/ filearr[i].path \in listing[p]
    /\ pc[p] \in Running \/ (pc[p] = "done" /\ mode[p] = "record") =>
         filearr[i].path \in listing[p] \/ i \in files_in_db[p]

\* What was marked stays so, unless it is unlisted and its turn has come; what
\* is listed is marked once its turn has come.
UnmarkedOnes(p) ==
  \A i \in Live(filearr) : ~Has(i, p) =>
    /\ i \in before[p] => /\ pc[p] \notin {"listing", "adding"}
                          /\ filearr[i].path \notin listing[p]
    /\ i \in known[p] /\ filearr[i].path \in listing[p] =>
         filearr[i].path \in todo[p] \/ mode[p] # "record" \/ pc[p] = "failed"

\* The snapshot of an open transaction tells the mark as it is.
Told(p) ==
  LET id == txn[p].id IN
  /\ txn[p].op = "add" =>
       /\ pc[p] = "adding" /\ mode[p] = "record" /\ txn[p].path \in listing[p]
       /\ \A i \in known[p] \cap Live(filearr) :
            filearr[i].path = txn[p].path => i = id
       /\ txn[p].base = NoRow /\ ~Locked(p) => id = 0
  /\ txn[p].op = "del" =>
       /\ pc[p] = "purging" /\ id \in files_in_db[p] /\ Old(id)
       /\ txn[p].base = NoRow => id \notin Live(filearr)
  /\ txn[p].base # NoRow =>
       /\ Old(id)
       /\ id \in Live(filearr) =>
            /\ filearr[id].path = txn[p].base.path
            /\ Has(id, p) <=> Marked(txn[p].base, MirrorOf[p])

OutcomeInv(p) ==
  /\ pc[p] = "listing" => listing[p] = {}
  /\ pc[p] # "adding" => todo[p] = {}
  /\ pc[p] = "done" => files_in_db[p] = {}
  /\ todo[p] \subseteq listing[p]
  /\ \A i \in before[p] \cup known[p] : Old(i)
  /\ MarkedOnes(p)
  /\ UnmarkedOnes(p)
  /\ ~Idle(p) => Told(p)

ResultInv == \A p \in Scanner : Alone(p) => OutcomeInv(p)

\* What the statements make of one mirror's mark.
LEMMA MarkMade ==
  ASSUME NEW row \in Row, NEW m \in Mirror
  PROVE  /\ IsTrue(AnyEq(m, row.mirrors)) <=> Marked(row, m)
         /\ ~AddWrites(row, m) => Marked(row, m)
         /\ ~DelWrites(row, m) => ~Marked(row, m)
         /\ Marked(WithMark(row, m), m)
         /\ ~Marked(WithoutMark(row, m), m)
<1>1. /\ row.mirrors \in Marks \cup {NULL} /\ NULL \notin Marks
      /\ m # NULL /\ NULL \notin BOOLEAN
      /\ EmptyMarks \in Marks /\ EmptyMarks[m] = 0
      /\ WithMark(row, m).mirrors = ArrayAppend(row.mirrors, m)
      /\ WithoutMark(row, m).mirrors = ArrayWithout(row.mirrors, m)
  BY NullAssumption DEF Row, WithMark, WithoutMark, EmptyMarks, Marks
<1>2. CASE row.mirrors = NULL
  <2>1. AnyEq(m, row.mirrors) = NULL /\ ~IsTrue(NULL) /\ Not3(NULL) = NULL
    BY <1>1, <1>2 DEF AnyEq, IsTrue, Not3
  <2>2. ~Marked(row, m) /\ AddWrites(row, m) /\ DelWrites(row, m)
    BY <1>2, <2>1 DEF Marked, AddWrites, DelWrites
  <2>3. /\ ArrayAppend(row.mirrors, m) = [EmptyMarks EXCEPT ![m] = 1]
        /\ ArrayWithout(row.mirrors, m) = EmptyMarks
    BY <1>2 DEF ArrayAppend, ArrayWithout
  <2>4. /\ [EmptyMarks EXCEPT ![m] = 1] \in Marks
        /\ [EmptyMarks EXCEPT ![m] = 1][m] = 1
    BY <1>1 DEF Marks
  <2>5. Marked(WithMark(row, m), m) /\ ~Marked(WithoutMark(row, m), m)
    BY <1>1, <2>3, <2>4 DEF Marked
  <2>6. ~IsTrue(AnyEq(m, row.mirrors))
    BY <2>1
  <2> QED
    BY <2>2, <2>5, <2>6
<1>3. CASE row.mirrors = EmptyMarks
  BY <1>1, <1>3 DEF IsTrue, AnyEq, Marked, AddWrites, DelWrites, Not3,
                    ArrayAppend, ArrayWithout, Marks
<1>4. CASE row.mirrors \in Marks /\ row.mirrors # EmptyMarks
  <2>1. AnyEq(m, row.mirrors) = (row.mirrors[m] > 0)
    BY <1>1, <1>4 DEF AnyEq
  <2>2. row.mirrors[m] \in Nat /\ row.mirrors # NULL
    BY <1>1, <1>4 DEF Marks
  <2>3. /\ IsTrue(AnyEq(m, row.mirrors)) <=> row.mirrors[m] > 0
        /\ IsTrue(Not3(AnyEq(m, row.mirrors))) <=> ~(row.mirrors[m] > 0)
    <3>1. CASE row.mirrors[m] > 0
      <4>1. AnyEq(m, row.mirrors) = TRUE /\ TRUE # NULL /\ ~TRUE = FALSE
        BY <1>1, <2>1, <3>1
      <4> QED
        BY <3>1, <4>1 DEF IsTrue, Not3
    <3>2. CASE ~(row.mirrors[m] > 0)
      <4>1. AnyEq(m, row.mirrors) = FALSE /\ FALSE # NULL
        <5>1. (row.mirrors[m] > 0) = FALSE
          BY <3>2
        <5>2. FALSE # NULL
          BY NullAssumption
        <5> QED
          BY <2>1, <5>1, <5>2
      <4>2. Not3(FALSE) = TRUE
        BY <4>1 DEF Not3
      <4>3. IsTrue(TRUE) /\ ~IsTrue(FALSE)
        BY DEF IsTrue
      <4>4. IsTrue(Not3(AnyEq(m, row.mirrors))) /\ ~IsTrue(AnyEq(m, row.mirrors))
        BY <4>1, <4>2, <4>3
      <4> QED
        BY <3>2, <4>4
    <3> QED
      BY <3>1, <3>2
  <2>4. /\ ArrayAppend(row.mirrors, m) = [row.mirrors EXCEPT ![m] = @ + 1]
        /\ ArrayWithout(row.mirrors, m) = [row.mirrors EXCEPT ![m] = 0]
    BY <2>2 DEF ArrayAppend, ArrayWithout
  <2>5. /\ ArrayAppend(row.mirrors, m) \in Marks
        /\ ArrayAppend(row.mirrors, m)[m] > 0
        /\ ArrayWithout(row.mirrors, m)[m] = 0
    BY <1>4, <2>2, <2>4 DEF Marks
  <2>6. Marked(row, m) <=> row.mirrors[m] > 0
    BY <2>2 DEF Marked
  <2> QED
    BY <1>1, <2>3, <2>5, <2>6 DEF Marked, AddWrites, DelWrites
<1> QED
  BY <1>1, <1>2, <1>3, <1>4

\* A new row has no mark but that of the mirror it was inserted for.
LEMMA NewRowMarks ==
  ASSUME NEW path \in Path, NEW m \in Mirror, NEW n \in Mirror
  PROVE  /\ ~Marked(NewRow(path), n)
         /\ Marked(NewMarkedRow(path, m), n) <=> n = m
<1>1. /\ NewMarkedRow(path, m).mirrors = [EmptyMarks EXCEPT ![m] = 1]
      /\ [EmptyMarks EXCEPT ![m] = 1] \in Marks /\ NULL \notin Marks
      /\ NewRow(path).mirrors = NULL
  BY NullAssumption DEF NewMarkedRow, NewRow, EmptyMarks, Marks
<1> QED
  BY <1>1 DEF Marked, EmptyMarks

\* An id keeps its row: one that is there now was there, with the same path.
LEMMA OldStays ==
  ASSUME CatalogInv, [Next]_vars, NEW i, Old(i)
  PROVE  /\ Old(i)'
         /\ i \in Live(filearr)' => i \in Live(filearr) /\ filearr'[i].path = filearr[i].path
<1>1. /\ nextId \in Nat /\ nextId' \in Nat /\ FileId \subseteq Nat
      /\ nextId <= nextId'
  BY StepCatalogInv, TxnSteps, IdAssumption DEF CatalogInv, TypeOK
<1>2. i \in FileId /\ i < nextId'
  BY <1>1 DEF Old
<1>3. ASSUME NEW q \in Session, Locked(q)', Inserts(q)' PROVE txn'[q].id # i
  <2>1. CASE SameTxn(q)
    BY <1>3, <2>1, SameTxnFacts DEF Old, SameTxn
  <2>2. CASE txn'[q].id = nextId
    BY <1>1, <2>2 DEF Old
  <2> QED
    BY <1>3, <2>1, <2>2, TxnSteps
<1> QED
  BY <1>2, <1>3, RowsComeFrom DEF Old

\* Ids of rows are old.
LEMMA LiveIsOld ==
  ASSUME CatalogInv, NEW i \in Live(filearr)
  PROVE  Old(i) /\ filearr[i] \in Row
  BY DEF CatalogInv, RowsInv, TableInv, LockInv, TypeOK, Table, Live, Old

\* Nobody but a scan of the mirror changes its marks, or adds rows with them.
LEMMA MarksOfOthers ==
  ASSUME CatalogInv, [Next]_vars, NEW p \in Scanner, Alone(p),
         ~AddCommit(p), ~DelCommit(p), NEW i \in Live(filearr)'
  PROVE  /\ i \in Live(filearr) => (Has(i, p)' <=> Has(i, p))
         /\ i \notin Live(filearr) => ~Has(i, p)'
<1>1. /\ Scanner \subseteq Session /\ Hasher \subseteq Session /\ filearr \in Table
      /\ MirrorOf[p] \in Mirror /\ i \in FileId /\ filearr'[i] # NoRow
  BY ScanAssumption DEF Session, CatalogInv, TypeOK, Live
<1>2. CASE filearr'[i] = filearr[i]
  BY <1>1, <1>2 DEF Has, Live
<1>3. ASSUME NEW s \in Session, Commit(s), s # p, filearr'[i] # filearr[i]
      PROVE  /\ i \in Live(filearr) => (Has(i, p)' <=> Has(i, p))
             /\ i \notin Live(filearr) => ~Has(i, p)'
  <2>1. i = txn[s].id /\ filearr'[i] = NewVersion(s) /\ Locked(s) /\ ~Idle(s)
    BY <1>1, <1>3, CommitFacts DEF Table, Locked, Idle
  <2>2. CASE Updates(s)
    <3>1. /\ filearr[i] = txn[s].base /\ txn[s].base \in Row /\ i \in Live(filearr)
      BY <1>1, <1>3, <2>1, <2>2, CommitFacts, NoRowAssumption DEF Live
    <3>2. /\ s \in Scanner /\ MirrorOf[s] \in Mirror
          /\ \/ NewVersion(s) = WithMark(txn[s].base, MirrorOf[s])
             \/ NewVersion(s) = WithoutMark(txn[s].base, MirrorOf[s])
      BY <2>1, <2>2, UpdateFacts
    <3>3. MirrorOf[p] # MirrorOf[s]
      BY <1>3, <3>2 DEF Alone
    <3>4. Marked(NewVersion(s), MirrorOf[p]) <=> Marked(txn[s].base, MirrorOf[p])
      BY <1>1, <3>1, <3>2, <3>3, MarkFrame
    <3> QED
      BY <2>1, <3>1, <3>4 DEF Has
  <2>3. CASE Inserts(s)
    <3>1. txn[s].path \in Path /\ filearr[i] = NoRow
      BY <1>3, <2>1, <2>3, CommitFacts
    <3>2. \/ NewVersion(s) = NewRow(txn[s].path)
          \/ /\ s \in Scanner
             /\ NewVersion(s) = NewMarkedRow(txn[s].path, MirrorOf[s])
      BY <2>3, ScanAssumption DEF Inserts, NewVersion
    <3>3. s \in Scanner => MirrorOf[s] \in Mirror /\ MirrorOf[p] # MirrorOf[s]
      BY <1>3, ScanAssumption DEF Alone
    <3>4. ~Marked(NewVersion(s), MirrorOf[p])
      BY <1>1, <3>1, <3>2, <3>3, NewRowMarks
    <3> QED
      BY <2>1, <3>1, <3>4 DEF Has, Live
  <2> QED
    BY <1>3, <2>2, <2>3, CommitFacts
<1>4. ASSUME NEW s \in Scanner, Start(s) \/ ScanStep(s) \/ Kill(s),
             ~(AddCommit(s) \/ DelCommit(s))
      PROVE  filearr' = filearr
  BY <1>4 DEF Start, ScanStep, Kill, GetListing, OnlyList, DryLookup, AddBegin,
              Write, EndAdding, DelBegin, EndPurge, ScanError, RowsUnchanged, catalog
<1>5. ASSUME NEW h \in Hasher, HashBegin(h) \/ HashStep(h), ~HashCommit(h)
      PROVE  filearr' = filearr
  BY <1>5 DEF HashBegin, HashStep, Write, HashError, catalog
<1>6. CleanBegin \/ UNCHANGED vars => filearr' = filearr
  BY DEF CleanBegin, catalog, vars
<1>7. CleanCommit => filearr'[i] = filearr[i]
  BY <1>1 DEF CleanCommit, Deleted
<1>8. \/ filearr'[i] = filearr[i]
      \/ \E s \in Session \ {p} : Commit(s)
  <2>1. \A h \in Hasher : h # p
    BY ScanAssumption
  <2> QED
    BY <1>1, <1>4, <1>5, <1>6, <1>7, <2>1 DEF Next, AddCommit, DelCommit, HashCommit
<1> QED
  BY <1>2, <1>3, <1>8

\* A step of somebody else leaves a scan's memory and transaction alone.
LEMMA OthersSteps ==
  ASSUME CatalogInv, [Next]_vars, NEW p \in Scanner,
         ~(Start(p) \/ ScanStep(p) \/ Kill(p))
  PROVE  /\ SameTxn(p)
         /\ pc'[p] = pc[p] /\ mode'[p] = mode[p] /\ listing'[p] = listing[p]
         /\ todo'[p] = todo[p] /\ files_in_db'[p] = files_in_db[p]
         /\ before'[p] = before[p] /\ known'[p] = known[p]
<1>1. ASSUME NEW s \in Scanner \ {p}, Start(s) \/ ScanStep(s) \/ Kill(s)
      PROVE  mode'[p] = mode[p] /\ before'[p] = before[p] /\ known'[p] = known[p]
  BY <1>1 DEF CatalogInv, TypeOK, Start, ScanStep, Kill, GetListing, OnlyList,
              DryLookup, AddBegin, Write, AddCommit, EndAdding, DelBegin, DelCommit,
              EndPurge, ScanError, scans
<1>2. ASSUME NEW h \in Hasher, HashBegin(h) \/ HashStep(h) PROVE UNCHANGED scans
  BY <1>2 DEF HashBegin, HashStep, Write, HashCommit, HashError
<1>3. CleanBegin \/ CleanCommit \/ UNCHANGED vars => UNCHANGED scans
  BY DEF CleanBegin, CleanCommit, vars
<1> QED
  BY <1>1, <1>2, <1>3, TxnSteps DEF Next, scans


\* But for a commit of its own, a scan finds the rows it knows as they were,
\* and rows that are new are none of its mirror.
LEMMA RowsKept ==
  ASSUME CatalogInv, [Next]_vars, NEW p \in Scanner, Alone(p),
         OutcomeInv(p), ~AddCommit(p), ~DelCommit(p), NEW i \in Live(filearr)'
  PROVE  \/ /\ i \in Live(filearr) /\ filearr'[i].path = filearr[i].path
            /\ Has(i, p)' <=> Has(i, p)
         \/ i \notin Live(filearr) /\ ~Has(i, p)' /\ i \notin before[p] \cup known[p]
<1>1. CASE i \in Live(filearr)
  <2>1. filearr'[i].path = filearr[i].path
    BY <1>1, LiveIsOld, OldStays
  <2>2. Has(i, p)' <=> Has(i, p)
    BY <1>1, MarksOfOthers
  <2> QED
    BY <1>1, <2>1, <2>2
<1>2. CASE i \notin Live(filearr)
  <2>1. ~Has(i, p)'
    BY <1>2, MarksOfOthers
  <2>2. i \notin before[p] \cup known[p]
    BY <1>2, OldStays DEF OutcomeInv
  <2> QED
    BY <1>2, <2>1, <2>2
<1> QED
  BY <1>1, <1>2

\* The history of a scan stays true.
LEMMA HistoryKept ==
  ASSUME CatalogInv, [Next]_vars, NEW p \in Scanner, OutcomeInv(p),
         before'[p] = before[p], known'[p] = known[p]
  PROVE  \A i \in before'[p] \cup known'[p] : Old(i)'
BY OldStays DEF OutcomeInv

\* So does what an open transaction has read.
LEMMA ToldKept ==
  ASSUME CatalogInv, [Next]_vars, NEW p \in Scanner, Alone(p),
         OutcomeInv(p), ~AddCommit(p), ~DelCommit(p), Told(p),
         txn'[p].op = txn[p].op, txn'[p].path = txn[p].path,
         txn'[p].base = txn[p].base, txn'[p].id = txn[p].id,
         Locked(p) => Locked(p)',
         pc'[p] = pc[p], mode'[p] = mode[p], listing'[p] = listing[p],
         files_in_db'[p] = files_in_db[p], known'[p] = known[p]
  PROVE  Told(p)'
<1> DEFINE id == txn[p].id
<1>1. ASSUME Old(id)
      PROVE  /\ Old(id)'
             /\ id \in Live(filearr)' =>
                  /\ id \in Live(filearr) /\ filearr'[id].path = filearr[id].path
                  /\ Has(id, p)' <=> Has(id, p)
  <2>1. /\ Old(id)'
        /\ id \in Live(filearr)' =>
             id \in Live(filearr) /\ filearr'[id].path = filearr[id].path
    BY <1>1, OldStays
  <2>2. id \in Live(filearr)' /\ id \in Live(filearr) => (Has(id, p)' <=> Has(id, p))
    BY RowsKept
  <2> QED
    BY <2>1, <2>2
<1>2. txn[p].op = "add" =>
        \A i \in known[p] \cap Live(filearr)' :
          filearr'[i].path = txn[p].path => i = id
  BY RowsKept DEF Told
<1> QED
  BY <1>1, <1>2 DEF Told

\* Steps of others.
LEMMA OutcomeFrame ==
  ASSUME CatalogInv, [Next]_vars, NEW p \in Scanner, Alone(p),
         OutcomeInv(p), ~(Start(p) \/ ScanStep(p) \/ Kill(p))
  PROVE  OutcomeInv(p)'
<1>1. /\ SameTxn(p) /\ p \in Session
      /\ pc'[p] = pc[p] /\ mode'[p] = mode[p] /\ listing'[p] = listing[p]
      /\ todo'[p] = todo[p] /\ files_in_db'[p] = files_in_db[p]
      /\ before'[p] = before[p] /\ known'[p] = known[p]
      /\ ~AddCommit(p) /\ ~DelCommit(p)
  BY OthersSteps DEF ScanStep, Session
<1>2. MarkedOnes(p)' /\ UnmarkedOnes(p)'
  BY <1>1, RowsKept DEF OutcomeInv, MarkedOnes, UnmarkedOnes
<1>3. ~Idle(p)' => Told(p)'
  BY <1>1, ToldKept, SameTxnFacts DEF OutcomeInv, SameTxn
<1> QED
  BY <1>1, <1>2, <1>3, HistoryKept DEF OutcomeInv


LEMMA StartOutcome ==
  ASSUME CatalogInv, [Next]_vars, NEW p \in Scanner, MemoryInv(p), Start(p)
  PROVE  OutcomeInv(p)'
<1>1. /\ UNCHANGED <<filearr, nextId, txn>> /\ Idle(p)
      /\ pc'[p] = "listing" /\ listing'[p] = {} /\ todo'[p] = {}
      /\ files_in_db'[p] = FilesOf(filearr, MirrorOf[p])
      /\ before'[p] = FilesOf(filearr, MirrorOf[p])
      /\ known'[p] = Live(filearr)
      /\ MirrorOf[p] \in Mirror
  BY ScanAssumption DEF Start, RowsUnchanged, catalog, CatalogInv, TypeOK,
                        MemoryInv, Running
<1>2. \A i \in Live(filearr) :
        Has(i, p) <=> i \in FilesOf(filearr, MirrorOf[p])
  BY <1>1, LiveIsOld, MarkMade DEF FilesOf, Has
<1>3. \A i \in before'[p] \cup known'[p] : Old(i)'
  BY <1>1, LiveIsOld, OldStays DEF FilesOf
<1>4. Live(filearr)' = Live(filearr) /\ (\A i : Has(i, p)' <=> Has(i, p)) /\ Idle(p)'
  BY <1>1 DEF Has, Live, Idle
<1>5. MarkedOnes(p)' /\ UnmarkedOnes(p)'
  BY <1>1, <1>2, <1>4 DEF MarkedOnes, UnmarkedOnes
<1> QED
  BY <1>1, <1>3, <1>4, <1>5 DEF OutcomeInv

\* The listing arrives, the last path is processed, the process ends.
LEMMA PhaseOutcome ==
  ASSUME CatalogInv, [Next]_vars, NEW p \in Scanner, MemoryInv(p), OutcomeInv(p),
         GetListing(p) \/ OnlyList(p) \/ EndAdding(p) \/ EndPurge(p)
           \/ ScanError(p) \/ Kill(p)
  PROVE  OutcomeInv(p)'
<1>1. /\ UNCHANGED <<filearr, nextId, mode, before, known>>
      /\ p \in Session /\ txn \in [Session -> Txn]
      /\ pc \in [Scanner -> ScanPc] /\ listing \in [Scanner -> SUBSET Path]
      /\ todo \in [Scanner -> SUBSET Path]
      /\ files_in_db \in [Scanner -> SUBSET FileId]
  BY DEF GetListing, OnlyList, EndAdding, EndPurge, ScanError, Kill, RowsUnchanged,
         catalog, CatalogInv, TypeOK, Session
<1>2. Live(filearr)' = Live(filearr) /\ \A i : Has(i, p)' <=> Has(i, p)
  BY <1>1 DEF Has, Live
<1>3. \A i \in before'[p] \cup known'[p] : Old(i)'
  BY <1>1, HistoryKept
<1>4. CASE GetListing(p)
  <2>1. /\ pc[p] = "listing" /\ pc'[p] = "adding" /\ Idle(p) /\ Idle(p)'
        /\ todo'[p] = listing'[p] /\ listing[p] = {} /\ files_in_db'[p] = files_in_db[p]
    BY <1>1, <1>4 DEF GetListing, RowsUnchanged, OutcomeInv, MemoryInv, Idle
  <2>2. MarkedOnes(p)' /\ UnmarkedOnes(p)'
    BY <1>1, <1>2, <2>1 DEF OutcomeInv, MarkedOnes, UnmarkedOnes, Running
  <2> QED
    BY <1>3, <2>1, <2>2 DEF OutcomeInv
<1>5. CASE EndAdding(p) /\ mode[p] # "dry_run"
  <2>1. /\ pc[p] = "adding" /\ pc'[p] = "purging" /\ Idle(p) /\ Idle(p)'
        /\ todo[p] = {} /\ todo'[p] = {}
        /\ listing'[p] = listing[p] /\ files_in_db'[p] = files_in_db[p]
    BY <1>1, <1>5 DEF EndAdding, RowsUnchanged, Idle
  <2>2. MarkedOnes(p)' /\ UnmarkedOnes(p)'
    BY <1>1, <1>2, <2>1 DEF OutcomeInv, MarkedOnes, UnmarkedOnes, Running
  <2> QED
    BY <1>3, <2>1, <2>2 DEF OutcomeInv
<1>6. ASSUME NEW status, Exit(p, status), Idle(p)',
             listing'[p] = listing[p],
             \/ status = "failed"
             \/ status = "done" /\ mode[p] # "record"
             \/ status = "done" /\ pc[p] = "purging" /\ files_in_db[p] = {}
      PROVE  OutcomeInv(p)'
  <2>1. pc'[p] = status /\ todo'[p] = {} /\ files_in_db'[p] = {}
    BY <1>1, <1>6 DEF Exit
  <2>2. MarkedOnes(p)'
    BY <1>1, <1>2, <1>6, <2>1 DEF OutcomeInv, MarkedOnes, Running
  <2>3. UnmarkedOnes(p)'
    BY <1>1, <1>2, <1>6, <2>1 DEF OutcomeInv, UnmarkedOnes
  <2> QED
    BY <1>3, <1>6, <2>1, <2>2, <2>3 DEF OutcomeInv
<1>7. CASE OnlyList(p) \/ EndPurge(p) \/ (EndAdding(p) /\ mode[p] = "dry_run")
  <2>1. /\ Exit(p, "done") /\ Idle(p)' /\ listing'[p] = listing[p]
        /\ mode[p] # "record" \/ (pc[p] = "purging" /\ files_in_db[p] = {})
    BY <1>7 DEF OnlyList, EndPurge, EndAdding, RowsUnchanged, MemoryInv, Idle
  <2> QED
    BY <1>6, <2>1
<1>8. CASE ScanError(p) \/ Kill(p)
  <2>1. Exit(p, "failed") /\ Idle(p)' /\ listing'[p] = listing[p]
    BY <1>1, <1>8 DEF ScanError, Kill, Rollback, Idle, NoTxn
  <2> QED
    BY <1>6, <2>1
<1> QED
  BY <1>4, <1>5, <1>7, <1>8

\* A dry run looks the file up and records nothing.
LEMMA LookupOutcome ==
  ASSUME CatalogInv, [Next]_vars, NEW p \in Scanner, MemoryInv(p), OutcomeInv(p),
         DryLookup(p)
  PROVE  OutcomeInv(p)'
<1>1. PICK path \in todo[p] : Seen(p, path, FileIdOf(filearr, path))
  BY DEF DryLookup
<1>2. /\ UNCHANGED <<filearr, nextId, txn, pc, mode, listing, before, known>>
      /\ pc[p] = "adding" /\ mode[p] = "dry_run"
      /\ todo'[p] = todo[p] \ {path} /\ path \in Path /\ path \in listing[p]
      /\ files_in_db'[p] = files_in_db[p] \ {FileIdOf(filearr, path)}
      /\ filearr \in Table /\ FileId \subseteq Nat \ {0}
  BY <1>1, IdAssumption
     DEF DryLookup, Seen, RowsUnchanged, catalog, CatalogInv, TypeOK, OutcomeInv
<1>3. Live(filearr)' = Live(filearr) /\ \A i : Has(i, p)' <=> Has(i, p)
  BY <1>2 DEF Has, Live
<1>4. \A i \in before'[p] \cup known'[p] : Old(i)'
  BY <1>2, HistoryKept
<1>5. Idle(p) /\ Idle(p)'
  <2>1. p \in Session /\ (~Idle(p) => txn[p].op \in {"add", "del"})
    BY DEF CatalogInv, RowsInv, TxnInv, TypeOK, Txn, Session
  <2> QED
    BY <1>2, <2>1 DEF OutcomeInv, Told, Idle
<1>6. \A i \in Live(filearr) :
        i = FileIdOf(filearr, path) => filearr[i].path \in listing[p]
  BY <1>2, FileIdOfFacts DEF Live
<1>7. MarkedOnes(p)' /\ UnmarkedOnes(p)'
  BY <1>2, <1>3, <1>6 DEF OutcomeInv, MarkedOnes, UnmarkedOnes
<1> QED
  BY <1>2, <1>4, <1>5, <1>7 DEF OutcomeInv


\* BEGIN reads the row as it is; a granted statement changes no row yet.
LEMMA BeginOutcome ==
  ASSUME CatalogInv, [Next]_vars, NEW p \in Scanner, Alone(p),
         MemoryInv(p), OutcomeInv(p), AddBegin(p) \/ DelBegin(p) \/ Write(p)
  PROVE  OutcomeInv(p)'
<1>1. /\ UNCHANGED <<filearr, pc, mode, listing, todo, files_in_db, before, known>>
      /\ filearr \in Table /\ txn \in [Session -> Txn] /\ p \in Session
      /\ todo[p] \subseteq Path /\ files_in_db[p] \subseteq FileId
      /\ 0 \notin FileId
      /\ NoRow \notin Row
  BY IdAssumption, NoRowAssumption
     DEF AddBegin, DelBegin, Write, scans, catalog, CatalogInv, TypeOK, Session
<1>2. Live(filearr)' = Live(filearr) /\ \A i : Has(i, p)' <=> Has(i, p)
  BY <1>1 DEF Has, Live
<1>3. \A i \in before'[p] \cup known'[p] : Old(i)'
  BY <1>1, HistoryKept
<1>4. MarkedOnes(p)' /\ UnmarkedOnes(p)'
  BY <1>1, <1>2 DEF OutcomeInv, MarkedOnes, UnmarkedOnes
<1>5. ~Idle(p)' => Told(p)'
  <2>1. CASE AddBegin(p)
    <3>1. PICK path \in todo[p] : BeginTxn(p, "add", path, FileIdOf(filearr, path))
      BY <2>1 DEF AddBegin
    <3>9. PICK id : id = FileIdOf(filearr, path)
      OBVIOUS
    <3>2. /\ txn'[p].op = "add" /\ txn'[p].path = path /\ txn'[p].id = id
          /\ txn'[p].base = IF id = 0 THEN NoRow ELSE filearr[id]
          /\ pc[p] = "adding" /\ mode[p] = "record" /\ path \in listing[p]
      BY <1>1, <2>1, <3>1, <3>9 DEF BeginTxn, AddBegin, OutcomeInv
    <3>3. /\ id \in FileId \cup {0}
          /\ id # 0 => id \in Live(filearr) /\ filearr[id].path = path
          /\ \A i \in Live(filearr) : filearr[i].path = path => i = id
      BY <1>1, <3>1, <3>9, FileIdOfFacts DEF CatalogInv, RowsInv, TableInv
    <3>4. id # 0 => Old(id)' /\ txn'[p].base = filearr[id]
      <4>1. id # 0 => Old(id)
        BY <3>3, LiveIsOld
      <4> QED
        BY <3>2, <4>1, OldStays
    <3>5. txn'[p].base # NoRow <=> id # 0
      BY <3>2, <3>3 DEF Live
    <3>6. \A i \in known[p] \cap Live(filearr) : filearr[i].path = path => i = id
      BY <3>3
    <3>7. txn'[p].base # NoRow => (Has(id, p)' <=> Marked(txn'[p].base, MirrorOf[p]))
      BY <1>1, <3>4, <3>5 DEF Has
    <3>8. /\ id \in Live(filearr)' => filearr'[id] = filearr[id]
          /\ txn'[p].base # NoRow => txn'[p].base.path = path /\ filearr[id].path = path
      BY <1>1, <3>3, <3>4, <3>5
    <3> QED
      BY <1>1, <1>2, <3>2, <3>4, <3>5, <3>6, <3>7, <3>8 DEF Told
  <2>2. CASE DelBegin(p)
    <3>1. PICK id \in files_in_db[p] : BeginTxn(p, "del", NULL, id)
      BY <2>2 DEF DelBegin
    <3>2. /\ txn'[p].op = "del" /\ txn'[p].id = id /\ id \in FileId
          /\ txn'[p].base = filearr[id] /\ pc[p] = "purging"
      BY <1>1, <2>2, <3>1 DEF BeginTxn, DelBegin
    <3>3. Old(id)'
      <4>1. Old(id)
        BY <3>2 DEF MemoryInv, OldIds, Old
      <4> QED
        BY <4>1, OldStays
    <3>4. txn'[p].base = NoRow => id \notin Live(filearr)
      BY <3>2 DEF Live
    <3> QED
      BY <1>1, <1>2, <3>1, <3>2, <3>3, <3>4 DEF Told, Has
  <2>3. CASE Write(p)
    <3>1. Told(p)
      BY <2>3 DEF Write, OutcomeInv, Idle
    <3>2. CASE Inserts(p)
      <4>1. /\ txn'[p].op = txn[p].op /\ txn'[p].path = txn[p].path
            /\ txn'[p].base = txn[p].base /\ txn[p].base = NoRow
            /\ txn[p].op # "del" /\ txn'[p].step = "locked"
        BY <1>1, <2>3, <3>2 DEF Write, Inserts, Updates, References, Txn
      <4>2. \A i \in Live(filearr) : filearr[i].path # txn[p].path
        BY <2>3, <3>2 DEF Write, Rejected, UniqueConflict, IdsAt
      <4> QED
        BY <1>1, <1>2, <3>1, <4>1, <4>2 DEF Told, Locked
    <3>3. CASE ~Inserts(p)
      <4>1. /\ txn'[p].op = txn[p].op /\ txn'[p].path = txn[p].path
            /\ txn'[p].base = txn[p].base /\ txn'[p].id = txn[p].id
            /\ txn'[p].step = "locked"
        BY <1>1, <2>3, <3>3 DEF Write, Txn
      <4>2. ~AddCommit(p) /\ ~DelCommit(p)
        <5>1. Commit(p) => txn'[p] = NoTxn
          BY <1>1 DEF Commit, AfterChange
        <5> QED
          BY <4>1, <5>1 DEF AddCommit, DelCommit, NoTxn
      <4> QED
        BY <1>1, <3>1, <4>1, <4>2, ToldKept DEF Locked
    <3> QED
      BY <3>2, <3>3
  <2> QED
    BY <2>1, <2>2, <2>3
<1> QED
  BY <1>1, <1>3, <1>4, <1>5 DEF OutcomeInv


\* COMMIT of an add: the file of the path, if there is one now, is marked.
LEMMA AddOutcome ==
  ASSUME CatalogInv, [Next]_vars, NEW p \in Scanner, OutcomeInv(p), AddCommit(p)
  PROVE  OutcomeInv(p)'
<1> DEFINE id == txn[p].id
<1>1. /\ UNCHANGED <<pc, mode, listing, before, known>>
      /\ Commit(p) /\ pc[p] = "adding"
      /\ todo'[p] = todo[p] \ {txn[p].path}
      /\ files_in_db'[p] = files_in_db[p] \ {id}
      /\ p \in Session /\ filearr \in Table /\ txn[p] \in Txn
      /\ MirrorOf[p] \in Mirror
  BY ScanAssumption DEF AddCommit, Seen, CatalogInv, TypeOK, Session
<1>2. Idle(p)' /\ ~Idle(p)
  BY <1>1 DEF Commit, CanCommit, AfterChange, NoTxn, Idle, Locked
<1>3. Told(p) /\ txn[p].op = "add" /\ mode[p] = "record" /\ txn[p].path \in listing[p]
  <2>1. Told(p) /\ txn[p].op # "hash"
    BY <1>1, <1>2 DEF OutcomeInv, CatalogInv, RowsInv, TxnInv
  <2>2. txn[p].op \in {"add", "del", "hash"}
    BY <1>1 DEF Txn
  <2> QED
    BY <1>1, <2>1, <2>2 DEF Told
<1>4. ASSUME NEW i \in Live(filearr)'
      PROVE  \/ i = id /\ Has(i, p)' /\ filearr'[i].path \in listing[p]
             \/ i # id /\ i \in Live(filearr) /\ filearr'[i] = filearr[i]
  <2>1. CASE ~Updates(p) /\ ~Inserts(p)
    <3>1. filearr' = filearr /\ ~Locked(p)
      BY <1>1, <1>2, <1>3, <2>1, CommitFacts
         DEF Updates, Inserts, CatalogInv, RowsInv, TxnInv, Writes, References
    <3>2. i \in Live(filearr) /\ i \in FileId
      BY <3>1 DEF Live
    <3>3. CASE txn[p].base = NoRow
      <4>1. id = 0 /\ 0 \notin FileId
        BY <1>3, <3>1, <3>3, IdAssumption DEF Told
      <4> QED
        BY <3>1, <3>2, <4>1
    <3>4. CASE txn[p].base # NoRow /\ i = id
      <4>1. txn[p].base \in Row /\ ~AddWrites(txn[p].base, MirrorOf[p])
        BY <1>1, <1>3, <2>1, <3>4 DEF Updates, Txn
      <4>2. Marked(txn[p].base, MirrorOf[p]) /\ txn[p].base.path = txn[p].path
        BY <1>1, <1>2, <1>3, <3>4, <4>1, MarkMade DEF CatalogInv, RowsInv, TxnInv
      <4>3. Has(i, p) /\ filearr[i].path = txn[p].path
        BY <1>3, <3>2, <3>4, <4>2 DEF Told
      <4> QED
        BY <1>3, <3>1, <3>4, <4>3 DEF Has
    <3> QED
      BY <3>1, <3>2, <3>3, <3>4
  <2>2. CASE Updates(p)
    <3>1. /\ id \in FileId /\ filearr[id] = txn[p].base /\ txn[p].base \in Row
          /\ filearr' = [filearr EXCEPT ![id] = NewVersion(p)]
          /\ NewVersion(p).path = txn[p].base.path
      BY <1>1, <2>2, CommitFacts
    <3>2. NewVersion(p) = WithMark(txn[p].base, MirrorOf[p])
          /\ txn[p].base.path = txn[p].path
      BY <1>2, <1>1, <1>3, <2>2, UpdateFacts
    <3>3. Marked(NewVersion(p), MirrorOf[p])
      BY <1>1, <3>1, <3>2, MarkMade
    <3>4. filearr'[id] = NewVersion(p) /\ \A j \in FileId \ {id} : filearr'[j] = filearr[j]
      BY <1>1, <3>1 DEF Table
    <3> QED
      BY <1>3, <3>1, <3>2, <3>3, <3>4 DEF Has, Live
  <2>3. CASE Inserts(p)
    <3>1. /\ id \in FileId /\ txn[p].path \in Path
          /\ filearr' = [filearr EXCEPT ![id] = NewVersion(p)]
          /\ NewVersion(p).path = txn[p].path
      BY <1>1, <2>3, CommitFacts
    <3>2. NewVersion(p) = NewMarkedRow(txn[p].path, MirrorOf[p])
      BY <1>3, <2>3 DEF Inserts, NewVersion
    <3>3. Marked(NewVersion(p), MirrorOf[p])
      BY <1>1, <3>1, <3>2, NewRowMarks
    <3>4. filearr'[id] = NewVersion(p) /\ \A j \in FileId \ {id} : filearr'[j] = filearr[j]
      BY <1>1, <3>1 DEF Table
    <3> QED
      BY <1>3, <3>1, <3>3, <3>4 DEF Has, Live
  <2> QED
    BY <2>1, <2>2, <2>3
<1>5. MarkedOnes(p)'
  BY <1>1, <1>4 DEF OutcomeInv, MarkedOnes, Has
<1>6. UnmarkedOnes(p)'
  <2>1. \A i \in known[p] \cap Live(filearr) : filearr[i].path = txn[p].path => i = id
    BY <1>3 DEF Told
  <2> QED
    BY <1>1, <1>4, <2>1 DEF OutcomeInv, UnmarkedOnes, Has
<1>7. \A i \in before'[p] \cup known'[p] : Old(i)'
  BY <1>1, HistoryKept
<1> QED
  BY <1>1, <1>2, <1>5, <1>6, <1>7 DEF OutcomeInv

\* COMMIT of a purge: the file, if it is still there, is unmarked, and the
\* listing did not have it.
LEMMA DelOutcome ==
  ASSUME CatalogInv, [Next]_vars, NEW p \in Scanner, MemoryInv(p), OutcomeInv(p),
         DelCommit(p)
  PROVE  OutcomeInv(p)'
<1> DEFINE id == txn[p].id
<1>1. /\ UNCHANGED <<pc, mode, listing, todo, before, known>>
      /\ Commit(p) /\ pc[p] = "purging" /\ todo[p] = {}
      /\ files_in_db'[p] = files_in_db[p] \ {id}
      /\ p \in Session /\ filearr \in Table /\ txn[p] \in Txn
      /\ MirrorOf[p] \in Mirror
  BY ScanAssumption DEF DelCommit, CatalogInv, TypeOK, Session, MemoryInv
<1>2. Idle(p)' /\ ~Idle(p)
  BY <1>1 DEF Commit, CanCommit, AfterChange, NoTxn, Idle, Locked
<1>3. Told(p) /\ txn[p].op = "del" /\ id \in files_in_db[p] /\ ~Inserts(p)
  <2>1. Told(p) /\ txn[p].op # "hash"
    BY <1>1, <1>2 DEF OutcomeInv, CatalogInv, RowsInv, TxnInv
  <2>2. txn[p].op \in {"add", "del", "hash"}
    BY <1>1 DEF Txn
  <2> QED
    BY <1>1, <2>1, <2>2 DEF Told, Inserts
<1>4. id \in Live(filearr) => filearr[id].path \notin listing[p]
  BY <1>1, <1>3 DEF MemoryInv, ToBeSeen
<1>5. ASSUME NEW i \in Live(filearr)'
      PROVE  /\ i \in Live(filearr) /\ filearr'[i].path = filearr[i].path
             /\ i = id => ~Has(i, p)'
             /\ i # id => filearr'[i] = filearr[i]
  <2>1. CASE ~Updates(p)
    <3>1. filearr' = filearr
      BY <1>1, <1>3, <2>1, CommitFacts
    <3>2. ASSUME i = id PROVE ~Has(i, p)
      <4>1. txn[p].base # NoRow
        BY <1>3, <3>1, <3>2 DEF Told, Live
      <4>2. txn[p].base \in Row /\ ~DelWrites(txn[p].base, MirrorOf[p])
        BY <1>1, <1>3, <2>1, <4>1 DEF Updates, Txn
      <4>3. ~Marked(txn[p].base, MirrorOf[p])
        BY <1>1, <4>2, MarkMade
      <4> QED
        BY <1>3, <3>1, <3>2, <4>1, <4>3 DEF Told, Live
    <3> QED
      BY <3>1, <3>2 DEF Has, Live
  <2>2. CASE Updates(p)
    <3>1. /\ id \in FileId /\ filearr[id] = txn[p].base /\ txn[p].base \in Row
          /\ filearr' = [filearr EXCEPT ![id] = NewVersion(p)]
          /\ NewVersion(p).path = txn[p].base.path
      BY <1>1, <2>2, CommitFacts
    <3>2. NewVersion(p) = WithoutMark(txn[p].base, MirrorOf[p])
      BY <1>2, <1>1, <1>3, <2>2, UpdateFacts
    <3>3. ~Marked(NewVersion(p), MirrorOf[p])
      BY <1>1, <3>1, <3>2, MarkMade
    <3>4. filearr'[id] = NewVersion(p) /\ \A j \in FileId \ {id} : filearr'[j] = filearr[j]
      BY <1>1, <3>1 DEF Table
    <3> QED
      BY <3>1, <3>3, <3>4, NoRowAssumption DEF Has, Live
  <2> QED
    BY <2>1, <2>2
<1>6. MarkedOnes(p)'
  BY <1>1, <1>5 DEF OutcomeInv, MarkedOnes, Has
<1>7. UnmarkedOnes(p)'
  BY <1>1, <1>4, <1>5 DEF OutcomeInv, UnmarkedOnes, Has
<1>8. \A i \in before'[p] \cup known'[p] : Old(i)'
  BY <1>1, HistoryKept
<1> QED
  BY <1>1, <1>2, <1>6, <1>7, <1>8 DEF OutcomeInv


LEMMA StepResultInv == CatalogInv /\ ScanInv /\ ResultInv /\ [Next]_vars => ResultInv'
<1> SUFFICES ASSUME CatalogInv, ScanInv, ResultInv, [Next]_vars,
                    NEW p \in Scanner, Alone(p)
             PROVE  OutcomeInv(p)'
  BY DEF ResultInv
<1>1. MemoryInv(p) /\ OutcomeInv(p)
  BY DEF ScanInv, ResultInv
<1>2. CASE Start(p) \/ ScanStep(p) \/ Kill(p)
  BY <1>1, <1>2, StartOutcome, PhaseOutcome, LookupOutcome, BeginOutcome,
     AddOutcome, DelOutcome DEF ScanStep
<1>3. CASE ~(Start(p) \/ ScanStep(p) \/ Kill(p))
  BY <1>1, <1>3, OutcomeFrame
<1> QED
  BY <1>2, <1>3

LEMMA InitResultInv == Init => ResultInv
<1> SUFFICES ASSUME Init, NEW p \in Scanner PROVE OutcomeInv(p)
  BY DEF ResultInv
<1>1. p \in Session /\ Live(filearr) = {}
  BY DEF Session, Init, Live
<1>2. MarkedOnes(p) /\ UnmarkedOnes(p)
  BY <1>1 DEF MarkedOnes, UnmarkedOnes
<1> QED
  BY <1>1, <1>2 DEF Init, OutcomeInv, Idle, NoTxn

THEOREM ResultInvariant == Spec => []ResultInv
  BY InitResultInv, StepResultInv, CatalogInvariant, ScanInvariant, PTL DEF Spec

\* What PartialScanIsSound and CompletedScanIsExact say of one scan.
SoundSoFar(p) ==
  pc[p] \in {"adding", "purging", "failed"} =>
    \A i \in Live(filearr) :
      /\ Has(i, p) => i \in before[p] \/ filearr[i].path \in listing[p]
      /\ i \in before[p] /\ filearr[i].path \in listing[p] => Has(i, p)

ExactWhenDone(p) ==
  pc[p] = "done" /\ mode[p] = "record" =>
    \A i \in Live(filearr) :
      /\ Has(i, p) => filearr[i].path \in listing[p]
      /\ i \in known[p] /\ filearr[i].path \in listing[p] => Has(i, p)

LEMMA ResultFacts ==
  ASSUME ResultInv, NEW p \in Scanner, Alone(p)
  PROVE  SoundSoFar(p) /\ ExactWhenDone(p)
<1>1. OutcomeInv(p)
  BY DEF ResultInv
<1>2. SoundSoFar(p)
  BY <1>1 DEF OutcomeInv, MarkedOnes, UnmarkedOnes, SoundSoFar
<1>3. ASSUME pc[p] = "done", mode[p] = "record", NEW i \in Live(filearr)
      PROVE  /\ Has(i, p) => filearr[i].path \in listing[p]
             /\ i \in known[p] /\ filearr[i].path \in listing[p] => Has(i, p)
  <2>1. Has(i, p) => filearr[i].path \in listing[p]
    BY <1>1, <1>3 DEF OutcomeInv, MarkedOnes
  <2>2. i \in known[p] /\ filearr[i].path \in listing[p] => Has(i, p)
    BY <1>1, <1>3 DEF OutcomeInv, UnmarkedOnes
  <2> QED
    BY <2>1, <2>2
<1> QED
  BY <1>2, <1>3 DEF ExactWhenDone

\* Whatever happens to other mirrors, in any number of processes: a mirror that
\* one scan at a time has to itself is recorded soundly all along, and exactly
\* when the scan is done.
THEOREM ScansAreExact ==
  Spec => [](\A p \in Scanner : Alone(p) => SoundSoFar(p) /\ ExactWhenDone(p))
<1>1. ResultInv => \A p \in Scanner : Alone(p) => SoundSoFar(p) /\ ExactWhenDone(p)
  BY ResultFacts
<1> QED
  BY <1>1, ResultInvariant, PTL

\* At every moment of a scan, and after it failed, each row stands as it stood
\* before the scan or as the listing says.
THEOREM PartialIsSound ==
  ASSUME OneScanPerMirror PROVE Spec => []PartialScanIsSound
<1>1. ResultInv => PartialScanIsSound
  BY ResultFacts DEF OneScanPerMirror, SoundSoFar, Has, PartialScanIsSound
<1> QED
  BY <1>1, ResultInvariant, PTL

\* A scan that completed leaves the mirror on no file it did not list, and on
\* every listed file the table had when the scan began and still has.
THEOREM CompletedIsExact ==
  ASSUME OneScanPerMirror PROVE Spec => []CompletedScanIsExact
<1>1. ResultInv => CompletedScanIsExact
  BY ResultFacts DEF OneScanPerMirror, ExactWhenDone, Has, CompletedScanIsExact
<1> QED
  BY <1>1, ResultInvariant, PTL

=============================================================================
