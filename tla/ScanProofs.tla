----------------------------- MODULE ScanProofs -----------------------------
(***************************************************************************)
(* Proofs about Scan for any number of mirrors, scanners, hashers and files.*)
(***************************************************************************)
EXTENDS Scan, TLAPS

-----------------------------------------------------------------------------
(* The inductive invariant.                                                *)

\* A row keeps the id it was inserted with, and "path" is unique.
TableInv ==
  /\ \A i \in Live(filearr) : i < nextId
  /\ \A i, j \in Live(filearr) : filearr[i].path = filearr[j].path => i = j

\* What an open transaction is about.
TxnInv ==
  \A s \in Session : ~Idle(s) =>
    /\ txn[s].op = "del" => txn[s].id \in FileId
    /\ txn[s].op # "del" => txn[s].path \in Path
    /\ txn[s].op = "hash" <=> s \notin Scanner
    /\ txn[s].base # NoRow => txn[s].id \in FileId
    /\ txn[s].base # NoRow /\ txn[s].op # "del" =>
         txn[s].base.path = txn[s].path
    /\ Locked(s) => Writes(s) /\ txn[s].id \in FileId

\* First updater wins: a snapshot that was not overtaken, and the base of any
\* granted UPDATE, is the row as it is now.
SnapshotInv ==
  \A s \in Session :
    /\ ~Idle(s) /\ ~txn[s].overtaken /\ Updates(s) =>
         filearr[txn[s].id] = txn[s].base
    /\ Locked(s) /\ Updates(s) => ~txn[s].overtaken

\* What a granted lock protects from the commits of others.
LockInv ==
  \A s \in Session : Locked(s) =>
    /\ References(s) => /\ filearr[txn[s].id] # NoRow
                        /\ filearr[txn[s].id].path = txn[s].path
    /\ Inserts(s) => /\ filearr[txn[s].id] = NoRow
                     /\ txn[s].id < nextId
                     /\ \A i \in Live(filearr) : filearr[i].path # txn[s].path

Exclusive ==
  \A s, q \in Session : s # q /\ Locked(s) /\ Locked(q) =>
    /\ Updates(s) /\ Updates(q) => txn[s].id # txn[q].id
    /\ Inserts(s) /\ Inserts(q) => /\ txn[s].id # txn[q].id
                                   /\ txn[s].path # txn[q].path

\* The row a foreign key refers to is not replaced by another file's row.
ReferenceInv ==
  \A s \in Session : ~Idle(s) /\ References(s) =>
    /\ txn[s].id < nextId
    /\ filearr[txn[s].id] # NoRow => filearr[txn[s].id].path = txn[s].path
    /\ \A q \in Session : Locked(q) /\ Inserts(q) => txn[q].id # txn[s].id

RowsInv ==
  TableInv /\ TxnInv /\ SnapshotInv /\ ReferenceInv /\ LockInv /\ Exclusive

CatalogInv == TypeOK /\ RowsInv

-----------------------------------------------------------------------------
(* Lemmas about the operators of Catalog.                                  *)

\* Adding or removing a mark yields a row of the same path.
LEMMA MarkTypes ==
  ASSUME NEW row \in Row, NEW m \in Mirror
  PROVE  /\ WithMark(row, m) \in Row /\ WithMark(row, m).path = row.path
         /\ WithoutMark(row, m) \in Row /\ WithoutMark(row, m).path = row.path
<1>1. EmptyMarks \in Marks
  BY DEF EmptyMarks, Marks
<1>2. row.mirrors \in Marks \cup {NULL}
  BY DEF Row
<1>3. ArrayAppend(row.mirrors, m) \in Marks
  BY <1>1, <1>2 DEF ArrayAppend, Marks
<1>4. ArrayWithout(row.mirrors, m) \in Marks
  BY <1>1, <1>2 DEF ArrayWithout, Marks
<1> QED
  BY <1>3, <1>4 DEF WithMark, WithoutMark, Row

\* A row created by a hasher or by a trusted scan is a row of its path.
LEMMA NewRowTypes ==
  ASSUME NEW path \in Path, NEW m \in Mirror
  PROVE  /\ NewRow(path) \in Row /\ NewRow(path).path = path
         /\ NewMarkedRow(path, m) \in Row /\ NewMarkedRow(path, m).path = path
  BY DEF NewRow, NewMarkedRow, Row, EmptyMarks, Marks

\* What a SELECT by path answers: the id of such a row, or 0 and there is none.
LEMMA FileIdOfFacts ==
  ASSUME NEW tab \in Table, NEW path \in Path
  PROVE  /\ FileIdOf(tab, path) \in FileId \cup {0}
         /\ FileIdOf(tab, path) # 0 =>
              /\ FileIdOf(tab, path) \in Live(tab)
              /\ tab[FileIdOf(tab, path)].path = path
         /\ FileIdOf(tab, path) = 0 => \A i \in Live(tab) : tab[i].path # path
<1>1. CASE IdsAt(tab, path) = {}
  BY <1>1, IdAssumption DEF FileIdOf, IdsAt
<1>2. CASE IdsAt(tab, path) # {}
  <2>1. FileIdOf(tab, path) \in IdsAt(tab, path)
    BY <1>2 DEF FileIdOf
  <2> QED
    BY <2>1, IdAssumption DEF IdsAt, Live
<1> QED
  BY <1>1, <1>2

-----------------------------------------------------------------------------
(* What one committing transaction does to the table.                      *)

\* A commit leaves the table alone, or gives an existing row its next version,
\* or inserts a row where there was none.
LEMMA CommitFacts ==
  ASSUME CatalogInv, NEW s \in Session, Commit(s)
  PROVE  \/ /\ ~Updates(s) /\ ~Inserts(s)
            /\ filearr' = filearr
         \/ /\ Locked(s) /\ Updates(s) /\ ~Inserts(s)
            /\ txn[s].id \in FileId
            /\ filearr[txn[s].id] = txn[s].base /\ txn[s].base \in Row
            /\ NewVersion(s) \in Row /\ NewVersion(s).path = txn[s].base.path
            /\ filearr' = [filearr EXCEPT ![txn[s].id] = NewVersion(s)]
         \/ /\ Locked(s) /\ Inserts(s) /\ ~Updates(s)
            /\ txn[s].id \in FileId
            /\ txn[s].path \in Path
            /\ filearr[txn[s].id] = NoRow
            /\ NewVersion(s) \in Row /\ NewVersion(s).path = txn[s].path
            /\ filearr' = [filearr EXCEPT ![txn[s].id] = NewVersion(s)]
<1>1. /\ txn[s] \in Txn
      /\ s \in Scanner => MirrorOf[s] \in Mirror
      /\ ~(Updates(s) /\ Inserts(s))
      /\ ~Idle(s)
  BY ScanAssumption DEF CatalogInv, TypeOK, Updates, Inserts, Commit, CanCommit, Locked, Idle
<1>2. CASE ~Updates(s) /\ ~Inserts(s)
  BY <1>2 DEF Commit
<1>3. CASE Updates(s)
  <2>1. Locked(s) /\ txn[s].id \in FileId
    BY <1>3, <1>1 DEF Commit, CanCommit, Writes, CatalogInv, RowsInv, TxnInv
  <2>2. filearr[txn[s].id] = txn[s].base
    BY <1>3, <1>1, <2>1 DEF CatalogInv, RowsInv, SnapshotInv
  <2>3. txn[s].base \in Row /\ txn[s].base # NoRow /\ txn[s].op # "hash"
    BY <1>1, <1>3 DEF Txn, Updates
  <2>4. s \in Scanner
    BY <2>3, <1>1 DEF CatalogInv, RowsInv, TxnInv
  <2>5. NewVersion(s) \in Row /\ NewVersion(s).path = txn[s].base.path
    BY <2>3, <2>4, <1>1, MarkTypes DEF NewVersion
  <2> QED
    BY <1>1, <1>3, <2>1, <2>2, <2>3, <2>5 DEF Commit
<1>4. CASE Inserts(s)
  <2>1. Locked(s) /\ txn[s].id \in FileId
    BY <1>4, <1>1 DEF Commit, CanCommit, Writes, CatalogInv, RowsInv, TxnInv
  <2>2. filearr[txn[s].id] = NoRow
    BY <1>4, <2>1 DEF CatalogInv, RowsInv, LockInv
  <2>3. txn[s].path \in Path /\ txn[s].base = NoRow
        /\ (txn[s].op = "hash" \/ (txn[s].op = "add" /\ s \in Scanner))
    BY <1>1, <1>4, ScanAssumption DEF CatalogInv, RowsInv, TxnInv, Inserts
  <2>4. NewVersion(s) \in Row /\ NewVersion(s).path = txn[s].path
    BY <2>3, <1>1, NewRowTypes DEF NewVersion, NewRow, Row
  <2> QED
    BY <1>1, <1>4, <2>1, <2>2, <2>3, <2>4 DEF Commit
<1> QED
  BY <1>2, <1>3, <1>4

-----------------------------------------------------------------------------
(* The kinds of steps, by what they do to the table and the transactions.  *)

\* A step that touches neither.
LEMMA QuietStep ==
  ASSUME CatalogInv, UNCHANGED <<filearr, nextId, txn>>
  PROVE  RowsInv'
  BY DEF CatalogInv, RowsInv, TableInv, TxnInv, SnapshotInv, ReferenceInv, LockInv, Exclusive,
         Live, Idle, Locked, Writes, Inserts, Updates, References

\* BEGIN and the first SELECT of a transaction.
LEMMA BeginStep ==
  ASSUME CatalogInv, NEW s \in Session, Idle(s),
         NEW op \in {"add", "del", "hash"}, NEW path \in Path \cup {NULL},
         NEW id \in FileId \cup {0},
         op = "del" => id \in FileId,
         op # "del" => path \in Path /\ id = FileIdOf(filearr, path),
         op = "hash" <=> s \notin Scanner,
         BeginTxn(s, op, path, id),
         UNCHANGED <<filearr, nextId>>
  PROVE  RowsInv' /\ txn' \in [Session -> Txn]
<1> DEFINE base == IF id = 0 THEN NoRow ELSE filearr[id]
           new == [step |-> "snapshot", op |-> op, path |-> path, id |-> id,
                   base |-> base, overtaken |-> FALSE]
<1>1. /\ filearr \in Table /\ txn \in [Session -> Txn]
      /\ txn' = [txn EXCEPT ![s] = new]
  BY DEF CatalogInv, TypeOK, BeginTxn
<1>2. base \in Row \cup {NoRow}
  BY <1>1, IdAssumption DEF Table
<1>3. base # NoRow => id \in FileId /\ filearr[id] = base
  BY IdAssumption
<1>4. base # NoRow /\ op # "del" => base.path = path
  BY <1>1, <1>3, FileIdOfFacts, IdAssumption
<1> HIDE DEF base
<1>5. new \in Txn
  BY <1>2 DEF Txn
<1>6. txn' \in [Session -> Txn]
  BY <1>1, <1>5
<1>7. txn'[s] = new /\ \A q \in Session \ {s} : txn'[q] = txn[q]
  BY <1>1
<1>8. TableInv'
  BY DEF CatalogInv, RowsInv, TableInv, Live
<1>9. TxnInv'
  BY <1>7, <1>3, <1>4 DEF CatalogInv, RowsInv, TxnInv, Idle, Locked, Writes, Inserts, Updates, References
<1>10. SnapshotInv'
  BY <1>7, <1>3 DEF CatalogInv, RowsInv, SnapshotInv, Idle, Locked, Updates
<1>11. ReferenceInv'
  <2>1. \A q \in Session : /\ Locked(q)' => Locked(q) /\ q # s
                           /\ q # s => /\ Inserts(q)' <=> Inserts(q)
                                       /\ References(q)' <=> References(q)
                                       /\ Idle(q)' <=> Idle(q)
    BY <1>7 DEF Locked, Idle, Inserts, References
  <2>2. base # NoRow => id < nextId /\ \A q \in Session : Locked(q) /\ Inserts(q) => txn[q].id # id
    BY <1>3, <1>1 DEF CatalogInv, RowsInv, TableInv, LockInv, Live
  <2>3. SUFFICES ASSUME NEW q \in Session, ~Idle(q)', References(q)'
                 PROVE  /\ txn'[q].id < nextId
                        /\ filearr[txn'[q].id] # NoRow => filearr[txn'[q].id].path = txn'[q].path
                        /\ \A r \in Session : Locked(r)' /\ Inserts(r)' => txn'[r].id # txn'[q].id
    BY DEF ReferenceInv
  <2>4. CASE q = s
    BY <2>1, <2>2, <2>3, <2>4, <1>3, <1>4, <1>7 DEF References
  <2>5. CASE q # s
    BY <2>1, <2>3, <2>5, <1>7 DEF CatalogInv, RowsInv, ReferenceInv
  <2> QED
    BY <2>4, <2>5
<1>12. LockInv' /\ Exclusive'
  BY <1>7 DEF CatalogInv, RowsInv, LockInv, Exclusive, Live, Locked, Inserts, Updates, References
<1> QED
  BY <1>6, <1>8, <1>9, <1>10, <1>11, <1>12 DEF RowsInv

\* A statement that obtains its lock.
LEMMA WriteStep ==
  ASSUME CatalogInv, NEW s \in Session, Write(s)
  PROVE  RowsInv' /\ txn' \in [Session -> Txn] /\ nextId' \in Nat
<1>1. /\ filearr \in Table /\ txn \in [Session -> Txn] /\ nextId \in Nat
      /\ txn[s] \in Txn /\ txn[s].step = "snapshot" /\ filearr' = filearr
  BY DEF CatalogInv, TypeOK, Write
<1> DEFINE id2 == IF Inserts(s) THEN nextId ELSE txn[s].id
<1>2. /\ txn' = [txn EXCEPT ![s] = [txn[s] EXCEPT !.step = "locked", !.id = id2]]
      /\ nextId' = IF Inserts(s) THEN nextId + 1 ELSE nextId
      /\ Writes(s)
      /\ Inserts(s) => nextId \in FileId /\ PathFree(s) /\ IdsAt(filearr, txn[s].path) = {}
      /\ Updates(s) => RowFree(s) /\ ~txn[s].overtaken
      /\ References(s) => filearr[txn[s].id] # NoRow
  <2>1. CASE Inserts(s)
    <3>1. /\ ~Updates(s) /\ ~References(s)
      BY <2>1 DEF Inserts, Updates, References
    <3> QED
      BY <2>1, <3>1, <1>1 DEF Write, Rejected, UniqueConflict, Txn
  <2>2. CASE ~Inserts(s)
    <3>1. [txn[s] EXCEPT !.step = "locked"] = [txn[s] EXCEPT !.step = "locked", !.id = id2]
      BY <2>2, <1>1 DEF Txn
    <3>2. /\ txn' = [txn EXCEPT ![s] = [txn[s] EXCEPT !.step = "locked"]]
          /\ nextId' = nextId
          /\ Updates(s) => RowFree(s)
          /\ Writes(s) /\ ~Rejected(s)
      <4>1. Updates(s) => ~References(s)
        BY DEF Updates, References
      <4> QED
        BY <2>2, <4>1, <1>1 DEF Write
    <3> QED
      BY <2>2, <3>1, <3>2, <1>1 DEF Rejected
  <2> QED
    BY <2>1, <2>2
<1>3. /\ ~Idle(s)
      /\ Inserts(s) \/ txn[s].id \in FileId
      /\ txn[s].base # NoRow => txn[s].id \in FileId
      /\ txn[s].base # NoRow /\ txn[s].op # "del" => txn[s].base.path = txn[s].path
      /\ txn[s].op # "del" => txn[s].path \in Path
  BY <1>1, <1>2 DEF CatalogInv, RowsInv, TxnInv, Idle, Writes, Updates, References
<1>4. id2 \in FileId
  BY <1>2, <1>3
<1> DEFINE new == [txn[s] EXCEPT !.step = "locked", !.id = id2]
<1>5. /\ new \in Txn /\ new.step = "locked" /\ new.id = id2
      /\ new.op = txn[s].op /\ new.path = txn[s].path
      /\ new.base = txn[s].base /\ new.overtaken = txn[s].overtaken
  BY <1>1, <1>4 DEF Txn
<1>6. txn' \in [Session -> Txn] /\ nextId' \in Nat
  BY <1>1, <1>2, <1>5
<1>7. txn'[s] = new /\ \A q \in Session \ {s} : txn'[q] = txn[q]
  BY <1>1, <1>2
<1>8. \A q \in Session : /\ Inserts(q)' <=> Inserts(q)
                         /\ Updates(q)' <=> Updates(q)
                         /\ References(q)' <=> References(q)
                         /\ Writes(q)' <=> Writes(q)
  BY <1>5, <1>7 DEF Inserts, Updates, References, Writes
<1> HIDE DEF new, id2
<1>9. TableInv'
  BY <1>1, <1>2, IdAssumption DEF CatalogInv, RowsInv, TableInv, Live
<1>10. TxnInv'
  <2> SUFFICES ASSUME NEW q \in Session, ~Idle(q)'
               PROVE  /\ txn'[q].op = "del" => txn'[q].id \in FileId
                      /\ txn'[q].op # "del" => txn'[q].path \in Path
                      /\ txn'[q].op = "hash" <=> q \notin Scanner
                      /\ txn'[q].base # NoRow => txn'[q].id \in FileId
                      /\ txn'[q].base # NoRow /\ txn'[q].op # "del" =>
                           txn'[q].base.path = txn'[q].path
                      /\ Locked(q)' => Writes(q)' /\ txn'[q].id \in FileId
    BY DEF TxnInv
  <2>1. CASE q = s
    BY <2>1, <1>2, <1>3, <1>4, <1>5, <1>7, <1>8 DEF CatalogInv, RowsInv, TxnInv
  <2>2. CASE q # s
    BY <2>2, <1>7, <1>8 DEF CatalogInv, RowsInv, TxnInv, Idle, Locked
  <2> QED
    BY <2>1, <2>2
<1>11. SnapshotInv'
  BY <1>1, <1>2, <1>3, <1>5, <1>7, <1>8 DEF CatalogInv, RowsInv, SnapshotInv, Idle, Locked, Updates, Inserts, id2
<1>12. LockInv'
  <2> SUFFICES ASSUME NEW q \in Session, Locked(q)'
               PROVE  /\ References(q)' => /\ filearr[txn'[q].id] # NoRow
                                           /\ filearr[txn'[q].id].path = txn'[q].path
                      /\ Inserts(q)' => /\ filearr[txn'[q].id] = NoRow
                                        /\ txn'[q].id < nextId'
                                        /\ \A i \in Live(filearr) :
                                             filearr[i].path # txn'[q].path
    BY <1>1 DEF LockInv, Live
  <2>1. CASE q # s
    BY <2>1, <1>1, <1>2, <1>7, <1>8, <1>6, IdAssumption
    DEF CatalogInv, RowsInv, LockInv, Locked, TypeOK, Txn
  <2>2. CASE q = s /\ Inserts(s)
    <3>1. id2 = nextId /\ nextId \in FileId /\ nextId' = nextId + 1
      BY <2>2, <1>2 DEF id2
    <3>2. filearr[nextId] = NoRow
      BY <3>1, <1>1 DEF CatalogInv, RowsInv, TableInv, Live
    <3> QED
      BY <2>2, <3>1, <3>2, <1>1, <1>2, <1>5, <1>7, <1>8
      DEF IdsAt, Inserts, References
  <2>3. CASE q = s /\ References(s)
    <3>1. ~Inserts(s) /\ id2 = txn[s].id
      BY <2>3 DEF Inserts, References, id2
    <3> QED
      BY <2>3, <3>1, <1>2, <1>3, <1>5, <1>7, <1>8 DEF CatalogInv, RowsInv, ReferenceInv
  <2>4. CASE q = s /\ ~Inserts(s) /\ ~References(s)
    BY <2>4, <1>8
  <2> QED
    BY <2>1, <2>2, <2>3, <2>4
<1>13. Exclusive'
  <2> SUFFICES ASSUME NEW a \in Session, NEW b \in Session, a # b,
                      Locked(a)', Locked(b)'
               PROVE  /\ Updates(a) /\ Updates(b) => txn'[a].id # txn'[b].id
                      /\ Inserts(a) /\ Inserts(b) => /\ txn'[a].id # txn'[b].id
                                                     /\ txn'[a].path # txn'[b].path
    BY <1>8 DEF Exclusive
  <2>1. ASSUME NEW q \in Session \ {s}, Locked(q)'
        PROVE  /\ Updates(s) /\ Updates(q) => txn'[s].id # txn'[q].id
               /\ Inserts(s) /\ Inserts(q) => /\ txn'[s].id # txn'[q].id
                                              /\ txn'[s].path # txn'[q].path
    <3>1. Locked(q) /\ txn'[q] = txn[q]
      BY <2>1, <1>7 DEF Locked
    <3>2. ASSUME Updates(s), Updates(q) PROVE txn'[s].id # txn'[q].id
      <4>1. ~Inserts(s)
        BY <3>2 DEF Inserts, Updates
      <4> QED
        BY <4>1, <3>1, <3>2, <1>2, <1>5, <1>7 DEF RowFree, id2
    <3>3. ASSUME Inserts(s), Inserts(q)
          PROVE  txn'[s].id # txn'[q].id /\ txn'[s].path # txn'[q].path
      <4>1. txn[q].id < nextId /\ txn[q].id \in Nat
        BY <3>1, <3>3, IdAssumption DEF CatalogInv, RowsInv, LockInv, TxnInv, Idle, Locked
      <4>2. txn'[s].id = nextId /\ txn'[s].path = txn[s].path
        BY <3>3, <1>5, <1>7 DEF id2
      <4> QED
        BY <4>1, <4>2, <3>1, <3>3, <1>1, <1>2 DEF PathFree
    <3> QED
      BY <3>2, <3>3
  <2>2. CASE a # s /\ b # s
    BY <2>2, <1>7 DEF CatalogInv, RowsInv, Exclusive, Locked
  <2> QED
    BY <2>1, <2>2
<1>14. ReferenceInv'
  <2> SUFFICES ASSUME NEW q \in Session, ~Idle(q)', References(q)'
               PROVE  /\ txn'[q].id < nextId'
                      /\ filearr[txn'[q].id] # NoRow => filearr[txn'[q].id].path = txn'[q].path
                      /\ \A r \in Session : Locked(r)' /\ Inserts(r)' => txn'[r].id # txn'[q].id
    BY <1>1 DEF ReferenceInv
  <2>1. ~Idle(q) /\ References(q) /\ txn'[q].id = txn[q].id /\ txn'[q].path = txn[q].path
    BY <1>3, <1>5, <1>7, <1>8 DEF Idle, References, Inserts, id2
  <2>2. txn[q].id < nextId /\ txn[q].id \in Nat
    <3>1. txn[q].id \in FileId
      BY <2>1 DEF CatalogInv, RowsInv, TxnInv, References
    <3> QED
      BY <2>1, <3>1, IdAssumption DEF CatalogInv, RowsInv, ReferenceInv
  <2>3. ASSUME NEW r \in Session, Locked(r)', Inserts(r)'
        PROVE  txn'[r].id # txn[q].id
    <3>1. Inserts(r)
      BY <2>3, <1>8
    <3>2. CASE r = s
      <4>1. txn'[s].id = nextId
        BY <3>1, <3>2, <1>5, <1>7 DEF id2
      <4> QED
        BY <3>2, <4>1, <2>2, <1>1
    <3>3. CASE r # s
      <4>1. Locked(r) /\ txn'[r] = txn[r]
        BY <3>3, <2>3, <1>7 DEF Locked
      <4> QED
        BY <3>1, <4>1, <2>1 DEF CatalogInv, RowsInv, ReferenceInv
    <3> QED
      BY <3>2, <3>3
  <2> QED
    BY <2>1, <2>2, <2>3, <1>1, <1>2 DEF CatalogInv, RowsInv, ReferenceInv
<1> QED
  BY <1>6, <1>9, <1>10, <1>11, <1>12, <1>13, <1>14 DEF RowsInv

\* COMMIT: the only steps of scans and hashers that change the table.
LEMMA CommitStep ==
  ASSUME CatalogInv, NEW s \in Session, Commit(s), UNCHANGED nextId
  PROVE  RowsInv' /\ txn' \in [Session -> Txn] /\ filearr' \in Table
<1> DEFINE ids == IF Inserts(s) \/ Updates(s) THEN {txn[s].id} ELSE {}
<1>1. /\ filearr \in Table /\ txn \in [Session -> Txn] /\ nextId \in Nat
      /\ ~Idle(s)
  BY DEF CatalogInv, TypeOK, Commit, CanCommit, Locked, Idle
<1>2. txn' = AfterChange(s, ids)
  BY DEF Commit
<1>3. NoTxn \in Txn
  BY DEF NoTxn, Txn
<1>4. txn' \in [Session -> Txn]
  BY <1>1, <1>2, <1>3 DEF AfterChange, Txn
<1>5. filearr' \in Table
  BY <1>1, CommitFacts DEF Table
<1>6. /\ txn'[s] = NoTxn /\ Idle(s)'
      /\ \A q \in Session \ {s} :
           txn'[q] = IF txn[q].step = "snapshot" /\ txn[q].id \in ids
                     THEN [txn[q] EXCEPT !.overtaken = TRUE] ELSE txn[q]
  BY <1>2 DEF AfterChange, Idle, NoTxn
<1>7. \A q \in Session \ {s} :
        /\ txn'[q].step = txn[q].step /\ txn'[q].op = txn[q].op
        /\ txn'[q].path = txn[q].path /\ txn'[q].id = txn[q].id
        /\ txn'[q].base = txn[q].base
        /\ ~txn'[q].overtaken => ~txn[q].overtaken /\ ~(txn[q].step = "snapshot" /\ txn[q].id \in ids)
        /\ Locked(q) => txn'[q].overtaken = txn[q].overtaken
  BY <1>1, <1>6 DEF Txn, Locked
<1>8. \A q \in Session \ {s} : /\ Inserts(q)' <=> Inserts(q)
                               /\ Updates(q)' <=> Updates(q)
                               /\ References(q)' <=> References(q)
                               /\ Writes(q)' <=> Writes(q)
                               /\ Idle(q)' <=> Idle(q)
                               /\ Locked(q)' <=> Locked(q)
  BY <1>7 DEF Inserts, Updates, References, Writes, Idle, Locked
<1>9. \A q \in Session : ~Idle(q)' => q # s /\ ~Idle(q)
  BY <1>6, <1>8
<1>10. \A q \in Session : Locked(q)' => q # s /\ Locked(q) /\ ~Idle(q)'
  BY <1>6, <1>8 DEF Locked, Idle
<1>11. \A i \in FileId : i \notin ids => filearr'[i] = filearr[i]
  BY <1>1, CommitFacts DEF Table
<1>12. \A i \in ids : /\ i = txn[s].id /\ Locked(s) /\ i \in FileId
                      /\ filearr'[i] # NoRow /\ filearr'[i] = NewVersion(s)
                      /\ Updates(s) => /\ filearr[i] # NoRow
                                       /\ filearr'[i].path = filearr[i].path
                      /\ ~Updates(s) => /\ Inserts(s) /\ filearr[i] = NoRow
                                        /\ filearr'[i].path = txn[s].path
  BY <1>1, CommitFacts, NoRowAssumption DEF Table
<1> HIDE DEF ids
<1>13. TableInv'
  <2>1. ASSUME NEW i \in Live(filearr)' PROVE i < nextId
    <3>1. CASE i \in ids
      BY <3>1, <1>12 DEF CatalogInv, RowsInv, TableInv, LockInv, Live
    <3>2. CASE i \notin ids
      BY <3>2, <1>11, <2>1 DEF CatalogInv, RowsInv, TableInv, Live
    <3> QED
      BY <3>1, <3>2
  <2>2. ASSUME NEW i \in Live(filearr)', NEW j \in Live(filearr)',
               filearr'[i].path = filearr'[j].path, j \notin ids
        PROVE  i = j
    <3>1. j \in Live(filearr) /\ filearr'[j] = filearr[j]
      BY <2>2, <1>11 DEF Live
    <3>2. CASE i \notin ids
      BY <3>1, <3>2, <2>2, <1>11 DEF CatalogInv, RowsInv, TableInv, Live
    <3>3. CASE i \in ids /\ Updates(s)
      BY <3>1, <3>3, <2>2, <1>12 DEF CatalogInv, RowsInv, TableInv, Live
    <3>4. CASE i \in ids /\ ~Updates(s)
      BY <3>1, <3>4, <2>2, <1>12 DEF CatalogInv, RowsInv, LockInv
    <3> QED
      BY <3>2, <3>3, <3>4
  <2>3. \A i, j \in ids : i = j
    BY <1>12
  <2> QED
    BY <2>1, <2>2, <2>3 DEF TableInv
<1>14. TxnInv'
  <2> SUFFICES ASSUME NEW q \in Session, ~Idle(q)'
               PROVE  /\ txn'[q].op = "del" => txn'[q].id \in FileId
                      /\ txn'[q].op # "del" => txn'[q].path \in Path
                      /\ txn'[q].op = "hash" <=> q \notin Scanner
                      /\ txn'[q].base # NoRow => txn'[q].id \in FileId
                      /\ txn'[q].base # NoRow /\ txn'[q].op # "del" =>
                           txn'[q].base.path = txn'[q].path
                      /\ Locked(q)' => Writes(q)' /\ txn'[q].id \in FileId
    BY DEF TxnInv
  <2> QED
    BY <1>7, <1>8, <1>9 DEF CatalogInv, RowsInv, TxnInv
<1>15. SnapshotInv'
  <2> SUFFICES ASSUME NEW q \in Session, ~Idle(q)', Updates(q)'
               PROVE  /\ ~txn'[q].overtaken => filearr'[txn'[q].id] = txn'[q].base
                      /\ Locked(q)' => ~txn'[q].overtaken
    BY <1>10 DEF SnapshotInv
  <2>1. q # s /\ ~Idle(q) /\ Updates(q) /\ txn[q].id \in FileId
    BY <1>8, <1>9 DEF CatalogInv, RowsInv, TxnInv, Updates
  <2>2. Locked(q)' => ~txn'[q].overtaken
    BY <2>1, <1>7, <1>8 DEF CatalogInv, RowsInv, SnapshotInv
  <2>3. ASSUME ~txn'[q].overtaken PROVE filearr'[txn'[q].id] = txn'[q].base
    <3>1. filearr[txn[q].id] = txn[q].base /\ txn[q].base # NoRow
      BY <2>1, <2>3, <1>7 DEF CatalogInv, RowsInv, SnapshotInv, Updates
    <3>2. txn[q].id \notin ids
      <4>1. ASSUME txn[q].id \in ids PROVE FALSE
        <5>1. Locked(q)
          BY <2>1, <2>3, <4>1, <1>1, <1>7 DEF Locked, Idle, Txn
        <5>2. Locked(s) /\ Updates(s) /\ txn[s].id = txn[q].id
          BY <3>1, <4>1, <1>12
        <5> QED
          BY <2>1, <5>1, <5>2 DEF CatalogInv, RowsInv, Exclusive
      <4> QED
        BY <4>1
    <3> QED
      BY <2>1, <3>1, <3>2, <1>7, <1>11
  <2> QED
    BY <2>2, <2>3
<1>16. ReferenceInv'
  <2> SUFFICES ASSUME NEW q \in Session, ~Idle(q)', References(q)'
               PROVE  /\ txn'[q].id < nextId'
                      /\ filearr'[txn'[q].id] # NoRow => filearr'[txn'[q].id].path = txn'[q].path
                      /\ \A r \in Session : Locked(r)' /\ Inserts(r)' => txn'[r].id # txn'[q].id
    BY DEF ReferenceInv
  <2>1. q # s /\ ~Idle(q) /\ References(q) /\ txn[q].id \in FileId
    BY <1>8, <1>9 DEF CatalogInv, RowsInv, TxnInv, References
  <2>2. filearr'[txn[q].id] # NoRow => filearr'[txn[q].id].path = txn[q].path
    <3>1. CASE txn[q].id \in ids
      BY <2>1, <3>1, <1>12 DEF CatalogInv, RowsInv, ReferenceInv
    <3>2. CASE txn[q].id \notin ids
      BY <2>1, <3>2, <1>11 DEF CatalogInv, RowsInv, ReferenceInv
    <3> QED
      BY <3>1, <3>2
  <2>3. ASSUME NEW r \in Session, Locked(r)', Inserts(r)'
        PROVE  txn'[r].id # txn'[q].id
    <3>1. r # s /\ Locked(r) /\ Inserts(r)
      BY <2>3, <1>8, <1>10
    <3> QED
      BY <2>1, <3>1, <1>7 DEF CatalogInv, RowsInv, ReferenceInv
  <2> QED
    BY <2>1, <2>2, <2>3, <1>7 DEF CatalogInv, RowsInv, ReferenceInv
<1>17. LockInv'
  <2> SUFFICES ASSUME NEW q \in Session, Locked(q)'
               PROVE  /\ References(q)' => /\ filearr'[txn'[q].id] # NoRow
                                           /\ filearr'[txn'[q].id].path = txn'[q].path
                      /\ Inserts(q)' => /\ filearr'[txn'[q].id] = NoRow
                                        /\ txn'[q].id < nextId'
                                        /\ \A i \in Live(filearr)' :
                                             filearr'[i].path # txn'[q].path
    BY DEF LockInv
  <2>1. q # s /\ Locked(q) /\ ~Idle(q)' /\ txn[q].id \in FileId
    BY <1>9, <1>10 DEF CatalogInv, RowsInv, TxnInv
  <2>2. ASSUME References(q)'
        PROVE  filearr'[txn'[q].id] # NoRow /\ filearr'[txn'[q].id].path = txn'[q].path
    <3>1. References(q) /\ filearr[txn[q].id] # NoRow
      BY <2>1, <2>2, <1>8 DEF CatalogInv, RowsInv, LockInv
    <3>2. filearr'[txn[q].id] # NoRow
      BY <2>1, <3>1, <1>11, <1>12
    <3> QED
      BY <2>1, <2>2, <3>2, <1>7, <1>16 DEF ReferenceInv
  <2>3. ASSUME Inserts(q)'
        PROVE  /\ filearr'[txn'[q].id] = NoRow
               /\ txn'[q].id < nextId'
               /\ \A i \in Live(filearr)' : filearr'[i].path # txn'[q].path
    <3>1. /\ Inserts(q) /\ filearr[txn[q].id] = NoRow /\ txn[q].id < nextId
          /\ \A i \in Live(filearr) : filearr[i].path # txn[q].path
      BY <2>1, <2>3, <1>8 DEF CatalogInv, RowsInv, LockInv
    <3>2. txn[q].id \notin ids
      BY <2>1, <3>1, <1>12 DEF CatalogInv, RowsInv, Exclusive
    <3>3. ASSUME NEW i \in Live(filearr)' PROVE filearr'[i].path # txn[q].path
      <4>1. CASE i \notin ids
        BY <3>1, <3>3, <4>1, <1>11 DEF Live
      <4>2. CASE i \in ids /\ Updates(s)
        BY <3>1, <4>2, <1>12 DEF Live
      <4>3. CASE i \in ids /\ ~Updates(s)
        BY <2>1, <3>1, <4>3, <1>12 DEF CatalogInv, RowsInv, Exclusive
      <4> QED
        BY <4>1, <4>2, <4>3
    <3> QED
      BY <2>1, <3>1, <3>2, <3>3, <1>7, <1>11
  <2> QED
    BY <2>2, <2>3
<1>18. Exclusive'
  <2> SUFFICES ASSUME NEW a \in Session, NEW b \in Session, a # b,
                      Locked(a)', Locked(b)'
               PROVE  /\ Updates(a)' /\ Updates(b)' => txn'[a].id # txn'[b].id
                      /\ Inserts(a)' /\ Inserts(b)' => /\ txn'[a].id # txn'[b].id
                                                       /\ txn'[a].path # txn'[b].path
    BY DEF Exclusive
  <2> QED
    BY <1>7, <1>8, <1>10 DEF CatalogInv, RowsInv, Exclusive
<1> QED
  BY <1>4, <1>5, <1>13, <1>14, <1>15, <1>16, <1>17, <1>18 DEF RowsInv

\* ROLLBACK, asked for or not.
LEMMA RollbackStep ==
  ASSUME CatalogInv, NEW s \in Session, Rollback(s), UNCHANGED <<filearr, nextId>>
  PROVE  RowsInv' /\ txn' \in [Session -> Txn]
<1>1. /\ txn \in [Session -> Txn] /\ NoTxn \in Txn
  BY DEF CatalogInv, TypeOK, NoTxn, Txn
<1>2. /\ txn' \in [Session -> Txn] /\ txn'[s] = NoTxn /\ NoTxn.step = "none"
      /\ \A q \in Session \ {s} : txn'[q] = txn[q]
  BY <1>1 DEF Rollback, NoTxn
<1> HIDE DEF NoTxn
<1>3. TableInv' /\ TxnInv' /\ SnapshotInv'
  BY <1>2 DEF CatalogInv, RowsInv, TableInv, TxnInv, SnapshotInv,
              Live, Idle, Locked, Writes, Inserts, Updates, References
<1>4. ReferenceInv' /\ LockInv' /\ Exclusive'
  BY <1>2 DEF CatalogInv, RowsInv, ReferenceInv, LockInv, Exclusive,
              Live, Idle, Locked, Inserts, Updates, References
<1> QED
  BY <1>2, <1>3, <1>4 DEF RowsInv

\* The DELETE of syncmaster.
LEMMA CleanStep ==
  ASSUME CatalogInv, CleanCommit
  PROVE  RowsInv' /\ txn' \in [Session -> Txn] /\ filearr' \in Table
<1> DEFINE gone == doomed \cap Doomed(filearr)
<1>1. /\ filearr \in Table /\ txn \in [Session -> Txn] /\ doomed \subseteq FileId
      /\ filearr' = Deleted(filearr, gone) /\ nextId' = nextId
      /\ txn' = [q \in Session |->
                   IF txn[q].step = "snapshot" /\ txn[q].id \in gone
                   THEN [txn[q] EXCEPT !.overtaken = TRUE] ELSE txn[q]]
      /\ \A q \in Session :
           Locked(q) /\ (Updates(q) \/ References(q)) => txn[q].id \notin gone
  BY DEF CatalogInv, TypeOK, CleanCommit
<1>2. \A i \in FileId : filearr'[i] = IF i \in gone THEN NoRow ELSE filearr[i]
  BY <1>1 DEF Deleted
<1>3. filearr' \in Table
  BY <1>1 DEF Deleted, Table
<1> HIDE DEF gone
<1>4. txn' \in [Session -> Txn]
  <2>1. ASSUME NEW r \in Txn PROVE [r EXCEPT !.overtaken = TRUE] \in Txn
    BY DEF Txn
  <2> QED
    BY <1>1, <2>1
<1>5. \A q \in Session :
        /\ txn'[q].step = txn[q].step /\ txn'[q].op = txn[q].op
        /\ txn'[q].path = txn[q].path /\ txn'[q].id = txn[q].id
        /\ txn'[q].base = txn[q].base
        /\ ~txn'[q].overtaken => ~txn[q].overtaken /\ ~(txn[q].step = "snapshot" /\ txn[q].id \in gone)
        /\ Locked(q) => txn'[q].overtaken = txn[q].overtaken
  BY <1>1 DEF Txn, Locked
<1>6. \A q \in Session : /\ Inserts(q)' <=> Inserts(q)
                         /\ Updates(q)' <=> Updates(q)
                         /\ References(q)' <=> References(q)
                         /\ Writes(q)' <=> Writes(q)
                         /\ Idle(q)' <=> Idle(q)
                         /\ Locked(q)' <=> Locked(q)
  BY <1>5 DEF Inserts, Updates, References, Writes, Idle, Locked
<1>7. \A i \in Live(filearr)' : i \in Live(filearr) /\ filearr'[i] = filearr[i]
  BY <1>2 DEF Live
<1>8. TableInv'
  BY <1>1, <1>7 DEF CatalogInv, RowsInv, TableInv
<1>9. TxnInv'
  BY <1>5, <1>6 DEF CatalogInv, RowsInv, TxnInv
<1>10. SnapshotInv'
  <2> SUFFICES ASSUME NEW q \in Session, ~Idle(q)', Updates(q)'
               PROVE  /\ ~txn'[q].overtaken => filearr'[txn'[q].id] = txn'[q].base
                      /\ Locked(q)' => ~txn'[q].overtaken
    BY <1>6 DEF SnapshotInv, Locked, Idle
  <2>1. ~Idle(q) /\ Updates(q) /\ txn[q].id \in FileId
    BY <1>6 DEF CatalogInv, RowsInv, TxnInv, Updates
  <2>2. Locked(q)' => ~txn'[q].overtaken
    BY <2>1, <1>5, <1>6 DEF CatalogInv, RowsInv, SnapshotInv
  <2>3. ASSUME ~txn'[q].overtaken PROVE filearr'[txn'[q].id] = txn'[q].base
    <3>1. txn[q].step = "snapshot" \/ Locked(q)
      BY <2>1, <1>1 DEF Txn, Idle, Locked
    <3>2. txn[q].id \notin gone
      BY <2>1, <2>3, <3>1, <1>1, <1>5
    <3> QED
      BY <2>1, <2>3, <3>2, <1>2, <1>5 DEF CatalogInv, RowsInv, SnapshotInv
  <2> QED
    BY <2>2, <2>3
<1>11. ReferenceInv'
  <2>1. \A q \in Session : References(q) /\ ~Idle(q) => txn[q].id \in FileId
    BY DEF CatalogInv, RowsInv, TxnInv, References
  <2> QED
    BY <2>1, <1>1, <1>2, <1>5, <1>6 DEF CatalogInv, RowsInv, ReferenceInv
<1>12. LockInv'
  <2> SUFFICES ASSUME NEW q \in Session, Locked(q)'
               PROVE  /\ References(q)' => /\ filearr'[txn'[q].id] # NoRow
                                           /\ filearr'[txn'[q].id].path = txn'[q].path
                      /\ Inserts(q)' => /\ filearr'[txn'[q].id] = NoRow
                                        /\ txn'[q].id < nextId'
                                        /\ \A i \in Live(filearr)' :
                                             filearr'[i].path # txn'[q].path
    BY DEF LockInv
  <2>1. Locked(q) /\ ~Idle(q) /\ txn[q].id \in FileId
    BY <1>6 DEF CatalogInv, RowsInv, TxnInv, Locked, Idle
  <2> QED
    BY <2>1, <1>1, <1>2, <1>5, <1>6, <1>7 DEF CatalogInv, RowsInv, LockInv
<1>13. Exclusive'
  BY <1>5, <1>6 DEF CatalogInv, RowsInv, Exclusive
<1> QED
  BY <1>3, <1>4, <1>8, <1>9, <1>10, <1>11, <1>12, <1>13 DEF RowsInv

-----------------------------------------------------------------------------
(* Every step, by its kind.                                                *)

\* Steps inside a scan's memory only.
LEMMA QuietActions ==
  ASSUME CatalogInv, NEW p \in Scanner,
         Start(p) \/ GetListing(p) \/ OnlyList(p) \/ DryLookup(p)
           \/ EndAdding(p) \/ EndPurge(p)
  PROVE  UNCHANGED <<filearr, nextId, txn>>
  BY DEF Start, GetListing, OnlyList, DryLookup, EndAdding, EndPurge,
         RowsUnchanged, catalog

LEMMA BeginActions ==
  ASSUME CatalogInv, NEW s \in Session,
         \/ s \in Scanner /\ (AddBegin(s) \/ DelBegin(s))
         \/ s \in Hasher /\ HashBegin(s)
  PROVE  RowsInv' /\ txn' \in [Session -> Txn]
<1>1. /\ filearr \in Table
      /\ \A p \in Scanner : todo[p] \subseteq Path /\ files_in_db[p] \subseteq FileId
  BY DEF CatalogInv, TypeOK
<1>2. CASE s \in Scanner /\ AddBegin(s)
  <2>1. PICK path \in todo[s] : BeginTxn(s, "add", path, FileIdOf(filearr, path))
    BY <1>2 DEF AddBegin
  <2>2. /\ Idle(s) /\ UNCHANGED <<filearr, nextId>>
        /\ path \in Path /\ FileIdOf(filearr, path) \in FileId \cup {0}
    BY <1>1, <1>2, FileIdOfFacts DEF AddBegin, catalog
  <2> QED
    BY <1>2, <2>1, <2>2, BeginStep
<1>3. CASE s \in Scanner /\ DelBegin(s)
  <2>1. PICK id \in files_in_db[s] : BeginTxn(s, "del", NULL, id)
    BY <1>3 DEF DelBegin
  <2>2. Idle(s) /\ UNCHANGED <<filearr, nextId>> /\ id \in FileId
    BY <1>1, <1>3 DEF DelBegin, catalog
  <2> QED
    BY <1>3, <2>1, <2>2, BeginStep
<1>4. CASE s \in Hasher /\ HashBegin(s)
  <2>1. PICK path \in Path : BeginTxn(s, "hash", path, FileIdOf(filearr, path))
    BY <1>4 DEF HashBegin
  <2>2. /\ Idle(s) /\ UNCHANGED <<filearr, nextId>> /\ s \notin Scanner
        /\ FileIdOf(filearr, path) \in FileId \cup {0}
    BY <1>1, <1>4, FileIdOfFacts, ScanAssumption DEF HashBegin, catalog
  <2> QED
    BY <1>4, <2>1, <2>2, BeginStep
<1> QED
  BY <1>2, <1>3, <1>4

LEMMA CommitActions ==
  ASSUME CatalogInv, NEW s \in Session,
         \/ s \in Scanner /\ (AddCommit(s) \/ DelCommit(s))
         \/ s \in Hasher /\ HashCommit(s)
  PROVE  RowsInv' /\ txn' \in [Session -> Txn] /\ filearr' \in Table
<1>1. Commit(s) /\ UNCHANGED nextId
  BY DEF AddCommit, DelCommit, HashCommit
<1> QED
  BY <1>1, CommitStep

LEMMA RollbackActions ==
  ASSUME CatalogInv, NEW s \in Session,
         \/ s \in Scanner /\ (ScanError(s) \/ Kill(s))
         \/ s \in Hasher /\ HashError(s)
  PROVE  RowsInv' /\ txn' \in [Session -> Txn]
<1>1. Rollback(s) /\ UNCHANGED <<filearr, nextId>>
  BY DEF ScanError, Kill, HashError, catalog
<1> QED
  BY <1>1, RollbackStep

\* What a scan keeps in memory has its types after each of its steps.
LEMMA ScanTypes ==
  ASSUME CatalogInv, NEW p \in Scanner, Start(p) \/ ScanStep(p) \/ Kill(p)
  PROVE  /\ pc' \in [Scanner -> ScanPc]
         /\ mode' \in [Scanner -> ScanMode]
         /\ listing' \in [Scanner -> SUBSET Path]
         /\ todo' \in [Scanner -> SUBSET Path]
         /\ files_in_db' \in [Scanner -> SUBSET FileId]
         /\ before' \in [Scanner -> SUBSET FileId]
         /\ known' \in [Scanner -> SUBSET FileId]
<1> USE DEF CatalogInv, TypeOK, ScanPc, Running
<1>1. CASE Start(p)
  <2>1. /\ FilesOf(filearr, MirrorOf[p]) \subseteq FileId
        /\ Live(filearr) \subseteq FileId
    BY DEF FilesOf, Live
  <2> QED
    BY <1>1, <2>1, ScanAssumption DEF Start
<1>2. CASE GetListing(p)
  BY <1>2 DEF GetListing
<1>3. CASE OnlyList(p) \/ EndAdding(p) \/ EndPurge(p) \/ ScanError(p) \/ Kill(p)
  BY <1>3 DEF OnlyList, EndAdding, EndPurge, ScanError, Kill, Exit
<1>4. CASE DryLookup(p) \/ AddCommit(p) \/ DelCommit(p)
  BY <1>4 DEF DryLookup, AddCommit, DelCommit, Seen
<1>5. CASE AddBegin(p) \/ Write(p) \/ DelBegin(p)
  BY <1>5 DEF AddBegin, Write, DelBegin, scans
<1> QED
  BY <1>1, <1>2, <1>3, <1>4, <1>5 DEF ScanStep

-----------------------------------------------------------------------------
(* CatalogInv is inductive.                                                *)

LEMMA InitCatalogInv == Init => CatalogInv
<1> SUFFICES ASSUME Init PROVE CatalogInv
  OBVIOUS
<1>1. NoTxn \in Txn /\ NoTxn.step = "none"
  BY DEF NoTxn, Txn
<1>2. TypeOK
  BY <1>1 DEF Init, TypeOK, Table, ScanPc, ScanMode
<1>3. (\A s \in Session : Idle(s) /\ ~Locked(s)) /\ Live(filearr) = {}
  BY <1>1 DEF Init, Idle, Locked, Live
<1> QED
  BY <1>2, <1>3 DEF CatalogInv, RowsInv, TableInv, TxnInv, SnapshotInv,
                    ReferenceInv, LockInv, Exclusive

LEMMA StepCatalogInv == CatalogInv /\ [Next]_vars => CatalogInv'
<1> SUFFICES ASSUME CatalogInv, [Next]_vars PROVE CatalogInv'
  OBVIOUS
<1>1. /\ Scanner \subseteq Session /\ Hasher \subseteq Session
      /\ Live(filearr) \subseteq FileId
  BY DEF Session, Live
<1>2. ASSUME NEW p \in Scanner, Start(p) \/ ScanStep(p) \/ Kill(p)
      PROVE  CatalogInv'
  <2>1. UNCHANGED <<hash, syncing, doomed>>
    BY <1>2 DEF Start, ScanStep, Kill, GetListing, OnlyList, DryLookup, AddBegin,
                Write, AddCommit, EndAdding, DelBegin, DelCommit, EndPurge,
                ScanError, RowsUnchanged, catalog, cleaner
  <2>2. ASSUME RowsInv', txn' \in [Session -> Txn],
               filearr' \in Table, nextId' \in Nat
        PROVE  CatalogInv'
    BY <1>2, <2>1, <2>2, ScanTypes DEF CatalogInv, TypeOK
  <2>3. CASE Start(p) \/ GetListing(p) \/ OnlyList(p) \/ DryLookup(p)
               \/ EndAdding(p) \/ EndPurge(p)
    BY <2>2, <2>3, QuietActions, QuietStep DEF CatalogInv, TypeOK
  <2>4. CASE AddBegin(p) \/ DelBegin(p)
    <3>1. UNCHANGED <<filearr, nextId>>
      BY <2>4 DEF AddBegin, DelBegin, catalog
    <3> QED
      BY <1>1, <2>2, <2>4, <3>1, BeginActions DEF CatalogInv, TypeOK
  <2>5. CASE Write(p)
    <3>1. filearr' = filearr
      BY <2>5 DEF Write
    <3> QED
      BY <1>1, <2>2, <2>5, <3>1, WriteStep DEF CatalogInv, TypeOK
  <2>6. CASE AddCommit(p) \/ DelCommit(p)
    <3>1. nextId' = nextId
      BY <2>6 DEF AddCommit, DelCommit
    <3> QED
      BY <1>1, <2>2, <2>6, <3>1, CommitActions DEF CatalogInv, TypeOK
  <2>7. CASE ScanError(p) \/ Kill(p)
    <3>1. UNCHANGED <<filearr, nextId>>
      BY <2>7 DEF ScanError, Kill, catalog
    <3> QED
      BY <1>1, <2>2, <2>7, <3>1, RollbackActions DEF CatalogInv, TypeOK
  <2> QED
    BY <1>2, <2>3, <2>4, <2>5, <2>6, <2>7 DEF ScanStep
<1>3. ASSUME NEW h \in Hasher, HashBegin(h) \/ HashStep(h)
      PROVE  CatalogInv'
  <2>1. UNCHANGED <<scans, cleaner>>
    BY <1>3 DEF HashBegin, HashStep, Write, HashCommit, HashError
  <2>2. ASSUME RowsInv', txn' \in [Session -> Txn],
               filearr' \in Table, nextId' \in Nat, hash' \subseteq FileId
        PROVE  CatalogInv'
    BY <2>1, <2>2 DEF CatalogInv, TypeOK, scans, cleaner
  <2>3. CASE HashBegin(h)
    <3>1. UNCHANGED <<filearr, hash, nextId>>
      BY <2>3 DEF HashBegin, catalog
    <3> QED
      BY <1>1, <2>2, <2>3, <3>1, BeginActions DEF CatalogInv, TypeOK
  <2>4. CASE Write(h)
    <3>1. UNCHANGED <<filearr, hash>>
      BY <2>4 DEF Write
    <3> QED
      BY <1>1, <2>2, <2>4, <3>1, WriteStep DEF CatalogInv, TypeOK
  <2>5. CASE HashCommit(h)
    <3>1. ~Idle(h) /\ Locked(h)
      BY <2>5 DEF HashCommit, Idle, Locked
    <3>2. txn[h].id \in FileId
      BY <1>1, <3>1 DEF CatalogInv, RowsInv, TxnInv
    <3>3. nextId' = nextId /\ hash' = hash \cup {txn[h].id}
      BY <2>5 DEF HashCommit
    <3> QED
      BY <1>1, <2>2, <2>5, <3>2, <3>3, CommitActions DEF CatalogInv, TypeOK
  <2>6. CASE HashError(h)
    <3>1. UNCHANGED <<filearr, hash, nextId>>
      BY <2>6 DEF HashError, catalog
    <3> QED
      BY <1>1, <2>2, <2>6, <3>1, RollbackActions DEF CatalogInv, TypeOK
  <2> QED
    BY <1>3, <2>3, <2>4, <2>5, <2>6 DEF HashStep
<1>4. CASE CleanBegin
  <2>1. UNCHANGED <<filearr, nextId, txn, hash, scans>>
    BY <1>4 DEF CleanBegin, catalog
  <2>2. syncing' = TRUE /\ doomed' \subseteq FileId
    BY <1>4 DEF CleanBegin, Doomed, Live
  <2> QED
    BY <2>1, <2>2, QuietStep DEF CatalogInv, TypeOK, scans
<1>5. CASE CleanCommit
  <2>1. UNCHANGED <<nextId, scans>> /\ hash' \subseteq hash
        /\ syncing' = FALSE /\ doomed' = {}
    BY <1>5 DEF CleanCommit
  <2> QED
    BY <1>5, <2>1, CleanStep DEF CatalogInv, TypeOK, scans
<1>6. CASE UNCHANGED vars
  <2>1. UNCHANGED <<filearr, nextId, txn, hash, scans, cleaner>>
    BY <1>6 DEF vars, catalog
  <2> QED
    BY <2>1, QuietStep DEF CatalogInv, TypeOK, scans, cleaner
<1> QED
  BY <1>2, <1>3, <1>4, <1>5, <1>6 DEF Next

\* Whatever scans, hashers and clean-ups interleave: paths stay unique, no two
\* sessions hold conflicting locks, and a granted UPDATE works on the row as
\* it is.
THEOREM CatalogInvariant == Spec => []CatalogInv
<1>1. Init => CatalogInv
  BY InitCatalogInv
<1>2. CatalogInv /\ [Next]_vars => CatalogInv'
  BY StepCatalogInv
<1> QED
  BY <1>1, <1>2, PTL DEF Spec

\* Every variable keeps its type; in particular no id beyond the sequence's
\* range is ever given to a row.
THEOREM TypeCorrect == Spec => []TypeOK
<1>1. CatalogInv => TypeOK
  BY DEF CatalogInv
<1> QED
  BY <1>1, CatalogInvariant, PTL

-----------------------------------------------------------------------------
(* What the granted statements mean for the marks and for the table.       *)

\* Adding or removing one mirror's mark leaves those of the others alone.
LEMMA MarkFrame ==
  ASSUME NEW row \in Row, NEW m \in Mirror, NEW n \in Mirror \ {m}
  PROVE  /\ Marked(WithMark(row, m), n) <=> Marked(row, n)
         /\ Marked(WithoutMark(row, m), n) <=> Marked(row, n)
<1>1. /\ WithMark(row, m).mirrors = ArrayAppend(row.mirrors, m)
      /\ WithoutMark(row, m).mirrors = ArrayWithout(row.mirrors, m)
      /\ row.mirrors \in Marks \cup {NULL} /\ NULL \notin Marks
  BY NullAssumption DEF Row, WithMark, WithoutMark
<1>2. CASE row.mirrors = NULL
  <2>1. /\ ArrayAppend(NULL, m) = [EmptyMarks EXCEPT ![m] = 1]
        /\ ArrayWithout(NULL, m) = EmptyMarks
    BY DEF ArrayAppend, ArrayWithout
  <2> QED
    BY <1>1, <1>2, <2>1 DEF Marked, EmptyMarks
<1>3. CASE row.mirrors # NULL
  <2>1. /\ ArrayAppend(row.mirrors, m) \in Marks
        /\ ArrayWithout(row.mirrors, m) \in Marks
        /\ ArrayAppend(row.mirrors, m)[n] = row.mirrors[n]
        /\ ArrayWithout(row.mirrors, m)[n] = row.mirrors[n]
    BY <1>1, <1>3 DEF ArrayAppend, ArrayWithout, Marks
  <2> QED
    BY <1>1, <1>3, <2>1 DEF Marked
<1> QED
  BY <1>2, <1>3

\* Only scans update rows, each for its own mirror.
LEMMA UpdateFacts ==
  ASSUME CatalogInv, NEW s \in Session, ~Idle(s), Updates(s)
  PROVE  /\ s \in Scanner /\ MirrorOf[s] \in Mirror
         /\ \/ /\ txn[s].op = "add" /\ txn[s].path \in Path
               /\ txn[s].base.path = txn[s].path
               /\ AddWrites(txn[s].base, MirrorOf[s])
               /\ NewVersion(s) = WithMark(txn[s].base, MirrorOf[s])
            \/ /\ txn[s].op = "del"
               /\ DelWrites(txn[s].base, MirrorOf[s])
               /\ NewVersion(s) = WithoutMark(txn[s].base, MirrorOf[s])
<1>1. s \in Scanner /\ MirrorOf[s] \in Mirror
  BY ScanAssumption DEF CatalogInv, RowsInv, TxnInv, Updates
<1> QED
  BY <1>1 DEF CatalogInv, RowsInv, TxnInv, Updates, NewVersion

\* A commit changes, in a row that stays, the mark of one mirror at most.
LEMMA CommitMarks ==
  ASSUME CatalogInv, NEW s \in Session, Commit(s), NEW i \in FileId,
         filearr[i] # NoRow, NEW m \in Mirror,
         Marked(filearr[i], m) # Marked(filearr'[i], m)
  PROVE  /\ s \in Scanner /\ MirrorOf[s] = m
         /\ Locked(s) /\ txn[s].id = i /\ txn'[s].step = "none"
<1>1. filearr \in Table
  BY DEF CatalogInv, TypeOK
<1>2. filearr' # filearr
  OBVIOUS
<1>3. Locked(s) /\ Updates(s) /\ txn[s].id = i /\ filearr'[i] = NewVersion(s)
      /\ filearr[i] = txn[s].base /\ txn[s].base \in Row
  BY <1>1, <1>2, CommitFacts DEF Table
<1>4. ~Idle(s)
  BY <1>3 DEF Locked, Idle
<1>5. MirrorOf[s] = m
  <2>1. ~(Marked(txn[s].base, m) <=> Marked(NewVersion(s), m))
    BY <1>3 DEF Marked
  <2> QED
    BY <2>1, <1>3, <1>4, UpdateFacts, MarkFrame
<1>6. txn'[s].step = "none"
  BY DEF Commit, AfterChange, NoTxn
<1> QED
  BY <1>3, <1>4, <1>5, <1>6, UpdateFacts

\* All mirrors share the cell "mirrors": a row that stays keeps the mark of
\* every mirror none of whose scans commits in that step.
THEOREM OwnersOnly == Spec => MarksChangeByOwnerOnly
<1> DEFINE A == \A i \in FileId : filearr[i] # NoRow /\ filearr'[i] # NoRow =>
                  \A m \in Mirror :
                    Marked(filearr[i], m) # Marked(filearr'[i], m) =>
                      \E p \in Scanner : /\ MirrorOf[p] = m
                                         /\ Locked(p) /\ txn[p].id = i
                                         /\ txn'[p].step = "none"
<1>1. CatalogInv /\ [Next]_vars => [A]_vars
  <2> SUFFICES ASSUME CatalogInv, Next PROVE A
    OBVIOUS
  <2>1. Scanner \subseteq Session /\ Hasher \subseteq Session
    BY DEF Session
  <2>2. ASSUME NEW p \in Scanner, AddCommit(p) \/ DelCommit(p) PROVE A
    <3>1. Commit(p)
      BY <2>2 DEF AddCommit, DelCommit
    <3> QED
      BY <2>1, <3>1, CommitMarks
  <2>3. ASSUME NEW h \in Hasher, HashCommit(h) PROVE A
    <3>1. Commit(h)
      BY <2>3 DEF HashCommit
    <3> QED
      BY <2>1, <3>1, CommitMarks
  <2>4. CASE CleanCommit
    <3>1. \A i \in FileId : filearr'[i] # NoRow => filearr'[i] = filearr[i]
      BY <2>4 DEF CleanCommit, Deleted
    <3> QED
      BY <3>1
  <2>5. CASE filearr' = filearr
    BY <2>5
  <2>6. ASSUME NEW p \in Scanner, Start(p) \/ ScanStep(p) \/ Kill(p),
               ~(AddCommit(p) \/ DelCommit(p))
        PROVE  filearr' = filearr
    BY <2>6 DEF Start, ScanStep, Kill, GetListing, OnlyList, DryLookup, AddBegin,
                Write, EndAdding, DelBegin, EndPurge, ScanError, RowsUnchanged, catalog
  <2>7. ASSUME NEW h \in Hasher, HashBegin(h) \/ HashStep(h), ~HashCommit(h)
        PROVE  filearr' = filearr
    BY <2>7 DEF HashBegin, HashStep, Write, HashError, catalog
  <2>8. ASSUME CleanBegin PROVE filearr' = filearr
    BY <2>8 DEF CleanBegin, catalog
  <2> HIDE DEF A
  <2> QED
    BY <2>2, <2>3, <2>4, <2>5, <2>6, <2>7, <2>8 DEF Next
<1> QED
  BY <1>1, CatalogInvariant, PTL DEF Spec, MarksChangeByOwnerOnly

\* A mark is appended only where a granted statement saw none.
LEMMA MarkOnce ==
  ASSUME NEW row \in Row, NEW m \in Mirror,
         row.mirrors # NULL => \A n \in Mirror : row.mirrors[n] <= 1
  PROVE  /\ AddWrites(row, m) =>
              \A n \in Mirror : WithMark(row, m).mirrors[n] <= 1
         /\ \A n \in Mirror : WithoutMark(row, m).mirrors[n] <= 1
         /\ WithMark(row, m).mirrors # NULL /\ WithoutMark(row, m).mirrors # NULL
<1>1. /\ WithMark(row, m).mirrors = ArrayAppend(row.mirrors, m)
      /\ WithoutMark(row, m).mirrors = ArrayWithout(row.mirrors, m)
      /\ row.mirrors \in Marks \cup {NULL} /\ NULL \notin Marks
      /\ EmptyMarks \in Marks /\ \A n \in Mirror : EmptyMarks[n] = 0
      /\ m # NULL
  BY NullAssumption DEF Row, WithMark, WithoutMark, EmptyMarks, Marks
<1>2. /\ ArrayAppend(row.mirrors, m) \in Marks
      /\ ArrayWithout(row.mirrors, m) \in Marks
  BY <1>1 DEF ArrayAppend, ArrayWithout, Marks
<1>3. ASSUME NEW n \in Mirror PROVE ArrayWithout(row.mirrors, m)[n] <= 1
  BY <1>1, <1>3 DEF ArrayWithout, Marks
<1>4. ASSUME AddWrites(row, m), NEW n \in Mirror
      PROVE  ArrayAppend(row.mirrors, m)[n] <= 1
  <2>1. CASE row.mirrors = NULL \/ row.mirrors = EmptyMarks
    BY <1>1, <2>1 DEF ArrayAppend, Marks
  <2>2. CASE row.mirrors \in Marks /\ row.mirrors # EmptyMarks
    <3>1. ~(row.mirrors[m] > 0)
      BY <1>1, <1>4, <2>2 DEF AddWrites, IsTrue, AnyEq
    <3> QED
      BY <1>1, <2>2, <3>1 DEF ArrayAppend, Marks
  <2> QED
    BY <1>1, <2>1, <2>2
<1> QED
  BY <1>1, <1>2, <1>3, <1>4

\* Overlapping scans, of one mirror or of several, never record a mirror twice
\* for a file.
THEOREM MarksAreSets == Spec => []NoDuplicateMarks
<1>1. Init => NoDuplicateMarks
  BY DEF Init, NoDuplicateMarks, Live
<1>2. CatalogInv /\ NoDuplicateMarks /\ [Next]_vars => NoDuplicateMarks'
  <2> SUFFICES ASSUME CatalogInv, NoDuplicateMarks, [Next]_vars,
                      NEW i \in FileId, filearr'[i] # NoRow, filearr'[i] # filearr[i],
                      filearr'[i].mirrors # NULL
               PROVE  \A m \in Mirror : filearr'[i].mirrors[m] <= 1
    <3>1. \A i \in FileId : filearr'[i] = filearr[i] => (i \in Live(filearr)' <=> i \in Live(filearr))
      BY DEF Live
    <3> QED
      BY <3>1 DEF NoDuplicateMarks, Live
  <2>1. Scanner \subseteq Session /\ Hasher \subseteq Session /\ filearr \in Table
    BY DEF Session, CatalogInv, TypeOK
  <2>2. ASSUME NEW s \in Session, Commit(s)
        PROVE  \A m \in Mirror : filearr'[i].mirrors[m] <= 1
    <3>1. i = txn[s].id /\ filearr'[i] = NewVersion(s) /\ Locked(s) /\ ~Idle(s)
      BY <2>1, <2>2, CommitFacts DEF Table, Locked, Idle
    <3>2. CASE Updates(s)
      <4>1. filearr[i] = txn[s].base /\ txn[s].base \in Row /\ filearr[i] # NoRow
        BY <2>1, <2>2, <3>1, <3>2, CommitFacts, NoRowAssumption
      <4>2. txn[s].base.mirrors # NULL => \A m \in Mirror : txn[s].base.mirrors[m] <= 1
        BY <4>1 DEF NoDuplicateMarks, Live
      <4> QED
        BY <3>1, <3>2, <4>1, <4>2, UpdateFacts, MarkOnce
    <3>3. CASE Inserts(s)
      <4>1. \/ NewVersion(s) = NewRow(txn[s].path)
            \/ /\ s \in Scanner
               /\ NewVersion(s) = NewMarkedRow(txn[s].path, MirrorOf[s])
        BY <3>3, ScanAssumption DEF Inserts, NewVersion
      <4> QED
        BY <3>1, <4>1 DEF NewRow, NewMarkedRow, EmptyMarks
    <3> QED
      BY <2>2, <3>2, <3>3, CommitFacts
  <2>3. ASSUME NEW p \in Scanner, Start(p) \/ ScanStep(p) \/ Kill(p),
               ~(AddCommit(p) \/ DelCommit(p))
        PROVE  FALSE
    BY <2>3 DEF Start, ScanStep, Kill, GetListing, OnlyList, DryLookup, AddBegin,
                Write, EndAdding, DelBegin, EndPurge, ScanError, RowsUnchanged, catalog
  <2>4. ASSUME NEW h \in Hasher, HashBegin(h) \/ HashStep(h), ~HashCommit(h)
        PROVE  FALSE
    BY <2>4 DEF HashBegin, HashStep, Write, HashError, catalog
  <2>5. ~CleanBegin /\ ~CleanCommit /\ ~UNCHANGED vars
    BY DEF CleanBegin, CleanCommit, Deleted, catalog, vars
  <2> QED
    BY <2>1, <2>2, <2>3, <2>4, <2>5 DEF Next, AddCommit, DelCommit, HashCommit
<1> QED
  BY <1>1, <1>2, CatalogInvariant, PTL DEF Spec

\* A row the clean-up deletes was reached by some scan, and the master is not
\* on it at that moment; no mirror is, if the master's id is unknown.
THEOREM CleanIsSafe == Spec => CleanSparesUnscanned
<1> DEFINE A == \A i \in FileId : filearr[i] # NoRow /\ filearr'[i] = NoRow =>
                  /\ filearr[i].mirrors # NULL
                  /\ IF Master = NULL THEN filearr[i].mirrors = EmptyMarks
                     ELSE ~Marked(filearr[i], Master)
<1>1. CatalogInv /\ [Next]_vars => [A]_vars
  <2> SUFFICES ASSUME CatalogInv, Next,
                      NEW i \in FileId, filearr[i] # NoRow, filearr'[i] = NoRow
               PROVE  /\ filearr[i].mirrors # NULL
                      /\ IF Master = NULL THEN filearr[i].mirrors = EmptyMarks
                         ELSE ~Marked(filearr[i], Master)
    OBVIOUS
  <2>1. Scanner \subseteq Session /\ Hasher \subseteq Session /\ filearr \in Table
    BY DEF Session, CatalogInv, TypeOK
  <2>2. ASSUME NEW s \in Session, Commit(s) PROVE FALSE
    BY <2>1, <2>2, CommitFacts, NoRowAssumption DEF Table
  <2>3. ASSUME NEW p \in Scanner, Start(p) \/ ScanStep(p) \/ Kill(p),
               ~(AddCommit(p) \/ DelCommit(p))
        PROVE  FALSE
    BY <2>3 DEF Start, ScanStep, Kill, GetListing, OnlyList, DryLookup, AddBegin,
                Write, EndAdding, DelBegin, EndPurge, ScanError, RowsUnchanged, catalog
  <2>4. ASSUME NEW h \in Hasher, HashBegin(h) \/ HashStep(h), ~HashCommit(h)
        PROVE  FALSE
    BY <2>4 DEF HashBegin, HashStep, Write, HashError, catalog
  <2>5. CleanCommit
    BY <2>1, <2>2, <2>3, <2>4
       DEF Next, CleanBegin, AddCommit, DelCommit, HashCommit, catalog
  <2>6. IsTrue(Not3(AnyEq(Master, filearr[i].mirrors)))
    BY <2>5 DEF CleanCommit, Deleted, Doomed
  <2>7. filearr[i].mirrors # NULL
    BY <2>6, NullAssumption DEF IsTrue, Not3, AnyEq
  <2>8. ASSUME Master # NULL PROVE ~Marked(filearr[i], Master)
    <3>1. CASE filearr[i].mirrors = EmptyMarks
      BY <3>1, <2>8, MasterAssumption DEF Marked, EmptyMarks
    <3>2. CASE filearr[i].mirrors # EmptyMarks
      BY <3>2, <2>6, <2>7, <2>8, NullAssumption DEF Marked, IsTrue, Not3, AnyEq
    <3> QED
      BY <3>1, <3>2
  <2>9. ASSUME Master = NULL PROVE filearr[i].mirrors = EmptyMarks
    BY <2>6, <2>7, <2>9, NullAssumption DEF IsTrue, Not3, AnyEq
  <2> QED
    BY <2>7, <2>8, <2>9
<1> QED
  BY <1>1, CatalogInvariant, PTL DEF Spec, CleanSparesUnscanned

-----------------------------------------------------------------------------
(* Scan implements AtomicCatalog.                                          *)

\* Both modules mean the same by the operators of Catalog.
LEMMA SameOperators ==
  ASSUME NEW tab, NEW m, NEW path, NEW id, NEW ids
  PROVE  /\ Atomic!Live(tab) = Live(tab)
         /\ Atomic!IdsAt(tab, path) = IdsAt(tab, path)
         /\ Atomic!NewRow(path) = NewRow(path)
         /\ Atomic!mirr_add_bypath_noins(tab, m, path) = mirr_add_bypath_noins(tab, m, path)
         /\ Atomic!mirr_add_bypath(tab, m, path, id) = mirr_add_bypath(tab, m, path, id)
         /\ Atomic!mirr_del_byid(tab, m, id) = mirr_del_byid(tab, m, id)
         /\ Atomic!Doomed(tab) = Doomed(tab)
         /\ Atomic!Deleted(tab, ids) = Deleted(tab, ids)
<1>1. \A n, arr : /\ Atomic!AnyEq(n, arr) = AnyEq(n, arr)
                  /\ Atomic!ArrayAppend(arr, n) = ArrayAppend(arr, n)
                  /\ Atomic!ArrayWithout(arr, n) = ArrayWithout(arr, n)
  BY DEF Atomic!AnyEq, AnyEq, Atomic!ArrayAppend, ArrayAppend,
         Atomic!ArrayWithout, ArrayWithout, Atomic!EmptyMarks, EmptyMarks
<1>2. \A row, n : /\ Atomic!AddWrites(row, n) = AddWrites(row, n)
                  /\ Atomic!DelWrites(row, n) = DelWrites(row, n)
                  /\ Atomic!WithMark(row, n) = WithMark(row, n)
                  /\ Atomic!WithoutMark(row, n) = WithoutMark(row, n)
  BY <1>1 DEF Atomic!AddWrites, AddWrites, Atomic!DelWrites, DelWrites,
              Atomic!WithMark, WithMark, Atomic!WithoutMark, WithoutMark,
              Atomic!IsTrue, IsTrue, Atomic!Not3, Not3
<1>3. /\ Atomic!Live(tab) = Live(tab) /\ Atomic!IdsAt(tab, path) = IdsAt(tab, path)
  BY DEF Atomic!Live, Live, Atomic!IdsAt, IdsAt
<1>4. /\ Atomic!NewRow(path) = NewRow(path)
      /\ Atomic!NewMarkedRow(path, m) = NewMarkedRow(path, m)
  BY DEF Atomic!NewRow, NewRow, Atomic!NewMarkedRow, NewMarkedRow,
         Atomic!EmptyMarks, EmptyMarks
<1>5. Atomic!mirr_add_bypath_noins(tab, m, path) = mirr_add_bypath_noins(tab, m, path)
  BY <1>2, <1>3 DEF Atomic!mirr_add_bypath_noins, mirr_add_bypath_noins
<1>6. /\ Atomic!mirr_add_bypath(tab, m, path, id) = mirr_add_bypath(tab, m, path, id)
      /\ Atomic!mirr_del_byid(tab, m, id) = mirr_del_byid(tab, m, id)
  BY <1>2, <1>3, <1>4, <1>5 DEF Atomic!mirr_add_bypath, mirr_add_bypath,
                                Atomic!mirr_del_byid, mirr_del_byid
<1>7. /\ Atomic!Doomed(tab) = Doomed(tab)
      /\ Atomic!Deleted(tab, ids) = Deleted(tab, ids)
  BY <1>1, <1>3 DEF Atomic!Doomed, Doomed, Atomic!Deleted, Deleted,
                    Atomic!IsTrue, IsTrue, Atomic!Not3, Not3
<1> QED
  BY <1>3, <1>4, <1>5, <1>6, <1>7

\* An UPDATE granted on a snapshot is the statement run on the current table.
LEMMA UpdateIsAtomic ==
  ASSUME CatalogInv, NEW p \in Scanner, Commit(p), UNCHANGED hash,
         Updates(p)
  PROVE  \/ \E path \in Path : Atomic!AddKnown(MirrorOf[p], path)
         \/ \E id \in FileId : Atomic!Del(MirrorOf[p], id)
<1>1. /\ filearr \in Table /\ p \in Session /\ ~Idle(p)
      /\ Locked(p) /\ txn[p].id \in FileId
      /\ filearr[txn[p].id] = txn[p].base /\ txn[p].base \in Row
      /\ filearr' = [filearr EXCEPT ![txn[p].id] = NewVersion(p)]
      /\ txn[p].base # NoRow
  <2>1. p \in Session
    BY DEF Session
  <2> QED
    BY <2>1, CommitFacts DEF CatalogInv, TypeOK, Updates, Locked, Idle
<1>2. CASE txn[p].op = "add"
  <2>1. /\ txn[p].path \in Path /\ txn[p].base.path = txn[p].path
        /\ AddWrites(txn[p].base, MirrorOf[p])
        /\ NewVersion(p) = WithMark(txn[p].base, MirrorOf[p])
    BY <1>1, <1>2, UpdateFacts
  <2>2. IdsAt(filearr, txn[p].path) = {txn[p].id}
    BY <1>1, <2>1 DEF CatalogInv, RowsInv, TableInv, IdsAt, Live
  <2>3. filearr' = mirr_add_bypath_noins(filearr, MirrorOf[p], txn[p].path)
    BY <1>1, <2>1, <2>2 DEF mirr_add_bypath_noins, Table
  <2> QED
    BY <2>1, <2>3, SameOperators DEF Atomic!AddKnown
<1>3. CASE txn[p].op # "add"
  <2>1. /\ DelWrites(txn[p].base, MirrorOf[p])
        /\ NewVersion(p) = WithoutMark(txn[p].base, MirrorOf[p])
    BY <1>1, <1>3, UpdateFacts
  <2>2. filearr' = mirr_del_byid(filearr, MirrorOf[p], txn[p].id)
    BY <1>1, <2>1 DEF mirr_del_byid
  <2> QED
    BY <1>1, <2>2, SameOperators DEF Atomic!Del
<1> QED
  BY <1>2, <1>3

\* The INSERT of a trusted scan comes at a moment when the path is free.
LEMMA InsertIsAtomic ==
  ASSUME CatalogInv, NEW p \in Scanner, Commit(p), UNCHANGED hash,
         Inserts(p)
  PROVE  \E path \in Path : Atomic!AddOrInsert(MirrorOf[p], path)
<1>1. /\ filearr \in Table /\ p \in Session /\ Locked(p) /\ ~Idle(p)
      /\ txn[p].id \in FileId /\ txn[p].path \in Path
      /\ filearr[txn[p].id] = NoRow
      /\ filearr' = [filearr EXCEPT ![txn[p].id] = NewVersion(p)]
  <2>1. p \in Session
    BY DEF Session
  <2> QED
    BY <2>1, CommitFacts DEF CatalogInv, TypeOK, Locked, Idle
<1>2. /\ IdsAt(filearr, txn[p].path) = {}
      /\ txn[p].id \in FileId \ Live(filearr)
  BY <1>1 DEF CatalogInv, RowsInv, LockInv, IdsAt, Live
<1>3. NewVersion(p) = NewMarkedRow(txn[p].path, MirrorOf[p])
  BY <1>1 DEF CatalogInv, RowsInv, TxnInv, NewVersion, Inserts
<1>4. filearr' = mirr_add_bypath(filearr, MirrorOf[p], txn[p].path, txn[p].id)
  BY <1>1, <1>2, <1>3 DEF mirr_add_bypath
<1>5. /\ Atomic!Live(filearr) = Live(filearr)
      /\ filearr' = Atomic!mirr_add_bypath(filearr, MirrorOf[p], txn[p].path, txn[p].id)
  BY <1>4, SameOperators
<1> QED
  BY <1>1, <1>2, <1>5 DEF Atomic!AddOrInsert

\* The foreign key and the unique index make recording a hash one statement.
LEMMA HashIsAtomic ==
  ASSUME CatalogInv, NEW h \in Hasher, HashCommit(h)
  PROVE  \E path \in Path : Atomic!RecordHash(path)
<1>1. /\ h \in Session /\ h \notin Scanner /\ filearr \in Table
      /\ Locked(h) /\ ~Idle(h) /\ Commit(h)
      /\ hash' = hash \cup {txn[h].id}
  BY ScanAssumption DEF Session, HashCommit, CatalogInv, TypeOK, Locked, Idle
<1>2. /\ txn[h].op = "hash" /\ txn[h].path \in Path /\ txn[h].id \in FileId
      /\ ~Updates(h)
  BY <1>1 DEF CatalogInv, RowsInv, TxnInv, Updates
<1>3. CASE References(h)
  <2>1. filearr' = filearr
    BY <1>1, <1>2, <1>3 DEF Commit, Inserts, References
  <2>2. txn[h].id \in IdsAt(filearr, txn[h].path)
    BY <1>1, <1>2, <1>3 DEF CatalogInv, RowsInv, LockInv, IdsAt, Live
  <2> QED
    BY <1>1, <1>2, <2>1, <2>2, SameOperators DEF Atomic!RecordHash
<1>4. CASE ~References(h)
  <2>1. Inserts(h)
    BY <1>2, <1>4 DEF Inserts, References
  <2>2. /\ txn[h].id \in FileId \ Live(filearr)
        /\ IdsAt(filearr, txn[h].path) = {}
    BY <1>1, <1>2, <2>1 DEF CatalogInv, RowsInv, LockInv, IdsAt, Live
  <2>3. filearr' = [filearr EXCEPT ![txn[h].id] = NewRow(txn[h].path)]
    BY <1>1, <1>2, <2>1 DEF Commit, NewVersion
  <2> QED
    BY <1>1, <1>2, <2>2, <2>3, SameOperators DEF Atomic!RecordHash
<1> QED
  BY <1>3, <1>4

LEMMA StepIsAtomic ==
  CatalogInv /\ [Next]_vars => [Atomic!Next]_(Atomic!vars)
<1> SUFFICES ASSUME CatalogInv, [Next]_vars
             PROVE  Atomic!Next \/ UNCHANGED <<filearr, hash>>
  BY DEF Atomic!vars
<1>1. Scanner \subseteq Session /\ \A p \in Scanner : MirrorOf[p] \in Mirror
  BY ScanAssumption DEF Session
<1>2. ASSUME NEW p \in Scanner, AddCommit(p) \/ DelCommit(p)
      PROVE  Atomic!Next \/ UNCHANGED <<filearr, hash>>
  <2>1. Commit(p) /\ UNCHANGED hash
    BY <1>2 DEF AddCommit, DelCommit
  <2>2. CASE Updates(p)
    BY <1>1, <2>1, <2>2, UpdateIsAtomic DEF Atomic!Next
  <2>3. CASE Inserts(p)
    BY <1>1, <2>1, <2>3, InsertIsAtomic DEF Atomic!Next
  <2>4. CASE ~Updates(p) /\ ~Inserts(p)
    BY <2>1, <2>4 DEF Commit
  <2> QED
    BY <2>2, <2>3, <2>4
<1>3. ASSUME NEW h \in Hasher, HashCommit(h) PROVE Atomic!Next
  BY <1>3, HashIsAtomic DEF Atomic!Next
<1>4. CASE CleanCommit
  <2>1. doomed \cap Doomed(filearr) \in SUBSET Doomed(filearr)
    OBVIOUS
  <2>2. /\ filearr' = Deleted(filearr, doomed \cap Doomed(filearr))
        /\ hash' = hash \ (doomed \cap Doomed(filearr))
    BY <1>4 DEF CleanCommit
  <2> QED
    BY <2>1, <2>2, SameOperators DEF Atomic!Next, Atomic!Clean
<1>5. ASSUME NEW p \in Scanner, Start(p) \/ ScanStep(p) \/ Kill(p),
             ~(AddCommit(p) \/ DelCommit(p))
      PROVE  UNCHANGED <<filearr, hash>>
  BY <1>5 DEF Start, ScanStep, Kill, GetListing, OnlyList, DryLookup, AddBegin,
              Write, EndAdding, DelBegin, EndPurge, ScanError, RowsUnchanged, catalog
<1>6. ASSUME NEW h \in Hasher, HashBegin(h) \/ HashStep(h), ~HashCommit(h)
      PROVE  UNCHANGED <<filearr, hash>>
  BY <1>6 DEF HashBegin, HashStep, Write, HashError, catalog
<1>7. CASE CleanBegin \/ UNCHANGED vars
  BY <1>7 DEF CleanBegin, catalog, vars
<1> QED
  BY <1>2, <1>3, <1>4, <1>5, <1>6, <1>7 DEF Next

\* Snapshots, locks and sessions notwithstanding, the tables change by whole
\* statements, each applied to the table as it is when it takes effect.
THEOREM ScanIsAtomic == Spec => CatalogIsAtomic
<1>1. Init => Atomic!Init
  BY DEF Init, Atomic!Init
<1>2. CatalogInv /\ [Next]_vars => [Atomic!Next]_(Atomic!vars)
  BY StepIsAtomic
<1> QED
  BY <1>1, <1>2, CatalogInvariant, PTL DEF Spec, CatalogIsAtomic, Atomic!Spec

=============================================================================
