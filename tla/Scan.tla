-------------------------------- MODULE Scan --------------------------------
(***************************************************************************)
(* Mirror scans (tools/scan.py) running next to each other, to hashers      *)
(* (record_hashes_in_db of tools/hashes.py) and to `cleandb syncmaster`,    *)
(* all on one PostgreSQL database.                                          *)
(*                                                                         *)
(* A scan is a sequence of one-row transactions, one per listed path and    *)
(* then one per file to purge.  Each runs SERIALIZABLE: it reads a snapshot,*)
(* may have to wait for the row's lock, fails if the row changed since the  *)
(* snapshot, and nobody retries it: the exception ends the scan.            *)
(***************************************************************************)
EXTENDS Catalog

CONSTANTS Scanner,    \* scan processes
          Hasher,     \* makehashes processes
          MirrorOf,   \* the mirror each scanner was started for
          Trusted,    \* the scanners started with --allow-insert
          Modes,      \* the ways a scan is started: subset of ScanMode
          Killable    \* the processes that may be interrupted at any time

Session == Scanner \cup Hasher
ScanMode == {"record", "dry_run", "only_scan"}

ASSUME ScanAssumption ==
  /\ Scanner \cap Hasher = {}
  /\ MirrorOf \in [Scanner -> Mirror]
  /\ Trusted \subseteq Scanner
  /\ Modes \subseteq ScanMode
  /\ Killable \subseteq Session

VARIABLES
  filearr,      \* committed rows of the table
  hash,         \* file_id of the committed rows of table hash
  nextId,       \* filearr_id_seq: ids are drawn outside transactions
  txn,          \* the open transaction of each session
  pc, mode,     \* where each scan is, and how it was started
  listing,      \* the paths the mirror answered
  todo,         \* listed paths not yet processed
  files_in_db,  \* ids recorded for the mirror and not seen so far
  before, known,\* history: ids marked, resp. existing, when the scan began
  syncing, doomed  \* syncmaster: running, and the rows its snapshot selects

catalog == <<filearr, hash, nextId>>
scans == <<pc, mode, listing, todo, files_in_db, before, known>>
cleaner == <<syncing, doomed>>
vars == <<catalog, txn, scans, cleaner>>

-----------------------------------------------------------------------------
(* Transactions.                                                           *)

Txn == [step : {"none", "snapshot", "locked"},
        op : {"add", "del", "hash"},
        path : Path \cup {NULL},      \* argument of "add" and "hash"
        id : FileId \cup {0},         \* the row; 0 while there is none
        base : Row \cup {NoRow},      \* the row in the snapshot
        overtaken : BOOLEAN]          \* the row changed since the snapshot

NoTxn == [step |-> "none", op |-> "add", path |-> NULL, id |-> 0,
          base |-> NoRow, overtaken |-> FALSE]

Idle(s) == txn[s].step = "none"
Locked(s) == txn[s].step = "locked"

\* What the transaction does to its row, decided on the snapshot.
Inserts(s) ==
  /\ txn[s].base = NoRow
  /\ \/ txn[s].op = "hash"
     \/ txn[s].op = "add" /\ s \in Trusted

Updates(s) ==
  /\ txn[s].base # NoRow
  /\ \/ txn[s].op = "add" /\ AddWrites(txn[s].base, MirrorOf[s])
     \/ txn[s].op = "del" /\ DelWrites(txn[s].base, MirrorOf[s])

\* A hash row references an existing file: the foreign key locks that file's
\* row against deletion, but not against a change of its mirrors.
References(s) == txn[s].op = "hash" /\ txn[s].base # NoRow

Writes(s) == Inserts(s) \/ Updates(s) \/ References(s)

BeginTxn(s, op, path, id) ==
  txn' = [txn EXCEPT ![s] =
            [step |-> "snapshot", op |-> op, path |-> path, id |-> id,
             base |-> IF id = 0 THEN NoRow ELSE filearr[id],
             overtaken |-> FALSE]]

\* Mutant of RowFree: nobody waits for the row's lock.
RowNeverLocked(s) == TRUE

\* UPDATE and DELETE: the first updater wins, the others wait for it.
RowFree(s) ==
  \A q \in Session \ {s} : ~(Locked(q) /\ Updates(q) /\ txn[q].id = txn[s].id)

\* The unique index: an INSERT waits for an uncommitted one of the same path.
PathFree(s) ==
  \A q \in Session \ {s} :
    ~(Locked(q) /\ Inserts(q) /\ txn[q].path = txn[s].path)

\* The path was committed by somebody else after the snapshot.  The handler
\* calls the function again, but the snapshot stays: it inserts again, until
\* PostgreSQL gives up (serialization failure or stack depth).
UniqueConflict(s) ==
  txn[s].step = "snapshot" /\ Inserts(s) /\ IdsAt(filearr, txn[s].path) # {}

\* Mutant of Rejected: READ COMMITTED instead of SERIALIZABLE, an UPDATE whose
\* row changed since the SELECT goes ahead.
RejectedReadCommitted(s) ==
  /\ txn[s].step = "snapshot"
  /\ \/ References(s) /\ filearr[txn[s].id] = NoRow
     \/ UniqueConflict(s)
     \/ Inserts(s) /\ nextId \notin FileId

\* Mutant of Rejected: ids beyond the range of the serial column.
RejectedNotExhausted(s) ==
  /\ txn[s].step = "snapshot"
  /\ \/ Updates(s) /\ txn[s].overtaken
     \/ References(s) /\ filearr[txn[s].id] = NoRow
     \/ UniqueConflict(s)

\* Mutant of Rejected: no foreign key, a hash is inserted for a row that is gone.
RejectedNoForeignKey(s) ==
  /\ txn[s].step = "snapshot"
  /\ \/ Updates(s) /\ txn[s].overtaken
     \/ UniqueConflict(s)
     \/ Inserts(s) /\ nextId \notin FileId

\* A statement that can only raise.
Rejected(s) ==
  /\ txn[s].step = "snapshot"
  /\ \/ Updates(s) /\ txn[s].overtaken
     \/ References(s) /\ filearr[txn[s].id] = NoRow
     \/ UniqueConflict(s)
     \/ Inserts(s) /\ nextId \notin FileId   \* nextval: sequence exhausted

\* The UPDATE of the row, the key-share lock of the foreign key, the INSERT.
Write(s) ==
  /\ txn[s].step = "snapshot"
  /\ Writes(s)
  /\ ~Rejected(s)
  /\ \/ /\ Updates(s)
        /\ RowFree(s)
        /\ txn' = [txn EXCEPT ![s].step = "locked"]
        /\ UNCHANGED nextId
     \/ /\ References(s)
        /\ txn' = [txn EXCEPT ![s].step = "locked"]
        /\ UNCHANGED nextId
     \/ /\ Inserts(s)
        /\ PathFree(s)
        /\ txn' = [txn EXCEPT ![s].step = "locked", ![s].id = nextId]
        /\ nextId' = nextId + 1
  /\ UNCHANGED <<filearr, hash, scans, cleaner>>

CanCommit(s) == Locked(s) \/ (txn[s].step = "snapshot" /\ ~Writes(s))

\* The row as the transaction leaves it.
NewVersion(s) ==
  IF txn[s].op = "hash" THEN NewRow(txn[s].path)
  ELSE IF txn[s].base = NoRow THEN NewMarkedRow(txn[s].path, MirrorOf[s])
  ELSE IF txn[s].op = "add" THEN WithMark(txn[s].base, MirrorOf[s])
  ELSE WithoutMark(txn[s].base, MirrorOf[s])

\* The transactions of others whose snapshot has an older version of a row.
\* The committing session's own transaction is closed.
AfterChange(s, ids) ==
  [q \in Session |->
     IF q = s THEN NoTxn
     ELSE IF txn[q].step = "snapshot" /\ txn[q].id \in ids
          THEN [txn[q] EXCEPT !.overtaken = TRUE]
          ELSE txn[q]]

Commit(s) ==
  /\ CanCommit(s)
  /\ IF Inserts(s) \/ Updates(s)
     THEN /\ filearr' = [filearr EXCEPT ![txn[s].id] = NewVersion(s)]
          /\ txn' = AfterChange(s, {txn[s].id})
     ELSE /\ txn' = AfterChange(s, {})
          /\ UNCHANGED filearr

-----------------------------------------------------------------------------
(* One scan: run_mirror_scan.                                              *)

Running == {"listing", "adding", "purging"}
ScanPc == Running \cup {"idle", "done", "failed"}

RowsUnchanged == UNCHANGED <<catalog, txn, cleaner>>

\* The process is gone, and what it had in memory with it.
Exit(p, status) ==
  /\ pc' = [pc EXCEPT ![p] = status]
  /\ todo' = [todo EXCEPT ![p] = {}]
  /\ files_in_db' = [files_in_db EXCEPT ![p] = {}]

\* A process of the same command line starts (again): files_in_db is read.
Start(p) ==
  /\ pc[p] \notin Running
  /\ \E m \in Modes : mode' = [mode EXCEPT ![p] = m]
  /\ pc' = [pc EXCEPT ![p] = "listing"]
  /\ files_in_db' = [files_in_db EXCEPT ![p] = FilesOf(filearr, MirrorOf[p])]
  /\ before' = [before EXCEPT ![p] = FilesOf(filearr, MirrorOf[p])]
  /\ known' = [known EXCEPT ![p] = Live(filearr)]
  /\ listing' = [listing EXCEPT ![p] = {}]
  /\ todo' = [todo EXCEPT ![p] = {}]
  /\ RowsUnchanged

\* The mirror answers with any listing whatsoever.
GetListing(p) ==
  /\ pc[p] = "listing" /\ mode[p] # "only_scan"
  /\ \E paths \in SUBSET Path :
       /\ listing' = [listing EXCEPT ![p] = paths]
       /\ todo' = [todo EXCEPT ![p] = paths]
  /\ pc' = [pc EXCEPT ![p] = "adding"]
  /\ UNCHANGED <<mode, files_in_db, before, known>>
  /\ RowsUnchanged

\* --only-scan reports the listing and touches nothing.
OnlyList(p) ==
  /\ pc[p] = "listing" /\ mode[p] = "only_scan"
  /\ Exit(p, "done")
  /\ UNCHANGED <<mode, listing, before, known>>
  /\ RowsUnchanged

\* scanned_files is sorted: the first of what is left.
NextPath(p, path) == path \in todo[p] /\ \A x \in todo[p] : path <= x
NextFile(p, id) == id \in files_in_db[p] /\ \A x \in files_in_db[p] : id <= x

\* Mutant of Seen: the id of a file seen stays in files_in_db.
SeenNotRemoved(p, path, id) ==
  /\ todo' = [todo EXCEPT ![p] = @ \ {path}]
  /\ UNCHANGED files_in_db

\* The file was seen: it is not to be purged.
Seen(p, path, id) ==
  /\ todo' = [todo EXCEPT ![p] = @ \ {path}]
  /\ files_in_db' = [files_in_db EXCEPT ![p] = @ \ {id}]

DryLookup(p) ==
  /\ pc[p] = "adding" /\ mode[p] = "dry_run"
  /\ \E path \in todo[p] :
       /\ NextPath(p, path)
       /\ Seen(p, path, FileIdOf(filearr, path))
  /\ UNCHANGED <<pc, mode, listing, before, known>>
  /\ RowsUnchanged

AddBegin(p) ==
  /\ pc[p] = "adding" /\ mode[p] = "record" /\ Idle(p)
  /\ \E path \in todo[p] :
       /\ NextPath(p, path)
       /\ BeginTxn(p, "add", path, FileIdOf(filearr, path))
  /\ UNCHANGED <<catalog, scans, cleaner>>

AddCommit(p) ==
  /\ pc[p] = "adding"
  /\ Commit(p)
  /\ Seen(p, txn[p].path, txn[p].id)
  /\ UNCHANGED <<hash, nextId, pc, mode, listing, before, known, cleaner>>

\* All paths are processed: a dry run stops short of the purge.
EndAdding(p) ==
  /\ pc[p] = "adding" /\ todo[p] = {} /\ Idle(p)
  /\ IF mode[p] = "dry_run" THEN Exit(p, "done")
     ELSE /\ pc' = [pc EXCEPT ![p] = "purging"]
          /\ UNCHANGED <<todo, files_in_db>>
  /\ UNCHANGED <<mode, listing, before, known>>
  /\ RowsUnchanged

\* Mutant of DelBegin: purging starts before every path is recorded.
DelBeginEarly(p) ==
  /\ pc[p] \in {"adding", "purging"} /\ Idle(p)
  /\ \E id \in files_in_db[p] :
       NextFile(p, id) /\ BeginTxn(p, "del", NULL, id)
  /\ UNCHANGED <<catalog, scans, cleaner>>

DelBegin(p) ==
  /\ pc[p] = "purging" /\ Idle(p)
  /\ \E id \in files_in_db[p] :
       NextFile(p, id) /\ BeginTxn(p, "del", NULL, id)
  /\ UNCHANGED <<catalog, scans, cleaner>>

\* Mutant of DelCommit: the loop does not advance.
DelCommitAgain(p) ==
  /\ pc[p] = "purging"
  /\ Commit(p)
  /\ UNCHANGED <<hash, nextId, pc, mode, listing, todo, files_in_db, before, known, cleaner>>

DelCommit(p) ==
  /\ pc[p] = "purging"
  /\ Commit(p)
  /\ files_in_db' = [files_in_db EXCEPT ![p] = @ \ {txn[p].id}]
  /\ UNCHANGED <<hash, nextId, pc, mode, listing, todo, before, known, cleaner>>

EndPurge(p) ==
  /\ pc[p] = "purging" /\ files_in_db[p] = {} /\ Idle(p)
  /\ Exit(p, "done")
  /\ UNCHANGED <<mode, listing, before, known>>
  /\ RowsUnchanged

Rollback(s) == txn' = [txn EXCEPT ![s] = NoTxn]

\* Nothing catches the database error: the process exits with status 1.
ScanError(p) ==
  /\ Rejected(p)
  /\ Rollback(p)
  /\ Exit(p, "failed")
  /\ UNCHANGED <<catalog, mode, listing, before, known, cleaner>>

\* A failed listing, a signal, a lost connection, a serialization failure
\* PostgreSQL raises on suspicion: the open transaction is rolled back.
Kill(p) ==
  /\ p \in Killable /\ pc[p] \in Running
  /\ Rollback(p)
  /\ Exit(p, "failed")
  /\ UNCHANGED <<catalog, mode, listing, before, known, cleaner>>

-----------------------------------------------------------------------------
(* The other writers of the table.                                         *)

\* A file of the source tree was hashed and is recorded.
HashBegin(h) ==
  /\ Idle(h)
  /\ \E path \in Path : BeginTxn(h, "hash", path, FileIdOf(filearr, path))
  /\ UNCHANGED <<catalog, scans, cleaner>>

HashCommit(h) ==
  /\ Locked(h)
  /\ Commit(h)
  /\ hash' = hash \cup {txn[h].id}
  /\ UNCHANGED <<nextId, scans, cleaner>>

HashError(h) ==
  /\ Rejected(h) \/ (h \in Killable /\ ~Idle(h))
  /\ Rollback(h)
  /\ UNCHANGED <<catalog, scans, cleaner>>

\* DELETE runs READ COMMITTED: it selects the rows in its snapshot ...
CleanBegin ==
  /\ ~syncing
  /\ syncing' = TRUE
  /\ doomed' = Doomed(filearr)
  /\ UNCHANGED <<catalog, txn, scans>>

\* ... waits for whoever has locked one of them, looks at the WHERE again
\* on the version it then finds, and deletes; hashes follow in cascade.
CleanCommit ==
  LET gone == doomed \cap Doomed(filearr) IN
  /\ syncing
  /\ \A s \in Session :
       ~(Locked(s) /\ (Updates(s) \/ References(s)) /\ txn[s].id \in doomed)
  /\ filearr' = Deleted(filearr, gone)
  /\ hash' = hash \ gone
  /\ txn' = [q \in Session |->
               IF txn[q].step = "snapshot" /\ txn[q].id \in gone
               THEN [txn[q] EXCEPT !.overtaken = TRUE] ELSE txn[q]]
  /\ syncing' = FALSE
  /\ doomed' = {}
  /\ UNCHANGED <<nextId, scans>>

-----------------------------------------------------------------------------
Init ==
  /\ filearr = [i \in FileId |-> NoRow]
  /\ hash = {}
  /\ nextId = 1
  /\ txn = [s \in Session |-> NoTxn]
  /\ pc = [p \in Scanner |-> "idle"]
  /\ mode = [p \in Scanner |-> "record"]
  /\ listing = [p \in Scanner |-> {}]
  /\ todo = [p \in Scanner |-> {}]
  /\ files_in_db = [p \in Scanner |-> {}]
  /\ before = [p \in Scanner |-> {}]
  /\ known = [p \in Scanner |-> {}]
  /\ syncing = FALSE
  /\ doomed = {}

ScanStep(p) ==
  \/ GetListing(p) \/ OnlyList(p) \/ DryLookup(p)
  \/ AddBegin(p) \/ Write(p) \/ AddCommit(p) \/ EndAdding(p)
  \/ DelBegin(p) \/ DelCommit(p) \/ EndPurge(p)
  \/ ScanError(p)

HashStep(h) == Write(h) \/ HashCommit(h) \/ HashError(h)

Next ==
  \/ \E p \in Scanner : Start(p) \/ ScanStep(p) \/ Kill(p)
  \/ \E h \in Hasher : HashBegin(h) \/ HashStep(h)
  \/ CleanBegin
  \/ CleanCommit

Spec == Init /\ [][Next]_vars

(***************************************************************************)
(* A started process is scheduled, a granted lock is used, and PostgreSQL   *)
(* answers; nobody is obliged to start a scan, to hash or to clean up.      *)
(***************************************************************************)
Fairness ==
  /\ \A p \in Scanner : WF_vars(ScanStep(p))
  /\ \A h \in Hasher : WF_vars(HashStep(h))
  /\ WF_vars(CleanCommit)

FairSpec == Spec /\ Fairness

-----------------------------------------------------------------------------
(* Properties.                                                             *)

TypeOK ==
  /\ filearr \in Table
  /\ hash \subseteq FileId
  /\ nextId \in Nat
  /\ txn \in [Session -> Txn]
  /\ pc \in [Scanner -> ScanPc]
  /\ mode \in [Scanner -> ScanMode]
  /\ listing \in [Scanner -> SUBSET Path]
  /\ todo \in [Scanner -> SUBSET Path]
  /\ files_in_db \in [Scanner -> SUBSET FileId]
  /\ before \in [Scanner -> SUBSET FileId]
  /\ known \in [Scanner -> SUBSET FileId]
  /\ syncing \in BOOLEAN
  /\ doomed \subseteq FileId

\* mirr_add_* append only what is not there, but decide it on a snapshot: two
\* overlapping scans of one mirror never record it twice for a file.
NoDuplicateMarks ==
  \A i \in Live(filearr) :
    filearr[i].mirrors # NULL => \A m \in Mirror : filearr[i].mirrors[m] <= 1

\* A purge is left with files the listing did not have, even when a row was
\* deleted and created again under another id while the scan was running.
PurgeSparesListed ==
  \A p \in Scanner : pc[p] = "purging" =>
    \A i \in files_in_db[p] \cap Live(filearr) : filearr[i].path \notin listing[p]

\* "It is beneficial to record the partial update": at every moment of a scan,
\* and after it failed, each row stands as it stood before or as the listing
\* says.  Nothing unlisted is added and nothing listed is dropped meanwhile.
PartialScanIsSound ==
  \A p \in Scanner : pc[p] \in {"adding", "purging", "failed"} =>
    \A i \in Live(filearr) :
      /\ Marked(filearr[i], MirrorOf[p]) =>
           i \in before[p] \/ filearr[i].path \in listing[p]
      /\ i \in before[p] /\ filearr[i].path \in listing[p] =>
           Marked(filearr[i], MirrorOf[p])

\* A scan that completed leaves the mirror on no file it did not list, and on
\* every listed file the table had when the scan began.
CompletedScanIsExact ==
  \A p \in Scanner : pc[p] = "done" /\ mode[p] = "record" =>
    \A i \in Live(filearr) :
      /\ Marked(filearr[i], MirrorOf[p]) => filearr[i].path \in listing[p]
      /\ i \in known[p] /\ filearr[i].path \in listing[p] =>
           Marked(filearr[i], MirrorOf[p])

\* All mirrors share the cell "mirrors": a row that stays keeps the mark, or
\* the absence, of every mirror none of whose scans commits in that step.
MarksChangeByOwnerOnly ==
  [][\A i \in FileId : filearr[i] # NoRow /\ filearr'[i] # NoRow =>
       \A m \in Mirror :
         Marked(filearr[i], m) # Marked(filearr'[i], m) =>
           \E p \in Scanner : /\ MirrorOf[p] = m
                              /\ Locked(p) /\ txn[p].id = i
                              /\ txn'[p].step = "none"]_vars

\* `cleandb syncmaster` removes what is gone from the master: a row it deletes
\* was reached by some scan, and at that moment the master is not on it; if the
\* master has no row itself (its id is NULL), only what no mirror has goes.  A
\* file that was only hashed so far (NULL mirrors) stays.
CleanSparesUnscanned ==
  [][\A i \in FileId : filearr[i] # NoRow /\ filearr'[i] = NoRow =>
       /\ filearr[i].mirrors # NULL
       /\ IF Master = NULL THEN filearr[i].mirrors = EmptyMarks
          ELSE ~Marked(filearr[i], Master)]_vars

\* Snapshots, locks and sessions notwithstanding, the tables change by whole
\* statements on their current rows.
Atomic == INSTANCE AtomicCatalog WITH filearr <- filearr, hash <- hash
CatalogIsAtomic == Atomic!Spec

\* A scan that got its listing ends: no lock is waited for indefinitely.
ScanEnds == \A p \in Scanner : pc[p] \in Running ~> pc[p] \in {"done", "failed"}

\* server/sql/schema.sql:243: "file % was just inserted by somebody else",
\* "just update it by calling ourselves again".
InsertRaceIsRetried ==
  [][\A p \in Scanner : UniqueConflict(p) /\ txn'[p] = NoTxn =>
       pc'[p] # "failed"]_vars

=============================================================================
