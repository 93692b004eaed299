# A formal model of minibrain

minibrain operates a MirrorBrain download redirector: it keeps, in a PostgreSQL
database, which mirror has which file, and an Apache module answers every
download with a redirection to a suitable mirror. This directory holds TLA+
modules that model the code, TLC configurations that check them on small
instances, and theorems that TLAPS proves for instances of any size.

Paths below are relative to the repository; `tools/`, `utils/` and
`entrypoints/` stand for `src/minibrain/tools/` and so on.

## 1. Inventory of the system

| Component | Source | State it keeps | Operations |
|---|---|---|---|
| Catalogue | `server/sql/schema.sql` | `filearr` (path, nullable array of mirror ids), `hash` (one row per hashed file), `server` (one row per mirror) | `mirr_add_bypath`, `mirr_add_bypath_noins`, `mirr_del_byid`, read helpers |
| Mirror scan | `tools/scan.py` | in memory: `files_in_db`, the listing; in the database: marks, `last_scan`, `scan_fpm`, `enabled` | list the mirror, record each path, purge what was not seen, update the mirror's row |
| Listings | `utils/http.py`, `utils/rsync.py` | a queue of folders to visit | crawl an nginx index, parse an rsync listing, exclude, normalise |
| Probe | `tools/probe.py`, `utils/probe.py`, `utils/alerts.py` | `server.status_baseurl`, `server.enabled`, one incident file per mirror | request over IPv4 and IPv6, compare with the recorded status, alert, save the row |
| Probe then scan | `entrypoints/probe_then_scan.py` | none | probe, and scan if the probe answered 0 |
| Hashing | `tools/hashes.py`, `tools/hashestree.py`, `utils/fs.py` | a tree of sparse files (size and mtime of what was hashed), lock files, `hash` | compare source and tree, compute, record, create the sparse file; rebuild the tree from the database |
| Clean-up | `tools/cleandb.py` | none | delete the rows the master mirror does not have; vacuum |
| Redirector | `server/mod_mirrorbrain/mod_mirrorbrain.c` | per request | decline or handle, look the file up, classify the mirrors, choose one, or answer with hashes, a metalink, a torrent, a list of mirrors |
| Directory index | `server/mod_autoindex_mb/` | the merged configuration; the rest per request | merge scopes, parse arguments, read and sort a folder, send it between header and readme |
| Fake sync | `fakesync/` | a tree of sparse files mirroring an rsync server | apply rsync's itemised changes; repeat while it ends well |
| Reports | `entrypoints/fileinfo.py`, `latest.py`, `status.py`, `genlist.py`, `utils/wellknown.py` | none | read-only queries |
| Copy of a database | `entrypoints/copydb.py` | target tables | copy tables with new ids |
| ZIM map | `entrypoints/gen_zim_map.py` | the map file of the redirector | write a temporary file, rename it |

How they interact. All tools are separate processes started by cron jobs or by
hand; they share the database, and nothing else orders them. A scan marks and
unmarks the array `mirrors` of a row; hashing creates rows whose array is NULL;
the clean-up deletes rows, and the foreign key takes the hash with the row; the
probe and the end of a scan both write the whole row of the mirror; the
redirector reads all of it without a transaction. Hashing and fake sync also
share directory trees on disk with the redirector.

What is hard about it: one-row transactions of several processes on the same
array, ids read minutes before they are used, tools that die halfway, the same
row of `server` rewritten by tools that read it long before, alerts that go out
before the state they report is saved, locks on disk that other runs delete,
and the interplay of three tools (hash, scan, clean-up) that each are right on
their own.

What makes each correct, in one line:

- *catalogue and scans*: the tables change as if every statement ran alone;
  a mirror is recorded at most once per file and only by its own scans; a scan
  that dies leaves no listed file unmarked and no unlisted one marked anew;
  one that completes leaves exactly the listing.
- *clean-up*: no row the master has, and no row that was only hashed, goes.
- *probe*: the recorded status converges to the mirror's, and goes to offline
  only after every alert.
- *hashing*: a sparse file in the tree means that the database has the hash of
  that version of the file.
- *redirector*: each mirror is in exactly one class, restrictions are never
  bypassed, a file with a usable mirror is redirected.
- *fake sync*: a run disturbs nothing that is up to date and reports success
  only when all is; repeated runs bring the copy to the server's entries, sizes,
  modes and times.
- *copy of a database*: marks and hashes stay with their mirrors and files,
  although every row gets a new id, and a copy that completes is complete.
- *directory index*: the options in force are those directed; a page lists what
  was there all along, once, in one order, and its links keep the view.

## 2. Plan

| # | Modules | What | State |
|---|---|---|---|
| 1 | `Catalog`, `AtomicCatalog`, `Scan`, `ScanProofs`, `PurgeProofs` | filearr and hash under scans, hashers and clean-up; refinement | done |
| 2 | `MirrorRow`, `MirrorProofs` | probe, alerts, end of scan and administrator on one row of `server` | done |
| 3 | `HashTree`, `HashProofs` | makehashes, its locks, pull-hashestree, crashes | done |
| 4 | `MirrorSelect`, `Redirect`, `RedirectProofs` | a request from its arrival to the answer: classification, choice, hashes, failures | done |
| 5 | `SparseSync`, `FaithfulCopy`, `SparseProofs` | fakesync's application of rsync's changes, the loop around it; refinement | done |
| 6 | `CopyDB`, `CopyProofs` | copy of a database with new ids, while the source goes on | done |
| 7 | `Autoindex`, `AutoindexProofs` | the index of a folder: configuration, arguments, list, order, links, document | done |
| 8 | `Listing` | crawl of an nginx index, permission bits | not modelled (section 10) |
| 9 | `Lifecycle` | composition of hash tree, scans and clean-up | not modelled (section 10) |

Abstract specifications: `AtomicCatalog`, in which every statement is one step,
implemented by `Scan`; `FaithfulCopy`, what one run of sparse-sync promises,
implemented by `SparseSync`. Every invariant and every action property that a
passing run checks is also a theorem; what stays with TLC is the liveness
(`ScanEnds`, `StatusSettles`, `HashSettles`, `Settles`, `CopyCompletes`).

The eight proof modules are `ScanProofs`, `PurgeProofs`, `MirrorProofs`,
`HashProofs`, `RedirectProofs`, `SparseProofs`, `CopyProofs` and
`AutoindexProofs`. Three kinds of statement are out of the provers' reach and
are checked by TLC only: liveness under fairness, what a recursive function
computes for every input, and anything about ENABLED.

## 3. Catalogue and scans (`Catalog`, `Scan`)

`Catalog` holds the table and the SQL. A row is its path and its array of
mirrors; the array is the bag of its elements, because no statement reads their
order, or NULL. `AnyEq` and `Not3` keep SQL's third truth value: it decides
that `NOT id = ANY(mirrors)` spares rows never scanned (NULL) and hits rows
purged of their last mirror (empty). Paths are numbers that stand for their
rank in sort order, ids are what the sequence hands out.

`Scan` runs scanners, hashers and one clean-up on that table.

| Model | Code |
|---|---|
| `filearr`, `hash`, `nextId` | the committed rows, and the sequence, which no rollback takes back |
| `txn[s]` | the open transaction of a session: the row in its snapshot, whether the row was overtaken by a commit, whether its write obtained the lock |
| `pc`, `mode`, `listing`, `todo`, `files_in_db` | the local variables of `run_mirror_scan` (`tools/scan.py:93-159`) |
| `before`, `known` | history variables: ids marked, and ids existing, when the scan began |
| `syncing`, `doomed` | the DELETE of `cleandb syncmaster` and the rows its snapshot selects |
| `AddBegin`, `Write`, `AddCommit` | `mirr_add_bypath`: BEGIN SERIALIZABLE and SELECT, the UPDATE or INSERT, COMMIT and `files_in_db.remove` |
| `DelBegin`, `Write`, `DelCommit` | `mirr_del_byid`, one call per id left |
| `HashBegin`, `Write`, `HashCommit` | `record_hashes_in_db` |
| `CleanBegin`, `CleanCommit` | `syncmaster` |
| `ScanError`, `HashError` | a database error that nobody catches before `main` |
| `Kill` | a signal, a lost connection, a failed listing, or a serialization failure that PostgreSQL raises on suspicion |
| `Start` | a new process of the same command line |

PostgreSQL is not in the repository; it is modelled from how the code uses it.
A SERIALIZABLE transaction reads the snapshot of its first statement; an UPDATE
waits for the lock of the row and fails if the row was changed since the
snapshot (first updater wins); an INSERT waits for an uncommitted one of the
same key; a row of `hash` takes a key-share lock on its row of `filearr`, which
conflicts with deletion only. The DELETE runs READ COMMITTED: it selects on a
snapshot, waits for locks, and looks at its condition again on the version it
then finds. Serialization failures that PostgreSQL may raise beyond these are
`Kill`.

Left out: the contents of `hash` rows and conflicts of two hashers on one of
them; repeated entries in a listing (the second call finds the mirror there and
does nothing); a listing is any set of paths.

### What the runs check

Two mirrors, two scanners, a clean-up against `Master = m1`. Nothing stops a
system of restartable scanners for good, so deadlock is checked.

| Run | Instance | Properties |
|---|---|---|
| `scan_mirrors` | one scanner per mirror, the second trusted (`--allow-insert`), the first killable; two paths, two ids; real and only-scan modes | `PartialScanIsSound`, `CompletedScanIsExact`, `PurgeSparesListed`, `CatalogIsAtomic`, `MarksChangeByOwnerOnly` |
| `scan_overlap` | both scanners on the same mirror, one trusted, and a hasher; one path, one id; real and dry runs, no kills, under `FairSpec` | `TypeOK`, `NoDuplicateMarks`, `CleanSparesUnscanned`, `CatalogIsAtomic`, `ScanEnds` |
| `scan_insert_race` | two trusted scanners on one path | `InsertRaceIsRetried`, violated |

The bounds. Conflicts are about one row or one key, so two sessions per kind of
conflict and one or two rows show every one of them: two updates of one cell, two
inserts of one path, an update against a deletion, a hash against a deletion.
In `scan_mirrors`, two paths make the order of a scan, the purge after the last path and partial
scans visible; two ids make a row come back under another id while an old scan
remembers the first. Scans may start over without bound, the sequence ends at
the last id and further inserts fail, as `nextval` does. The proofs below cover
all other sizes for the properties they name. The clean-up of the run finds the
master mirror. Where none has the name, its id is NULL, and only rows that no
mirror has may be deleted: `CleanSparesUnscanned` says so too, and for that case
it is proved (`CleanIsSafe`) and not run.

Fairness (`FairSpec`, which only `ScanEnds` needs). A process that runs takes its next step, PostgreSQL
grants a lock when it is free, a DELETE that started ends. Weak fairness
suffices: a waiting statement waits for a transaction whose session holds one
lock and asks for no second one, so it is released and, between scans, nothing
else can take it away for good. Nothing obliges anybody to start a scan, hash
or clean up.

### A disagreement between code and comment

`scan_insert_race`: `mirr_add_bypath` catches `unique_violation` and comments
"just update it by calling ourselves again" (`server/sql/schema.sql:243-245`).
That works at READ COMMITTED. `tools/scan.py` calls it in a SERIALIZABLE
transaction, where the second call reads the same snapshot: the row is still
absent, it inserts again, and the call ends in an error. Nothing retries, and
the scan fails. It concerns scans with `--allow-insert` only, and a path that a
hasher or another trusted scan inserts during the one-row transaction.

### What is proved

`ScanProofs` and `PurgeProofs` prove, for any number of mirrors, scanners,
hashers, paths and ids:

| Theorem | Statement |
|---|---|
| `CatalogInvariant` | the inductive invariant `CatalogInv` |
| `TypeCorrect` | `TypeOK` |
| `OwnersOnly` | `MarksChangeByOwnerOnly` |
| `MarksAreSets` | `NoDuplicateMarks` |
| `CleanIsSafe` | `CleanSparesUnscanned` |
| `ScanIsAtomic` | `CatalogIsAtomic`: every step of `Scan` is a step of `AtomicCatalog` or leaves its variables alone |
| `PurgeIsSafe` | `PurgeSparesListed` |
| `ResultInvariant` | the inductive invariant `ResultInv` |
| `ScansAreExact` | `PartialScanIsSound` and `CompletedScanIsExact` of every scan that has its mirror to itself |
| `PartialIsSound` | `PartialScanIsSound`, if no two scanners have the same mirror |
| `CompletedIsExact` | `CompletedScanIsExact`, if no two scanners have the same mirror |

They rest on the named assumptions of `Catalog` and `Scan`: NULL and the absent
row are no values, ids are positive, scanners and hashers are different
sessions, each scanner has a mirror. TLC evaluates them on every run.

`CatalogInv` is the type invariant and what the locks are for. None of its
parts is inductive alone. `SnapshotInv` says that a snapshot that was not
overtaken is the row as it is; it survives a commit because of `Exclusive` (no
two granted writes of one row or one path) and because commits and deletions
mark the snapshots they overtake. `LockInv` and `ReferenceInv` say that the
path of a granted INSERT stays free and that the file a new hash refers to
stays the same file; these need `TableInv` (unique paths, ids below the
sequence). The refinement then is short: the row a granted UPDATE writes is the
statement applied to the current table, and so on for each kind of commit.

`ScanInv` in `PurgeProofs` ties a scan's memory to the table. The purge is
harmless because an id in `files_in_db` whose row has a listed path still has
that path in `todo`; this survives rows that vanish and come back only because
ids to come are larger than any recorded one (`OldIds`), and survives the
removal of a path from `todo` only because the open transaction's row is the
one row of that path among the recorded ones (`Unseen`).

`ResultInv` is about what a scan leaves on the rows, and speaks of a scan that
has its mirror to itself (`Alone`), next to any scans of other mirrors, hashers
and clean-ups. A command scans the one mirror it is given, but nothing stops two
commands from scanning the same one; what the rows then say depends on which of
the two came last to which row, and only the theorems above the line of
`ResultInvariant` hold. `PartialIsSound` and `CompletedIsExact` are the case in
which all scans are alone, which is that of the run `scan_mirrors`. The parts of
`OutcomeInv`:

- `MarkedOnes`: a row with the mark had it when the scan began or is listed, and
  one that is not listed is still in `files_in_db`, so that the purge comes to it.
- `UnmarkedOnes`: a row without the mark either had none, or is not listed and was
  purged; and a listed row known to the scan is unmarked only while its path is
  in `todo`.
- `Told`: the snapshot of an open transaction tells the mark as it is. Without it
  `mirr_add_bypath` could find the mark on a stale row and leave out the update.
  A snapshot overtaken by another mirror's scan still tells it, because that
  scan does not touch this mark (`MarksOfOthers`); this is where a second scan of
  the mirror would do harm.
- `Old`: no INSERT under way is about an id that the scan has recorded, so that a
  row that turns up under it is the row it had seen.

Only `ScanEnds` (liveness) is model-checked and not proved.

## 4. One mirror's row (`MirrorRow`)

Probes and scans read a mirror's row of `server`, work for seconds or hours,
and save it. `save()` of peewee writes every column (`db.py` does not set
`only_save_dirty`), so whoever saves also restores the columns it never touched.
`MirrorRow` keeps the two columns that decide something, `enabled` and
`status_baseurl`; `last_scan`, `scan_fpm` and what an administrator edits
elsewhere in the row share the fate of `enabled`.

| Model | Code |
|---|---|
| `row`, `incident` | the row; the mirror's file in the incidents folder |
| `health` | what the mirror answers: fine, not, trouble over IPv6 only (an error status, or unreachable), or an error over IPv4 while it is unreachable over IPv6, which raises (`tools/probe.py:160`) |
| `pc`, `job`, `copy`, `due` | a process: stage, command line, the row in memory, destinations left to alert |
| `announced`, `overtaken` | history: FAILED alerts posted since the row was read; `enabled` changed since then |
| `crossed` | history: two probes were between alert and save at the same time, or one died there |
| `Start`, `ProbeRead`, `ProbeRaises`, `StillDead`, `StillAlive`, `JustFailed`, `Revived`, `Post`, `AlertsDone`, `ProbeSave` | `mirrorprobe` (`tools/probe.py:14-91`), branch by branch, one step per alert |
| `ScanRead`, `ScanFails`, `ScanReturns`, `ScanSave` | `mirrorscan` (`tools/scan.py:162-229`) around `run_mirror_scan`, which is module `Scan` |
| `AfterProbe` | `entrypoints/probe_then_scan.py:119-134`; the exit status is kept as far as it decides whether the scan follows |
| `Kill` | a signal or a lost connection |
| `Toggle`, `DeleteRow`, `ChangeHealth` | the administrator and the mirror |

The redirect loop of `probe_mirror` makes one round: requests follow redirects
themselves, so no answer is one. Email destinations are not destinations:
`send_probe_status_change_alert` sends nothing to them; an unset `SLACK_URL`, with which `alerts.py` (117-118) returns
before it posts, comes to the same as no destinations. An incident file that
cannot be written is not modelled. `EnabledFlipsAreMeant` is about what a command
may do to the row it has read. That a save puts back an `enabled` which was
changed since the row was read is what the code does; the property excludes it
by name (`overtaken`).

| Run | Instance | Properties |
|---|---|---|
| `mirror_row` | two probe-then-scan processes, one of them testing IPv6 too and killable; the first also probes by hand, dry and not, reviving, the second scans by hand with `--enable`; an administrator; one destination; under `FairSpec` | `TypeOK`, `DownHasStart`, `NeverDownUntold`, `EnabledFlipsAreMeant`, `StatusSettles` |

Mirrors do not share rows or incident files, so one mirror is enough. A stale
save needs two processes, one that reads early and one that saves in between.

What the runs show. Every process writes `status_baseurl`, but only a probe that
has alerted can write false: a scan holds true, because `mirrorscan` turns away
from an offline mirror. That test, made for another purpose, is what keeps a
stale scan from taking a revived mirror off line silently
(`NeverDownUntold`). In the other direction a stale save does go
unannounced: a scan that began before a failure writes true over it. With
`probe-then-scan` this heals (`StatusSettles`), because every scan is preceded
by a probe that fails while the mirror is down. With separate `scan` processes
it need not: TLC finds a schedule in which a scan always reads the row just
before the probe saves false, and the mirror stays recorded as online most of
the time although it is down. `StatusSettles` is therefore stated for the
case that no separate scan runs any more (`Unprobed`). `DownHasStart` holds as
long as alerts neither cross nor are cut short (`crossed`): a probe that dies
between its REVIVED alert and its save has removed the file of a mirror still
recorded as offline.

Fairness (`FairSpec`): every request has a timeout, so a process that can step
does (weak), and cron starts probe-then-scan again and again, whatever is run by
hand in between (strong). Runs by hand, `Kill`, the administrator and the mirror
are not fair. `StatusSettles` asks nothing of mirrors whose IPv6 alone fails: a
probe with `--ipv6` raises on them and records nothing (`ProbeRaises`).

One more thing that modelling brought up: `mirrorscan` refuses a disabled mirror
with "Use --enable or --dry-run to scan." (`tools/scan.py:188`), but `--dry-run`
is not part of the condition (`Scannable`): the dry run is refused with the same
words.

### What is proved

`MirrorProofs`, for any set of processes and command lines and any number of
destinations: `RowInvariant`, `RowTypeCorrect` (`TypeOK`), `DownIsTold`
(`NeverDownUntold`), `EnabledIsMeant` (`EnabledFlipsAreMeant`). The two action
properties are about a save, whose values were decided in earlier steps;
`RowInv` carries them there. `AlertInv` counts alerts: posted plus due is the
number of destinations while a failing probe alerts, all are posted when it
saves, and a scan about to save says online. `CopyInv` compares copy and row:
unless the process was overtaken they agree on `enabled`, or the copy says true
because the process was started to make it so. The only assumptions are
`RowAssumption` and `ProcAssumption`.

`OutagesHaveStarts` (`DownHasStart`) has an invariant of its own, `OutageInv`:
while alerts do not cross, one process at a time is between them and its save;
what it will save as offline has its file; and what is recorded as offline has
it or is about to be saved as online. `StatusSettles` is model-checked only.

## 5. The hash tree (`HashTree`)

`makehashes` avoids hashing a file twice by a tree of sparse files next to the
source folder: one that has the size and the mtime of its source says that the
database has its hashes. `HashTree` is the loop of `makehashes`, the loop of
`pullhashestree`, which rebuilds the tree from the database, and a source folder
that changes under both.

| Model | Code |
|---|---|
| `src` | the source folder: at each path a version, a folder or nothing. A version is its mtime in seconds |
| `tree`, `lock` | the target folder: sparse files as `stat()` shows them, folders; `.lock` files, held or left behind |
| `hash` | rows of `hash`: size and mtime, and the version the digests are of (`Torn`: of a mixture) |
| `pc`, `run` | a process: stage and local variables |
| `lost` | history: the hash was deleted in the database, and none recorded since |
| `List`, `Clean`, `CleanLock`, `EndClean` | listing both folders, removing targets without source (`tools/hashes.py:259-280`). Lock files are targets without source: `CleanLock` is that same loop |
| `Compare`, `EndCompare` | `tools/hashes.py:284-321`. `BelowFile`, here and in `StatFile`: a folder above that became a file raises NotADirectoryError, which nobody catches, and the run ends |
| `StatFile`, `SkipLocked`, `SeeNoLock`, `Acquire`, `Compute`, `ComputeFails`, `Record`, `RecordFails`, `Release` | hashing one file (`tools/hashes.py:324-365`). `exists()` on the lock and its acquisition are two steps |
| `Truncate`, `SetTime` | `create_sparse`: the file is written, then stamped. Two processes may mix: the size of one, the mtime of the other |
| `PullRead`, `PullNext`, `EndPull` | `pullhashestree`: all rows are read first (`tools/hashestree.py:36`), then each is applied |
| `Kill` | a signal or a crash; the lock file may stay |
| `Publish`, `Remove`, `MakeFolder` | the source folder changes; a replaced file is later than every earlier one at its path |
| `LoseHash` | `cleandb syncmaster` deletes the row of the file; the hash goes with it |

filelock is external. It makes the folders of the lock file, raises at once with
`timeout=0` if another process holds the file, and may or may not remove the
file when it lets go. The transaction of `record_hashes_in_db` is in `Scan`;
here it commits or fails. A pull with `--dry-run` changes nothing and is left
out, and so are the patterns and `--base-dir`, which only make the listed set
smaller.

| Run | Instance | Properties |
|---|---|---|
| `hash_tree` | a makehashes with normal and dry runs, a pull, a crash; a folder that may become a file, an empty one, and a file in it with two versions of the same size, whose hashes may be lost; under `FairSpec` | `TypeOK`, `TreeTruth`, `HashSettles` |
| `hash_locks` | two makehashes | `OneHasherPerFile`, violated |

Two versions make a file change between any two steps, one more replacement
would find the same steps again; the same size makes mixed sparse files look
right as often as possible. A nested path is what `mkdir`, `rmtree` and "a
previous folder is now a file" need. One crash suffices for what it leaves
behind to meet a run that goes well. `Mtimes` gives each path its versions and
`Losable` names the files whose hashes may be deleted. Runs with `--force` are
left to the proof below, which is for every option.

What the runs show. `TreeTruth` holds with one makehashes and a pull of rows that are out of date, because size and mtime recorded in the
database and in the tree are those of the `stat()` made before the file is read:
if the file changes during the hour that takes, the sparse file is wrong on the
next run. A second `stat()` at the end (the mutant `StampedAfresh`) breaks it.
It is not claimed of two makehashes that work on one file at the same time, see
below, nor of versions that share an mtime. `HashSettles` shows that the clean-up of lock files, the
cause of the disagreement below, is also what saves a file whose lock a crash
left behind: without it (`LockFilesKept`) that file is skipped forever.

Two things happen in this instance and are excused by name, so that
`HashSettles` does not hold them against the code. `lost`: makehashes compares with the
tree and never with the database, so a hash that `syncmaster` deletes is not
made again until the file changes or `--force` is given. `Blocked`: a file that
was hashed and is then replaced by a folder keeps its sparse file, since
`source_file.exists()` holds for the folder; every lock below it then fails with
an error that ends the run.

Fairness. A process that can step does; cron starts plain runs again and again
(strong, because a dry run may be going on at any one time); the database does
not refuse the hashes of one file each time. Runs by hand, pulls, crashes and
changes of the folder are not fair.

`hash_locks`: "> Skipping, as there's a lock on disk" (`tools/hashes.py:339`).
A second makehashes removes the held lock file in its clean-up, before it comes
to look for it. A clean-up that spares lock files would not be enough for
`TreeTruth`: with it each file is hashed by one process at a time
(`OneHasherPerFile` holds), but a process that made its `stat()` before another
one hashed a newer version, and looks for the lock after that one let it go,
puts a row with the old size and time in the place of the new one, which the
sparse file still vouches for.
The lock would have to be taken before the `stat()`.

### What is proved

`HashProofs`, for any paths and folders, any number of versions of any sizes, of
processes, of pulls and of crashes, and every option:

| Theorem | Statement |
|---|---|
| `TreeTypeCorrect` | `TypeOK` |
| `TreeInvariant` | the inductive invariant `TreeInv`, as long as makehashes keep `Apart` |
| `TreeIsTrue` | `TreeTruth`, as long as makehashes keep `Apart` |
| `OneAtATime` | `TreeTruth`, if there is at most one makehashes, which is the instance of `hash_tree` |

`Apart` says that no two makehashes are between `stat()` and commit of the same
file. It is what the lock files are meant for and do not ensure, as said
above; whoever runs several makehashes has to see to it, by patterns for instance
or one after the other. Two that work on different files of one tree,
each cleaning up and stamping among the other's files, are covered. The
assumptions on the constants are `TreeAssumption` and `ValuesAssumption`.

`TreeTruth` speaks of the disk and the database only, and is far from
inductive: what will be stamped on a sparse file is in the memory of a process,
and comes from a row that may have been replaced since. `TreeInv` follows a
version through all places. A version of a file is `Seen` if it is on disk, in
the database, or in the memory of any process, and `Shown` if it is on disk or
some process goes on to put it there.

- `HonestInv`: a version that is shown and is the present one has its hashes in
  the database. `TreeTruth` is its case of a version on disk.
- `TableInv` and `BagInv`: hashes recorded, or about to be, with the present
  mtime are of the present content. Without them a pull could show a version
  whose row has the hashes of another.
- `SourceInv` and `SeenInv`: nothing seen is later than the newest version, and
  a file that exists is its newest version. So a new version is not yet seen.
- `OrderInv`: while a makehashes works on a file up to the commit, nothing seen
  is later than the stamp it holds. So the commit cannot put older hashes over
  a row whose version is present and shown. `StatFile` makes it true, if
  nobody else is about to record hashes of that file: this is what `Apart` is for.

Most steps take nothing up: no file is begun, nothing is read or recorded,
and sparse files at most disappear (`QuietStep`). One lemma, `QuietKeeps`,
covers them; the eight others, and the changes of the source folder and the
database, have a lemma each. `HashSettles` is model-checked only.

## 6. The redirector (`MirrorSelect`, `Redirect`)

`mb_handler` of `server/mod_mirrorbrain/mod_mirrorbrain.c` is one function of
2400 lines that takes a request to its answer. `MirrorSelect` is the part
without state: the classes of mirrors, the three passes that fill them, and who
is picked from them. `Redirect` is the handler around it, and the world it
reads: the file on disk, its row in the view `hexhash`, the database connection.

| Model | Code |
|---|---|
| `ClassOf` | the chain of tests for one mirror (2240-2310) |
| `FirstPass`, `SecondPass`, `Classify` | the passes (2041-2369). A wildcard mirror joins the class of the country |
| `NearestClass`, `Best` | the choice (3585-3613), `find_lowest_rank` (any mirror of the class) and `find_closest_dist` |
| `FirstOf`, `Willing` | `get_n_best_mirrors`, the mirrors in a metalink or magnet link |
| `disk`, `newest` | the version of the file on disk; a version stands for content, size and mtime |
| `hash` | the row of `hexhash`: the version whose size and mtime it has, and the version its digests are of |
| `pc`, `rep`, `finfo`, `db`, `bag`, `rows`, `classes` | the local variables of the handler that decide something |
| `answer` | what is sent: where to, which mirrors are named, the version whose digests are given |
| `Receive` | everything up to line 1742: method, yum query, query string, `Accept`, extensions, exclusions |
| `Locate`, `Connect`, `ReadHashes`, `NoStatement`, `SelectFails`, `FindMirrors`, `ReadRowFails`, `ReadMoreHashes` | each read of something shared, with its failures, in the order of the code |
| `SendRedirect`, `SendMetalink`, `SendMirrorlist`, `SendNearest`, `SendYumlist` | the representations |
| `Publish`, `Remove`, `RecordHash` | the file is replaced or deleted; makehashes records hashes it may have computed from a later version than it stat()ed (section 5) |

Abstractions. Requests write nothing they share, so one at a time stands for
all. What the query returns is any table of mirrors with any marks: the
catalogue is section 3. Networks, systems, countries and regions are compared
for equality only; that a region contains its countries is not assumed.
`ours` and `excluded` fold the guards that end in the same answer. The file a
yum rule names is the file of the model. A file that does not exist, and a
folder, have size 0. Left out: memcache (the images are built without it), the
test header `X-Broken-Mirrors`, stamps, piece sizes and all wording. The
outcome `crash` is the child process following a null pointer.

| Run | Instance | Properties |
|---|---|---|
| `redirect` | two mirrors, each any of 19 kinds and marked or not, two fallbacks, 24 requests | `TypeOK`, `NearestServes`, `OnlyWhereAdmitted`, `SuitableIsNamed`, `DigestsMatch`, `FallbackServes` |
| `redirect_reserve` | the same | `ReserveIsLast`, violated |

Two mirrors suffice for every question of who is preferred to whom; the
kinds cover each class, from within and from outside of what a flag allows,
the wildcard, another country, a limit that is too small with and without flags,
no base URL, each reason for the query to leave a mirror out, and a greater
distance. The client is at home in one place, with and without coordinates.
Two versions show every order of a stat(), a replacement and a row of hashes.
`LinkMax` and `YumMax` are 1 and 2 instead of 5 and 10, so that the first cuts
off a mirror and the second does not. Mirrors are interchangeable at the start
and no definition names one, hence the symmetry; fallbacks have their own
countries and are not permuted. The handler has no loop that waits, so there
is no liveness to check.

What the runs show. The chain of tests sees places and flags together, and the
properties see them apart: `Level` is how near a mirror is, `Reach` how far a
flag lets it serve. That the chain never names a mirror beyond its reach has
three exceptions, stated in `OnlyWhereAdmitted`: a wildcard mirror, one that
lists the client's country among its others, and one that is too small. In a
metalink or magnet link even these must be free to serve, because there the
flags are tested again. `FallbackServes` needs the rows that were discarded for
want of a base URL to be gone from the array; if all mirrors are usable but
none admits the client, fallbacks do not come in, and the answer is 404.
`DigestsMatch` rests on the size and mtime in the query for the hashes: the row
may be older or newer than the file.

Two things the model shows and no property forbids. `SelectFails`: of all the
ways the database can fail, a query that fails while fallbacks are configured
is the one the handler does not survive (2015). And the comment in
`mod_mirrorbrain.conf` (173) that a file without mirrors is delivered from here
is not what the code does any more: it answers 404 (3615-3626).

`redirect_reserve`: a mirror whose `file_maxsize` is too small is kept "as
reserve - after all, it could be the only one" (2245). It is kept in the class
of mirrors from elsewhere, where it competes with those that take the file, and
its own flags are not looked at.

### What is proved

`RedirectProofs`, for any mirrors, fallbacks, places, requests and versions:

| Theorem | Statement |
|---|---|
| `RedirectInvariant` | the inductive invariant `RedirectInv` |
| `RedirectTypeCorrect` | `TypeOK` |
| `NearestIsChosen` | `NearestServes` |
| `RestrictionsHold` | `OnlyWhereAdmitted` |
| `SuitableIsUsed` | `SuitableIsNamed` |
| `FallbacksServe` | `FallbackServes` |
| `DigestsAreTheFiles` | `DigestsMatch` |

The assumptions are `PlaceAssumption` and `RequestAssumption`.

The argument has two halves. Lemmas about one mirror relate the chain to
`Level` and `Admits`: who may serve is put where it is, or waits in the class
of other countries (`ClassIsLevel`); nobody is put nearer than it is
(`LevelWithinClass`); who is in a class may serve, but for the exceptions
(`ClassAdmits`); the second test of the flags, in metalinks, keeps out exactly
those who may not (`BarredIsEnough`, `BarredIsNeeded`). Lemmas about the passes
lift this to the classes (`ClassMembers`, `SuitableIsListed`). So the first
class with members is no farther than the level of any suitable mirror, and its
members are no farther than the class.

The properties speak of an answer, and nothing in one step says that the
classes it used belong to this request and these mirrors. `AnswerInv` carries
that through the steps: the classes are those of the mirrors found, or no
mirror was found and none is named; whatever is named is of the right class.
`DigestInv` does the same for hashes: those in the database are of a version
not older than the one they are recorded under, those read are recorded under
the version that was stat()ed, and a file that exists is its newest version.


## 7. The sparse copy of a tree (`SparseSync`, `FaithfulCopy`)

`fakesync/sparse-sync.py` keeps a copy of an rsync server's tree in which every
file is sparse but has the size, time and mode of the server's. It has rsync
say what a transfer would do (`--dry-run --itemize-changes`) and does that
itself. `forever-entrypoint.py` repeats it and ends when it fails; the container
is then started again.

| Model | Code |
|---|---|
| `remote`, `local` | the server's tree and the copy; per path kind, size, time, mode (the owner's execute and setuid bits), target of a link |
| `pc`, `dry`, `todo`, `line`, `stamps`, `rc` | the run: lines of rsync's output not yet read, the line worked on, `dir_timestamp_map`, how the last run ended |
| `goal` | history: the server's tree as rsync listed it |
| `LineFor`, `Differs`, `Listing`, `Ready` | what rsync prints (external): one line per path that differs, in any order that has folders before what is in them and deletions the other way round |
| `List`, `Take`, `Raise`, `Delete`, `MakeFolder`, `SkipLink`, `OpenFile`, `WriteByte`, `SetMode`, `SetTime`, `StampFolder`, `Finish` | `sync_tree` and `create_sparse`, call by call on the disk |
| `Kill`, `Restart` | a signal, a crash, a failure of rsync; the container is started again |
| `ServerChanges` | the server's tree becomes another one, at any time |

The tree is listed in one step; rsync walks it while it may change. Times
survive `mktime(strptime())` (378) unchanged, which does not hold in the hour that
local time repeats in autumn.

`FaithfulCopy` is what one run promises: from the tree it was given, paths only
go from behind to up to date, and success means that none is behind. `SparseSync`
implements it (`CopyIsFaithful` is `INSTANCE FaithfulCopy` under a refinement
mapping) for runs without `--dry-run` and as long as no link of the copy stands
where the server has a file (`LinkInTheWay`): such a link is written through.

| Run | Instance | Properties |
|---|---|---|
| `sparse_copy` | a folder (or a link in its place), a file in it, next to it a path with a space; files that differ in size, time and mode, one empty and setuid; a link that leads out of its folder; dry runs, one crash, one change of the server, under `FairSpec` | `TypeOK`, `CopyIsFaithful`, `DryRunOnlyDeletes`, `Settles` |

One folder with one entry shows what the order of lines does to the folder's
time; one crash leaves everything behind that a crash can; one change of the
server falls between any two steps. Fairness: a run goes on (weak), and the loop
lists again (strong, because dry runs are started by hand). Nobody owes a
restart; `Settles` assumes it, and that from some time on nothing on the server
is of a kind the copy cannot settle on (`Settleable`).

What the run shows. A copy of folders and plain files becomes the server's,
folder times included, whatever was killed when: a file emptied and not yet
stamped has the time of the writing, which the next listing reports. What is
excluded by `Settleable` was found while modelling:

- a path with a space makes `line.rsplit(maxsplit=5)` shift its fields, and
  every later run fails on it;
- a file where a folder was, or a folder where a file was, raises, again and
  again; so does a relative link in a folder, whose target is joined to the root;
- links are never made: the operation `recv` replaces the `c` that
  `needs_local` looks for;
- `perms_to_mode` takes the owner's `s` and `S` for each other, so that setuid
  files are chmod()ed on every run and never agree;
- `"*deleting"[1]` is `d`, so that every deletion counts as one of a folder: a
  link is unlinked twice, and the second time raises. The next run goes well.

`DryRunOnlyDeletes`: deletions, and the removal of a link where a folder comes,
are not guarded by `--dry-run`; all else is. The property permits these and
nothing more.

### What is proved

`SparseProofs`, for any paths, entries, changes and crashes: `SyncInvariant`,
`SyncTypeCorrect` (`TypeOK`), `SyncIsFaithful` (`CopyIsFaithful`), under
`PathAssumption` and `EntryAssumption`. `CopyIsFaithful` needs that a line read
now still tells how the copy differs, after all the lines before it: `ExactInv`
says that every line still to do is right about its path, every other path
agrees, and the path of the present line is as far as the stage says.
`LinesInv`, `TreeInv` and `StageInv` are what keeps one line from another's
path: one line per path, nothing without its folder, links followed once. The
other steps change the time of a folder at most, which no line of another path
speaks of (`BehindShrinks`). `DryRunIsMild` is `DryRunOnlyDeletes`: it needs of
`SyncInv` that a dry run never comes to the stages that write, and that what it
removes touches no other path but the time of its folder (`RemovedFacts`).
`Settles` is model-checked only.

## 8. The copy of a database (`CopyDB`)

`entrypoints/copydb.py` fills a database from that of a running instance: the
mirrors, and the files of one mirror with their hashes. It runs one statement
after the other on the source, which goes on being scanned, hashed and cleaned,
and writes the target in five transactions.

| Model | Code |
|---|---|
| `source` | `server`, `filearr` and `hash` of the source, with their ids and sequences |
| `target`, `held`, `work` | the target as committed, how often it has each static entry, the open transaction |
| `run`, `todo`, `idMap`, `newId`, `left` | the options and rows fetched, rows not yet inserted, `server_ids_map`, `new_file_id`, what the progress bar has left |
| `halfway`, `touched` | history: servers replaced and files not yet; files of the source changed since they were listed |
| `Start`, `Count`, `CopyStatic`, `ReadServers`, `InsertServer`, `CommitServers`, `ReadFiles`, `InsertFile`, `CopyHash`, `CommitFiles` | `run()`, in its order |
| `Kill` | a signal or a lost connection: the open transaction is rolled back |
| `AddServer`, `DropServer`, `ToggleMark`, `AddFile`, `DropFile`, `RecordHash` | the source goes on |

Left out: columns that are copied as they are, the order of marks, numbers lost
by rolled back inserts. Digests are those of a file, so the path stands for them.

| Run | Instance | Properties |
|---|---|---|
| `copydb` | two mirrors, two files, three databases to begin with (one with a mark of a mirror that is gone, one without the mirror asked for), every option, two changes of the source, one crash, under `FairSpec` | `TypeOK`, `MarksNameTheirServers`, `CompletedCopyIsExact`, `CopyCompletes` |

Ids of the source have gaps, so that none is the same in the target and a
confusion of the two shows. Two changes make a file vanish and another appear
between two statements. Fairness: a copy that runs goes on. Nobody owes a run;
`CopyCompletes` is about those that are started with `--truncate` and not refused.

What the run shows. With `--truncate` the servers are replaced in one
transaction and the files in a later one: after a failure in between the marks
of the old files lead to other mirrors or to none until another copy completes.
This window (`halfway`) is the only exception of `MarksNameTheirServers`. Without
`--truncate` a second copy fails at the servers, whose identifiers are unique,
after it has doubled the countries and regions. `CopyCompletes` needs a source
that has the mirror and, with `--keep-onmirror-info`, no mark of a mirror that
is gone: such a mark has no entry in `server_ids_map`, and every copy ends with a
KeyError. The assertion that the mirror is there comes after the servers were
committed. The refusal of a copy smaller than the target counts marks, and so
may count stale ones; and the progress bar is as long as a count made before, so
that files added meanwhile end the copy with StopIteration.

### What is proved

`CopyProofs`, for any source databases, options, changes and crashes:
`CopyInvariant`, `CopyTypeCorrect` (`TypeOK`), `MarksAreRight`
(`MarksNameTheirServers`), `CopyIsExact` (`CompletedCopyIsExact`), under
`CopyAssumption` and `SourceAssumption`. `MapInv` ties `server_ids_map` to the
rows inserted, from the servers' transaction into the files' (`WorkInv`: each
changes one table), which is what `MarksInv` needs. `DoneInv` says that a file
listed is still to do or has its copy, and `ListInv` that an id of the source is
still the same file or none, because the sequence never gives it again: so the
hash looked up by id is that of the file listed. `CopyCompletes` is
model-checked only.

## 9. The index of a folder (`Autoindex`)

`server/mod_autoindex_mb/mod_autoindex_mb.c` answers requests for folders. What
it keeps is the configuration, merged scope by scope; everything else lives as
long as a request, next to a folder in which files come and go.

| Model | Code |
|---|---|
| `said`, `scope`, `word`, `record`, `conf` | the configuration by scopes, outermost first, and the records made of it |
| `AddWord`, `ReadWord`, `EndScope`, `Refuse` | `add_opts` (342-542), word by word, with its errors |
| `Merge` | `merge_autoindex_configs` (651-749) |
| `Receive`, `Begin`, `FirstView` | `handle_autoindex`, and `index_directory` up to the query string |
| `ParseArgument`, `WithArgument`, `EndArguments` | the arguments C, O, F, V and P (2117-2210); `view` has the locals they set and what the links will repeat |
| `EmitHead`, `HeadParts`, `EmitTail`, `TailParts` | `emit_head` (1022), `emit_tail` (1146); `out` is the document, part by part |
| `AddParent`, `ReadEntry`, `EndRead`, `Shown`, `Entry` | `make_parent_entry`, the loop over readdir (2240-2274), which ends at the last entry or at any error other than an incomplete one (2245-2247), `make_autoindex_entry` |
| `Pieces`, `PatternArguments` | what the P= of a link is read back as (2174-2211): one argument, or several if the pattern has a separator |
| `Dsortf`, `CompareKeys`, `CompareNames`, `Sort` | `dsortf` (1929) and qsort, which may arrange equal entries and ask for comparisons as it likes |
| `Click`, `Link` | `emit_link` (1494) with `colargs`, and a client who follows it |
| `Change` | anything happens at one name, at any time up to the end of the reading |
| `steady`, `was`, `cut`, `files`, `promised` | history: names untouched since the folder was opened, whether an error ended the reading, what was at each name since, what became of header and readme, what the link followed stands for |

Abstractions. Apache merges at each request; the configuration does not change
here, so once is enough. One IndexOptions directive per scope. Options that only
change the look of a row are left out, and so are words that set widths, icons,
a type or a charset (such a word without a sign also drops the signed ones
before it, as any other does). The four comparisons of names are any four
rankings, of which strcmp's tells all names apart; descriptions have one ranking. A client decodes the
HTML entities of a link as it should.
The layout of the rows (`output_directories`) is one part of the document.

| Run | Instance | Properties |
|---|---|---|
| `index` | a folder with a subfolder, a file and a link, whose names the four comparisons order in three ways; six configurations of one to three scopes, two of them refused; three patterns, one with a separator; four query strings and all column links; one change of the folder, and the reading may fail anywhere | `TypeOK`, `OptionsAsDirected`, `PageIsFaithful`, `PageIsSorted`, `LinksKeepTheView`, `DocumentIsWhole` |
| `index_overlap` | the same | `NoOverlap`, violated |

Three names are the fewest on which a comparison can contradict itself; one
change puts every entry on either side of being read; three scopes are what a
removal, an addition below it and another below that need. Nothing waits in this
code and nothing is retried, so there is no liveness to check; deadlock is.

What the run shows. `OptionsAsDirected`: an option written with a sign is on or
off as the innermost scope that signs it directs (`Directed`), among the scopes
from the innermost one with plain options downwards (`Below`). The case of the
next section, an addition below a scope that removed the option, is left out of
it. Two things the documentation of the directive would not suggest: signs next
to plain options of the same scope are lost when it is merged into another, but
those of the outermost scope come into force below it.

`LinksKeepTheView` has two exceptions, which `Promise` names. A pattern that was
ended by an empty or undecodable `P=` stays in the links and comes back with the
next click. And a pattern that contains `&` or `;` is cut: `ap_escape_uri`
(2194) leaves these characters, and the parser ends `P=` at them (2178). A page
asked for with `?P=a%26b` has links that ask for `a`; what follows the separator
is read as further arguments, so that `*0&F=2` of the instance asks for a table,
too. The model follows such a link like any other, and the other properties hold
of the page it leads to.

Sorting a plain list by date or size has no effect, since it never looks at
them; and the option Metalink pads and signs a page but makes no link, although
line 28 says "Optionally adds metalinks and mirrorlists".

`PageIsFaithful` promises that no entry is missing only for a page whose reading
came to the end. After an error of readdir the page has the entries read so far,
under a status and a footer that do not tell it from a whole one.

### A disagreement between code and comment

`index_overlap`: "We're guaranteed that there'll be no overlap between the
add-options and the remove-options" (712-713). It holds for the words of one
scope and not for what is inherited: `-X` in a scope and `+X` in a scope below
leave X in both sets after the merge. What is removed is taken away last, so X
stays off, although the inner scope asked for it.

### What is proved

`AutoindexProofs`, for any folder, changes, configurations, query strings and
rankings:

| Theorem | Statement |
|---|---|
| `IndexTypeCorrect` | `TypeOK` |
| `OptionsAreMerged` | `OptionsAsDirected` |
| `LinksKeep` | `LinksKeepTheView` |
| `DocumentsAreWhole` | `DocumentIsWhole` |
| `PagesAreFaithful` | `PageIsFaithful` |
| `PagesAreSorted` | `PageIsSorted` |

The assumptions are `IndexAssumption` and `RankAssumption`.

`LinksKeep` follows a link through the parsing of the next request, argument by
argument (`PromiseInv`), and needs that the options of a page are those of the
configuration changed by the F= and V= that its links repeat (`ViewInv`), although
other arguments came in between. It holds for any `Pieces`, that is, whatever a
pattern is read back as; it promises the pattern only if it comes back `Whole`.
`PagesAreFaithful` rests on `CollectedInv`: of
the names left alone since the opening, those read are in the list exactly once
if they may be shown, the others are still to be returned, unless the reading was cut short; sorting is a
permutation because a one-to-one map of a finite set onto itself leaves nothing
out (`SortCollects`). `PagesAreSorted` rests on `DsortfIsPlace`: what dsortf does
not call greater does not belong farther down by one fixed sequence of six
criteria, so answers about different pairs never contradict each other.

`OptionsAreMerged` follows the words of a scope and then the scopes
(`OptionsInv`). After n words the signed options of a record are those that
neither a later word without a sign nor the other sign took back (`Said`).
After n scopes the record merged is that of the innermost scope with plain
options, with what was added and removed under it (`Merged`). What is added is
determined only up to what is removed: merging keeps an option in both sets when
it comes in from both sides, which is why the invariant compares
`add` without `remove`, and why such an option stays off. `Directed` follows from
`Merged`: below the innermost scope that signs the option nothing more is said
of it.

## 10. Not modelled

- *Mirror listing* (`utils/http.py`, `utils/rsync.py`). `Scan` uses its contract:
  a set of paths, or an exception. The rest is mostly parsing. Two things seen on
  the way: the crawl has no memory of folders it has visited, so a listing that
  contains itself keeps it going, and a file moved while the crawl is on its way
  may be missed; `rsplit(" ", 3)` cuts names with spaces.
- *A composition of hash tree, scans and clean-up.* Each pair that shares state is
  modelled where it meets: hashers and clean-ups with scans in `Scan`, the loss of
  hashes by a clean-up in `HashTree` (`LoseHash`), their late recording in
  `Redirect`. One module with all three has too many interleavings to be checked
  with bounds that show anything new.
- *ZIM map* (`entrypoints/gen_zim_map.py`). One query and one file that is
  replaced by a rename. Paths are sorted folder by folder, so that of one name in
  two folders the last folder's file counts as the latest.
- *Reports* read tables and format them.
- *Configuration, command line, helpers, processes and packaging.* No state of
  their own; what matters of them (exit statuses, signals, whole-row saves) is in
  the modules that meet it.
- *Formatting* in both Apache modules, memcache, GeoIP look-ups and stamps.
