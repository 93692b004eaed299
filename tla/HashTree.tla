------------------------------ MODULE HashTree ------------------------------
(***************************************************************************)
(* The hash tree: makehashes (tools/hashes.py) and pullhashestree           *)
(* (tools/hashestree.py) on the files of a source folder, their hashes in   *)
(* the database, and a target folder that mirrors the source with sparse    *)
(* files.  A sparse file with the size and the mtime of its source means    *)
(* "hashed": makehashes leaves that source file alone.                      *)
(*                                                                         *)
(* A file is its mtime, in seconds: two versions of a file differ in it,    *)
(* and a file that is replaced gets a later one.                            *)
(***************************************************************************)
EXTENDS Naturals

CONSTANTS Path,        \* relative paths
          Above,       \* the folders above each path, within Path
          MaxVersion,  \* bound on the versions of all files
          Mtimes,      \* bound on the versions of each file
          Losable,     \* bound on the files whose hashes are deleted
          Size,        \* of each version
          Hasher,      \* makehashes processes
          Puller,      \* pull-hashestree processes
          Modes,       \* the ways makehashes is started
          MaxKills,    \* bound on crashes
          Absent, Dir, Now, Torn, NoHash, Free, None

Version == 1..MaxVersion
Entry == Version \cup {Absent, Dir}
\* What stat() tells of a file; a sparse file not stamped yet is of Now.
Stat == [size : Nat, time : Version \cup {Now}]
HashRow == [stamp : Stat, data : Version \cup {Torn}] \* data: what was digested
Session == Hasher \cup Puller
Below(p) == {q \in Path : p \in Above[q]}

ASSUME TreeAssumption ==
  /\ Above \in [Path -> SUBSET Path]
  /\ \A p \in Path : p \notin Above[p]
  /\ MaxVersion \in Nat /\ MaxKills \in Nat
  /\ Size \in [Version -> Nat]
  /\ Mtimes \in [Path -> SUBSET Version]
  /\ Modes \subseteq {"normal", "force", "dry"}
  /\ Hasher \cap Puller = {}

ASSUME ValuesAssumption ==
  /\ {Absent, Dir} \cap (Version \cup Stat) = {} /\ Absent # Dir
  /\ {Now, Torn} \cap Version = {}
  /\ NoHash \notin HashRow /\ None \notin Stat
  /\ {Absent, Free} \cap Hasher = {} /\ Absent # Free

VARIABLES
  src,     \* the source folder: the version at each path, Absent or Dir
  newest,  \* the newest version each file ever had
  tree,    \* the target folder: the sparse file at each path, Absent or Dir
  lock,    \* its .lock files: Absent, Free, or the process that holds it
  hash,    \* the hashes in the database
  pc,
  run,     \* the local variables of a process:
           \*   mode; targets and locks, the files found in the target folder;
           \*   todo, the source files; rows, the rows a pull has read;
           \*   cur, the file it works on; stamp and data, what it has of it
  kills,
  lost     \* history: the hash was deleted, and none was recorded since

source == <<src, newest>>
target == <<tree, lock>>
vars == <<source, target, hash, pc, run, kills, lost>>

IsFile(entry) == entry \in Version
StatOf(entry) ==
  IF IsFile(entry) THEN [size |-> Size[entry], time |-> entry] ELSE None

Goto(s, stage) == pc' = [pc EXCEPT ![s] = stage]

NoRun == [mode |-> "normal", targets |-> {}, locks |-> {}, todo |-> {},
          rows |-> {}, cur |-> None, stamp |-> None, data |-> None]

\* The process ends, by return or by an exception nobody catches.
Quit(s) == Goto(s, "idle") /\ run' = [run EXCEPT ![s] = NoRun]

\* It is done with the file it worked on.
NextFile(s, stage) ==
  /\ Goto(s, stage)
  /\ run' = [run EXCEPT ![s] = [@ EXCEPT !.cur = None, !.stamp = None, !.data = None]]

\* Leaving the `with` block; filelock may or may not remove the lock file,
\* even one that another process made after this one's was removed.
Unlocked(h) ==
  \E l \in {Absent, IF lock[run[h].cur] = h THEN Free ELSE lock[run[h].cur]} :
    lock' = [lock EXCEPT ![run[h].cur] = l]

-----------------------------------------------------------------------------
(* makehashes: listing and cleaning.                                       *)

SourceFiles == {p \in Path : IsFile(src[p])}
TargetFiles == {p \in Path : tree[p] \notin {Absent, Dir}}

\* Mutant of LockFiles: locks are not cleaned.
LockFilesKept == {}

LockFiles == {p \in Path : lock[p] # Absent}

\* get_source_files, get_target_files
List(h, mode) ==
  /\ pc[h] = "idle"
  /\ Goto(h, "clean")
  /\ run' = [run EXCEPT ![h] = [@ EXCEPT !.mode = mode, !.targets = TargetFiles,
                                         !.locks = LockFiles, !.todo = SourceFiles]]
  /\ UNCHANGED <<source, target, hash, kills, lost>>

\* A target without a source is removed; one that is gone by now raises.
Clean(h) ==
  /\ pc[h] = "clean"
  /\ \E p \in run[h].targets :
       IF src[p] # Absent \/ run[h].mode = "dry"
       THEN /\ run' = [run EXCEPT ![h].targets = @ \ {p}]
            /\ UNCHANGED <<tree, pc>>
       ELSE IF tree[p] \in {Absent, Dir}
       THEN Quit(h) /\ UNCHANGED tree
       ELSE /\ tree' = [tree EXCEPT ![p] = Absent]
            /\ run' = [run EXCEPT ![h].targets = @ \ {p}]
            /\ UNCHANGED pc
  /\ UNCHANGED <<source, lock, hash, kills, lost>>

\* No source file has the name of a .lock file: it goes, whoever holds it.
CleanLock(h) ==
  /\ pc[h] = "clean"
  /\ \E p \in run[h].locks :
       IF lock[p] = Absent /\ run[h].mode # "dry"
       THEN Quit(h) /\ UNCHANGED lock
       ELSE /\ lock' = [lock EXCEPT ![p] =
                          IF run[h].mode = "dry" THEN @ ELSE Absent]
            /\ run' = [run EXCEPT ![h].locks = @ \ {p}]
            /\ UNCHANGED pc
  /\ UNCHANGED <<source, tree, hash, kills, lost>>

\* From here on "targets" is what is left to compare.
EndClean(h) ==
  /\ pc[h] = "clean" /\ run[h].targets = {} /\ run[h].locks = {}
  /\ Goto(h, "compare")
  /\ run' = [run EXCEPT ![h].targets = run[h].todo]
  /\ UNCHANGED <<source, target, hash, kills, lost>>

-----------------------------------------------------------------------------
(* makehashes: comparing source and target.                                *)

UpToDate(p) == IsFile(src[p]) /\ tree[p] = StatOf(src[p])

\* A folder where a file is now is removed with all it holds.
WithoutFolder(p) ==
  /\ tree' = [q \in Path |-> IF q = p \/ q \in Below(p) THEN Absent ELSE tree[q]]
  /\ lock' = [q \in Path |-> IF q \in Below(p) THEN Absent ELSE lock[q]]

\* A file that is gone by now, or was hashed, is dropped.
ToHash(h, p) ==
  IF /\ tree[p] \notin {Absent, Dir}
     /\ run[h].mode # "force"
     /\ src[p] = Absent \/ UpToDate(p)
  THEN run[h].todo \ {p} ELSE run[h].todo

\* Below a path that is a file by now stat() raises NotADirectoryError, which
\* nobody catches.
BelowFile(p) == \E a \in Above[p] : IsFile(src[a])

Compare(h) ==
  /\ pc[h] = "compare"
  /\ \E p \in run[h].targets :
       IF tree[p] \notin {Absent, Dir} /\ run[h].mode # "force" /\ BelowFile(p)
       THEN Quit(h) /\ UNCHANGED target
       ELSE /\ IF tree[p] = Dir /\ run[h].mode # "dry"
               THEN WithoutFolder(p)
               ELSE UNCHANGED target
            /\ run' = [run EXCEPT ![h] = [@ EXCEPT !.targets = run[h].targets \ {p},
                                                   !.todo = ToHash(h, p)]]
            /\ UNCHANGED pc
  /\ UNCHANGED <<source, hash, kills, lost>>

EndCompare(h) ==
  /\ pc[h] = "compare" /\ run[h].targets = {}
  /\ Goto(h, "hash")
  /\ UNCHANGED <<source, target, hash, run, kills, lost>>

-----------------------------------------------------------------------------
(* makehashes: hashing one file after the other.                           *)

\* stat() of the next file: what is gone is skipped.  A folder that was a
\* file when it was listed has no stamp, and fails when it is opened.
StatFile(h) ==
  /\ pc[h] = "hash"
  /\ \E p \in run[h].todo :
       IF BelowFile(p)
       THEN Quit(h)
       ELSE IF src[p] = Absent
       THEN run' = [run EXCEPT ![h].todo = @ \ {p}] /\ UNCHANGED pc
       ELSE /\ run' = [run EXCEPT ![h] = [@ EXCEPT
                         !.todo = run[h].todo \ {p}, !.cur = p,
                         !.stamp = StatOf(src[p])]]
            /\ Goto(h, "lock")
  /\ UNCHANGED <<source, target, hash, kills, lost>>

EndHash(h) ==
  /\ pc[h] = "hash" /\ run[h].todo = {}
  /\ Quit(h)
  /\ UNCHANGED <<source, target, hash, kills, lost>>

\* A .lock file on disk: the file is left to whoever made it.
SkipLocked(h) ==
  /\ pc[h] = "lock" /\ lock[run[h].cur] # Absent
  /\ NextFile(h, "hash")
  /\ UNCHANGED <<source, target, hash, kills, lost>>

SeeNoLock(h) ==
  /\ pc[h] = "lock" /\ lock[run[h].cur] = Absent
  /\ Goto(h, "acquire")
  /\ UNCHANGED <<source, target, hash, run, kills, lost>>

\* The folders above p are made; a file in the place of one raises.
FoldersOk(p) == \A a \in Above[p] : tree[a] \in {Absent, Dir}
WithFolders(p) ==
  tree' = [q \in Path |-> IF q \in Above[p] THEN Dir ELSE tree[q]]

\* FileLock(..., timeout=0): a lock held by another process raises.
Acquire(h) ==
  /\ pc[h] = "acquire"
  /\ LET p == run[h].cur IN
     IF FoldersOk(p) /\ lock[p] \in {Absent, Free}
     THEN /\ WithFolders(p)
          /\ lock' = [lock EXCEPT ![p] = h]
          /\ Goto(h, "compute")
          /\ UNCHANGED run
     ELSE Quit(h) /\ UNCHANGED target
  /\ UNCHANGED <<source, hash, kills, lost>>

\* Reading takes a while: a file that changed since stat() may be read as it
\* is now, or as a mixture.
Compute(h) ==
  /\ pc[h] = "compute" /\ run[h].stamp # None
  /\ IsFile(src[run[h].cur])
  /\ LET now == src[run[h].cur] IN
     \E data \in {now} \cup (IF StatOf(now) = run[h].stamp THEN {} ELSE {Torn}) :
       run' = [run EXCEPT ![h].data = data]
  /\ Goto(h, IF run[h].mode = "dry" THEN "release" ELSE "record")
  /\ UNCHANGED <<source, target, hash, kills, lost>>

\* The file is gone, or a folder, when it is opened.
ComputeFails(h) ==
  /\ pc[h] = "compute"
  /\ run[h].stamp = None \/ ~IsFile(src[run[h].cur])
  /\ Quit(h)
  /\ Unlocked(h)
  /\ UNCHANGED <<source, tree, hash, kills, lost>>

\* Mutant of Hashes: the bag is made, and not computed.
HashesNotComputed(h) == [stamp |-> run[h].stamp, data |-> None]

Hashes(h) == [stamp |-> run[h].stamp, data |-> run[h].data]

\* record_hashes_in_db commits.
Record(h) ==
  /\ pc[h] = "record"
  /\ hash' = [hash EXCEPT ![run[h].cur] = Hashes(h)]
  /\ lost' = [lost EXCEPT ![run[h].cur] = FALSE]
  /\ Goto(h, "truncate")
  /\ UNCHANGED <<source, target, run, kills>>

RecordFails(h) ==
  /\ pc[h] = "record"
  /\ Quit(h)
  /\ Unlocked(h)
  /\ UNCHANGED <<source, tree, hash, kills, lost>>

Release(h) ==
  /\ pc[h] = "release"
  /\ Unlocked(h)
  /\ NextFile(h, "hash")
  /\ UNCHANGED <<source, tree, hash, kills, lost>>

-----------------------------------------------------------------------------
(* create_sparse, by makehashes and by pullhashestree.                     *)

AfterSparse(s) ==
  IF s \in Hasher THEN Goto(s, "release") /\ UNCHANGED run ELSE NextFile(s, "pull")

\* The exception unwinds through the `with` block of makehashes.
SparseFails(s) ==
  /\ Quit(s)
  /\ IF s \in Hasher THEN Unlocked(s) ELSE UNCHANGED lock
  /\ UNCHANGED tree

\* open(fpath, "wb"), seek and write: the mtime is now.  An empty file keeps
\* that mtime.
Truncate(s) ==
  /\ pc[s] = "truncate"
  /\ LET p == run[s].cur IN
     IF tree[p] = Dir \/ \E a \in Above[p] : tree[a] # Dir
     THEN SparseFails(s)
     ELSE /\ tree' = [tree EXCEPT ![p] =
                        [size |-> run[s].stamp.size, time |-> Now]]
          /\ UNCHANGED lock
          /\ IF run[s].stamp.size = 0
             THEN AfterSparse(s)
             ELSE Goto(s, "utime") /\ UNCHANGED run
  /\ UNCHANGED <<source, hash, kills, lost>>

\* Mutant of Stamped: the source is asked again for its mtime.
StampedAfresh(s) ==
  IF IsFile(src[run[s].cur]) THEN src[run[s].cur] ELSE run[s].stamp.time

Stamped(s) == run[s].stamp.time

\* os.utime, on whatever file is there by now.
SetTime(s) ==
  /\ pc[s] = "utime"
  /\ LET p == run[s].cur IN
     IF tree[p] \in {Absent, Dir}
     THEN SparseFails(s)
     ELSE /\ tree' = [tree EXCEPT ![p].time = Stamped(s)]
          /\ UNCHANGED lock
          /\ AfterSparse(s)
  /\ UNCHANGED <<source, hash, kills, lost>>

-----------------------------------------------------------------------------
(* pullhashestree: sparse files for all hashes of the database.            *)

PullRead(s) ==
  /\ pc[s] = "idle"
  /\ Goto(s, "pull")
  /\ run' = [run EXCEPT ![s].rows =
               {[path |-> p, stamp |-> hash[p].stamp] :
                  p \in {q \in Path : hash[q] # NoHash}}]
  /\ UNCHANGED <<source, target, hash, kills, lost>>

PullNext(s) ==
  /\ pc[s] = "pull"
  /\ \E row \in run[s].rows :
       IF src[row.path] = Absent
       THEN run' = [run EXCEPT ![s].rows = @ \ {row}] /\ UNCHANGED <<tree, pc>>
       ELSE IF ~FoldersOk(row.path)
       THEN Quit(s) /\ UNCHANGED tree
       ELSE /\ run' = [run EXCEPT ![s] = [@ EXCEPT
                         !.rows = run[s].rows \ {row}, !.cur = row.path,
                         !.stamp = row.stamp]]
            /\ WithFolders(row.path)
            /\ Goto(s, "truncate")
  /\ UNCHANGED <<source, lock, hash, kills, lost>>

EndPull(s) ==
  /\ pc[s] = "pull" /\ run[s].rows = {}
  /\ Quit(s)
  /\ UNCHANGED <<source, target, hash, kills, lost>>

-----------------------------------------------------------------------------
(* What happens around them.                                               *)

\* The process is killed: its lock is free, and the file may stay.
Kill(s) ==
  /\ pc[s] # "idle" /\ kills < MaxKills
  /\ kills' = kills + 1
  /\ Quit(s)
  /\ \E l \in {Absent, Free} :
       lock' = [p \in Path |-> IF lock[p] = s THEN l ELSE lock[p]]
  /\ UNCHANGED <<source, tree, hash, lost>>

\* A file is uploaded, or replaced by a newer one.
Publish(p) ==
  /\ src[p] # Dir /\ \A a \in Above[p] : src[a] = Dir
  /\ \E v \in Mtimes[p] :
       /\ newest[p] < v
       /\ newest' = [newest EXCEPT ![p] = v]
       /\ src' = [src EXCEPT ![p] = v]
  /\ UNCHANGED <<target, hash, pc, run, kills, lost>>

\* A file, or an empty folder, is removed.
Remove(p) ==
  /\ src[p] # Absent /\ \A q \in Below(p) : src[q] = Absent
  /\ src' = [src EXCEPT ![p] = Absent]
  /\ UNCHANGED <<newest, target, hash, pc, run, kills, lost>>

MakeFolder(p) ==
  /\ src[p] = Absent /\ Below(p) # {} /\ \A a \in Above[p] : src[a] = Dir
  /\ src' = [src EXCEPT ![p] = Dir]
  /\ UNCHANGED <<newest, target, hash, pc, run, kills, lost>>

\* syncmaster deletes the row of a file the master has not been scanned with,
\* and the hash goes with it.
LoseHash(p) ==
  /\ p \in Losable /\ hash[p] # NoHash
  /\ hash' = [hash EXCEPT ![p] = NoHash]
  /\ lost' = [lost EXCEPT ![p] = TRUE]
  /\ UNCHANGED <<source, target, pc, run, kills>>

-----------------------------------------------------------------------------
Init ==
  /\ src = [p \in Path |-> Absent] /\ newest = [p \in Path |-> 0]
  /\ tree = [p \in Path |-> Absent] /\ lock = [p \in Path |-> Absent]
  /\ hash = [p \in Path |-> NoHash] /\ lost = [p \in Path |-> FALSE]
  /\ pc = [s \in Session |-> "idle"] /\ run = [s \in Session |-> NoRun]
  /\ kills = 0

HashStep(h) ==
  \/ Clean(h) \/ CleanLock(h) \/ EndClean(h)
  \/ Compare(h) \/ EndCompare(h)
  \/ StatFile(h) \/ EndHash(h)
  \/ SkipLocked(h) \/ SeeNoLock(h) \/ Acquire(h)
  \/ Compute(h) \/ ComputeFails(h)
  \/ Record(h) \/ RecordFails(h) \/ Release(h)

PullStep(s) == PullNext(s) \/ EndPull(s)
SparseStep(s) == Truncate(s) \/ SetTime(s)

Environment ==
  \/ \E p \in Path : Publish(p) \/ Remove(p) \/ MakeFolder(p) \/ LoseHash(p)
  \/ \E s \in Session : Kill(s)

Next ==
  \/ \E h \in Hasher : (\E m \in Modes : List(h, m)) \/ HashStep(h)
  \/ \E s \in Puller : PullRead(s) \/ PullStep(s)
  \/ \E s \in Session : SparseStep(s)
  \/ Environment

Spec == Init /\ [][Next]_vars

\* makehashes is started again and again (without an option now and then);
\* what was started goes on; the database does not refuse a file forever.
FairSpec ==
  /\ Spec
  /\ \A h \in Hasher :
       /\ WF_vars(HashStep(h))
       /\ SF_vars(List(h, "normal"))
       /\ \A p \in Path : SF_vars(Record(h) /\ run[h].cur = p)
  /\ \A s \in Puller : WF_vars(PullStep(s))
  /\ \A s \in Session : WF_vars(SparseStep(s))

-----------------------------------------------------------------------------
(* Properties.                                                             *)

\* Types; what a process holds of a file fits the stage it is at.
TypeOK ==
  /\ src \in [Path -> Entry] /\ newest \in [Path -> 0..MaxVersion]
  /\ tree \in [Path -> Stat \cup {Absent, Dir}]
  /\ lock \in [Path -> Hasher \cup {Absent, Free}]
  /\ hash \in [Path -> HashRow \cup {NoHash}] /\ lost \in [Path -> BOOLEAN]
  /\ pc \in [Session -> {"idle", "clean", "compare", "hash", "lock", "acquire",
                         "compute", "record", "truncate", "utime", "release",
                         "pull"}]
  /\ run \in [Session -> [mode : Modes \cup {"normal"},
                          targets : SUBSET Path, locks : SUBSET Path,
                          todo : SUBSET Path,
                          rows : SUBSET [path : Path, stamp : Stat],
                          cur : Path \cup {None}, stamp : Stat \cup {None},
                          data : Version \cup {Torn, None}]]
  /\ kills \in 0..MaxKills

\* The tree does not lie (hashes.py:308-321): a file it shows as up to date
\* has the hashes of its present content in the database, unless they were
\* deleted there.  With one makehashes at a time, and any number of pulls,
\* whatever crashes and whatever changes under a run.
TreeTruth ==
  \A p \in Path :
    UpToDate(p) => \/ lost[p]
                   \/ hash[p] = [stamp |-> StatOf(src[p]), data |-> src[p]]

\* "> Skipping, as there's a lock on disk" (hashes.py:338-345): two processes
\* never work on the hashes of one file at a time.
Working(h) == pc[h] \in {"compute", "record", "truncate", "utime", "release"}

OneHasherPerFile ==
  \A g, h \in Hasher :
    g # h /\ Working(g) /\ Working(h) => run[g].cur # run[h].cur

\* A file that stays gets its hashes, and its sparse file if it is not empty
\* (hashes.py:324-365): no lock left by a crash, no half-made sparse file and
\* no pull of older hashes keeps makehashes from it for good.
Blocked ==
  \E q \in SourceFiles : \E a \in Above[q] : tree[a] \notin {Absent, Dir}

HashSettles ==
  \A p \in Path : \A v \in Mtimes[p] :
    <>[](src[p] = v /\ ~lost[p] /\ ~Blocked) =>
      /\ <>[](hash[p] = [stamp |-> StatOf(v), data |-> v])
      /\ Size[v] > 0 => []<>UpToDate(p)
=============================================================================
