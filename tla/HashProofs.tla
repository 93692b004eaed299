----------------------------- MODULE HashProofs -----------------------------
(***************************************************************************)
(* Proofs about HashTree: its types, and that the hash tree tells the truth *)
(* as long as no two makehashes work on one file between stat() and commit. *)
(***************************************************************************)
EXTENDS HashTree, TLAPS

OnFile == {"lock", "acquire", "compute", "record", "truncate", "utime", "release"}

\* What a process has of its file at each stage.
StageInv ==
  \A s \in Session :
    /\ pc[s] \in OnFile => run[s].cur \in Path
    /\ pc[s] \in {"record", "truncate", "utime"} => run[s].stamp \in Stat
    /\ pc[s] = "record" => run[s].data \in Version \cup {Torn}

TypeInv == TypeOK /\ StageInv

Local == [mode : Modes \cup {"normal"},
          targets : SUBSET Path, locks : SUBSET Path, todo : SUBSET Path,
          rows : SUBSET [path : Path, stamp : Stat],
          cur : Path \cup {None}, stamp : Stat \cup {None},
          data : Version \cup {Torn, None}]

Stage == {"idle", "clean", "compare", "hash", "lock", "acquire", "compute",
          "record", "truncate", "utime", "release", "pull"}

\* A process stays typed if the values it takes are of the types of TypeOK.
LocalsTyped(s) ==
  /\ run'[s] \in Local /\ pc'[s] \in Stage
  /\ pc'[s] \in OnFile => run'[s].cur \in Path
  /\ pc'[s] \in {"record", "truncate", "utime"} => run'[s].stamp \in Stat
  /\ pc'[s] = "record" => run'[s].data \in Version \cup {Torn}

OnlyLocal(s) ==
  /\ pc' = [pc EXCEPT ![s] = pc'[s]]
  /\ run' = [run EXCEPT ![s] = run'[s]]

LEMMA NoRunTyped == NoRun \in Local
  BY DEF NoRun, Local

LEMMA StatTyped ==
  ASSUME NEW v \in Version
  PROVE  StatOf(v) \in Stat
  BY TreeAssumption DEF StatOf, IsFile, Stat

LEMMA QuitTyped ==
  ASSUME TypeInv, NEW s \in Session, Quit(s)
  PROVE  /\ OnlyLocal(s) /\ LocalsTyped(s) /\ run'[s] = NoRun
  BY NoRunTyped DEF TypeInv, TypeOK, Quit, Goto, OnlyLocal, LocalsTyped, Stage, OnFile

LEMMA NextFileTyped ==
  ASSUME TypeInv, NEW s \in Session, NEW stage \in {"hash", "pull"},
         NextFile(s, stage)
  PROVE  /\ OnlyLocal(s) /\ LocalsTyped(s)
         /\ run'[s].stamp = None /\ run'[s].rows = run[s].rows
<1> DEFINE r == run[s]
           q == [r EXCEPT !.cur = None, !.stamp = None, !.data = None]
<1>1. run \in [Session -> Local] /\ pc \in [Session -> Stage]
  BY DEF TypeInv, TypeOK, Local, Stage
<1>2. run' = [run EXCEPT ![s] = q] /\ pc' = [pc EXCEPT ![s] = stage]
  BY DEF NextFile, Goto
<1>3. r \in Local
  BY <1>1
<1> HIDE DEF r
<1>4. q \in Local /\ q.stamp = None /\ q.rows = r.rows
  BY <1>3 DEF Local
<1> USE DEF r
<1> HIDE DEF q
<1> QED
  BY <1>1, <1>2, <1>4 DEF OnlyLocal, LocalsTyped, Stage, OnFile

LEMMA UnlockedTyped ==
  ASSUME TypeInv, NEW h \in Hasher, Unlocked(h)
  PROVE  lock' \in [Path -> Hasher \cup {Absent, Free}]
  BY DEF TypeInv, TypeOK, Unlocked

LEMMA AfterSparseTyped ==
  ASSUME TypeInv, NEW s \in Session, pc[s] \in OnFile, AfterSparse(s)
  PROVE  OnlyLocal(s) /\ LocalsTyped(s)
  BY NextFileTyped DEF AfterSparse, Goto, OnlyLocal, LocalsTyped, TypeInv,
     TypeOK, StageInv, Stage, OnFile, Local

LEMMA SparseFailsTyped ==
  ASSUME TypeInv, NEW s \in Session, SparseFails(s)
  PROVE  /\ OnlyLocal(s) /\ LocalsTyped(s)
         /\ lock' \in [Path -> Hasher \cup {Absent, Free}]
         /\ tree' = tree
  BY QuitTyped, UnlockedTyped DEF SparseFails, TypeInv, TypeOK

\* What is left of the type invariant when one process has moved.
SharedTyped ==
  /\ src' \in [Path -> Entry] /\ newest' \in [Path -> 0..MaxVersion]
  /\ tree' \in [Path -> Stat \cup {Absent, Dir}]
  /\ lock' \in [Path -> Hasher \cup {Absent, Free}]
  /\ hash' \in [Path -> HashRow \cup {NoHash}] /\ lost' \in [Path -> BOOLEAN]
  /\ kills' \in 0..MaxKills

LEMMA TypesKept ==
  ASSUME TypeInv, SharedTyped,
         NEW s \in Session, OnlyLocal(s), LocalsTyped(s)
  PROVE  TypeInv'
  BY DEF TypeInv, TypeOK, StageInv, SharedTyped, OnlyLocal, LocalsTyped, Stage, Local

LEMMA TypesKeptLocally ==
  ASSUME TypeInv, SharedTyped, UNCHANGED <<pc, run>>
  PROVE  TypeInv'
  BY DEF TypeInv, TypeOK, StageInv, SharedTyped

-----------------------------------------------------------------------------
(* Steps that take nothing up: no file is begun, no row is read, nothing is *)
(* recorded, and sparse files at most disappear.                           *)

Early == {"lock", "acquire", "compute", "record"}
Late == {"truncate", "utime"}

QuietMove(s) ==
  /\ run'[s].rows \subseteq run[s].rows
  /\ \/ run'[s].stamp = None
     \/ /\ run'[s].cur = run[s].cur /\ run'[s].stamp = run[s].stamp
        /\ run'[s].data = run[s].data
        /\ pc'[s] \in Early => pc[s] \in Early
        /\ pc'[s] \in Late => pc[s] \in Late
        /\ pc'[s] = "record" => pc[s] = "record"

QuietShared ==
  /\ UNCHANGED <<src, newest, hash, lost>>
  /\ \A p \in Path : tree'[p] = tree[p] \/ tree'[p] \in {Absent, Dir}

QuietStep(h) ==
  \/ \E m \in Modes : List(h, m)
  \/ Clean(h) \/ CleanLock(h) \/ EndClean(h)
  \/ Compare(h) \/ EndCompare(h) \/ EndHash(h)
  \/ SkipLocked(h) \/ SeeNoLock(h) \/ Acquire(h)
  \/ ComputeFails(h) \/ RecordFails(h) \/ Release(h)

LEMMA QuitIsQuiet ==
  ASSUME TypeInv, NEW s \in Session, Quit(s)
  PROVE  OnlyLocal(s) /\ LocalsTyped(s) /\ QuietMove(s)
  BY QuitTyped DEF QuietMove, NoRun

LEMMA NextFileIsQuiet ==
  ASSUME TypeInv, NEW s \in Session, NEW stage \in {"hash", "pull"},
         NextFile(s, stage)
  PROVE  OnlyLocal(s) /\ LocalsTyped(s) /\ QuietMove(s)
  BY NextFileTyped DEF QuietMove

\* A new value of the local variables that keeps the file and the rows.
SameBut(r, q) ==
  q \in Local /\ q.cur = r.cur /\ q.stamp = r.stamp /\ q.data = r.data
  /\ q.rows = r.rows

LEMMA SetIsQuiet ==
  ASSUME TypeInv, NEW s \in Session, NEW stage \in Stage,
         SameBut(run[s], run'[s]),
         run' = [run EXCEPT ![s] = run'[s]], pc' = [pc EXCEPT ![s] = stage],
         stage \in {"clean", "compare", "hash"} \/ stage = pc[s]
           \/ (stage = "acquire" /\ pc[s] = "lock")
           \/ (stage = "compute" /\ pc[s] = "acquire")
  PROVE  OnlyLocal(s) /\ LocalsTyped(s) /\ QuietMove(s)
  BY DEF SameBut, TypeInv, TypeOK, StageInv, OnlyLocal, LocalsTyped, QuietMove,
     Stage, OnFile, Early, Late

LEMMA SetPaths ==
  ASSUME NEW r \in Local, NEW ps \in SUBSET Path
  PROVE  /\ SameBut(r, [r EXCEPT !.targets = ps])
         /\ SameBut(r, [r EXCEPT !.locks = ps])
         /\ SameBut(r, r)
  BY DEF SameBut, Local

LEMMA QuietLocals ==
  ASSUME TypeInv, NEW h \in Hasher, QuietStep(h)
  PROVE  OnlyLocal(h) /\ LocalsTyped(h) /\ QuietMove(h)
<1> h \in Session
  BY DEF Session
<1> DEFINE r == run[h]
           Goal == OnlyLocal(h) /\ LocalsTyped(h) /\ QuietMove(h)
<1>r. run \in [Session -> Local] /\ pc \in [Session -> Stage] /\ r \in Local
  BY DEF TypeInv, TypeOK, Local, Stage
<1>s. {"clean", "compare", "hash", "acquire", "compute"} \subseteq Stage /\ pc[h] \in Stage
  BY <1>r DEF Stage
<1> HIDE DEF r
<1>c. /\ "clean" \in Stage /\ "compare" \in Stage /\ "hash" \in Stage
      /\ "acquire" \in Stage /\ "compute" \in Stage
  BY <1>s
<1>f. r.targets \in SUBSET Path /\ r.locks \in SUBSET Path /\ r.todo \in SUBSET Path
  BY <1>r DEF Local
<1>1. ASSUME NEW m \in Modes, List(h, m) PROVE Goal
  <2> DEFINE T == TargetFiles
             L == LockFiles
             S == SourceFiles
             q == [r EXCEPT !.mode = m, !.targets = T, !.locks = L, !.todo = S]
  <2>1. T \in SUBSET Path /\ L \in SUBSET Path /\ S \in SUBSET Path
    BY DEF TargetFiles, LockFiles, SourceFiles
  <2>2. run' = [run EXCEPT ![h] = q] /\ pc' = [pc EXCEPT ![h] = "clean"]
    BY <1>1 DEF List, Goto, r
  <2> HIDE DEF T, L, S
  <2>3. SameBut(r, q)
    BY <1>r, <2>1 DEF SameBut, Local
  <2> HIDE DEF q
  <2>4. run'[h] = q
    BY <1>r, <2>2
  <2> QED
    BY <2>2, <2>3, <2>4, <1>c, SetIsQuiet DEF r
<1>2. CASE Clean(h)
  <2>1. CASE Quit(h)
    BY <2>1, QuitIsQuiet
  <2>2. ASSUME NEW p \in Path, run' = [run EXCEPT ![h].targets = @ \ {p}], pc' = pc
        PROVE  Goal
    <3> DEFINE ps == r.targets \ {p}
               q == [r EXCEPT !.targets = ps]
    <3>1. SameBut(r, q)
      BY <1>r, <1>f, SetPaths
    <3>2. run' = [run EXCEPT ![h] = q] /\ pc' = [pc EXCEPT ![h] = pc[h]]
      BY <1>r, <2>2 DEF r
    <3> HIDE DEF q
    <3>3. run'[h] = q
      BY <1>r, <3>2
    <3> QED
      BY <1>r, <3>1, <3>2, <3>3, <1>s, SetIsQuiet DEF r
  <2> QED
    BY <1>2, <1>f, <2>1, <2>2 DEF Clean, r
<1>3. CASE CleanLock(h)
  <2>1. CASE Quit(h)
    BY <2>1, QuitIsQuiet
  <2>2. ASSUME NEW p \in Path, run' = [run EXCEPT ![h].locks = @ \ {p}], pc' = pc
        PROVE  Goal
    <3> DEFINE ps == r.locks \ {p}
               q == [r EXCEPT !.locks = ps]
    <3>1. SameBut(r, q)
      BY <1>r, <1>f, SetPaths
    <3>2. run' = [run EXCEPT ![h] = q] /\ pc' = [pc EXCEPT ![h] = pc[h]]
      BY <1>r, <2>2 DEF r
    <3> HIDE DEF q
    <3>3. run'[h] = q
      BY <1>r, <3>2
    <3> QED
      BY <1>r, <3>1, <3>2, <3>3, <1>s, SetIsQuiet DEF r
  <2> QED
    BY <1>3, <1>f, <2>1, <2>2 DEF CleanLock, r
<1>4. CASE EndClean(h)
  <2> DEFINE q == [r EXCEPT !.targets = r.todo]
  <2>1. SameBut(r, q)
    BY <1>r, <1>f, SetPaths
  <2>2. run' = [run EXCEPT ![h] = q] /\ pc' = [pc EXCEPT ![h] = "compare"]
    BY <1>4 DEF EndClean, Goto, r
  <2> HIDE DEF q
  <2>3. run'[h] = q
    BY <1>r, <2>2
  <2> QED
    BY <2>1, <2>2, <2>3, <1>c, SetIsQuiet DEF r
<1>5. CASE Compare(h)
  <2>1. CASE Quit(h)
    BY <2>1, QuitIsQuiet
  <2>2. CASE /\ UNCHANGED pc
             /\ \E p \in run[h].targets :
                  run' = [run EXCEPT ![h] = [@ EXCEPT !.targets = run[h].targets \ {p},
                                                     !.todo = ToHash(h, p)]]
    <3>1. PICK p \in r.targets : \E left \in SUBSET Path :
            run' = [run EXCEPT ![h] = [r EXCEPT !.targets = r.targets \ {p}, !.todo = left]]
      <4>1. PICK p \in run[h].targets :
              run' = [run EXCEPT ![h] = [@ EXCEPT !.targets = run[h].targets \ {p},
                                                 !.todo = ToHash(h, p)]]
        BY <2>2, Zenon
      <4>2. ToHash(h, p) \in SUBSET Path
        BY <1>f DEF ToHash, r
      <4>3. run' = [run EXCEPT ![h] = [r EXCEPT !.targets = r.targets \ {p},
                                                 !.todo = ToHash(h, p)]]
        BY <4>1 DEF r
      <4> QED
        BY <4>1, <4>2, <4>3 DEF r
    <3>2. PICK left \in SUBSET Path :
            run' = [run EXCEPT ![h] = [r EXCEPT !.targets = r.targets \ {p}, !.todo = left]]
      BY <3>1
    <3> DEFINE ps == r.targets \ {p}
               q == [r EXCEPT !.targets = ps, !.todo = left]
    <3>3. ps \in SUBSET Path
      BY <1>f DEF ps
    <3>4. run' = [run EXCEPT ![h] = q] /\ pc' = [pc EXCEPT ![h] = pc[h]]
      BY <2>2, <1>r, <3>2 DEF r
    <3> HIDE DEF ps
    <3>5. SameBut(r, q)
      BY <1>r, <3>3 DEF SameBut, Local
    <3> HIDE DEF q
    <3>6. run'[h] = q
      BY <1>r, <3>4
    <3> QED
      BY <1>r, <3>4, <3>5, <3>6, <1>s, SetIsQuiet DEF r
  <2> QED
    BY <1>5, <2>1, <2>2 DEF Compare
<1>6. ASSUME NEW stage \in Stage, Goto(h, stage), UNCHANGED run,
             stage = "hash" \/ (stage = "acquire" /\ pc[h] = "lock")
               \/ (stage = "compute" /\ pc[h] = "acquire")
      PROVE  Goal
  <2>1. run' = [run EXCEPT ![h] = r] /\ pc' = [pc EXCEPT ![h] = stage]
    BY <1>6, <1>r DEF Goto, r
  <2>2. SameBut(r, r)
    BY <1>r, SetPaths
  <2>3. run'[h] = r
    BY <1>r, <2>1
  <2> QED
    BY <1>6, <2>1, <2>2, <2>3, SetIsQuiet DEF r
<1>7. CASE EndCompare(h)
  BY <1>6, <1>7, <1>c DEF EndCompare
<1>8. CASE EndHash(h)
  BY <1>8, QuitIsQuiet DEF EndHash
<1>9. CASE SkipLocked(h)
  BY <1>9, NextFileIsQuiet DEF SkipLocked
<1>10. CASE SeeNoLock(h)
  BY <1>6, <1>10, <1>c DEF SeeNoLock
<1>11. CASE Acquire(h)
  <2>1. Quit(h) \/ (Goto(h, "compute") /\ UNCHANGED run /\ pc[h] = "acquire")
    BY <1>11 DEF Acquire
  <2> QED
    BY <2>1, <1>6, <1>c, QuitIsQuiet
<1>12. CASE ComputeFails(h)
  BY <1>12, QuitIsQuiet DEF ComputeFails
<1>13. CASE RecordFails(h)
  BY <1>13, QuitIsQuiet DEF RecordFails
<1>14. CASE Release(h)
  BY <1>14, NextFileIsQuiet DEF Release
<1> QED
  BY <1>1, <1>2, <1>3, <1>4, <1>5, <1>7, <1>8, <1>9, <1>10, <1>11, <1>12, <1>13,
     <1>14 DEF QuietStep

LEMMA QuietTypes ==
  ASSUME TypeInv, NEW h \in Hasher, QuietStep(h)
  PROVE  QuietShared /\ SharedTyped
<1> USE DEF QuietShared, SharedTyped, source, target
<1>t. /\ src \in [Path -> Entry] /\ newest \in [Path -> 0..MaxVersion]
      /\ tree \in [Path -> Stat \cup {Absent, Dir}]
      /\ lock \in [Path -> Hasher \cup {Absent, Free}]
      /\ hash \in [Path -> HashRow \cup {NoHash}] /\ lost \in [Path -> BOOLEAN]
      /\ kills \in 0..MaxKills
  BY DEF TypeInv, TypeOK
<1>1. ASSUME UNCHANGED <<source, target, hash, kills, lost>> PROVE QuietShared /\ SharedTyped
  BY <1>1, <1>t
<1>2. ASSUME UNCHANGED <<source, tree, hash, kills, lost>>, Unlocked(h)
      PROVE  QuietShared /\ SharedTyped
  BY <1>2, <1>t, UnlockedTyped
<1>3. CASE Clean(h)
  BY <1>3, <1>t DEF Clean
<1>4. CASE CleanLock(h)
  BY <1>4, <1>t DEF CleanLock
<1>5. CASE Compare(h)
  <2>1. PICK p \in run[h].targets : WithoutFolder(p) \/ UNCHANGED target
    BY <1>5 DEF Compare
  <2> QED
    BY <1>5, <1>t, <2>1 DEF Compare, WithoutFolder
<1>6. CASE Acquire(h)
  <2>1. CASE UNCHANGED target
    BY <1>6, <1>1, <2>1 DEF Acquire
  <2>2. CASE /\ FoldersOk(run[h].cur) /\ WithFolders(run[h].cur)
             /\ lock' = [lock EXCEPT ![run[h].cur] = h]
    BY <1>6, <1>t, <2>2 DEF Acquire, WithFolders
  <2> QED
    BY <1>6, <2>1, <2>2 DEF Acquire
<1> QED
  BY <1>1, <1>2, <1>3, <1>4, <1>5, <1>6 DEF QuietStep, List, EndClean, EndCompare,
     EndHash, SkipLocked, SeeNoLock, ComputeFails, RecordFails, Release

-----------------------------------------------------------------------------
(* What ties the tree to the database.                                     *)

Holds(s, p, t) ==
  run[s].stamp # None /\ run[s].cur = p /\ run[s].stamp.time = t
InRows(s, p, t) == \E r \in run[s].rows : r.path = p /\ r.stamp.time = t
OnDisk(p, t) == tree[p] \in Stat /\ tree[p].time = t
InTable(p, t) == hash[p] # NoHash /\ hash[p].stamp.time = t

\* Version t of p is in the tree, the database, or some process's memory.
Seen(p, t) ==
  \/ OnDisk(p, t) \/ InTable(p, t)
  \/ \E s \in Session : Holds(s, p, t) \/ InRows(s, p, t)

\* Version t of p is in the tree, or may be stamped on it without more ado.
Shown(p, t) ==
  \/ OnDisk(p, t)
  \/ \E s \in Session : InRows(s, p, t) \/ (Holds(s, p, t) /\ pc[s] \in Late)

Good(p, t) == lost[p] \/ hash[p] = [stamp |-> StatOf(t), data |-> t]

SourceInv == \A p \in Path : src[p] \in Version => src[p] = newest[p]

SeenInv == \A p \in Path, t \in Version : Seen(p, t) => t <= newest[p]

\* While a makehashes has the stamp of a file, nobody knows a later version.
OrderInv ==
  \A h \in Hasher : pc[h] \in Early /\ run[h].stamp # None =>
    \A t \in Version : Seen(run[h].cur, t) => t <= run[h].stamp.time

TableInv ==
  \A p \in Path : hash[p] # NoHash =>
    /\ hash[p].stamp.time \in Version
    /\ hash[p].stamp = StatOf(hash[p].stamp.time)
    /\ src[p] = hash[p].stamp.time => hash[p].data = src[p]

BagInv ==
  \A h \in Hasher : pc[h] \in Early /\ run[h].stamp # None =>
    /\ run[h].stamp.time \in Version
    /\ run[h].stamp = StatOf(run[h].stamp.time)
    /\ pc[h] = "record" /\ src[run[h].cur] = run[h].stamp.time =>
         run[h].data = src[run[h].cur]

HonestInv ==
  \A p \in Path, t \in Version : Shown(p, t) /\ src[p] = t => Good(p, t)

TreeInv ==
  SourceInv /\ SeenInv /\ OrderInv /\ TableInv /\ BagInv /\ HonestInv

\* What makehashes processes hold of a file, they held before.
BagsKept ==
  \A h \in Hasher : pc'[h] \in Early /\ run'[h].stamp # None =>
    /\ pc[h] \in Early
    /\ run'[h].stamp = run[h].stamp /\ run'[h].cur = run[h].cur
    /\ pc'[h] = "record" => pc[h] = "record" /\ run'[h].data = run[h].data

LEMMA MostKept ==
  ASSUME TypeInv, TreeInv, UNCHANGED <<src, newest, hash>>, BagsKept,
         \A p \in Path, t \in Version : Seen(p, t)' => Seen(p, t),
         TypeInv'
  PROVE  SourceInv' /\ SeenInv' /\ TableInv' /\ OrderInv' /\ BagInv'
<1>1. SourceInv' /\ SeenInv' /\ TableInv'
  BY DEF TreeInv, SourceInv, SeenInv, TableInv
<1>2. OrderInv'
  <2> SUFFICES ASSUME NEW h \in Hasher, pc'[h] \in Early, run'[h].stamp # None,
                      NEW p \in Path, run'[h].cur = p, NEW t \in Version, Seen(p, t)'
               PROVE  t <= run'[h].stamp.time
    <3>1. \A h \in Hasher : pc'[h] \in Early => run'[h].cur \in Path
      BY DEF TypeInv, StageInv, Early, OnFile, Session
    <3> QED
      BY <3>1 DEF OrderInv
  <2>1. pc[h] \in Early /\ run[h].stamp # None /\ run[h].cur = p
        /\ run'[h].stamp = run[h].stamp
    BY DEF BagsKept
  <2>2. Seen(p, t)
    OBVIOUS
  <2> QED
    BY <2>1, <2>2 DEF TreeInv, OrderInv
<1>3. BagInv'
  BY DEF TreeInv, BagInv, BagsKept
<1> QED
  BY <1>1, <1>2, <1>3

LEMMA TreeKept ==
  ASSUME TypeInv, TreeInv, UNCHANGED <<src, newest, hash, lost>>, BagsKept,
         \A p \in Path, t \in Version : Seen(p, t)' => Seen(p, t),
         \A p \in Path, t \in Version : Shown(p, t)' => Shown(p, t),
         TypeInv'
  PROVE  TreeInv'
<1>1. HonestInv'
  BY DEF TreeInv, HonestInv, Good
<1> QED
  BY <1>1, MostKept DEF TreeInv

\* From stat() to commit, no two makehashes work on one file.  The lock is taken
\* after stat(), and taken away by the clean-up of others: this is more than it
\* ensures.
Apart ==
  \A g, h \in Hasher :
    /\ g # h
    /\ pc[g] \in Early /\ run[g].stamp # None
    /\ pc[h] \in Early /\ run[h].stamp # None
    => run[g].cur # run[h].cur

\* What every step does: the types hold whatever the processes do.
Keeps == TypeInv' /\ (TreeInv /\ Apart' => TreeInv')

LEMMA Others ==
  ASSUME TypeInv, NEW s \in Session, OnlyLocal(s)
  PROVE  \A u \in Session \ {s} : run'[u] = run[u] /\ pc'[u] = pc[u]
  BY DEF TypeInv, TypeOK, OnlyLocal

\* Quiet or not, a step of s shows nothing new if neither its memory nor the
\* disk nor the database does.
LEMMA MemoryKept ==
  ASSUME TypeInv, NEW s \in Session, OnlyLocal(s), NEW p \in Path, NEW t \in Version,
         OnDisk(p, t)' => Shown(p, t), UNCHANGED hash,
         InRows(s, p, t)' => InRows(s, p, t)
  PROVE  /\ (Holds(s, p, t)' => Holds(s, p, t) \/ InRows(s, p, t))
              => (Seen(p, t)' => Seen(p, t))
         /\ (Holds(s, p, t)' /\ pc'[s] \in Late =>
                InRows(s, p, t) \/ (Holds(s, p, t) /\ pc[s] \in Late))
              => (Shown(p, t)' => Shown(p, t))
<1>1. ASSUME NEW u \in Session \ {s}
      PROVE  /\ Holds(u, p, t)' <=> Holds(u, p, t)
             /\ InRows(u, p, t)' <=> InRows(u, p, t)
             /\ pc'[u] = pc[u]
  BY Others DEF Holds, InRows
<1>2. Shown(p, t) => Seen(p, t)
  BY DEF Shown, Seen
<1>3. InTable(p, t)' <=> InTable(p, t)
  BY DEF InTable
<1>4. Seen(p, t)' <=> \/ OnDisk(p, t)' \/ InTable(p, t)'
                     \/ \E u \in Session : Holds(u, p, t)' \/ InRows(u, p, t)'
  BY DEF Seen
<1>5. Shown(p, t)' <=> \/ OnDisk(p, t)'
                      \/ \E u \in Session : \/ InRows(u, p, t)'
                                            \/ Holds(u, p, t)' /\ pc'[u] \in Late
  BY DEF Shown
<1>6. ASSUME Holds(s, p, t)' => Holds(s, p, t) \/ InRows(s, p, t), Seen(p, t)'
      PROVE  Seen(p, t)
  BY <1>1, <1>2, <1>3, <1>4, <1>6 DEF Seen
<1>7. ASSUME Holds(s, p, t)' /\ pc'[s] \in Late =>
               InRows(s, p, t) \/ (Holds(s, p, t) /\ pc[s] \in Late),
             Shown(p, t)'
      PROVE  Shown(p, t)
  BY <1>1, <1>5, <1>7 DEF Shown
<1> QED
  BY <1>6, <1>7

LEMMA QuietKeeps ==
  ASSUME TypeInv, NEW s \in Session, OnlyLocal(s), LocalsTyped(s),
         QuietMove(s), QuietShared, SharedTyped
  PROVE  Keeps
<1>1. TypeInv'
  BY TypesKept
<1> SUFFICES ASSUME TreeInv, Apart' PROVE TreeInv'
  BY <1>1 DEF Keeps
<1>2. BagsKept
  BY Others DEF BagsKept, QuietMove, Session
<1>3. ASSUME NEW p \in Path, NEW t \in Version
      PROVE  (Seen(p, t)' => Seen(p, t)) /\ (Shown(p, t)' => Shown(p, t))
  <2>1. OnDisk(p, t)' => OnDisk(p, t)
    BY ValuesAssumption DEF QuietShared, OnDisk
  <2>2. InRows(s, p, t)' => InRows(s, p, t)
    BY DEF InRows, QuietMove
  <2>3. Holds(s, p, t)' => Holds(s, p, t) /\ (pc'[s] \in Late => pc[s] \in Late)
    BY DEF Holds, QuietMove
  <2> QED
    BY <2>1, <2>2, <2>3, MemoryKept DEF Shown, QuietShared
<1> QED
  BY <1>1, <1>2, <1>3, TreeKept DEF QuietShared

LEMMA QuietStepKeeps ==
  ASSUME TypeInv, NEW h \in Hasher, QuietStep(h)
  PROVE  Keeps
  BY QuietLocals, QuietTypes, QuietKeeps DEF Session

LEMMA EndPullKeeps ==
  ASSUME TypeInv, NEW s \in Puller, EndPull(s)
  PROVE  Keeps
<1>1. QuietShared /\ SharedTyped
  BY DEF EndPull, QuietShared, SharedTyped, TypeInv, TypeOK, source, target
<1> QED
  BY <1>1, QuitIsQuiet, QuietKeeps DEF EndPull, Session

LEMMA KillKeeps ==
  ASSUME TypeInv, NEW s \in Session, Kill(s)
  PROVE  Keeps
<1>1. QuietShared /\ SharedTyped
  BY TreeAssumption DEF Kill, QuietShared, SharedTyped, TypeInv, TypeOK, source
<1> QED
  BY <1>1, QuitIsQuiet, QuietKeeps DEF Kill

-----------------------------------------------------------------------------
(* Steps that take something up.                                           *)

\* The next file: no version is known that is later than what stat() says.
LEMMA StatFileKeeps ==
  ASSUME TypeInv, NEW h \in Hasher, StatFile(h)
  PROVE  Keeps
<1> DEFINE r == run[h]
<1>s. h \in Session
  BY DEF Session
<1>r. run \in [Session -> Local] /\ pc \in [Session -> Stage] /\ r \in Local
  BY <1>s DEF TypeInv, TypeOK, Local, Stage
<1> HIDE DEF r
<1>t. r.todo \in SUBSET Path
  BY <1>r DEF Local
<1>u. UNCHANGED <<src, newest, hash, lost>> /\ QuietShared /\ SharedTyped
  BY DEF StatFile, QuietShared, SharedTyped, TypeInv, TypeOK, source, target
<1>1. PICK p \in r.todo :
        \/ Quit(h)
        \/ run' = [run EXCEPT ![h].todo = @ \ {p}] /\ UNCHANGED pc
        \/ /\ src[p] # Absent
           /\ run' = [run EXCEPT ![h] = [@ EXCEPT
                         !.todo = run[h].todo \ {p}, !.cur = p,
                         !.stamp = StatOf(src[p])]]
           /\ Goto(h, "lock")
  BY Zenon DEF StatFile, r
<1> p \in Path
  BY <1>t
<1>2. CASE run' = [run EXCEPT ![h].todo = @ \ {p}] /\ UNCHANGED pc
  <2> DEFINE left == r.todo \ {p}
             q == [r EXCEPT !.todo = left]
  <2>1. left \in SUBSET Path
    BY <1>t
  <2>2. run' = [run EXCEPT ![h] = q] /\ pc' = [pc EXCEPT ![h] = pc[h]]
    BY <1>2, <1>r, <1>s DEF r
  <2> HIDE DEF left
  <2>3. SameBut(r, q)
    BY <1>r, <2>1 DEF SameBut, Local
  <2> HIDE DEF q
  <2>4. run'[h] = q /\ pc[h] \in Stage
    BY <1>r, <1>s, <2>2
  <2>5. OnlyLocal(h) /\ LocalsTyped(h) /\ QuietMove(h)
    BY <1>s, <2>2, <2>3, <2>4, SetIsQuiet DEF r
  <2> QED
    BY <1>s, <1>u, <2>5, QuietKeeps
<1>3. CASE /\ src[p] # Absent
           /\ run' = [run EXCEPT ![h] = [@ EXCEPT
                         !.todo = run[h].todo \ {p}, !.cur = p,
                         !.stamp = StatOf(src[p])]]
           /\ Goto(h, "lock")
  <2> DEFINE left == r.todo \ {p}
             st == StatOf(src[p])
             q == [r EXCEPT !.todo = left, !.cur = p, !.stamp = st]
  <2>1. left \in SUBSET Path /\ st \in Stat \cup {None}
    <3>1. src[p] \in Version => st \in Stat
      BY StatTyped
    <3>2. src[p] \notin Version => st = None
      BY DEF StatOf, IsFile
    <3> QED
      BY <1>t, <3>1, <3>2
  <2>2. run' = [run EXCEPT ![h] = q] /\ pc' = [pc EXCEPT ![h] = "lock"]
    BY <1>3 DEF r, Goto
  <2> HIDE DEF left, st
  <2>3. q \in Local /\ q.cur = p /\ q.stamp = st /\ q.rows = r.rows
    BY <1>r, <2>1 DEF Local
  <2> HIDE DEF q
  <2>4. run'[h] = q /\ pc'[h] = "lock"
    BY <1>r, <1>s, <2>2
  <2>5. OnlyLocal(h) /\ LocalsTyped(h)
    BY <1>r, <1>s, <2>2, <2>3, <2>4 DEF OnlyLocal, LocalsTyped, Stage
  <2>6. TypeInv'
    BY <1>s, <1>u, <2>5, TypesKept
  <2> SUFFICES ASSUME TreeInv, Apart' PROVE TreeInv'
    BY <2>6 DEF Keeps
  <2>7. st # None => src[p] \in Version /\ st = StatOf(src[p]) /\ st.time = src[p]
    BY DEF st, StatOf, IsFile
  <2>8. src[p] \in Version => src[p] = newest[p]
    BY DEF TreeInv, SourceInv
  <2>9. ASSUME NEW x \in Path, NEW t \in Version
        PROVE  /\ Seen(x, t)' => Seen(x, t) \/ (x = p /\ st # None /\ t = src[p])
               /\ Shown(x, t)' => Shown(x, t)
    <3>1. OnDisk(x, t)' <=> OnDisk(x, t)
      BY <2>4 DEF OnDisk, StatFile, target
    <3>2. InRows(h, x, t)' <=> InRows(h, x, t)
      BY <2>3, <2>4 DEF InRows, r
    <3>3. Holds(h, x, t)' => x = p /\ st # None /\ t = src[p]
      BY <2>3, <2>4, <2>7 DEF Holds
    <3>4. pc'[h] \notin Late
      BY <2>4 DEF Late
    <3>5. Shown(x, t)' => Shown(x, t)
      BY <1>s, <1>u, <2>5, <3>1, <3>2, <3>4, MemoryKept DEF Shown
    <3>6. ASSUME ~(x = p /\ st # None /\ t = src[p])
          PROVE  Seen(x, t)' => Seen(x, t)
      BY <1>s, <1>u, <2>5, <3>1, <3>2, <3>3, <3>6, MemoryKept DEF Shown
    <3> QED
      BY <3>5, <3>6
  <2>10. SourceInv' /\ TableInv'
    BY <1>u DEF TreeInv, SourceInv, TableInv
  <2>11. SeenInv'
    <3>1. \A x \in Path : newest[x] \in Nat
      BY DEF TypeInv, TypeOK
    <3> QED
      BY <1>u, <2>7, <2>8, <2>9, <3>1 DEF TreeInv, SeenInv, Version
  <2>a. \A g \in Hasher \ {h} : run'[g] = run[g] /\ pc'[g] = pc[g]
    BY <1>s, <2>5, Others DEF Session
  <2>12. OrderInv'
    <3>1. ASSUME st # None, NEW t \in Version, Seen(p, t)'
          PROVE  t <= src[p]
      <4>1. Seen(p, t)' => t <= newest'[p]
        BY <2>11 DEF SeenInv
      <4> QED
        BY <1>u, <2>7, <2>8, <3>1, <4>1
    <3>2. ASSUME NEW g \in Hasher \ {h}, pc'[g] \in Early, run'[g].stamp # None,
                 NEW x \in Path, x = run[g].cur, NEW t \in Version, Seen(x, t)'
          PROVE  t <= run[g].stamp.time
      <4>1. st # None => x # p
        BY <2>3, <2>4, <2>a, <3>2 DEF Apart, Early
      <4>2. Seen(x, t)
        BY <2>9, <3>2, <4>1
      <4> QED
        BY <2>a, <3>2, <4>2 DEF TreeInv, OrderInv
    <3>3. \A g \in Hasher : pc'[g] \in Early => run'[g].cur \in Path
      BY <2>6 DEF TypeInv, StageInv, Early, OnFile, Session
    <3> QED
      BY <2>3, <2>4, <2>7, <2>a, <3>1, <3>2, <3>3 DEF OrderInv
  <2>13. BagInv'
    <3>1. ASSUME NEW g \in Hasher, pc'[g] \in Early, run'[g].stamp # None
          PROVE  /\ run'[g].stamp.time \in Version
                 /\ run'[g].stamp = StatOf(run'[g].stamp.time)
                 /\ pc'[g] = "record" /\ src'[run'[g].cur] = run'[g].stamp.time =>
                      run'[g].data = src'[run'[g].cur]
      <4>1. CASE g = h
        BY <2>3, <2>4, <2>7, <3>1, <4>1
      <4>2. CASE g # h
        BY <1>u, <2>a, <3>1, <4>2 DEF TreeInv, BagInv
      <4> QED
        BY <4>1, <4>2
    <3> QED
      BY <3>1 DEF BagInv
  <2>14. HonestInv'
    BY <1>u, <2>9 DEF TreeInv, HonestInv, Good
  <2> QED
    BY <2>6, <2>10, <2>11, <2>12, <2>13, <2>14 DEF TreeInv
<1>4. CASE Quit(h)
  BY <1>s, <1>u, <1>4, QuitIsQuiet, QuietKeeps
<1> QED
  BY <1>1, <1>2, <1>3, <1>4

\* A file that did not change since stat() is read as it is.
LEMMA ComputeKeeps ==
  ASSUME TypeInv, NEW h \in Hasher, Compute(h)
  PROVE  Keeps
<1> DEFINE r == run[h]
           p == r.cur
<1>s. h \in Session
  BY DEF Session
<1>r. run \in [Session -> Local] /\ pc \in [Session -> Stage] /\ r \in Local
  BY <1>s DEF TypeInv, TypeOK, Local, Stage
<1> HIDE DEF r
<1>u. UNCHANGED <<src, newest, hash, lost>> /\ QuietShared /\ SharedTyped
  BY DEF Compute, QuietShared, SharedTyped, TypeInv, TypeOK, source, target
<1>c. pc[h] = "compute" /\ p \in Path /\ r.stamp \in Stat /\ src[p] \in Version
  <2>1. pc[h] = "compute" /\ run[h].stamp # None /\ src[run[h].cur] \in Version
    BY DEF Compute, IsFile
  <2> QED
    BY <1>r, <1>s, <2>1 DEF TypeInv, StageInv, OnFile, Local, r
<1>1. PICK d \in {src[p]} \cup (IF StatOf(src[p]) = r.stamp THEN {} ELSE {Torn}) :
        run' = [run EXCEPT ![h].data = d]
  BY Zenon DEF Compute, r
<1>3. d \in Version \cup {Torn}
  BY <1>1, <1>c
<1> DEFINE q == [r EXCEPT !.data = d]
           stage == IF run[h].mode = "dry" THEN "release" ELSE "record"
<1>4. q \in Local /\ q.cur = r.cur /\ q.stamp = r.stamp /\ q.rows = r.rows /\ q.data = d
  BY <1>r, <1>3 DEF Local
<1>5. run' = [run EXCEPT ![h] = q] /\ pc' = [pc EXCEPT ![h] = stage]
  BY <1>1 DEF Compute, Goto, r
<1>6. stage \in {"release", "record"}
  OBVIOUS
<1> HIDE DEF q, stage
<1>7. run'[h] = q /\ pc'[h] = stage
  BY <1>r, <1>s, <1>5
<1>8. OnlyLocal(h) /\ LocalsTyped(h)
  BY <1>r, <1>s, <1>c, <1>3, <1>4, <1>5, <1>6, <1>7 DEF OnlyLocal, LocalsTyped, Stage
<1>9. TypeInv'
  BY <1>s, <1>u, <1>8, TypesKept
<1> SUFFICES ASSUME TreeInv, Apart' PROVE TreeInv'
  BY <1>9 DEF Keeps
<1>10. ASSUME NEW x \in Path, NEW t \in Version
       PROVE  (Seen(x, t)' => Seen(x, t)) /\ (Shown(x, t)' => Shown(x, t))
  <2>1. OnDisk(x, t)' => OnDisk(x, t)
    BY <1>7 DEF OnDisk, Compute, target
  <2>2. InRows(h, x, t)' => InRows(h, x, t)
    BY <1>4, <1>7 DEF InRows, r
  <2>3. (Holds(h, x, t)' => Holds(h, x, t)) /\ pc'[h] \notin Late
    BY <1>4, <1>6, <1>7 DEF Holds, Late, r
  <2> QED
    BY <1>s, <1>u, <1>8, <2>1, <2>2, <2>3, MemoryKept DEF Shown
<1>11. SourceInv' /\ TableInv'
  BY <1>u DEF TreeInv, SourceInv, TableInv
<1>12. SeenInv' /\ HonestInv'
  BY <1>u, <1>10 DEF TreeInv, SeenInv, HonestInv, Good
<1>13. pc[h] \in Early /\ r.stamp # None
  BY <1>c, ValuesAssumption DEF Early
<1>a. \A g \in Hasher \ {h} : run'[g] = run[g] /\ pc'[g] = pc[g]
  BY <1>s, <1>8, Others DEF Session
<1>14. OrderInv'
  <2>2. ASSUME NEW g \in Hasher, pc'[g] \in Early, run'[g].stamp # None
        PROVE  /\ pc[g] \in Early /\ run[g].stamp # None /\ run[g].cur \in Path
               /\ run'[g].cur = run[g].cur /\ run'[g].stamp = run[g].stamp
    <3>1. CASE g = h
      BY <1>c, <1>4, <1>7, <1>13, <3>1 DEF r
    <3>2. CASE g # h
      BY <1>a, <2>2, <3>2 DEF TypeInv, StageInv, Early, OnFile, Session
    <3> QED
      BY <3>1, <3>2
  <2> QED
    BY <1>10, <2>2 DEF TreeInv, OrderInv
<1>15. BagInv'
  <2>1. r.stamp.time \in Version /\ r.stamp = StatOf(r.stamp.time)
    BY <1>13 DEF TreeInv, BagInv, r
  <2>2. src[p] = r.stamp.time => d = src[p]
    BY <1>1, <2>1
  <2>3. ASSUME NEW g \in Hasher, pc'[g] \in Early, run'[g].stamp # None
        PROVE  /\ run'[g].stamp.time \in Version
               /\ run'[g].stamp = StatOf(run'[g].stamp.time)
               /\ pc'[g] = "record" /\ src'[run'[g].cur] = run'[g].stamp.time =>
                    run'[g].data = src'[run'[g].cur]
    <3>1. CASE g = h
      BY <1>u, <1>4, <1>7, <2>1, <2>2, <3>1
    <3>2. CASE g # h
      BY <1>u, <1>a, <2>3, <3>2 DEF TreeInv, BagInv
    <3> QED
      BY <3>1, <3>2
  <2> QED
    BY <2>3 DEF BagInv
<1> QED
  BY <1>9, <1>11, <1>12, <1>14, <1>15 DEF TreeInv

\* What is recorded may be out of date, but then the file is later still.
LEMMA RecordKeeps ==
  ASSUME TypeInv, NEW h \in Hasher, Record(h)
  PROVE  Keeps
<1> DEFINE r == run[h]
           p == r.cur
           v == r.stamp.time
<1>s. h \in Session
  BY DEF Session
<1>c. pc[h] = "record" /\ p \in Path /\ r.stamp \in Stat
      /\ r.data \in Version \cup {Torn} /\ r.stamp # None
  BY <1>s, ValuesAssumption DEF Record, TypeInv, StageInv, OnFile
<1>u. /\ UNCHANGED <<src, newest, tree, lock, run, kills>>
      /\ pc' = [pc EXCEPT ![h] = "truncate"]
      /\ hash' = [hash EXCEPT ![p] = [stamp |-> r.stamp, data |-> r.data]]
      /\ lost' = [lost EXCEPT ![p] = FALSE]
  BY DEF Record, Hashes, Goto, source, target
<1>t. /\ hash \in [Path -> HashRow \cup {NoHash}] /\ lost \in [Path -> BOOLEAN]
      /\ pc \in [Session -> Stage] /\ \A x \in Path : newest[x] \in Nat
  BY DEF TypeInv, TypeOK, Stage
<1>1. TypeInv'
  <2>1. [stamp |-> r.stamp, data |-> r.data] \in HashRow
    BY <1>c DEF HashRow
  <2>2. SharedTyped
    BY <1>u, <1>t, <2>1 DEF SharedTyped, TypeInv, TypeOK
  <2>3. OnlyLocal(h) /\ LocalsTyped(h)
    BY <1>s, <1>c, <1>u, <1>t DEF OnlyLocal, LocalsTyped, TypeInv, TypeOK, Local, Stage, r, p
  <2> QED
    BY <1>s, <2>2, <2>3, TypesKept
<1> SUFFICES ASSUME TreeInv, Apart' PROVE TreeInv'
  BY <1>1 DEF Keeps
<1>b. /\ v \in Version /\ r.stamp = StatOf(v)
      /\ src[p] = v => r.data = v
      /\ \A t \in Version : Seen(p, t) => t <= v
      /\ v <= newest[p]
  <2>1. Holds(h, p, v)
    BY <1>c DEF Holds
  <2>2. v \in Version /\ r.stamp = StatOf(v) /\ (src[p] = v => r.data = v)
    BY <1>c DEF TreeInv, BagInv, Early
  <2>3. \A t \in Version : Seen(p, t) => t <= v
    BY <1>c DEF TreeInv, OrderInv, Early
  <2>4. v <= newest[p]
    BY <1>c, <1>s, <2>1, <2>2 DEF TreeInv, SeenInv, Seen
  <2> QED
    BY <2>2, <2>3, <2>4
<1> HIDE DEF r, p, v
<1>2. pc'[h] = "truncate" /\ \A u \in Session \ {h} : pc'[u] = pc[u]
  BY <1>s, <1>u, <1>t
<1>3. /\ hash'[p] = [stamp |-> r.stamp, data |-> r.data] /\ hash'[p] # NoHash
      /\ lost'[p] = FALSE
      /\ \A x \in Path \ {p} : hash'[x] = hash[x] /\ lost'[x] = lost[x]
  BY <1>c, <1>u, <1>t, ValuesAssumption DEF HashRow
<1>4. ASSUME NEW x \in Path, NEW t \in Version
      PROVE  /\ Seen(x, t)' => Seen(x, t)
             /\ Shown(x, t)' => Shown(x, t) \/ (x = p /\ t = v)
  <2>1. \A u \in Session : (Holds(u, x, t)' <=> Holds(u, x, t))
                          /\ (InRows(u, x, t)' <=> InRows(u, x, t))
    BY <1>u DEF Holds, InRows
  <2>2. OnDisk(x, t)' <=> OnDisk(x, t)
    BY <1>u DEF OnDisk
  <2>3. Holds(h, x, t) <=> (x = p /\ t = v)
    BY <1>c DEF Holds, r, p, v
  <2>4. InTable(x, t)' => InTable(x, t) \/ Holds(h, x, t)
    BY <1>3, <2>3 DEF InTable, v
  <2> QED
    BY <1>s, <1>2, <2>1, <2>2, <2>3, <2>4 DEF Seen, Shown
<1>5. SourceInv' /\ SeenInv'
  BY <1>u, <1>4 DEF TreeInv, SourceInv, SeenInv
<1>6. OrderInv' /\ BagInv'
  <2>1. \A g \in Hasher : pc'[g] \in Early => pc[g] \in Early /\ pc'[g] = pc[g]
                                              /\ run[g].cur \in Path
    BY <1>2 DEF Early, TypeInv, StageInv, OnFile, Session
  <2>2. OrderInv'
    BY <1>u, <1>4, <2>1 DEF TreeInv, OrderInv
  <2>3. BagInv'
    BY <1>u, <2>1 DEF TreeInv, BagInv
  <2> QED
    BY <2>2, <2>3
<1>7. TableInv'
  BY <1>b, <1>u, <1>3 DEF TreeInv, TableInv, v
<1>8. HonestInv'
  <2> SUFFICES ASSUME NEW x \in Path, NEW t \in Version, Shown(x, t)', src[x] = t
               PROVE  Good(x, t)'
    BY <1>u DEF HonestInv
  <2>1. CASE x # p
    BY <1>3, <1>4, <2>1 DEF TreeInv, HonestInv, Good
  <2>2. CASE x = p
    <3>1. Seen(p, t) \/ t = v
      BY <1>4, <2>2 DEF Seen, Shown
    <3>2. t <= v
      BY <1>b, <3>1 DEF Version
    <3>3. t = newest[p]
      BY <1>c, <2>2 DEF TreeInv, SourceInv
    <3>4. t = v
      BY <1>b, <1>t, <3>2, <3>3, <1>c DEF Version
    <3> QED
      BY <1>b, <1>3, <2>2, <3>4 DEF Good
  <2> QED
    BY <2>1, <2>2
<1> QED
  BY <1>1, <1>5, <1>6, <1>7, <1>8 DEF TreeInv

\* A sparse file being written, or stamped with what its writer holds.
LEMMA SparseKeeps ==
  ASSUME TypeInv, NEW s \in Session, pc[s] \in Late,
         OnlyLocal(s), LocalsTyped(s), QuietMove(s),
         UNCHANGED <<src, newest, hash, lost>>, SharedTyped,
         \A x \in Path, t \in Version :
           OnDisk(x, t)' => OnDisk(x, t) \/ Holds(s, x, t)
  PROVE  Keeps
<1>1. TypeInv'
  BY TypesKept
<1> SUFFICES ASSUME TreeInv, Apart' PROVE TreeInv'
  BY <1>1 DEF Keeps
<1>2. BagsKept
  BY Others DEF BagsKept, QuietMove, Session
<1>3. ASSUME NEW p \in Path, NEW t \in Version
      PROVE  (Seen(p, t)' => Seen(p, t)) /\ (Shown(p, t)' => Shown(p, t))
  <2>1. OnDisk(p, t)' => Shown(p, t)
    BY DEF Shown
  <2>2. InRows(s, p, t)' => InRows(s, p, t)
    BY DEF InRows, QuietMove
  <2>3. Holds(s, p, t)' => Holds(s, p, t)
    BY DEF Holds, QuietMove
  <2> QED
    BY <2>1, <2>2, <2>3, MemoryKept
<1> QED
  BY <1>1, <1>2, <1>3, TreeKept

LEMMA AfterSparseIsQuiet ==
  ASSUME TypeInv, NEW s \in Session, pc[s] \in Late, AfterSparse(s)
  PROVE  OnlyLocal(s) /\ LocalsTyped(s) /\ QuietMove(s)
<1>1. CASE s \in Hasher
  <2>1. run' = run /\ pc' = [pc EXCEPT ![s] = "release"]
    BY <1>1 DEF AfterSparse, Goto
  <2>2. pc'[s] = "release" /\ run'[s] = run[s]
    BY <2>1 DEF TypeInv, TypeOK
  <2> QED
    BY <2>1, <2>2, AfterSparseTyped DEF Late, OnFile, Early, QuietMove
<1>2. CASE s \notin Hasher
  BY <1>2, NextFileIsQuiet DEF AfterSparse
<1> QED
  BY <1>1, <1>2

LEMMA SparseFailsKeeps ==
  ASSUME TypeInv, NEW s \in Session, SparseFails(s),
         UNCHANGED <<source, hash, kills, lost>>
  PROVE  Keeps
<1>1. QuietShared /\ SharedTyped
  BY SparseFailsTyped DEF QuietShared, SharedTyped, TypeInv, TypeOK, source
<1> QED
  BY <1>1, QuitIsQuiet, QuietKeeps DEF SparseFails

LEMMA TruncateKeeps ==
  ASSUME TypeInv, NEW s \in Session, Truncate(s)
  PROVE  Keeps
<1> DEFINE p == run[s].cur
           file == [size |-> run[s].stamp.size, time |-> Now]
<1>1. CASE SparseFails(s)
  BY <1>1, SparseFailsKeeps DEF Truncate
<1>2. CASE ~SparseFails(s)
  <2>1. /\ pc[s] = "truncate" /\ tree' = [tree EXCEPT ![p] = file]
        /\ UNCHANGED <<src, newest, lock, hash, kills, lost>>
        /\ AfterSparse(s) \/ (Goto(s, "utime") /\ UNCHANGED run)
    BY <1>2 DEF Truncate, source
  <2>2. p \in Path /\ file \in Stat
    BY <2>1 DEF TypeInv, StageInv, OnFile, Stat
  <2>3. SharedTyped
    BY <2>1, <2>2 DEF SharedTyped, TypeInv, TypeOK
  <2>4. CASE AfterSparse(s)
    <3>1. OnlyLocal(s) /\ LocalsTyped(s) /\ QuietMove(s)
      BY <2>1, <2>4, AfterSparseIsQuiet DEF Late
    <3>2. \A x \in Path, t \in Version : OnDisk(x, t)' => OnDisk(x, t)
      BY <2>1, <2>2, ValuesAssumption DEF OnDisk, TypeInv, TypeOK
    <3> QED
      BY <2>1, <2>3, <3>1, <3>2, SparseKeeps DEF Late
  <2>5. CASE Goto(s, "utime") /\ UNCHANGED run
    <3>1. run \in [Session -> Local] /\ pc \in [Session -> Stage]
      BY DEF TypeInv, TypeOK, Local, Stage
    <3>2. pc' = [pc EXCEPT ![s] = "utime"] /\ pc'[s] = "utime" /\ run'[s] = run[s]
      BY <2>5, <3>1 DEF Goto
    <3>3. OnlyLocal(s) /\ LocalsTyped(s)
      BY <2>1, <2>5, <3>1, <3>2 DEF OnlyLocal, LocalsTyped, Stage, TypeInv, StageInv, OnFile
    <3>4. QuietMove(s)
      BY <2>1, <2>5, <3>2 DEF QuietMove, Early, Late
    <3>5. \A x \in Path, t \in Version : OnDisk(x, t)' => OnDisk(x, t)
      BY <2>1, <2>2, ValuesAssumption DEF OnDisk, TypeInv, TypeOK
    <3> QED
      BY <2>1, <2>3, <3>3, <3>4, <3>5, SparseKeeps DEF Late
  <2> QED
    BY <2>1, <2>4, <2>5
<1> QED
  BY <1>1, <1>2

LEMMA SetTimeKeeps ==
  ASSUME TypeInv, NEW s \in Session, SetTime(s)
  PROVE  Keeps
<1> DEFINE p == run[s].cur
           file == [tree[p] EXCEPT !.time = run[s].stamp.time]
<1>1. CASE SparseFails(s)
  BY <1>1, SparseFailsKeeps DEF SetTime
<1>2. CASE ~SparseFails(s)
  <2>1. /\ pc[s] = "utime" /\ tree[p] \notin {Absent, Dir}
        /\ tree' = [tree EXCEPT ![p].time = run[s].stamp.time]
        /\ UNCHANGED <<src, newest, lock, hash, kills, lost>>
        /\ AfterSparse(s)
    BY <1>2 DEF SetTime, Stamped, source
  <2>2. p \in Path /\ tree[p] \in Stat /\ run[s].stamp \in Stat
    BY <2>1 DEF TypeInv, TypeOK, StageInv, OnFile
  <2>3. file \in Stat /\ file.time = run[s].stamp.time
    BY <2>2 DEF Stat
  <2>4. tree' = [tree EXCEPT ![p] = file]
    BY <2>1
  <2> HIDE DEF file
  <2>5. SharedTyped
    BY <2>1, <2>2, <2>3, <2>4 DEF SharedTyped, TypeInv, TypeOK
  <2>6. OnlyLocal(s) /\ LocalsTyped(s) /\ QuietMove(s)
    BY <2>1, AfterSparseIsQuiet DEF Late
  <2>7. \A x \in Path, t \in Version : OnDisk(x, t)' => OnDisk(x, t) \/ Holds(s, x, t)
    BY <2>2, <2>3, <2>4, ValuesAssumption DEF OnDisk, Holds, TypeInv, TypeOK
  <2> QED
    BY <2>1, <2>5, <2>6, <2>7, SparseKeeps DEF Late
<1> QED
  BY <1>1, <1>2

\* A pull reads what the database says of each file.
LEMMA PullReadKeeps ==
  ASSUME TypeInv, NEW s \in Puller, PullRead(s)
  PROVE  Keeps
<1> DEFINE r == run[s]
           R == {[path |-> p, stamp |-> hash[p].stamp] :
                   p \in {q \in Path : hash[q] # NoHash}}
           q == [r EXCEPT !.rows = R]
<1>s. s \in Session /\ s \notin Hasher
  BY TreeAssumption DEF Session
<1>r. run \in [Session -> Local] /\ pc \in [Session -> Stage] /\ r \in Local
      /\ hash \in [Path -> HashRow \cup {NoHash}]
  BY <1>s DEF TypeInv, TypeOK, Local, Stage
<1>u. UNCHANGED <<src, newest, tree, lock, hash, kills, lost>> /\ SharedTyped
  BY DEF PullRead, SharedTyped, TypeInv, TypeOK, source, target
<1>1. R \in SUBSET [path : Path, stamp : Stat]
  BY <1>r DEF HashRow
<1>2. run' = [run EXCEPT ![s] = q] /\ pc' = [pc EXCEPT ![s] = "pull"]
  BY DEF PullRead, Goto
<1> HIDE DEF r
<1>3. \A x \in R : x.path \in Path /\ hash[x.path] # NoHash
                  /\ x.stamp = hash[x.path].stamp
  OBVIOUS
<1> HIDE DEF R
<1>4. q \in Local /\ q.rows = R /\ q.cur = r.cur /\ q.stamp = r.stamp
  BY <1>r, <1>1 DEF Local
<1> HIDE DEF q
<1>5. run'[s] = q /\ pc'[s] = "pull"
  BY <1>r, <1>s, <1>2
<1>6. OnlyLocal(s) /\ LocalsTyped(s)
  BY <1>r, <1>s, <1>2, <1>4, <1>5 DEF OnlyLocal, LocalsTyped, Stage, OnFile
<1>7. TypeInv'
  BY <1>s, <1>u, <1>6, TypesKept
<1> SUFFICES ASSUME TreeInv, Apart' PROVE TreeInv'
  BY <1>7 DEF Keeps
<1>8. BagsKept
  BY <1>s, <1>6, Others DEF BagsKept, Session
<1>9. ASSUME NEW x \in Path, NEW t \in Version
      PROVE  /\ Seen(x, t)' => Seen(x, t)
             /\ Shown(x, t)' => Shown(x, t) \/ InTable(x, t)
  <2>1. \A u \in Session \ {s} : /\ Holds(u, x, t)' <=> Holds(u, x, t)
                                 /\ InRows(u, x, t)' <=> InRows(u, x, t)
                                 /\ pc'[u] = pc[u]
    BY <1>s, <1>6, Others DEF Holds, InRows
  <2>2. InRows(s, x, t)' => InTable(x, t)
    BY <1>3, <1>4, <1>5 DEF InRows, InTable
  <2>3. (Holds(s, x, t)' => Holds(s, x, t)) /\ pc'[s] \notin Late
    BY <1>4, <1>5 DEF Holds, Late, r
  <2>4. (OnDisk(x, t)' <=> OnDisk(x, t)) /\ (InTable(x, t)' <=> InTable(x, t))
    BY <1>u DEF OnDisk, InTable
  <2>5. Seen(x, t)' => Seen(x, t)
    BY <1>s, <2>1, <2>2, <2>3, <2>4 DEF Seen
  <2>6. Shown(x, t)' => Shown(x, t) \/ InTable(x, t)
    BY <1>s, <2>1, <2>2, <2>3, <2>4 DEF Shown
  <2> QED
    BY <2>5, <2>6
<1>10. HonestInv'
  <2> SUFFICES ASSUME NEW x \in Path, NEW t \in Version, Shown(x, t)', src[x] = t
               PROVE  Good(x, t)
    BY <1>u DEF HonestInv, Good
  <2>1. CASE Shown(x, t)
    BY <2>1 DEF TreeInv, HonestInv
  <2>2. CASE InTable(x, t)
    <3>1. hash[x] \in HashRow /\ hash[x].stamp = StatOf(t) /\ hash[x].data = t
      BY <1>r, <2>2 DEF InTable, TreeInv, TableInv
    <3> QED
      BY <3>1 DEF Good, HashRow
  <2> QED
    BY <1>9, <2>1, <2>2
<1> QED
  BY <1>7, <1>8, <1>9, <1>10, <1>u, MostKept DEF TreeInv

LEMMA PullNextKeeps ==
  ASSUME TypeInv, NEW s \in Puller, PullNext(s)
  PROVE  Keeps
<1> DEFINE r == run[s]
<1>s. s \in Session /\ s \notin Hasher
  BY TreeAssumption DEF Session
<1>r. run \in [Session -> Local] /\ pc \in [Session -> Stage] /\ r \in Local
  BY <1>s DEF TypeInv, TypeOK, Local, Stage
<1> HIDE DEF r
<1>t. r.rows \in SUBSET [path : Path, stamp : Stat]
  BY <1>r DEF Local
<1>1. PICK row \in r.rows :
        \/ run' = [run EXCEPT ![s].rows = @ \ {row}] /\ UNCHANGED <<tree, pc>>
        \/ Quit(s) /\ UNCHANGED tree
        \/ /\ run' = [run EXCEPT ![s] = [@ EXCEPT
                         !.rows = run[s].rows \ {row}, !.cur = row.path,
                         !.stamp = row.stamp]]
           /\ WithFolders(row.path)
           /\ Goto(s, "truncate")
  BY Zenon DEF PullNext, r
<1>u. UNCHANGED <<src, newest, lock, hash, kills, lost>>
  BY DEF PullNext, source
<1>k. row.path \in Path /\ row.stamp \in Stat /\ row.stamp # None
  BY <1>t, ValuesAssumption
<1>2. CASE run' = [run EXCEPT ![s].rows = @ \ {row}] /\ UNCHANGED <<tree, pc>>
  <2> DEFINE left == r.rows \ {row}
             q == [r EXCEPT !.rows = left]
  <2>1. left \in SUBSET [path : Path, stamp : Stat] /\ left \subseteq r.rows
    BY <1>t
  <2>2. run' = [run EXCEPT ![s] = q] /\ pc' = pc
    BY <1>2 DEF r
  <2> HIDE DEF left
  <2>3. q \in Local /\ q.rows = left /\ q.cur = r.cur /\ q.stamp = r.stamp
        /\ q.data = r.data
    BY <1>r, <2>1 DEF Local
  <2> HIDE DEF q
  <2>4. run'[s] = q
    BY <1>r, <1>s, <2>2
  <2>5. OnlyLocal(s) /\ LocalsTyped(s)
    BY <1>r, <1>s, <2>2, <2>3, <2>4 DEF OnlyLocal, LocalsTyped, TypeInv, StageInv, r
  <2>6. QuietMove(s)
    BY <2>1, <2>2, <2>3, <2>4 DEF QuietMove, r
  <2>7. QuietShared /\ SharedTyped
    BY <1>2, <1>u DEF QuietShared, SharedTyped, TypeInv, TypeOK
  <2> QED
    BY <1>s, <2>5, <2>6, <2>7, QuietKeeps
<1>3. CASE Quit(s) /\ UNCHANGED tree
  <2>1. QuietShared /\ SharedTyped
    BY <1>3, <1>u DEF QuietShared, SharedTyped, TypeInv, TypeOK
  <2> QED
    BY <1>s, <1>3, <2>1, QuitIsQuiet, QuietKeeps
<1>4. CASE /\ run' = [run EXCEPT ![s] = [@ EXCEPT
                         !.rows = run[s].rows \ {row}, !.cur = row.path,
                         !.stamp = row.stamp]]
           /\ WithFolders(row.path)
           /\ Goto(s, "truncate")
  <2> DEFINE left == r.rows \ {row}
             p == row.path
             st == row.stamp
             q == [r EXCEPT !.rows = left, !.cur = p, !.stamp = st]
  <2>1. left \in SUBSET [path : Path, stamp : Stat] /\ left \subseteq r.rows
        /\ p \in Path /\ st \in Stat /\ st # None
    BY <1>t, <1>k
  <2>2. run' = [run EXCEPT ![s] = q] /\ pc' = [pc EXCEPT ![s] = "truncate"]
    BY <1>4 DEF r, Goto
  <2>3. InRows(s, p, st.time)
    BY DEF InRows, r
  <2> HIDE DEF left, p, st
  <2>4. q \in Local /\ q.rows = left /\ q.cur = p /\ q.stamp = st
    BY <1>r, <2>1 DEF Local
  <2> HIDE DEF q
  <2>5. run'[s] = q /\ pc'[s] = "truncate"
    BY <1>r, <1>s, <2>2
  <2>6. OnlyLocal(s) /\ LocalsTyped(s)
    BY <1>r, <1>s, <2>1, <2>2, <2>4, <2>5 DEF OnlyLocal, LocalsTyped, Stage, OnFile
  <2>7. QuietShared /\ SharedTyped
    BY <1>4, <1>u DEF QuietShared, SharedTyped, TypeInv, TypeOK, WithFolders
  <2>8. TypeInv'
    BY <1>s, <2>6, <2>7, TypesKept
  <2> SUFFICES ASSUME TreeInv, Apart' PROVE TreeInv'
    BY <2>8 DEF Keeps
  <2>9. BagsKept
    BY <1>s, <2>6, Others DEF BagsKept, Session
  <2>10. ASSUME NEW x \in Path, NEW t \in Version
         PROVE  (Seen(x, t)' => Seen(x, t)) /\ (Shown(x, t)' => Shown(x, t))
    <3>1. OnDisk(x, t)' => OnDisk(x, t)
      BY <2>7, ValuesAssumption DEF QuietShared, OnDisk
    <3>2. InRows(s, x, t)' => InRows(s, x, t)
      BY <2>1, <2>4, <2>5 DEF InRows, r
    <3>3. Holds(s, x, t)' => InRows(s, x, t)
      BY <2>3, <2>4, <2>5 DEF Holds
    <3> QED
      BY <1>s, <1>u, <2>6, <3>1, <3>2, <3>3, MemoryKept DEF Shown
  <2> QED
    BY <1>u, <2>8, <2>9, <2>10, TreeKept
<1> QED
  BY <1>1, <1>2, <1>3, <1>4

-----------------------------------------------------------------------------
(* The source folder and the database change around the processes.         *)

LEMMA MemorySame ==
  ASSUME UNCHANGED <<tree, pc, run>>, NEW p \in Path, NEW t \in Version
  PROVE  /\ OnDisk(p, t)' <=> OnDisk(p, t)
         /\ Shown(p, t)' <=> Shown(p, t)
         /\ (InTable(p, t)' => InTable(p, t)) => (Seen(p, t)' => Seen(p, t))
<1>1. OnDisk(p, t)' <=> OnDisk(p, t)
  BY DEF OnDisk
<1>2. \A s \in Session : /\ Holds(s, p, t)' <=> Holds(s, p, t)
                         /\ InRows(s, p, t)' <=> InRows(s, p, t)
                         /\ pc'[s] = pc[s]
  BY DEF Holds, InRows
<1>3. Shown(p, t)' <=> Shown(p, t)
  BY <1>1, <1>2 DEF Shown
<1>4. (InTable(p, t)' => InTable(p, t)) => (Seen(p, t)' => Seen(p, t))
  BY <1>1, <1>2 DEF Seen
<1> QED
  BY <1>1, <1>3, <1>4

\* What is known of a file was its version at some time.
LEMMA KnownIsSeen ==
  ASSUME TypeInv, TreeInv
  PROVE  /\ \A p \in Path, t \in Version : Shown(p, t) => t <= newest[p]
         /\ \A p \in Path : hash[p] # NoHash => hash[p].stamp.time <= newest[p]
         /\ \A h \in Hasher : pc[h] \in Early /\ run[h].stamp # None =>
              run[h].cur \in Path /\ run[h].stamp.time <= newest[run[h].cur]
<1>1. \A p \in Path, t \in Version : Shown(p, t) => t <= newest[p]
  BY DEF Shown, Seen, TreeInv, SeenInv
<1>2. \A p \in Path : hash[p] # NoHash => hash[p].stamp.time <= newest[p]
  BY DEF Seen, InTable, TreeInv, SeenInv, TableInv
<1>3. ASSUME NEW h \in Hasher, pc[h] \in Early, run[h].stamp # None
      PROVE  run[h].cur \in Path /\ run[h].stamp.time <= newest[run[h].cur]
  <2>1. h \in Session /\ run[h].cur \in Path
    BY <1>3 DEF TypeInv, StageInv, Early, OnFile, Session
  <2>2. run[h].stamp.time \in Version
    BY <1>3 DEF TreeInv, BagInv
  <2>3. Holds(h, run[h].cur, run[h].stamp.time)
    BY <1>3 DEF Holds
  <2> QED
    BY <2>1, <2>2, <2>3 DEF Seen, TreeInv, SeenInv
<1> QED
  BY <1>1, <1>2, <1>3

\* A new version is later than all that is known of the file.
LEMMA PublishKeeps ==
  ASSUME TypeInv, NEW p \in Path, Publish(p)
  PROVE  Keeps
<1>p. PICK v \in Mtimes[p] :
        newest[p] < v /\ newest' = [newest EXCEPT ![p] = v] /\ src' = [src EXCEPT ![p] = v]
  BY DEF Publish
<1>u. /\ UNCHANGED <<tree, lock, hash, pc, run, kills, lost>>
      /\ newest' = [newest EXCEPT ![p] = v] /\ src' = [src EXCEPT ![p] = v]
  BY <1>p DEF Publish, target
<1>t. newest \in [Path -> 0..MaxVersion] /\ src \in [Path -> Entry]
  BY DEF TypeInv, TypeOK
<1>1. v \in Version /\ v \in 0..MaxVersion /\ newest[p] < v
  BY <1>p, <1>t, TreeAssumption DEF Version
<1>2. TypeInv'
  <2>1. SharedTyped
    BY <1>u, <1>t, <1>1 DEF SharedTyped, TypeInv, TypeOK, Entry
  <2> QED
    BY <1>u, <2>1, TypesKeptLocally
<1> SUFFICES ASSUME TreeInv, Apart' PROVE TreeInv'
  BY <1>2 DEF Keeps
<1>3. /\ src'[p] = v /\ newest'[p] = v
      /\ \A x \in Path : x # p => src'[x] = src[x] /\ newest'[x] = newest[x]
  BY <1>u, <1>t
<1>4. \A x \in Path : newest[x] <= newest'[x] /\ newest[x] \in Nat /\ newest'[x] \in Nat
  BY <1>t, <1>1, <1>3 DEF Version
<1>5. ASSUME NEW x \in Path, NEW t \in Version
      PROVE  (Seen(x, t)' => Seen(x, t)) /\ (Shown(x, t)' => Shown(x, t))
  BY <1>u, MemorySame DEF InTable
<1>6. SourceInv'
  BY <1>3 DEF TreeInv, SourceInv
<1>7. SeenInv'
  BY <1>4, <1>5 DEF TreeInv, SeenInv, Version
<1>8. OrderInv'
  <2> SUFFICES ASSUME NEW h \in Hasher, pc[h] \in Early, run[h].stamp # None,
                      NEW x \in Path, x = run[h].cur, NEW t \in Version, Seen(x, t)'
               PROVE  t <= run[h].stamp.time
    BY <1>u, KnownIsSeen DEF OrderInv
  <2> QED
    BY <1>5 DEF TreeInv, OrderInv
<1>9. TableInv'
  <2> SUFFICES ASSUME NEW x \in Path, hash[x] # NoHash
               PROVE  /\ hash[x].stamp.time \in Version
                      /\ hash[x].stamp = StatOf(hash[x].stamp.time)
                      /\ src'[x] = hash[x].stamp.time => hash[x].data = src'[x]
    BY <1>u DEF TableInv
  <2>1. hash[x].stamp.time \in Version /\ hash[x].stamp = StatOf(hash[x].stamp.time)
        /\ (src[x] = hash[x].stamp.time => hash[x].data = src[x])
    BY DEF TreeInv, TableInv
  <2>2. hash[x].stamp.time <= newest[x]
    BY KnownIsSeen
  <2>3. x = p => src'[x] # hash[x].stamp.time
    BY <1>1, <1>3, <1>4, <2>1, <2>2 DEF Version
  <2> QED
    BY <1>3, <2>1, <2>3
<1>10. BagInv'
  <2> SUFFICES ASSUME NEW h \in Hasher, pc[h] \in Early, run[h].stamp # None
               PROVE  /\ run[h].stamp.time \in Version
                      /\ run[h].stamp = StatOf(run[h].stamp.time)
                      /\ pc[h] = "record" /\ src'[run[h].cur] = run[h].stamp.time =>
                           run[h].data = src'[run[h].cur]
    BY <1>u DEF BagInv
  <2>1. /\ run[h].stamp.time \in Version
        /\ run[h].stamp = StatOf(run[h].stamp.time)
        /\ pc[h] = "record" /\ src[run[h].cur] = run[h].stamp.time =>
             run[h].data = src[run[h].cur]
    BY DEF TreeInv, BagInv
  <2>2. run[h].cur \in Path /\ run[h].stamp.time <= newest[run[h].cur]
    BY KnownIsSeen
  <2>3. run[h].cur = p => src'[run[h].cur] # run[h].stamp.time
    BY <1>1, <1>3, <1>4, <2>1, <2>2 DEF Version
  <2> QED
    BY <1>3, <2>1, <2>2, <2>3
<1>11. HonestInv'
  <2> SUFFICES ASSUME NEW x \in Path, NEW t \in Version, Shown(x, t), src'[x] = t
               PROVE  Good(x, t)
    BY <1>u, <1>5 DEF HonestInv, Good
  <2>1. t <= newest[x]
    BY KnownIsSeen
  <2>2. x # p
    BY <1>1, <1>3, <1>4, <2>1 DEF Version
  <2> QED
    BY <1>3, <2>2 DEF TreeInv, HonestInv
<1> QED
  BY <1>2, <1>6, <1>7, <1>8, <1>9, <1>10, <1>11 DEF TreeInv

\* A file that is no longer there is of no version.
LEMMA GoneKeeps ==
  ASSUME TypeInv, NEW p \in Path, Remove(p) \/ MakeFolder(p)
  PROVE  Keeps
<1>u. UNCHANGED <<newest, tree, lock, hash, pc, run, kills, lost>>
  BY DEF Remove, MakeFolder, target
<1>t. src \in [Path -> Entry]
  BY DEF TypeInv, TypeOK
<1>1. PICK e \in {Absent, Dir} : src' = [src EXCEPT ![p] = e]
  BY DEF Remove, MakeFolder
<1>2. e \notin Version /\ e \in Entry
  BY ValuesAssumption DEF Entry
<1>3. src'[p] = e /\ \A x \in Path : x # p => src'[x] = src[x]
  BY <1>1, <1>t
<1>4. TypeInv'
  <2>1. SharedTyped
    BY <1>u, <1>t, <1>1, <1>2 DEF SharedTyped, TypeInv, TypeOK
  <2> QED
    BY <1>u, <2>1, TypesKeptLocally
<1> SUFFICES ASSUME TreeInv, Apart' PROVE TreeInv'
  BY <1>4 DEF Keeps
<1>5. ASSUME NEW x \in Path, NEW t \in Version
      PROVE  (Seen(x, t)' => Seen(x, t)) /\ (Shown(x, t)' => Shown(x, t))
  BY <1>u, MemorySame DEF InTable
<1>6. SourceInv' /\ SeenInv'
  BY <1>u, <1>2, <1>3, <1>5 DEF TreeInv, SourceInv, SeenInv
<1>7. OrderInv'
  <2> SUFFICES ASSUME NEW h \in Hasher, pc[h] \in Early, run[h].stamp # None,
                      NEW x \in Path, x = run[h].cur, NEW t \in Version, Seen(x, t)'
               PROVE  t <= run[h].stamp.time
    BY <1>u, KnownIsSeen DEF OrderInv
  <2> QED
    BY <1>5 DEF TreeInv, OrderInv
<1>8. TableInv'
  BY <1>u, <1>2, <1>3 DEF TreeInv, TableInv
<1>9. BagInv'
  BY <1>u, <1>2, <1>3, KnownIsSeen DEF TreeInv, BagInv
<1>10. HonestInv'
  BY <1>u, <1>2, <1>3, <1>5 DEF TreeInv, HonestInv, Good
<1> QED
  BY <1>4, <1>6, <1>7, <1>8, <1>9, <1>10 DEF TreeInv

LEMMA LoseHashKeeps ==
  ASSUME TypeInv, NEW p \in Path, LoseHash(p)
  PROVE  Keeps
<1>u. /\ UNCHANGED <<src, newest, tree, lock, pc, run, kills>>
      /\ hash' = [hash EXCEPT ![p] = NoHash] /\ lost' = [lost EXCEPT ![p] = TRUE]
  BY DEF LoseHash, source, target
<1>t. hash \in [Path -> HashRow \cup {NoHash}] /\ lost \in [Path -> BOOLEAN]
  BY DEF TypeInv, TypeOK
<1>1. /\ hash'[p] = NoHash /\ lost'[p]
      /\ \A x \in Path : x # p => hash'[x] = hash[x] /\ lost'[x] = lost[x]
  BY <1>u, <1>t
<1>2. TypeInv'
  <2>1. SharedTyped
    BY <1>u, <1>t DEF SharedTyped, TypeInv, TypeOK
  <2> QED
    BY <1>u, <2>1, TypesKeptLocally
<1> SUFFICES ASSUME TreeInv, Apart' PROVE TreeInv'
  BY <1>2 DEF Keeps
<1>3. ASSUME NEW x \in Path, NEW t \in Version
      PROVE  (Seen(x, t)' => Seen(x, t)) /\ (Shown(x, t)' => Shown(x, t))
  <2>1. InTable(x, t)' => InTable(x, t)
    BY <1>1 DEF InTable
  <2> QED
    BY <1>u, <2>1, MemorySame
<1>4. SourceInv' /\ SeenInv'
  BY <1>u, <1>3 DEF TreeInv, SourceInv, SeenInv
<1>5. OrderInv'
  <2> SUFFICES ASSUME NEW h \in Hasher, pc[h] \in Early, run[h].stamp # None,
                      NEW x \in Path, x = run[h].cur, NEW t \in Version, Seen(x, t)'
               PROVE  t <= run[h].stamp.time
    BY <1>u, KnownIsSeen DEF OrderInv
  <2> QED
    BY <1>3 DEF TreeInv, OrderInv
<1>6. TableInv'
  BY <1>u, <1>1 DEF TreeInv, TableInv
<1>7. BagInv'
  BY <1>u DEF TreeInv, BagInv
<1>8. HonestInv'
  BY <1>u, <1>1, <1>3 DEF TreeInv, HonestInv, Good
<1> QED
  BY <1>2, <1>4, <1>5, <1>6, <1>7, <1>8 DEF TreeInv

-----------------------------------------------------------------------------
(* The invariant.                                                          *)

LEMMA InitHolds ==
  ASSUME Init
  PROVE  TypeInv /\ TreeInv
<1>1. \A p \in Path : src[p] = Absent /\ tree[p] = Absent /\ hash[p] = NoHash
  BY DEF Init
<1>2. \A s \in Session : /\ pc[s] = "idle" /\ run[s].stamp = None
                         /\ run[s].rows = {}
  BY DEF Init, NoRun
<1>3. TypeInv
  <2>1. TypeOK
    BY NoRunTyped, TreeAssumption DEF Init, TypeOK, Entry, Local
  <2> QED
    BY <1>2, <2>1 DEF TypeInv, StageInv, OnFile
<1>4. \A p \in Path, t \in Version : ~Seen(p, t) /\ ~Shown(p, t)
  BY <1>1, <1>2, ValuesAssumption DEF Seen, Shown, OnDisk, InTable, Holds, InRows
<1>5. SourceInv /\ TableInv
  BY <1>1, ValuesAssumption DEF SourceInv, TableInv
<1>6. OrderInv /\ BagInv
  BY <1>2 DEF OrderInv, BagInv, Session
<1> QED
  BY <1>3, <1>4, <1>5, <1>6 DEF TreeInv, SeenInv, HonestInv

LEMMA StutterKeeps ==
  ASSUME TypeInv, UNCHANGED vars
  PROVE  Keeps
<1>u. UNCHANGED <<src, newest, tree, lock, hash, pc, run, kills, lost>>
  BY DEF vars, source, target
<1>1. TypeInv'
  BY <1>u DEF TypeInv, TypeOK, StageInv
<1> SUFFICES ASSUME TreeInv, Apart' PROVE TreeInv'
  BY <1>1 DEF Keeps
<1>2. BagsKept
  BY <1>u DEF BagsKept
<1>3. \A p \in Path, t \in Version : (Seen(p, t)' => Seen(p, t)) /\ (Shown(p, t)' => Shown(p, t))
  BY <1>u, MemorySame DEF InTable
<1> QED
  BY <1>u, <1>1, <1>2, <1>3, TreeKept

LEMMA NextKeeps ==
  ASSUME TypeInv, Next
  PROVE  Keeps
<1>1. ASSUME NEW h \in Hasher, (\E m \in Modes : List(h, m)) \/ HashStep(h)
      PROVE  Keeps
  <2>1. QuietStep(h) \/ StatFile(h) \/ Compute(h) \/ Record(h)
    BY <1>1 DEF HashStep, QuietStep
  <2> QED
    BY <2>1, QuietStepKeeps, StatFileKeeps, ComputeKeeps, RecordKeeps
<1>2. ASSUME NEW s \in Puller, PullRead(s) \/ PullStep(s)
      PROVE  Keeps
  BY <1>2, PullReadKeeps, PullNextKeeps, EndPullKeeps DEF PullStep
<1>3. ASSUME NEW s \in Session, SparseStep(s) PROVE Keeps
  BY <1>3, TruncateKeeps, SetTimeKeeps DEF SparseStep
<1>4. CASE Environment
  BY <1>4, PublishKeeps, GoneKeeps, LoseHashKeeps, KillKeeps DEF Environment
<1> QED
  BY <1>1, <1>2, <1>3, <1>4 DEF Next

\* The variables stay in their types, and every file a process is past the
\* stat() of is a path with a stamp (hashes.py:324-335), however many makehashes
\* there are.
THEOREM TreeTypeCorrect == Spec => []TypeOK
<1>1. Init => TypeInv
  BY InitHolds
<1>2. TypeInv /\ [Next]_vars => TypeInv'
  BY NextKeeps, StutterKeeps DEF Keeps
<1>3. TypeInv => TypeOK
  BY DEF TypeInv
<1> QED
  BY <1>1, <1>2, <1>3, PTL DEF Spec

\* As long as makehashes processes keep apart, whatever they, any number of
\* pulls, crashes and changes of the source folder do, the tree and the database
\* are tied (hashes.py:239-367, hashestree.py:20-57, fs.py:73-83).
THEOREM TreeInvariant == Spec /\ []Apart => [](TypeInv /\ TreeInv)
<1>1. Init => TypeInv /\ TreeInv
  BY InitHolds
<1>2. TypeInv /\ TreeInv /\ Apart' /\ [Next]_vars => (TypeInv /\ TreeInv)'
  BY NextKeeps, StutterKeeps DEF Keeps
<1> QED
  BY <1>1, <1>2, PTL DEF Spec

\* A file that makehashes skips as hashed (hashes.py:308-321) has the hashes of
\* its present content in the database, or they were deleted there.
THEOREM TreeIsTrue == Spec /\ []Apart => []TreeTruth
<1>1. TypeInv /\ TreeInv => TreeTruth
  <2> SUFFICES ASSUME TypeInv, TreeInv, NEW p \in Path, UpToDate(p)
               PROVE  Good(p, src[p])
    BY DEF TreeTruth, Good
  <2>1. src[p] \in Version /\ tree[p] = StatOf(src[p]) /\ tree[p].time = src[p]
    BY DEF UpToDate, IsFile, StatOf
  <2>2. Shown(p, src[p])
    BY <2>1, StatTyped DEF Shown, OnDisk
  <2> QED
    BY <2>1, <2>2 DEF TreeInv, HonestInv
<1> QED
  BY <1>1, TreeInvariant, PTL

\* In particular when makehashes is never started while another one is running.
COROLLARY OneAtATime ==
  ASSUME \A g, h \in Hasher : g = h
  PROVE  Spec => []TreeTruth
<1>1. Apart
  BY DEF Apart
<1>2. []Apart
  BY <1>1, PTL
<1> QED
  BY <1>2, TreeIsTrue, PTL
=============================================================================
