---------------------------- MODULE SparseProofs ----------------------------
(***************************************************************************)
(* Theorems about SparseSync, for any paths, trees and number of crashes.   *)
(***************************************************************************)
EXTENDS SparseSync, TLAPS

Working == pc \in {"act", "write", "chmod", "utime"}
Made == pc \in {"write", "chmod", "utime"}

GoalInv == remote \in RemoteTrees /\ goal \in RemoteTrees

\* Nothing is without a folder, what is not there has no properties, and links
\* lead to paths.
TreeInv ==
  /\ IsTree(local)
  /\ \A p \in Path : /\ local[p].kind = "none" => local[p] = NoEntry
                     /\ local[p].kind = "link" => local[p].to \in Path

\* A line is about what the server has, or has not, at its path.
RightLine(L) ==
  /\ L \in Line
  /\ L.op = "recv" => L.kind = goal[L.path].kind
  /\ L.op = "del." => goal[L.path].kind = "none"
  /\ L.op = "recv" /\ L.new => L.size /\ L.time /\ L.mode

\* What the copy had when it was listed it still has.
Stays(L) == L.op = "recv" /\ ~L.new => local[L.path].kind = L.kind

LinesInv ==
  /\ \A L \in todo : RightLine(L) /\ Stays(L)
  /\ Working => RightLine(line)
  /\ pc = "act" => Stays(line)
  /\ Running => \A L, M \in todo : L.path = M.path => L = M
  /\ Working => \A L \in todo : L.path # line.path

\* What is written to, or has its mode or time set, is there.
StageInv ==
  /\ Made => line.op = "recv" /\ line.kind \in {"file", "dir"}
  /\ Made /\ ~dry => Exists(local, Followed(local, line.path))
  /\ pc = "write" => ~dry /\ line.kind = "file" /\ line.size

StampInv ==
  \A p \in Path : stamps[p] # None =>
    goal[p].kind = "dir" /\ (~dry => IsDir(local, p))

\* A line still tells how the copy differs from the server's tree.
Pending(L) ==
  LET e == local[L.path]
      g == goal[L.path]
  IN L.op = "recv" /\ L.kind # "link" =>
       /\ L.new => e.kind # g.kind
       /\ L.kind = "file" =>
            /\ L.size <=> (e.kind # g.kind \/ e.size # g.size)
            /\ ~L.time => e.time = g.time
       /\ ~L.mode => e.mode = g.mode

\* A path is up to date unless a line of it is to do.
Listed(p) == (\E L \in todo : L.path = p) \/ (Working /\ line.path = p)

\* How far the path of the line is, by the stage.
Progress(e, g) ==
  /\ e.kind = g.kind
  /\ pc = "write" => e.time = Now
  /\ pc \in {"write", "chmod"} /\ ~line.mode => e.mode = g.mode
  /\ pc = "utime" => e.mode \in {g.mode, PermsToMode(g.mode)}
  /\ pc \in {"chmod", "utime"} /\ g.kind = "file" =>
       e.size = g.size /\ (~(line.time \/ line.size) => e.time = g.time)

ExactInv ==
  Running /\ Promised =>
    /\ \A L \in todo : Pending(L)
    /\ pc = "act" => Pending(line)
    /\ \A p \in Path : Listed(p) \/ Agrees(local[p], goal[p])
    /\ Made => Progress(local[line.path], goal[line.path])

\* The inductive invariant.
SyncInv ==
  /\ TypeOK /\ GoalInv /\ TreeInv /\ LinesInv /\ StageInv /\ StampInv /\ ExactInv

-----------------------------------------------------------------------------
(* Entries and trees.                                                      *)

LEMMA Entries ==
  /\ NoEntry \in Entry /\ NoEntry.kind = "none"
  /\ EmptyFile \in Entry /\ EmptyFile.kind = "file" /\ EmptyFile.size = 0
  /\ EmptyFile.time = Now
  /\ \A m \in Mode : /\ PermsToMode(m) \in Mode
                     /\ Folder(m) \in Entry /\ Folder(m).kind = "dir" /\ Folder(m).mode = m
BY DEF NoEntry, EmptyFile, Folder, Entry, Mode, PermsToMode

LEMMA RemoteFacts ==
  ASSUME NEW t \in RemoteTrees
  PROVE  /\ t \in Tree /\ IsTree(t)
         /\ \A p \in Path : /\ t[p].time \in Nat
                            /\ t[p].kind = "none" => t[p] = NoEntry
                            /\ t[p].kind = "link" => t[p].to \in Path
<1>1. /\ t \in [Path -> UNION {Offered[p] : p \in Path} \cup {NoEntry}]
      /\ IsTree(t) /\ \A p \in Path : t[p] \in Offered[p] \cup {NoEntry}
  BY DEF RemoteTrees, Trees
<1>2. ASSUME NEW p \in Path
      PROVE  /\ t[p] \in Entry /\ t[p].time \in Nat
             /\ t[p].kind = "none" => t[p] = NoEntry
             /\ t[p].kind = "link" => t[p].to \in Path
  <2>1. CASE t[p] = NoEntry
    BY <2>1, Entries DEF NoEntry
  <2>2. CASE t[p] \in Offered[p]
    BY <2>2, EntryAssumption DEF Entry
  <2> QED
    BY <1>1, <2>1, <2>2
<1> QED
  BY <1>1, <1>2 DEF Tree

LEMMA FoundFacts ==
  ASSUME NEW t \in Trees(Found)
  PROVE  /\ t \in Tree /\ IsTree(t)
         /\ \A p \in Path : /\ t[p].kind = "none" => t[p] = NoEntry
                            /\ t[p].kind = "link" => t[p].to \in Path
<1>1. /\ t \in [Path -> UNION {Found[p] : p \in Path} \cup {NoEntry}]
      /\ IsTree(t) /\ \A p \in Path : t[p] \in Found[p] \cup {NoEntry}
  BY DEF Trees
<1>2. ASSUME NEW p \in Path
      PROVE  /\ t[p] \in Entry
             /\ t[p].kind = "none" => t[p] = NoEntry
             /\ t[p].kind = "link" => t[p].to \in Path
  <2>1. CASE t[p] = NoEntry
    BY <2>1, Entries DEF NoEntry
  <2>2. CASE t[p] \in Found[p]
    BY <2>2, EntryAssumption DEF Entry
  <2> QED
    BY <1>1, <2>1, <2>2
<1> QED
  BY <1>1, <1>2 DEF Tree

\* An entry that stays, but for the time of a folder.
Alike(e, d) ==
  /\ d.kind = e.kind /\ d.size = e.size /\ d.mode = e.mode /\ d.to = e.to
  /\ e.kind # "dir" => d = e

LEMMA PutFacts ==
  ASSUME NEW t \in Tree, NEW p \in Path, NEW e \in Entry,
         \A a \in Above[p] : IsDir(t, a)
  PROVE  /\ Put(t, p, e) \in Tree /\ Put(t, p, e)[p] = e
         /\ \A q \in Path \ {p} : Alike(t[q], Put(t, p, e)[q])
<1> USE PathAssumption
<1>1. ASSUME NEW q \in Path
      PROVE  /\ [t[q] EXCEPT !.time = Now] \in Entry
             /\ IsDir(t, q) => Alike(t[q], [t[q] EXCEPT !.time = Now])
             /\ Alike(t[q], t[q])
  BY DEF Tree, Entry, Alike, IsDir
<1>2. \A q \in Holder(p) : IsDir(t, q)
  BY DEF Holder
<1>3. \A q \in Path : /\ Put(t, p, e)[q] \in Entry
                      /\ q # p => Alike(t[q], Put(t, p, e)[q])
  BY <1>1, <1>2 DEF Put, Tree
<1>4. Put(t, p, e)[p] = e
  BY DEF Put
<1>5. Put(t, p, e) = [q \in Path |-> Put(t, p, e)[q]]
  BY DEF Put
<1> QED
  BY <1>3, <1>4, <1>5 DEF Tree

-----------------------------------------------------------------------------
(* What a step of a run does to the copy.                                  *)

\* It changes the entry at x, and otherwise times of folders.
Edit(x) ==
  /\ x \in Path /\ local' \in Tree
  /\ \A q \in Path \ {x} : Alike(local[q], local'[q])
  /\ local[x].kind = goal[x].kind /\ Exists(goal, x) => local'[x].kind = local[x].kind
  /\ goal[x].kind = "file" => (local'[x].kind = "link" <=> local[x].kind = "link")
  /\ local'[x].kind = "link" => local'[x].to \in Path
  /\ local'[x].kind = "none" => local'[x] = NoEntry
  /\ Exists(local', x) => InFolders(x)
  /\ IsDir(local, x) => IsDir(local', x) \/ \A q \in Below(x) : ~Exists(local, q)

LEMMA EditTree ==
  ASSUME TypeOK, TreeInv, NEW x \in Path, Edit(x)
  PROVE  TreeInv'
<1> USE PathAssumption
<1>1. IsTree(local)'
  <2> SUFFICES ASSUME NEW p \in Path, Exists(local', p), NEW a \in Above[p]
               PROVE  IsDir(local', a)
    BY DEF IsTree, Exists, IsDir
  <2>1. a \in Path
    OBVIOUS
  <2>2. IsDir(local, a)
    <3>1. CASE p = x
      BY <3>1 DEF Edit, InFolders
    <3>2. CASE p # x
      BY <3>2 DEF Edit, Alike, TreeInv, IsTree, Exists
    <3> QED
      BY <3>1, <3>2
  <2>3. CASE a = x
    <3>1. p \in Below(x) /\ p # x
      BY <2>3 DEF Below
    <3>2. Exists(local, p)
      BY <3>1 DEF Edit, Alike, Exists
    <3> QED
      BY <2>2, <2>3, <3>1, <3>2 DEF Edit
  <2>4. CASE a # x
    BY <2>1, <2>2, <2>4 DEF Edit, Alike, IsDir
  <2> QED
    BY <2>3, <2>4
<1>2. ASSUME NEW p \in Path
      PROVE  /\ local'[p].kind = "none" => local'[p] = NoEntry
             /\ local'[p].kind = "link" => local'[p].to \in Path
  <2>1. CASE p = x
    BY <2>1 DEF Edit
  <2>2. CASE p # x
    BY <2>2 DEF Edit, Alike, TreeInv
  <2> QED
    BY <2>1, <2>2
<1> QED
  BY <1>1, <1>2 DEF TreeInv

\* What is of the kind the server has stays so, and so do links in the way.
LEMMA EditKinds ==
  ASSUME TypeOK, NEW x \in Path, Edit(x), goal' = goal
  PROVE  /\ \A L : RightLine(L) /\ Stays(L) => Stays(L)'
         /\ \A p \in Path : goal[p].kind = "dir" /\ IsDir(local, p) => IsDir(local', p)
         /\ LinkInTheWay' <=> LinkInTheWay
<1>1. ASSUME NEW p \in Path, local[p].kind = goal[p].kind, Exists(goal, p)
      PROVE  local'[p].kind = local[p].kind
  BY <1>1 DEF Edit, Alike
<1>2. ASSUME NEW L, RightLine(L), Stays(L)
      PROVE  Stays(L)'
  BY <1>1, <1>2 DEF RightLine, Stays, Line, Exists
<1>3. ASSUME NEW p \in Path, goal[p].kind = "dir", IsDir(local, p)
      PROVE  IsDir(local', p)
  BY <1>1, <1>3 DEF IsDir, Exists
<1>4. ASSUME NEW p \in Path, goal[p].kind = "file"
      PROVE  local'[p].kind = "link" <=> local[p].kind = "link"
  BY <1>4 DEF Edit, Alike
<1>5. LinkInTheWay' <=> LinkInTheWay
  BY <1>4 DEF LinkInTheWay
<1> QED
  BY <1>2, <1>3, <1>5

LEMMA SameEdit ==
  ASSUME TypeOK, TreeInv, NEW x \in Path, local' = local
  PROVE  Edit(x)
BY DEF Edit, TypeOK, TreeInv, IsTree, InFolders, Alike

LEMMA SetEdit ==
  ASSUME TypeOK, TreeInv, NEW x \in Path, NEW e \in Entry, Exists(local, x),
         local' = [local EXCEPT ![x] = e],
         e.kind = local[x].kind, e.to = local[x].to
  PROVE  Edit(x)
<1>1. /\ local \in Tree /\ local' \in Tree /\ local'[x] = e
      /\ \A q \in Path \ {x} : local'[q] = local[q]
  BY DEF TypeOK, Tree
<1>2. InFolders(x)
  BY DEF TreeInv, IsTree, InFolders
<1> QED
  BY <1>1, <1>2 DEF Edit, TreeInv, Alike, IsDir, Exists

LEMMA PutEdit ==
  ASSUME TypeOK, TreeInv, NEW x \in Path, NEW e \in Entry, InFolders(x),
         local' = Put(local, x, e),
         local[x].kind = goal[x].kind /\ Exists(goal, x) => e.kind = local[x].kind,
         goal[x].kind = "file" => local[x].kind # "link",
         e = NoEntry \/ e.kind \in {"file", "dir"},
         IsDir(local, x) => e.kind = "dir" \/ \A q \in Below(x) : ~Exists(local, q)
  PROVE  Edit(x)
<1>1. local \in Tree
  BY DEF TypeOK
<1>2. /\ local' \in Tree /\ local'[x] = e
      /\ \A q \in Path \ {x} : Alike(local[q], local'[q])
  BY <1>1, PutFacts DEF InFolders
<1> QED
  BY <1>2, Entries DEF Edit, IsDir

\* A link, or what is in no folder, is nothing's folder.
LEMMA NothingBelow ==
  ASSUME TreeInv, NEW x \in Path, ~IsDir(local, x)
  PROVE  \A q \in Below(x) : ~Exists(local, q)
BY DEF TreeInv, IsTree, Below

LEMMA ThereInFolders ==
  ASSUME TreeInv, NEW x \in Path, Exists(local, x)
  PROVE  InFolders(x)
BY DEF TreeInv, IsTree, InFolders

LEMMA FollowedPath ==
  ASSUME TypeOK, TreeInv, NEW p \in Path
  PROVE  /\ Followed(local, p) \in Path
         /\ goal[p].kind = "file" /\ ~LinkInTheWay => Followed(local, p) = p
BY DEF TreeInv, Followed, LinkInTheWay

LEMMA TakeEdits ==
  ASSUME SyncInv, NEW L \in todo, Take(L)
  PROVE  Edit(L.path)
<1>1. TypeOK /\ TreeInv /\ RightLine(L) /\ L.path \in Path
  BY DEF SyncInv, LinesInv, RightLine, Line
<1>2. CASE local' = local
  BY <1>1, <1>2, SameEdit
<1>3. CASE local' # local
  <2>1. IsDirItem(L) /\ local[L.path].kind = "link" /\ local' = Put(local, L.path, NoEntry)
    BY <1>3 DEF Take, Removed
  <2>2. goal[L.path].kind \in {"dir", "none"}
    BY <1>1, <2>1 DEF IsDirItem, RightLine, Line
  <2>3. InFolders(L.path) /\ ~IsDir(local, L.path)
    BY <1>1, <2>1, ThereInFolders DEF Exists, IsDir
  <2> QED
    BY <1>1, <2>1, <2>2, <2>3, Entries, PutEdit DEF Exists
<1> QED
  BY <1>2, <1>3

LEMMA DeleteEdits ==
  ASSUME SyncInv, Delete
  PROVE  /\ Edit(p0) /\ local'[p0] = NoEntry /\ goal[p0].kind = "none"
         /\ p0 \in Path
<1>1. /\ pc = "act" /\ line.op = "del." /\ ~Raises(line) /\ local' = Put(local, p0, NoEntry)
  BY DEF Delete, Handle, Removed
<1>2. /\ TypeOK /\ TreeInv /\ RightLine(line) /\ p0 \in Path /\ goal[p0].kind = "none"
      /\ line.kind \in {"file", "dir", "link"}
  BY <1>1 DEF SyncInv, LinesInv, RightLine, Line, Working, p0
<1>3. /\ Exists(local, p0)
      /\ IsDir(local, p0) => \A q \in Below(p0) : ~Exists(local, q)
  BY <1>1, <1>2 DEF Raises, p0, Exists, IsDir
<1>4. InFolders(p0)
  BY <1>2, <1>3, ThereInFolders
<1>5. Edit(p0)
  BY <1>1, <1>2, <1>3, <1>4, Entries, PutEdit DEF Exists
<1>6. local'[p0] = NoEntry
  BY <1>1, <1>2, <1>4, Entries, PutFacts DEF InFolders, TypeOK
<1> QED
  BY <1>2, <1>5, <1>6

LEMMA MakeFolderEdits ==
  ASSUME SyncInv, MakeFolder
  PROVE  /\ Edit(p0) /\ p0 \in Path /\ goal[p0].kind = "dir"
         /\ ~dry => local'[p0].kind = "dir"
         /\ local' # local => /\ line.new /\ ~dry /\ local[p0].kind = "none"
                              /\ local'[p0] = Folder(PermsToMode(goal[p0].mode))
<1>1. pc = "act" /\ line.op = "recv" /\ line.kind = "dir" /\ ~Raises(line)
  BY DEF MakeFolder, Handle
<1>2. /\ TypeOK /\ TreeInv /\ RightLine(line) /\ Stays(line) /\ p0 \in Path
      /\ goal[p0].kind = "dir"
  BY <1>1 DEF SyncInv, LinesInv, RightLine, Line, Working, p0
<1> DEFINE e == Folder(PermsToMode(goal[p0].mode))
<1>3. e \in Entry /\ e.kind = "dir"
  <2>1. goal[p0].mode \in Mode
    BY <1>2 DEF TypeOK, Tree, Entry
  <2> QED
    BY <2>1, Entries
<1> HIDE DEF e
<1>4. CASE line.new /\ ~dry /\ ~IsDir(local, p0)
  <2>1. InFolders(p0) /\ local[p0].kind = "none"
    <3>1. local[p0].kind \in {"none", "dir"} /\ InFolders(p0)
      BY <1>1, <1>4 DEF Raises, p0
    <3> QED
      BY <3>1, <1>4 DEF IsDir
  <2>2. local' = Put(local, p0, e)
    BY <1>4 DEF MakeFolder, e
  <2>3. Edit(p0)
    BY <1>2, <1>3, <1>4, <2>1, <2>2, PutEdit DEF Exists
  <2>4. local'[p0] = e
    BY <1>2, <1>3, <2>1, <2>2, PutFacts DEF InFolders, TypeOK
  <2> QED
    BY <1>2, <1>3, <1>4, <2>1, <2>3, <2>4 DEF e
<1>5. CASE ~(line.new /\ ~dry /\ ~IsDir(local, p0))
  <2>1. local' = local
    BY <1>5 DEF MakeFolder
  <2>2. ~dry => IsDir(local, p0)
    BY <1>1, <1>2, <1>5 DEF Stays, p0, IsDir
  <2> QED
    BY <1>2, <2>1, <2>2, SameEdit DEF IsDir
<1> QED
  BY <1>4, <1>5

LEMMA OpenFileEdits ==
  ASSUME SyncInv, OpenFile
  PROVE  LET q == Followed(local, p0)
         IN /\ Edit(q) /\ p0 \in Path /\ goal[p0].kind = "file" /\ q \in Path
            /\ ~dry => Exists(local', q) /\ Followed(local', p0) = q
            /\ line.size /\ ~dry => /\ local'[q].kind \in {"file", "link"}
                                    /\ local'[q].size = 0 /\ local'[q].time = Now
                                    /\ Exists(local, q) => local'[q].mode = local[q].mode
                                    /\ Exists(local, q) => local'[q].kind = local[q].kind
                                    /\ ~Exists(local, q) => local'[q].kind = "file"
            /\ ~(line.size /\ ~dry) => local' = local
<1> DEFINE q == Followed(local, p0)
<1>1. pc = "act" /\ line.op = "recv" /\ line.kind = "file" /\ ~Raises(line)
  BY DEF OpenFile, Handle
<1>2. /\ TypeOK /\ TreeInv /\ RightLine(line) /\ Stays(line) /\ p0 \in Path
      /\ goal[p0].kind = "file" /\ local \in Tree
  BY <1>1 DEF SyncInv, LinesInv, RightLine, Line, Working, p0, TypeOK
<1>3. q \in Path
  BY <1>2, FollowedPath
<1>4. local[p0].kind # "link" => q = p0
  BY DEF Followed
<1>5. local[p0].kind = "link" => q = local[p0].to
  BY DEF Followed
<1> HIDE DEF q
<1>6. CASE line.size /\ ~dry
  <2>1. InFolders(q) /\ ~IsDir(local, q)
    BY <1>1, <1>6 DEF Raises, p0, q
  <2>2. CASE Exists(local, q)
    <3> DEFINE e == [local[q] EXCEPT !.size = 0, !.time = Now]
    <3>1. /\ e \in Entry /\ e.kind = local[q].kind /\ e.to = local[q].to
          /\ e.size = 0 /\ e.time = Now /\ e.mode = local[q].mode
      BY <1>2, <1>3 DEF Tree, Entry
    <3>2. local' = [local EXCEPT ![q].size = 0, ![q].time = Now]
      BY <1>6, <2>2 DEF OpenFile, q
    <3>3. local' = [local EXCEPT ![q] = e]
      BY <1>2, <1>3, <3>2 DEF Tree, Entry
    <3> HIDE DEF e
    <3>4. Edit(q)
      BY <1>2, <1>3, <2>2, <3>1, <3>3, SetEdit
    <3>5. local'[q] = e /\ \A p \in Path : local'[p].kind = local[p].kind /\ local'[p].to = local[p].to
      BY <1>2, <1>3, <3>1, <3>3 DEF Tree
    <3>6. local[q].kind \in {"file", "link"}
      BY <1>2, <1>3, <2>1, <2>2 DEF Tree, Entry, IsDir, Exists
    <3>7. Followed(local', p0) = q
      BY <1>2, <1>4, <1>5, <3>5 DEF Followed
    <3> QED
      BY <1>2, <1>3, <1>6, <2>2, <3>1, <3>4, <3>5, <3>6, <3>7 DEF Exists, q
  <2>3. CASE ~Exists(local, q)
    <3>1. local' = Put(local, q, EmptyFile)
      BY <1>6, <2>3 DEF OpenFile, q
    <3>2. Edit(q)
      BY <1>2, <1>3, <2>1, <2>3, <3>1, Entries, PutEdit DEF Exists
    <3>3. local'[q] = EmptyFile /\ \A p \in Path \ {q} : Alike(local[p], local'[p])
      BY <1>2, <1>3, <2>1, <3>1, Entries, PutFacts DEF InFolders
    <3>4. Followed(local', p0) = q
      <4>1. CASE local[p0].kind = "link"
        <5>1. p0 # q
          BY <4>1, <2>3 DEF Exists
        <5> QED
          BY <4>1, <5>1, <1>2, <1>5, <3>3 DEF Followed, Alike
      <4>2. CASE local[p0].kind # "link"
        BY <4>2, <1>4, <3>3, Entries DEF Followed
      <4> QED
        BY <4>1, <4>2
    <3> QED
      BY <1>2, <1>3, <1>6, <2>3, <3>2, <3>3, <3>4, Entries DEF Exists, q
  <2> QED
    BY <2>2, <2>3
<1>7. CASE ~(line.size /\ ~dry)
  <2>1. local' = local
    BY <1>7 DEF OpenFile
  <2>2. ~dry => local[p0].kind = "file"
    BY <1>1, <1>2, <1>7 DEF RightLine, Stays, p0
  <2>3. ~dry => q = p0 /\ Followed(local', p0) = q /\ Exists(local', q)
    BY <1>4, <2>1, <2>2 DEF Followed, Exists
  <2> QED
    BY <1>2, <1>3, <1>7, <2>1, <2>3, SameEdit DEF q
<1> QED
  BY <1>6, <1>7

\* Setting a property of what is there keeps its kind and where it leads.
LEMMA SetEdits ==
  ASSUME SyncInv, NEW p \in Path, NEW x \in Path, NEW e \in Entry,
         x = Followed(local, p), Exists(local, x),
         local' = [local EXCEPT ![x] = e],
         e.kind = local[x].kind, e.to = local[x].to
  PROVE  /\ Edit(x) /\ local'[x] = e /\ Followed(local', p) = x /\ Exists(local', x)
         /\ \A q \in Path \ {x} : local'[q] = local[q]
<1>1. TypeOK /\ TreeInv /\ local \in Tree
  BY DEF SyncInv, TypeOK
<1>2. Edit(x)
  BY <1>1, SetEdit
<1>3. /\ local'[x] = e
      /\ \A q \in Path : local'[q].kind = local[q].kind /\ local'[q].to = local[q].to
      /\ \A q \in Path \ {x} : local'[q] = local[q]
  BY <1>1 DEF Tree
<1> QED
  BY <1>2, <1>3 DEF Followed, Exists

LEMMA WriteByteEdits ==
  ASSUME SyncInv, WriteByte
  PROVE  LET q == Followed(local, p0)
             g == goal[p0]
         IN /\ Edit(q) /\ p0 \in Path /\ q \in Path /\ g.kind = "file" /\ ~dry
            /\ local'[q] = [local[q] EXCEPT !.size = g.size, !.time = Now]
            /\ local'[q] \in Entry /\ local[q] \in Entry
            /\ Followed(local', p0) = q /\ Exists(local', q)
<1> DEFINE q == Followed(local, p0)
           g == goal[p0]
           e == [local[q] EXCEPT !.size = g.size, !.time = Now]
<1>1. pc = "write"
  BY DEF WriteByte
<1>2. /\ TypeOK /\ TreeInv /\ p0 \in Path /\ ~dry /\ g.kind = "file" /\ Exists(local, q)
      /\ local \in Tree /\ goal \in Tree
  BY <1>1 DEF SyncInv, LinesInv, StageInv, RightLine, Line, Working, Made, p0, TypeOK
<1>3. q \in Path
  BY <1>2, FollowedPath
<1> HIDE DEF q
<1>4. e \in Entry /\ e.kind = local[q].kind /\ e.to = local[q].to /\ local[q] \in Entry
  BY <1>2, <1>3 DEF Tree, Entry
<1>5. local' = [local EXCEPT ![q] = e]
  <2>1. local' = [local EXCEPT ![q].size = g.size, ![q].time = Now]
    BY DEF WriteByte, q
  <2> QED
    BY <2>1, <1>2, <1>3 DEF Tree, Entry
<1> HIDE DEF e
<1>6. /\ Edit(q) /\ local'[q] = e /\ Followed(local', p0) = q /\ Exists(local', q)
  BY <1>2, <1>3, <1>4, <1>5, SetEdits DEF q
<1> QED
  BY <1>2, <1>3, <1>4, <1>6 DEF q, e

LEMMA SetModeEdits ==
  ASSUME SyncInv, SetMode
  PROVE  LET q == Followed(local, p0)
             g == goal[p0]
         IN /\ Edit(q) /\ p0 \in Path /\ q \in Path /\ g.kind = line.kind
            /\ IF line.mode /\ ~dry
               THEN /\ local'[q] = [local[q] EXCEPT !.mode = PermsToMode(g.mode)]
                    /\ local'[q] \in Entry /\ local[q] \in Entry
               ELSE local' = local
            /\ ~dry => Followed(local', p0) = q /\ Exists(local', q)
<1> DEFINE q == Followed(local, p0)
           g == goal[p0]
           e == [local[q] EXCEPT !.mode = PermsToMode(g.mode)]
<1>1. pc = "chmod"
  BY DEF SetMode
<1>2. /\ TypeOK /\ TreeInv /\ p0 \in Path /\ g.kind = line.kind
      /\ ~dry => Exists(local, q)
      /\ local \in Tree /\ goal \in Tree
  BY <1>1 DEF SyncInv, LinesInv, StageInv, RightLine, Line, Working, Made, p0, TypeOK
<1>3. q \in Path
  BY <1>2, FollowedPath
<1>4. PermsToMode(g.mode) \in Mode
  BY <1>2, Entries DEF Tree, Entry
<1> HIDE DEF q
<1>5. CASE line.mode /\ ~dry
  <2>1. e \in Entry /\ e.kind = local[q].kind /\ e.to = local[q].to /\ local[q] \in Entry
    BY <1>2, <1>3, <1>4 DEF Tree, Entry
  <2>2. local' = [local EXCEPT ![q] = e]
    <3>1. local' = [local EXCEPT ![q].mode = PermsToMode(g.mode)]
      BY <1>5 DEF SetMode, q
    <3> QED
      BY <3>1, <1>2, <1>3 DEF Tree, Entry
  <2> HIDE DEF e
  <2>3. /\ Edit(q) /\ local'[q] = e /\ Followed(local', p0) = q /\ Exists(local', q)
    BY <1>2, <1>3, <1>5, <2>1, <2>2, SetEdits DEF q
  <2> QED
    BY <1>2, <1>3, <1>5, <2>1, <2>3 DEF q, e
<1>6. CASE ~(line.mode /\ ~dry)
  <2>1. local' = local
    BY <1>6 DEF SetMode
  <2> QED
    BY <1>2, <1>3, <1>6, <2>1, SameEdit DEF q
<1> QED
  BY <1>5, <1>6

LEMMA SetTimeEdits ==
  ASSUME SyncInv, SetTime
  PROVE  LET q == Followed(local, p0)
             g == goal[p0]
         IN /\ Edit(q) /\ p0 \in Path /\ q \in Path /\ g.kind = line.kind
            /\ IF line.kind = "file" /\ (line.time \/ line.size) /\ ~dry
               THEN /\ local'[q] = [local[q] EXCEPT !.time = g.time]
                    /\ local'[q] \in Entry /\ local[q] \in Entry
               ELSE local' = local
<1> DEFINE q == Followed(local, p0)
           g == goal[p0]
           e == [local[q] EXCEPT !.time = g.time]
           sets == line.kind = "file" /\ (line.time \/ line.size) /\ ~dry
<1>1. pc = "utime"
  BY DEF SetTime
<1>2. /\ TypeOK /\ TreeInv /\ p0 \in Path /\ g.kind = line.kind
      /\ ~dry => Exists(local, q)
      /\ local \in Tree /\ goal \in Tree
  BY <1>1 DEF SyncInv, LinesInv, StageInv, RightLine, Line, Working, Made, p0, TypeOK
<1>3. q \in Path
  BY <1>2, FollowedPath
<1> HIDE DEF q
<1>5. CASE sets
  <2>1. e \in Entry /\ e.kind = local[q].kind /\ e.to = local[q].to /\ local[q] \in Entry
    BY <1>2, <1>3 DEF Tree, Entry
  <2>2. local' = [local EXCEPT ![q] = e]
    <3>1. local' = [local EXCEPT ![q].time = g.time]
      BY <1>5 DEF SetTime, q
    <3> QED
      BY <3>1, <1>2, <1>3 DEF Tree, Entry
  <2> HIDE DEF e
  <2>3. Edit(q) /\ local'[q] = e
    BY <1>2, <1>3, <1>5, <2>1, <2>2, SetEdits DEF q
  <2> QED
    BY <1>2, <1>3, <1>5, <2>1, <2>3 DEF q, e
<1>6. CASE ~sets
  <2>1. local' = local
    BY <1>6 DEF SetTime
  <2> QED
    BY <1>2, <1>3, <1>6, <2>1, SameEdit DEF q
<1> QED
  BY <1>5, <1>6

\* The time of a folder: the copy stays alike.
LEMMA StampEdits ==
  ASSUME SyncInv, NEW p \in Path, StampFolder(p)
  PROVE  /\ Edit(p) /\ goal[p].kind = "dir"
         /\ \A q \in Path : Alike(local[q], local'[q])
<1>1. /\ TypeOK /\ TreeInv /\ stamps[p] # None /\ goal[p].kind = "dir"
      /\ ~dry => IsDir(local, p)
      /\ local \in Tree /\ stamps[p] \in Nat
  BY DEF SyncInv, StampInv, StampFolder, TypeOK
<1>2. CASE dry
  <2>1. local' = local
    BY <1>2 DEF StampFolder
  <2> QED
    BY <1>1, <2>1, SameEdit DEF Alike
<1>3. CASE ~dry
  <2> DEFINE e == [local[p] EXCEPT !.time = stamps[p]]
  <2>1. /\ e \in Entry /\ e.kind = local[p].kind /\ e.to = local[p].to
        /\ Alike(local[p], e)
    BY <1>1, <1>3 DEF Tree, Entry, Alike, IsDir
  <2>2. local' = [local EXCEPT ![p] = e]
    <3>1. local' = [local EXCEPT ![p].time = stamps[p]]
      BY <1>3 DEF StampFolder
    <3> QED
      BY <3>1, <1>1 DEF Tree, Entry
  <2> HIDE DEF e
  <2>3. Followed(local, p) = p /\ Exists(local, p)
    BY <1>1, <1>3 DEF Followed, IsDir, Exists
  <2>4. /\ Edit(p) /\ local'[p] = e /\ \A q \in Path \ {p} : local'[q] = local[q]
    BY <1>1, <2>1, <2>2, <2>3, SetEdits
  <2> QED
    BY <1>1, <2>1, <2>4 DEF Alike
<1> QED
  BY <1>2, <1>3

-----------------------------------------------------------------------------
(* The steps of a run.                                                     *)

\* What is not edited is as much behind as it was, and its line tells the same.
LEMMA Elsewhere ==
  ASSUME TypeOK, NEW x \in Path, Edit(x), goal' = goal
  PROVE  /\ \A L : RightLine(L) /\ Stays(L) /\ L.path # x /\ Pending(L) => Pending(L)'
         /\ \A p \in Path \ {x} : Agrees(local[p], goal[p]) => Agrees(local[p], goal[p])'
         /\ \A p \in Path \ {x} : Agrees(local[p], goal[p])' => Agrees(local[p], goal[p])
<1>1. ASSUME NEW L, RightLine(L), Stays(L), L.path # x, Pending(L)
      PROVE  Pending(L)'
  <2>1. Alike(local[L.path], local'[L.path])
    BY <1>1 DEF Edit, RightLine, Line
  <2> QED
    BY <1>1, <2>1 DEF Pending, RightLine, Stays, Alike, Line
<1>2. ASSUME NEW p \in Path \ {x}
      PROVE  Agrees(local[p], goal[p])' <=> Agrees(local[p], goal[p])
  BY <1>2 DEF Edit, Agrees, Alike
<1> QED
  BY <1>1, <1>2

\* A step of a run that changes one path, which it does not put behind, is a
\* step of FaithfulCopy.
LEMMA RunImplements ==
  ASSUME TypeOK, Running, UNCHANGED run, LinkInTheWay' <=> LinkInTheWay,
         Running' => rc' = rc /\ (Promised => Behind' \subseteq Behind),
         ~Running' => \/ rc' = "failed"
                      \/ rc' = "copied" /\ (Promised => Behind = {})
  PROVE  [Copy!Next]_(Copy!vars)
<1>1. Promised' <=> Promised
  BY DEF Promised, run
<1>2. CASE ~Promised
  BY <1>1, <1>2 DEF Copy!vars
<1>3. CASE Promised /\ Running'
  BY <1>1, <1>3 DEF Copy!Next, Copy!CatchUp
<1>4. CASE Promised /\ ~Running'
  BY <1>1, <1>4 DEF Copy!Next, Copy!GiveUp, Copy!Succeed
<1> QED
  BY <1>2, <1>3, <1>4

LEMMA BehindShrinks ==
  ASSUME TypeOK, NEW x \in Path, Edit(x), goal' = goal,
         Agrees(local[x], goal[x]) => Agrees(local[x], goal[x])'
  PROVE  Behind' \subseteq Behind
<1>1. \A p \in Path : Agrees(local[p], goal[p]) => Agrees(local[p], goal[p])'
  BY Elsewhere
<1> QED
  BY <1>1 DEF Behind

\* A run that gives up leaves everything as it is.
LEMMA StopKeeps ==
  ASSUME SyncInv, Stop, kills' \in 0..MaxKills,
         UNCHANGED <<server, local, run, stamps>>, todo' \subseteq todo,
         line' \in Line \cup {NoLine}
  PROVE  /\ SyncInv'
         /\ Running => [Copy!Next]_(Copy!vars)
<1>1. TypeOK'
  BY DEF SyncInv, TypeOK, Stop, server, run
<1>2. /\ pc' = "down" /\ ~Running' /\ ~Working' /\ ~Made'
  BY DEF Stop, Running, Working, Made
<1>3. GoalInv' /\ TreeInv' /\ StampInv'
  BY DEF SyncInv, GoalInv, TreeInv, StampInv, server, run, IsTree, Exists, IsDir
<1>4. \A L \in todo : RightLine(L)' /\ Stays(L)'
  BY DEF SyncInv, LinesInv, RightLine, Stays, run
<1>5. LinesInv' /\ StageInv' /\ ExactInv'
  BY <1>2, <1>4 DEF LinesInv, StageInv, ExactInv
<1>6. LinkInTheWay' <=> LinkInTheWay
  BY DEF LinkInTheWay, run
<1>7. Running => [Copy!Next]_(Copy!vars)
  BY <1>2, <1>6, RunImplements DEF SyncInv, Stop
<1> QED
  BY <1>1, <1>3, <1>5, <1>7 DEF SyncInv

LEMMA TakeKeeps ==
  ASSUME SyncInv, NEW L \in todo, Take(L)
  PROVE  SyncInv' /\ [Copy!Next]_(Copy!vars)
<1>1. /\ pc = "next" /\ Running /\ ~Working /\ todo' = todo \ {L} /\ line' = L
      /\ UNCHANGED <<server, run, stamps, kills>>
  BY DEF Take, Running, Working
<1>2. TypeOK /\ TreeInv /\ RightLine(L) /\ Stays(L) /\ L \in Line /\ L.path \in Path
  BY DEF SyncInv, LinesInv, RightLine, Line
<1>3. CASE Stop
  <2>1. UNCHANGED local
    BY <1>1, <1>3 DEF Take, Stop
  <2> QED
    BY <1>1, <1>2, <1>3, <2>1, StopKeeps DEF TypeOK
<1>4. CASE ~Stop
  <2>1. pc' = "act" /\ rc' = rc /\ Running' /\ Working' /\ ~Made'
    BY <1>1, <1>4 DEF Take, Running, Working, Made
  <2>2. goal' = goal /\ dry' = dry
    BY <1>1 DEF run
  <2>3. Edit(L.path)
    BY TakeEdits
  <2>4. /\ TreeInv'
        /\ \A M : RightLine(M) /\ Stays(M) => Stays(M)'
        /\ \A p \in Path : goal[p].kind = "dir" /\ IsDir(local, p) => IsDir(local', p)
        /\ LinkInTheWay' <=> LinkInTheWay
    BY <1>2, <2>2, <2>3, EditTree, EditKinds
  <2>5. TypeOK'
    BY <1>1, <1>2, <2>1, <2>3 DEF TypeOK, Edit, server, run
  <2>6. GoalInv' /\ StampInv' /\ StageInv'
    BY <1>1, <2>1, <2>2, <2>4 DEF SyncInv, GoalInv, StampInv, StageInv, server, IsDir
  <2>7. LinesInv'
    <3>1. \A M \in todo : RightLine(M)' /\ Stays(M)'
      BY <2>2, <2>4 DEF SyncInv, LinesInv, RightLine
    <3>2. \A M, N \in todo : M.path = N.path => M = N
      BY <1>1 DEF SyncInv, LinesInv
    <3> QED
      BY <1>1, <3>1, <3>2 DEF LinesInv
  <2>8. Agrees(local[L.path], goal[L.path]) => Agrees(local[L.path], goal[L.path])'
    <3>1. CASE local' = local
      BY <3>1, <2>2
    <3>2. CASE local' # local
      <4>1. local[L.path].kind = "link" /\ goal[L.path].kind \in {"dir", "none"}
        BY <1>2, <3>2 DEF Take, IsDirItem, RightLine, Line
      <4> QED
        BY <4>1 DEF Agrees
    <3> QED
      BY <3>1, <3>2
  <2>9. ASSUME Running', Promised'
        PROVE  /\ \A M \in todo' : Pending(M)'
               /\ Pending(line)'
               /\ \A p \in Path : Listed(p)' \/ Agrees(local[p], goal[p])'
    <3>1. Promised
      BY <2>2, <2>4, <2>9 DEF Promised
    <3>2. /\ \A M \in todo : Pending(M)
          /\ \A p \in Path : Listed(p) \/ Agrees(local[p], goal[p])
      BY <1>1, <3>1 DEF SyncInv, ExactInv
    <3>3. \A M \in todo : RightLine(M) /\ Stays(M) /\ (M.path = L.path => M = L)
      BY <1>1 DEF SyncInv, LinesInv
    <3>4. \A M \in todo' : Pending(M)'
      BY <1>1, <1>2, <2>2, <2>3, <3>2, <3>3, Elsewhere
    <3>5. Pending(L)'
      <4>1. CASE local' = local
        BY <4>1, <2>2, <3>2 DEF Pending
      <4>2. CASE local' # local
        <5>1. IsDirItem(L) /\ local[L.path].kind = "link"
              /\ local' = Removed(local, L.path)
          BY <4>2 DEF Take
        <5>2. L.op = "recv" => L.kind = "dir" /\ L.new
          BY <1>2, <5>1 DEF IsDirItem, RightLine, Stays, Line
        <5>3. local'[L.path].kind = "none"
          BY <1>2, <5>1, Entries DEF Removed, Put, TypeOK
        <5> QED
          BY <1>2, <2>2, <5>2, <5>3 DEF Pending, RightLine
      <4> QED
        BY <4>1, <4>2
    <3>6. ASSUME NEW p \in Path
          PROVE  Listed(p)' \/ Agrees(local[p], goal[p])'
      <4>1. CASE p = L.path
        BY <4>1, <1>1, <2>1 DEF Listed
      <4>2. CASE p # L.path
        <5>1. Listed(p) => Listed(p)'
          BY <4>2, <1>1 DEF Listed
        <5> QED
          BY <4>2, <5>1, <1>2, <2>2, <2>3, <3>2, Elsewhere
      <4> QED
        BY <4>1, <4>2
    <3> QED
      BY <1>1, <3>4, <3>5, <3>6
  <2>10. ExactInv'
    BY <2>1, <2>9 DEF ExactInv
  <2>11. Behind' \subseteq Behind
    BY <1>2, <2>2, <2>3, <2>8, BehindShrinks
  <2>12. [Copy!Next]_(Copy!vars)
    BY <1>1, <1>2, <2>1, <2>4, <2>11, RunImplements
  <2> QED
    BY <2>4, <2>5, <2>6, <2>7, <2>10, <2>12 DEF SyncInv
<1> QED
  BY <1>3, <1>4

LEMMA RaiseKeeps ==
  ASSUME SyncInv, Raise
  PROVE  SyncInv' /\ [Copy!Next]_(Copy!vars)
BY StopKeeps DEF Raise, Running, SyncInv, TypeOK

\* What the steps on a line have in common.  The copy is edited at x, which is
\* the path of the line when something is promised, and is not put behind.
LEMMA LineStepKeeps ==
  ASSUME SyncInv, Working, NEW x \in Path, Edit(x),
         pc' \in {"write", "chmod", "utime", "next"},
         UNCHANGED <<server, run, todo, line, rc, kills>>,
         stamps' \in [Path -> Nat \cup {None}],
         \A p \in Path : stamps'[p] # None /\ stamps'[p] # stamps[p] =>
           goal[p].kind = "dir" /\ (~dry => IsDir(local', p)),
         StageInv',
         Promised => /\ x = p0
                     /\ Agrees(local[p0], goal[p0]) => Agrees(local[p0], goal[p0])'
                     /\ pc' = "next" => Agrees(local[p0], goal[p0])'
                     /\ pc' # "next" => Progress(local[p0], goal[p0])'
  PROVE  SyncInv' /\ [Copy!Next]_(Copy!vars)
<1>1. /\ Running /\ Running' /\ pc' # "act" /\ (Working' <=> pc' # "next")
      /\ (Made' <=> pc' # "next")
  BY DEF Working, Made, Running
<1>2. goal' = goal /\ dry' = dry
  BY DEF run
<1>3. TypeOK /\ TreeInv
  BY DEF SyncInv
<1>4. /\ TreeInv'
      /\ \A M : RightLine(M) /\ Stays(M) => Stays(M)'
      /\ \A p \in Path : goal[p].kind = "dir" /\ IsDir(local, p) => IsDir(local', p)
      /\ LinkInTheWay' <=> LinkInTheWay
  BY <1>2, <1>3, EditTree, EditKinds
<1>5. TypeOK'
  BY <1>3 DEF TypeOK, Edit, server, run
<1>6. GoalInv'
  BY <1>2 DEF SyncInv, GoalInv, server
<1>7. StampInv'
  <2> SUFFICES ASSUME NEW p \in Path, stamps'[p] # None
               PROVE  goal[p].kind = "dir" /\ (~dry => IsDir(local', p))
    BY <1>2 DEF StampInv, IsDir
  <2> QED
    BY <1>4 DEF SyncInv, StampInv
<1>8. LinesInv'
  <2>1. \A M \in todo : RightLine(M)' /\ Stays(M)'
    BY <1>2, <1>4 DEF SyncInv, LinesInv, RightLine
  <2>2. RightLine(line)'
    BY <1>2 DEF SyncInv, LinesInv, RightLine
  <2> QED
    BY <1>1, <2>1, <2>2 DEF SyncInv, LinesInv
<1>9. ASSUME Promised'
      PROVE  /\ \A M \in todo' : Pending(M)'
             /\ \A p \in Path : Listed(p)' \/ Agrees(local[p], goal[p])'
             /\ Made' => Progress(local[line.path], goal[line.path])'
  <2>1. Promised
    BY <1>2, <1>4, <1>9 DEF Promised
  <2>2. /\ x = line.path
        /\ Agrees(local[x], goal[x]) => Agrees(local[x], goal[x])'
        /\ pc' = "next" => Agrees(local[line.path], goal[line.path])'
        /\ pc' # "next" => Progress(local[line.path], goal[line.path])'
    BY <2>1 DEF p0
  <2>3. /\ \A M \in todo : Pending(M)
        /\ \A p \in Path : Listed(p) \/ Agrees(local[p], goal[p])
    BY <1>1, <2>1 DEF SyncInv, ExactInv
  <2>4. \A M \in todo : RightLine(M) /\ Stays(M) /\ M.path # x
    BY <2>2 DEF SyncInv, LinesInv
  <2>5. \A M \in todo' : Pending(M)'
    BY <1>2, <1>3, <2>3, <2>4, Elsewhere
  <2>6. ASSUME NEW p \in Path
        PROVE  Listed(p)' \/ Agrees(local[p], goal[p])'
    <3>1. CASE p = x
      BY <3>1, <1>1, <2>2 DEF Listed
    <3>2. CASE p # x
      <4>1. Listed(p) => Listed(p)'
        BY <3>2, <2>2 DEF Listed
      <4> QED
        BY <3>2, <4>1, <1>2, <1>3, <2>3, Elsewhere
    <3> QED
      BY <3>1, <3>2
  <2> QED
    BY <1>1, <2>2, <2>5, <2>6
<1>10. ExactInv'
  BY <1>1, <1>9 DEF ExactInv
<1>11. Promised => Behind' \subseteq Behind
  <2> SUFFICES ASSUME Promised
               PROVE  Behind' \subseteq Behind
    OBVIOUS
  <2>1. Agrees(local[x], goal[x]) => Agrees(local[x], goal[x])'
    BY DEF p0
  <2> QED
    BY <1>2, <1>3, <2>1, BehindShrinks
<1>12. [Copy!Next]_(Copy!vars)
  BY <1>1, <1>3, <1>4, <1>11, RunImplements
<1> QED
  BY <1>4, <1>5, <1>6, <1>7, <1>8, <1>10, <1>12 DEF SyncInv

LEMMA DeleteKeeps ==
  ASSUME SyncInv, Delete
  PROVE  SyncInv' /\ [Copy!Next]_(Copy!vars)
<1>1. /\ pc = "act" /\ pc' = "next"
      /\ UNCHANGED <<server, run, todo, line, stamps, rc, kills>>
  BY DEF Delete, Handle, UpTo
<1>2. Edit(p0) /\ local'[p0] = NoEntry /\ goal[p0].kind = "none" /\ p0 \in Path
  BY DeleteEdits
<1>3. Agrees(local[p0], goal[p0])'
  <2>1. Agrees(local'[p0], goal[p0])
    BY <1>2, Entries DEF Agrees
  <2> QED
    BY <1>1, <2>1 DEF p0, run
<1>4. StageInv' /\ Working
  BY <1>1 DEF StageInv, Made, Working
<1>5. stamps' \in [Path -> Nat \cup {None}]
  BY <1>1 DEF SyncInv, TypeOK
<1> QED
  BY <1>1, <1>2, <1>3, <1>4, <1>5, LineStepKeeps

LEMMA MakeFolderKeeps ==
  ASSUME SyncInv, MakeFolder
  PROVE  SyncInv' /\ [Copy!Next]_(Copy!vars)
<1>1. /\ pc = "act" /\ pc' = "chmod" /\ line.op = "recv" /\ line.kind = "dir"
      /\ UNCHANGED <<server, run, todo, line, rc, kills>>
  BY DEF MakeFolder, Handle, UpTo
<1>2. /\ Edit(p0) /\ p0 \in Path /\ goal[p0].kind = "dir"
      /\ ~dry => local'[p0].kind = "dir"
      /\ local' # local => /\ line.new /\ ~dry /\ local[p0].kind = "none"
                           /\ local'[p0] = Folder(PermsToMode(goal[p0].mode))
  BY MakeFolderEdits
<1>3. Working /\ RightLine(line)
  BY <1>1 DEF SyncInv, LinesInv, Working
<1>4. StageInv'
  <2>1. ~dry => Exists(local', Followed(local', p0))
    BY <1>2 DEF Followed, Exists
  <2> QED
    BY <1>1, <2>1 DEF StageInv, p0, Followed, Exists, run
<1>5. goal[p0].time \in Nat
  BY <1>2, RemoteFacts DEF SyncInv, GoalInv
<1>6. stamps' \in [Path -> Nat \cup {None}]
  BY <1>2, <1>5 DEF MakeFolder, SyncInv, TypeOK
<1>7. ASSUME NEW p \in Path, stamps'[p] # None, stamps'[p] # stamps[p]
      PROVE  goal[p].kind = "dir" /\ (~dry => IsDir(local', p))
  <2>1. p = p0
    BY <1>7 DEF MakeFolder, SyncInv, TypeOK
  <2> QED
    BY <1>2, <2>1 DEF IsDir
<1>8. ASSUME Promised
      PROVE  /\ Agrees(local[p0], goal[p0]) => Agrees(local'[p0], goal[p0])
             /\ Progress(local[p0], goal[p0])'
  <2>1. ~dry /\ Pending(line) /\ Stays(line)
    BY <1>1, <1>8 DEF SyncInv, ExactInv, LinesInv, Promised, Running
  <2>2. ~line.mode => local[p0].mode = goal[p0].mode /\ local' = local
    BY <1>1, <1>2, <1>3, <2>1 DEF Pending, RightLine, p0
  <2>3. Agrees(local[p0], goal[p0]) => Agrees(local'[p0], goal[p0])
    BY <1>2 DEF Agrees
  <2>4. local'[p0].kind = goal[p0].kind /\ (~line.mode => local'[p0].mode = goal[p0].mode)
    BY <1>2, <2>1, <2>2
  <2>5. Progress(local[p0], goal[p0])'
    BY <1>1, <1>2, <2>4 DEF Progress, p0, run
  <2> QED
    BY <2>3, <2>5
<1>9. Agrees(local[p0], goal[p0])' = Agrees(local'[p0], goal[p0])
  BY <1>1 DEF p0, run
<1> QED
  BY <1>1, <1>2, <1>3, <1>4, <1>6, <1>7, <1>8, <1>9, LineStepKeeps

LEMMA SkipLinkKeeps ==
  ASSUME SyncInv, SkipLink
  PROVE  SyncInv' /\ [Copy!Next]_(Copy!vars)
<1>1. /\ pc = "act" /\ pc' = "next" /\ line.op = "recv" /\ line.kind = "link"
      /\ UNCHANGED <<server, local, run, todo, line, stamps, rc, kills>>
  BY DEF SkipLink, Handle, UpTo
<1>2. Working /\ StageInv' /\ stamps' \in [Path -> Nat \cup {None}]
  BY <1>1 DEF Working, StageInv, Made, SyncInv, TypeOK
<1>3. p0 \in Path /\ goal[p0].kind = "link"
  BY <1>1, <1>2 DEF SyncInv, LinesInv, RightLine, Line, p0
<1>4. Agrees(local[p0], goal[p0])'
  <2>1. Agrees(local[p0], goal[p0])
    BY <1>3 DEF Agrees
  <2> QED
    BY <1>1, <2>1 DEF p0, run
<1>5. Edit(p0)
  BY <1>1, <1>3, SameEdit DEF SyncInv
<1> QED
  BY <1>1, <1>2, <1>3, <1>4, <1>5, LineStepKeeps

LEMMA OpenFileKeeps ==
  ASSUME SyncInv, OpenFile
  PROVE  SyncInv' /\ [Copy!Next]_(Copy!vars)
<1> DEFINE q == Followed(local, p0)
           g == goal[p0]
<1>1. /\ pc = "act" /\ line.op = "recv" /\ line.kind = "file"
      /\ pc' = IF line.size /\ ~dry /\ g.size # 0 THEN "write" ELSE "chmod"
      /\ UNCHANGED <<server, run, todo, line, stamps, rc, kills>>
  BY DEF OpenFile, Handle, UpTo
<1>2. /\ Edit(q) /\ p0 \in Path /\ g.kind = "file" /\ q \in Path
      /\ ~dry => Exists(local', q) /\ Followed(local', p0) = q
      /\ line.size /\ ~dry => /\ local'[q].kind \in {"file", "link"}
                              /\ local'[q].size = 0 /\ local'[q].time = Now
                              /\ Exists(local, q) => local'[q].mode = local[q].mode
                              /\ Exists(local, q) => local'[q].kind = local[q].kind
                              /\ ~Exists(local, q) => local'[q].kind = "file"
      /\ ~(line.size /\ ~dry) => local' = local
  BY OpenFileEdits
<1>3. Working /\ RightLine(line) /\ TypeOK /\ TreeInv
  BY <1>1 DEF SyncInv, LinesInv, Working
<1>4. StageInv'
  <2>1. ~dry => Exists(local', Followed(local', p0))
    BY <1>2
  <2> QED
    BY <1>1, <2>1 DEF StageInv, p0, Followed, Exists, run
<1>5. stamps' \in [Path -> Nat \cup {None}]
  BY <1>1 DEF SyncInv, TypeOK
<1>6. ASSUME Promised
      PROVE  /\ q = p0
             /\ Agrees(local[p0], g) => Agrees(local'[p0], g)
             /\ Progress(local[p0], goal[p0])'
  <2>1. ~dry /\ Pending(line) /\ Stays(line)
    BY <1>1, <1>6 DEF SyncInv, ExactInv, LinesInv, Promised, Running
  <2>2. q = p0 /\ local[p0].kind # "link"
    BY <1>2, <1>3, <1>6, FollowedPath DEF Promised, LinkInTheWay
  <2>3. /\ line.new => local[p0].kind # "file" /\ line.size /\ line.mode
        /\ ~line.new => local[p0].kind = "file"
        /\ line.size <=> (local[p0].kind # "file" \/ local[p0].size # g.size)
        /\ ~line.time => local[p0].time = g.time
        /\ ~line.mode => local[p0].mode = g.mode
    BY <1>1, <1>2, <1>3, <2>1 DEF Pending, RightLine, Stays, p0
  <2>4. CASE line.size
    <3>1. ~Agrees(local[p0], g)
      BY <1>2, <2>3, <2>4 DEF Agrees
    <3>2. /\ local'[p0].kind = g.kind /\ local'[p0].size = 0 /\ local'[p0].time = Now
          /\ ~line.mode => local'[p0].mode = g.mode
      BY <1>2, <2>1, <2>2, <2>3, <2>4 DEF Exists
    <3>3. Progress(local[p0], goal[p0])'
      BY <1>1, <1>2, <2>1, <2>4, <3>2 DEF Progress, p0, run
    <3> QED
      BY <2>2, <3>1, <3>3
  <2>5. CASE ~line.size
    <3>1. local' = local
      BY <1>2, <2>5
    <3>2. Progress(local[p0], goal[p0])'
      BY <1>1, <1>2, <2>3, <2>5, <3>1 DEF Progress, p0, run
    <3> QED
      BY <2>2, <3>1, <3>2
  <2> QED
    BY <2>4, <2>5
<1>7. Agrees(local[p0], goal[p0])' = Agrees(local'[p0], g)
  BY <1>1 DEF p0, run
<1>8. /\ pc' \in {"write", "chmod", "utime", "next"} /\ pc' # "next"
      /\ UNCHANGED <<server, run, todo, line, rc, kills>> /\ stamps' = stamps
  BY <1>1
<1> HIDE DEF q, g
<1> QED
  BY <1>2, <1>3, <1>4, <1>5, <1>6, <1>7, <1>8, LineStepKeeps DEF g

LEMMA WriteByteKeeps ==
  ASSUME SyncInv, WriteByte
  PROVE  SyncInv' /\ [Copy!Next]_(Copy!vars)
<1> DEFINE q == Followed(local, p0)
           g == goal[p0]
<1>1. /\ pc = "write" /\ pc' = "chmod" /\ line.op = "recv" /\ line.kind = "file" /\ line.size
      /\ UNCHANGED <<server, run, todo, line, stamps, rc, kills>>
  BY DEF WriteByte, UpTo, SyncInv, StageInv, Made
<1>2. /\ Edit(q) /\ p0 \in Path /\ q \in Path /\ g.kind = "file" /\ ~dry
      /\ local'[q] = [local[q] EXCEPT !.size = g.size, !.time = Now]
      /\ local'[q] \in Entry /\ local[q] \in Entry
      /\ Followed(local', p0) = q /\ Exists(local', q)
  BY WriteByteEdits
<1>3. Working /\ TypeOK /\ TreeInv /\ stamps' \in [Path -> Nat \cup {None}]
  BY <1>1 DEF SyncInv, Working, TypeOK
<1>4. StageInv'
  <2>1. Exists(local', Followed(local', p0))
    BY <1>2
  <2> QED
    BY <1>1, <2>1 DEF StageInv, p0, Followed, Exists, run
<1>6. ASSUME Promised
      PROVE  /\ q = p0
             /\ Agrees(local[p0], g) => Agrees(local'[p0], g)
             /\ Progress(local[p0], goal[p0])'
  <2>1. q = p0
    BY <1>2, <1>3, <1>6, FollowedPath DEF Promised
  <2>2. Progress(local[p0], g)
    BY <1>1, <1>6 DEF SyncInv, ExactInv, Running, Made, p0
  <2>3. g.time # Now
    BY <1>2, RemoteFacts, EntryAssumption, PathAssumption DEF SyncInv, GoalInv
  <2>4. ~Agrees(local[p0], g)
    BY <1>1, <1>2, <2>2, <2>3 DEF Progress, Agrees
  <2>5. /\ local'[p0].kind = local[p0].kind /\ local'[p0].size = g.size
        /\ local'[p0].mode = local[p0].mode
    BY <1>2, <2>1 DEF Entry
  <2>6. Progress(local[p0], goal[p0])'
    BY <1>1, <1>2, <2>2, <2>5 DEF Progress, p0, run
  <2> QED
    BY <2>1, <2>4, <2>6
<1>7. Agrees(local[p0], goal[p0])' = Agrees(local'[p0], g)
  BY <1>1 DEF p0, run
<1>8. /\ pc' \in {"write", "chmod", "utime", "next"} /\ pc' # "next"
      /\ UNCHANGED <<server, run, todo, line, rc, kills>> /\ stamps' = stamps
  BY <1>1
<1> HIDE DEF q, g
<1> QED
  BY <1>2, <1>3, <1>4, <1>6, <1>7, <1>8, LineStepKeeps DEF g

LEMMA SetModeKeeps ==
  ASSUME SyncInv, SetMode
  PROVE  SyncInv' /\ [Copy!Next]_(Copy!vars)
<1> DEFINE q == Followed(local, p0)
           g == goal[p0]
<1>1. /\ pc = "chmod" /\ pc' = "utime" /\ line.op = "recv" /\ line.kind \in {"file", "dir"}
      /\ UNCHANGED <<server, run, todo, line, stamps, rc, kills>>
  BY DEF SetMode, UpTo, SyncInv, StageInv, Made
<1>2. /\ Edit(q) /\ p0 \in Path /\ q \in Path /\ g.kind = line.kind
      /\ IF line.mode /\ ~dry
         THEN /\ local'[q] = [local[q] EXCEPT !.mode = PermsToMode(g.mode)]
              /\ local'[q] \in Entry /\ local[q] \in Entry
         ELSE local' = local
      /\ ~dry => Followed(local', p0) = q /\ Exists(local', q)
  BY SetModeEdits
<1>3. Working /\ TypeOK /\ TreeInv /\ stamps' \in [Path -> Nat \cup {None}]
  BY <1>1 DEF SyncInv, Working, TypeOK
<1>4. StageInv'
  <2>1. ~dry => Exists(local', Followed(local', p0))
    BY <1>2
  <2> QED
    BY <1>1, <2>1 DEF StageInv, p0, Followed, Exists, run
<1>6. ASSUME Promised
      PROVE  /\ q = p0
             /\ Agrees(local[p0], g) => Agrees(local'[p0], g)
             /\ Progress(local[p0], goal[p0])'
  <2>1. Progress(local[p0], g) /\ ~dry
    BY <1>1, <1>6 DEF SyncInv, ExactInv, Running, Made, p0, Promised
  <2>2. q = p0
    <3>1. g.kind = "dir" => local[p0].kind = "dir"
      BY <2>1 DEF Progress
    <3> QED
      BY <1>1, <1>2, <1>3, <1>6, <3>1, FollowedPath DEF Promised, Followed
  <2>3. /\ local'[p0].kind = local[p0].kind /\ local'[p0].size = local[p0].size
        /\ local'[p0].time = local[p0].time
        /\ IF line.mode THEN local'[p0].mode = PermsToMode(g.mode)
           ELSE local'[p0].mode = local[p0].mode
    BY <1>2, <2>1, <2>2 DEF Entry
  <2>4. local'[p0].mode \in {g.mode, PermsToMode(g.mode)}
    BY <1>1, <2>1, <2>3 DEF Progress
  <2>5. Agrees(local[p0], g) => Agrees(local'[p0], g)
    BY <1>1, <1>2, <2>3, <2>4 DEF Agrees
  <2>6. Progress(local[p0], goal[p0])'
    BY <1>1, <1>2, <2>1, <2>3, <2>4 DEF Progress, p0, run
  <2> QED
    BY <2>2, <2>5, <2>6
<1>7. Agrees(local[p0], goal[p0])' = Agrees(local'[p0], g)
  BY <1>1 DEF p0, run
<1>8. /\ pc' \in {"write", "chmod", "utime", "next"} /\ pc' # "next"
      /\ UNCHANGED <<server, run, todo, line, rc, kills>> /\ stamps' = stamps
  BY <1>1
<1> HIDE DEF q, g
<1> QED
  BY <1>2, <1>3, <1>4, <1>6, <1>7, <1>8, LineStepKeeps DEF g

LEMMA SetTimeKeeps ==
  ASSUME SyncInv, SetTime
  PROVE  SyncInv' /\ [Copy!Next]_(Copy!vars)
<1> DEFINE q == Followed(local, p0)
           g == goal[p0]
           sets == line.kind = "file" /\ (line.time \/ line.size) /\ ~dry
<1>1. /\ pc = "utime" /\ pc' = "next" /\ line.op = "recv" /\ line.kind \in {"file", "dir"}
      /\ UNCHANGED <<server, run, todo, line, stamps, rc, kills>>
  BY DEF SetTime, UpTo, SyncInv, StageInv, Made
<1>2. /\ Edit(q) /\ p0 \in Path /\ q \in Path /\ g.kind = line.kind
      /\ IF sets
         THEN /\ local'[q] = [local[q] EXCEPT !.time = g.time]
              /\ local'[q] \in Entry /\ local[q] \in Entry
         ELSE local' = local
  BY SetTimeEdits
<1>3. Working /\ TypeOK /\ TreeInv /\ stamps' \in [Path -> Nat \cup {None}] /\ StageInv'
  BY <1>1 DEF SyncInv, Working, TypeOK, StageInv, Made
<1>6. ASSUME Promised
      PROVE  q = p0 /\ Agrees(local'[p0], g)
  <2>1. Progress(local[p0], g) /\ ~dry
    BY <1>1, <1>6 DEF SyncInv, ExactInv, Running, Made, p0, Promised
  <2>2. q = p0
    <3>1. g.kind = "dir" => local[p0].kind = "dir"
      BY <2>1 DEF Progress
    <3> QED
      BY <1>1, <1>2, <1>3, <1>6, <3>1, FollowedPath DEF Promised, Followed
  <2>3. /\ local[p0].kind = g.kind /\ local[p0].mode \in {g.mode, PermsToMode(g.mode)}
        /\ g.kind = "file" => /\ local[p0].size = g.size
                              /\ ~(line.time \/ line.size) => local[p0].time = g.time
    BY <1>1, <2>1 DEF Progress
  <2>4. CASE sets
    <3>1. /\ local'[p0].kind = local[p0].kind /\ local'[p0].size = local[p0].size
          /\ local'[p0].time = g.time /\ local'[p0].mode = local[p0].mode
      BY <1>2, <2>2, <2>4 DEF Entry
    <3> QED
      BY <1>1, <1>2, <2>2, <2>3, <3>1 DEF Agrees
  <2>5. CASE ~sets
    BY <1>1, <1>2, <2>1, <2>2, <2>3, <2>5 DEF Agrees
  <2> QED
    BY <2>4, <2>5
<1>7. Agrees(local[p0], goal[p0])' = Agrees(local'[p0], g)
  BY <1>1 DEF p0, run
<1>8. pc' = "next" /\ UNCHANGED <<server, run, todo, line, rc, kills>> /\ stamps' = stamps
  BY <1>1
<1> HIDE DEF q, g, sets
<1> QED
  BY <1>2, <1>3, <1>6, <1>7, <1>8, LineStepKeeps DEF g

LEMMA StampFolderKeeps ==
  ASSUME SyncInv, NEW p \in Path, StampFolder(p)
  PROVE  SyncInv' /\ [Copy!Next]_(Copy!vars)
<1>1. /\ pc = "next" /\ pc' = "next" /\ Running /\ Running' /\ ~Working /\ ~Working'
      /\ ~Made' /\ todo = {} /\ UNCHANGED <<server, run, todo, line, rc, kills>>
  BY DEF StampFolder, Running, Working, Made
<1>2. TypeOK /\ TreeInv /\ goal' = goal /\ dry' = dry
  BY <1>1 DEF SyncInv, run
<1>3. /\ Edit(p) /\ goal[p].kind = "dir"
      /\ \A q \in Path : Alike(local[q], local'[q])
  BY StampEdits
<1>4. /\ TreeInv'
      /\ \A q \in Path : goal[q].kind = "dir" /\ IsDir(local, q) => IsDir(local', q)
      /\ LinkInTheWay' <=> LinkInTheWay
  BY <1>2, <1>3, EditTree, EditKinds
<1>5. \A q \in Path : stamps'[q] \in {stamps[q], None}
  BY <1>2 DEF StampFolder, TypeOK
<1>6. TypeOK'
  <2>1. stamps' \in [Path -> Nat \cup {None}]
    BY <1>2 DEF StampFolder, TypeOK
  <2> QED
    BY <1>1, <1>2, <1>3, <2>1 DEF TypeOK, Edit, server, run
<1>7. GoalInv' /\ LinesInv' /\ StageInv'
  BY <1>1, <1>2 DEF SyncInv, GoalInv, LinesInv, StageInv, Made, server
<1>8. StampInv'
  <2> SUFFICES ASSUME NEW q \in Path, stamps'[q] # None
               PROVE  goal[q].kind = "dir" /\ (~dry => IsDir(local', q))
    BY <1>2 DEF StampInv, IsDir
  <2>1. stamps[q] # None
    BY <1>5
  <2> QED
    BY <2>1, <1>4 DEF SyncInv, StampInv
<1>9. \A q \in Path : Agrees(local[q], goal[q]) => Agrees(local[q], goal[q])'
  BY <1>2, <1>3 DEF Agrees, Alike
<1>10. ExactInv'
  <2> SUFFICES ASSUME Promised'
               PROVE  \A q \in Path : Listed(q)' \/ Agrees(local[q], goal[q])'
    BY <1>1 DEF ExactInv
  <2>1. Promised
    BY <1>2, <1>4 DEF Promised
  <2>2. \A q \in Path : Listed(q) \/ Agrees(local[q], goal[q])
    BY <1>1, <2>1 DEF SyncInv, ExactInv
  <2>3. \A q \in Path : ~Listed(q)
    BY <1>1 DEF Listed
  <2> QED
    BY <1>9, <2>2, <2>3
<1>11. Behind' \subseteq Behind
  BY <1>9 DEF Behind
<1>12. [Copy!Next]_(Copy!vars)
  BY <1>1, <1>2, <1>4, <1>11, RunImplements
<1> QED
  BY <1>4, <1>6, <1>7, <1>8, <1>10, <1>12 DEF SyncInv

LEMMA FinishKeeps ==
  ASSUME SyncInv, Finish
  PROVE  SyncInv' /\ [Copy!Next]_(Copy!vars)
<1>1. /\ pc = "next" /\ todo = {} /\ pc' = "asleep" /\ rc' = "copied"
      /\ Running /\ ~Running' /\ ~Working /\ ~Working' /\ ~Made'
      /\ UNCHANGED <<server, local, run, todo, line, stamps, kills>>
  BY DEF Finish, Running, Working, Made
<1>2. TypeOK'
  BY <1>1 DEF SyncInv, TypeOK, server, run
<1>3. GoalInv' /\ TreeInv' /\ StampInv' /\ LinesInv' /\ StageInv' /\ ExactInv'
  BY <1>1 DEF SyncInv, GoalInv, TreeInv, StampInv, LinesInv, StageInv, ExactInv, Made,
              server, run, IsTree, Exists, IsDir
<1>4. Promised => Behind = {}
  BY <1>1 DEF SyncInv, ExactInv, Listed, Behind
<1>5. LinkInTheWay' <=> LinkInTheWay
  BY <1>1 DEF LinkInTheWay, run
<1>6. [Copy!Next]_(Copy!vars)
  BY <1>1, <1>4, <1>5, RunImplements DEF SyncInv
<1> QED
  BY <1>2, <1>3, <1>6 DEF SyncInv

-----------------------------------------------------------------------------
(* The steps between runs.                                                 *)

\* What rsync lists is what differs, and how.
LEMMA ListKeeps ==
  ASSUME SyncInv, NEW d \in DryRuns, List(d)
  PROVE  SyncInv' /\ [Copy!Next]_(Copy!vars)
<1>1. /\ pc = "asleep" /\ pc' = "next" /\ rc' = "none" /\ dry' = d /\ goal' = remote
      /\ todo' = Listing(remote, local) /\ stamps' = NoStamps
      /\ ~Running /\ Running' /\ ~Working' /\ ~Made'
      /\ UNCHANGED <<server, local, line, kills>>
  BY DEF List, Running, Working, Made
<1>2. /\ TypeOK /\ TreeInv /\ remote \in RemoteTrees /\ remote \in Tree /\ local \in Tree
  BY DEF SyncInv, GoalInv, TypeOK
<1>3. ASSUME NEW p \in Path, Differs(remote, local, p),
             NEW L, L = LineFor(remote, local, p)
      PROVE  L.path = p /\ RightLine(L)' /\ Stays(L)' /\ Pending(L)'
  <2>1. remote[p] \in Entry /\ local[p] \in Entry
    BY <1>2 DEF Tree
  <2>2. CASE Exists(remote, p)
    <3> DEFINE new == local[p].kind # remote[p].kind
    <3>1. L = [op |-> "recv", path |-> p, kind |-> remote[p].kind, new |-> new,
               size |-> new \/ local[p].size # remote[p].size,
               time |-> new \/ (local[p].time # remote[p].time /\ remote[p].kind # "link"),
               mode |-> new \/ (local[p].mode # remote[p].mode /\ remote[p].kind # "link")]
      BY <1>3, <2>2 DEF LineFor
    <3>2. L \in Line
      BY <2>1, <2>2, <3>1 DEF Line, Entry, Exists
    <3>3. /\ L.op = "recv" /\ L.path = p /\ L.kind = remote[p].kind /\ L.new = new
          /\ L.size = (new \/ local[p].size # remote[p].size)
          /\ L.time = (new \/ (local[p].time # remote[p].time /\ remote[p].kind # "link"))
          /\ L.mode = (new \/ (local[p].mode # remote[p].mode /\ remote[p].kind # "link"))
      BY <3>1
    <3>4. RightLine(L)' /\ Stays(L)'
      BY <1>1, <3>2, <3>3 DEF RightLine, Stays
    <3>5. Pending(L)'
      BY <1>1, <3>3 DEF Pending
    <3> QED
      BY <3>3, <3>4, <3>5
  <2>3. CASE ~Exists(remote, p)
    <3>1. remote[p] = NoEntry
      BY <1>2, <2>3, RemoteFacts DEF Exists
    <3>2. local[p].kind # "none"
      <4>1. local[p].kind = "none" => local[p] = NoEntry
        BY <1>2 DEF TreeInv
      <4> QED
        BY <1>3, <3>1, <4>1 DEF Differs
    <3>3. L = [op |-> "del.", path |-> p, kind |-> local[p].kind, new |-> FALSE,
               size |-> FALSE, time |-> FALSE, mode |-> FALSE]
      BY <1>3, <2>3 DEF LineFor
    <3>4. L \in Line
      BY <2>1, <3>2, <3>3 DEF Line, Entry
    <3>5. L.op = "del." /\ L.path = p
      BY <3>3
    <3>6. RightLine(L)' /\ Stays(L)' /\ Pending(L)'
      BY <1>1, <2>3, <3>4, <3>5 DEF RightLine, Stays, Pending, Exists
    <3> QED
      BY <3>5, <3>6
  <2> QED
    BY <2>2, <2>3
<1>4. \A L \in todo' : \E p \in Path : Differs(remote, local, p) /\ L = LineFor(remote, local, p)
  BY <1>1 DEF Listing
<1>5. \A p \in Path : Differs(remote, local, p) => LineFor(remote, local, p) \in todo'
  BY <1>1 DEF Listing
<1>6. \A L \in todo' : RightLine(L)' /\ Stays(L)' /\ Pending(L)'
  BY <1>3, <1>4
<1>7. \A L, M \in todo' : L.path = M.path => L = M
  BY <1>3, <1>4
<1>8. ASSUME NEW p \in Path
      PROVE  Listed(p)' \/ Agrees(local[p], goal[p])'
  <2>1. CASE Differs(remote, local, p)
    BY <1>3, <1>5, <2>1 DEF Listed
  <2>2. CASE ~Differs(remote, local, p)
    <3>1. remote[p].kind \in {"none", "file", "dir", "link"}
      BY <1>2 DEF Tree, Entry
    <3>2. Agrees(local[p], remote[p])
      BY <2>2, <3>1 DEF Differs, Agrees
    <3> QED
      BY <1>1, <3>2
  <2> QED
    BY <2>1, <2>2
<1>9. TypeOK'
  <2>1. todo' \subseteq Line
    BY <1>6, <1>1 DEF RightLine
  <2>2. stamps' \in [Path -> Nat \cup {None}]
    BY <1>1 DEF NoStamps
  <2> QED
    BY <1>1, <1>2, <2>1, <2>2, PathAssumption DEF TypeOK, server
<1>10. GoalInv' /\ TreeInv' /\ StampInv' /\ StageInv'
  BY <1>1, <1>2 DEF GoalInv, TreeInv, StampInv, StageInv, NoStamps, server,
                    IsTree, Exists, IsDir, Made
<1>11. LinesInv'
  BY <1>1, <1>6, <1>7 DEF LinesInv
<1>12. ExactInv'
  BY <1>1, <1>6, <1>8 DEF ExactInv, Working
<1>13. [Copy!Next]_(Copy!vars)
  <2>1. Behind' \subseteq Path
    BY DEF Behind
  <2> QED
    BY <1>1, <2>1 DEF Copy!Next, Copy!Begin, Copy!Other
<1> QED
  BY <1>9, <1>10, <1>11, <1>12, <1>13 DEF SyncInv

\* Outside runs nothing is promised, and outcomes are failures or none.
LEMMA KillKeeps ==
  ASSUME SyncInv, Kill
  PROVE  SyncInv' /\ [Copy!Next]_(Copy!vars)
<1>1. /\ kills' \in 0..MaxKills /\ Stop
      /\ UNCHANGED <<server, local, run, todo, line, stamps>>
  BY PathAssumption DEF Kill, SyncInv, TypeOK
<1>2. SyncInv' /\ (Running => [Copy!Next]_(Copy!vars))
  BY <1>1, StopKeeps DEF SyncInv, TypeOK
<1>3. CASE ~Running
  <2>1. /\ ~Running' /\ rc' = "failed" /\ (Promised' <=> Promised)
    BY <1>1 DEF Stop, Running, Promised, LinkInTheWay, run
  <2> QED
    BY <1>2, <1>3, <2>1 DEF Copy!Next, Copy!Other
<1> QED
  BY <1>2, <1>3

LEMMA RestartKeeps ==
  ASSUME SyncInv, Restart
  PROVE  SyncInv' /\ [Copy!Next]_(Copy!vars)
<1>1. /\ pc = "down" /\ pc' = "asleep" /\ ~Running /\ ~Running' /\ ~Working' /\ ~Made'
      /\ UNCHANGED <<server, local, run, todo, line, stamps, rc, kills>>
  BY DEF Restart, Running, Working, Made
<1>2. TypeOK'
  BY <1>1 DEF SyncInv, TypeOK, server, run
<1>3. GoalInv' /\ TreeInv' /\ StampInv' /\ StageInv' /\ ExactInv'
  BY <1>1 DEF SyncInv, GoalInv, TreeInv, StampInv, StageInv, ExactInv,
              server, run, IsTree, Exists, IsDir
<1>4. LinesInv'
  BY <1>1 DEF SyncInv, LinesInv, RightLine, Stays, run
<1>5. Promised' <=> Promised
  BY <1>1 DEF Promised, LinkInTheWay, run
<1>6. UNCHANGED Copy!vars
  BY <1>1, <1>5 DEF Copy!vars
<1> QED
  BY <1>2, <1>3, <1>4, <1>6 DEF SyncInv

\* Whether or not a run goes on: it works towards the tree as it was listed.
LEMMA ServerChangesKeeps ==
  ASSUME SyncInv, ServerChanges
  PROVE  SyncInv' /\ [Copy!Next]_(Copy!vars)
<1>1. /\ remote' \in RemoteTrees /\ changes' \in 0..MaxChanges
      /\ UNCHANGED <<local, pc, run, todo, line, stamps, rc, kills>>
  BY PathAssumption DEF ServerChanges, SyncInv, TypeOK
<1>2. goal' = goal /\ dry' = dry
  BY <1>1 DEF run
<1>3. TypeOK'
  BY <1>1, <1>2, RemoteFacts DEF SyncInv, TypeOK
<1>4. GoalInv' /\ TreeInv' /\ StampInv' /\ StageInv' /\ LinesInv'
  BY <1>1, <1>2 DEF SyncInv, GoalInv, TreeInv, StampInv, StageInv, LinesInv, RightLine,
                    Stays, Working, Running, Made, IsTree, Exists, IsDir, Followed
<1>5. (Promised' <=> Promised) /\ Behind' = Behind /\ (Running' <=> Running)
  BY <1>1, <1>2 DEF Promised, LinkInTheWay, Behind, Running
<1>6. ExactInv'
  <2>1. \A p \in Path : Listed(p)' <=> Listed(p)
    BY <1>1 DEF Listed, Working
  <2>2. \A L : Pending(L)' <=> Pending(L)
    BY <1>1, <1>2 DEF Pending
  <2>3. Progress(local[line.path], goal[line.path])'
          <=> Progress(local[line.path], goal[line.path])
    BY <1>1, <1>2 DEF Progress
  <2> QED
    BY <1>1, <1>2, <1>5, <2>1, <2>2, <2>3 DEF SyncInv, ExactInv, Made, Working
<1>7. UNCHANGED Copy!vars
  BY <1>1, <1>5 DEF Copy!vars
<1> QED
  BY <1>3, <1>4, <1>6, <1>7 DEF SyncInv

LEMMA StutterKeeps ==
  ASSUME SyncInv, UNCHANGED vars
  PROVE  SyncInv' /\ [Copy!Next]_(Copy!vars)
<1>1. UNCHANGED <<remote, changes, local, pc, dry, goal, todo, line, stamps, rc, kills>>
  BY DEF vars, server, run
<1>2. TypeOK' /\ GoalInv' /\ TreeInv' /\ StampInv' /\ StageInv' /\ LinesInv'
  BY <1>1 DEF SyncInv, TypeOK, GoalInv, TreeInv, StampInv, StageInv, LinesInv, RightLine,
              Stays, Working, Running, Made, IsTree, Exists, IsDir, Followed
<1>3. (Promised' <=> Promised) /\ Behind' = Behind /\ (Running' <=> Running)
  BY <1>1 DEF Promised, LinkInTheWay, Behind, Running
<1>4. ExactInv'
  <2>1. \A p \in Path : Listed(p)' <=> Listed(p)
    BY <1>1 DEF Listed, Working
  <2>2. \A L : Pending(L)' <=> Pending(L)
    BY <1>1 DEF Pending
  <2>3. Progress(local[line.path], goal[line.path])'
          <=> Progress(local[line.path], goal[line.path])
    BY <1>1 DEF Progress
  <2> QED
    BY <1>1, <1>3, <2>1, <2>2, <2>3 DEF SyncInv, ExactInv, Made, Working
<1>5. UNCHANGED Copy!vars
  BY <1>1, <1>3 DEF Copy!vars
<1> QED
  BY <1>2, <1>4, <1>5 DEF SyncInv

LEMMA InitHolds ==
  ASSUME Init
  PROVE  SyncInv /\ Copy!Init
<1>1. /\ remote \in RemoteTrees /\ goal = remote /\ local \in Trees(Found)
      /\ pc = "asleep" /\ ~Running /\ ~Working /\ ~Made
  BY DEF Init, Running, Working, Made
<1>2. remote \in Tree /\ local \in Tree /\ TreeInv
  BY <1>1, RemoteFacts, FoundFacts DEF TreeInv
<1>3. TypeOK
  <2>1. 0 \in 0..MaxChanges /\ 0 \in 0..MaxKills
    BY PathAssumption
  <2>2. stamps \in [Path -> Nat \cup {None}] /\ todo \subseteq Line /\ dry \in BOOLEAN
    BY DEF Init, NoStamps
  <2>3. goal \in Tree /\ line \in Line \cup {NoLine} /\ rc = "none" /\ changes = 0 /\ kills = 0
    BY <1>1, <1>2 DEF Init
  <2> QED
    BY <1>1, <1>2, <2>1, <2>2, <2>3 DEF TypeOK
<1>4. GoalInv /\ LinesInv /\ StageInv /\ StampInv /\ ExactInv
  BY <1>1 DEF Init, GoalInv, LinesInv, StageInv, StampInv, ExactInv, NoStamps
<1>5. Copy!Init
  BY <1>1 DEF Init, Copy!Init
<1> QED
  BY <1>2, <1>3, <1>4, <1>5 DEF SyncInv

-----------------------------------------------------------------------------
(* The theorems.                                                           *)

LEMMA NextKeeps ==
  ASSUME SyncInv, [Next]_vars
  PROVE  SyncInv' /\ [Copy!Next]_(Copy!vars)
<1>1. CASE \E d \in DryRuns : List(d)
  BY <1>1, ListKeeps
<1>2. CASE Work
  <2>1. CASE TakeNext
    BY <2>1, TakeKeeps DEF TakeNext
  <2>2. CASE Raise
    BY <2>2, RaiseKeeps
  <2>3. CASE Delete
    BY <2>3, DeleteKeeps
  <2>4. CASE MakeFolder
    BY <2>4, MakeFolderKeeps
  <2>5. CASE SkipLink
    BY <2>5, SkipLinkKeeps
  <2>6. CASE OpenFile
    BY <2>6, OpenFileKeeps
  <2>7. CASE WriteByte
    BY <2>7, WriteByteKeeps
  <2>8. CASE SetMode
    BY <2>8, SetModeKeeps
  <2>9. CASE SetTime
    BY <2>9, SetTimeKeeps
  <2>10. CASE StampNext
    BY <2>10, StampFolderKeeps DEF StampNext
  <2>11. CASE Finish
    BY <2>11, FinishKeeps
  <2> QED
    BY <1>2, <2>1, <2>2, <2>3, <2>4, <2>5, <2>6, <2>7, <2>8, <2>9, <2>10, <2>11 DEF Work
<1>3. CASE Kill
  BY <1>3, KillKeeps
<1>4. CASE Restart
  BY <1>4, RestartKeeps
<1>5. CASE ServerChanges
  BY <1>5, ServerChangesKeeps
<1>6. CASE UNCHANGED vars
  BY <1>6, StutterKeeps
<1> QED
  BY <1>1, <1>2, <1>3, <1>4, <1>5, <1>6 DEF Next

\* The inductive invariant holds in every state, whatever was interrupted when.
THEOREM SyncInvariant == Spec => []SyncInv
<1>1. Init => SyncInv
  BY InitHolds
<1>2. SyncInv /\ [Next]_vars => SyncInv'
  BY NextKeeps
<1> QED
  BY <1>1, <1>2, PTL DEF Spec

\* The variables of sparse-sync and of both trees have their types.
THEOREM SyncTypeCorrect == Spec => []TypeOK
<1>1. SyncInv => TypeOK
  BY DEF SyncInv
<1> QED
  BY <1>1, SyncInvariant, PTL

\* sparse-sync implements FaithfulCopy: a path once brought up to date stays so
\* while the run lasts, and a run reports success only when all are.
THEOREM SyncIsFaithful == Spec => CopyIsFaithful
<1>1. Init => Copy!Init
  BY InitHolds
<1>2. SyncInv /\ [Next]_vars => [Copy!Next]_(Copy!vars)
  BY NextKeeps
<1> QED
  BY <1>1, <1>2, SyncInvariant, PTL DEF Spec, CopyIsFaithful, Copy!Spec

-----------------------------------------------------------------------------
(* Dry runs.                                                               *)

\* What deleting an entry does to the others.
LEMMA RemovedFacts ==
  ASSUME NEW t \in Tree, NEW x \in Path, NEW p \in Path
  PROVE  \/ Removed(t, x)[p] = t[p]
         \/ Removed(t, x)[p] = NoEntry
         \/ Removed(t, x)[p] = [t[p] EXCEPT !.time = Now]
  BY DEF Removed, Put

\* A run with --dry-run makes nothing and sets nothing, at whatever stage it
\* is and whatever killed runs left behind; it deletes, though.
THEOREM DryRunIsMild == Spec => DryRunOnlyDeletes
<1> DEFINE Spared(p) == \/ local'[p] = local[p]
                        \/ local'[p] = NoEntry
                        \/ local'[p] = [local[p] EXCEPT !.time = Now]
           A == dry /\ Running => \A p \in Path : Spared(p)
<1>1. SyncInv /\ [Next]_vars => [A]_vars
  <2> SUFFICES ASSUME SyncInv, Next, dry, Running, NEW p \in Path
               PROVE  Spared(p)
    OBVIOUS
  <2>1. local \in Tree /\ LinesInv /\ StageInv
    BY DEF SyncInv, TypeOK
  <2>2. ASSUME NEW x \in Path, local' = Removed(local, x) PROVE Spared(p)
    BY <2>1, <2>2, RemovedFacts
  <2>3. CASE local' = local
    BY <2>3
  <2> HIDE DEF Spared
  <2>4. ASSUME NEW L \in todo, Take(L) PROVE Spared(p)
    <3>1. L.path \in Path
      BY <2>1 DEF LinesInv, RightLine, Line
    <3> QED
      BY <2>2, <2>3, <2>4, <3>1 DEF Take
  <2>5. CASE Delete
    <3>1. line.path \in Path
      BY <2>1, <2>5 DEF Delete, Handle, Working, LinesInv, RightLine, Line
    <3> QED
      BY <2>2, <2>5, <3>1 DEF Delete, p0
  <2>6. CASE MakeFolder \/ OpenFile \/ SetMode \/ SetTime
    BY <2>3, <2>6 DEF MakeFolder, OpenFile, SetMode, SetTime
  <2>7. ~WriteByte
    BY <2>1 DEF StageInv, WriteByte
  <2>8. CASE StampNext
    BY <2>3, <2>8 DEF StampNext, StampFolder
  <2>9. CASE Raise \/ SkipLink \/ Finish \/ Kill \/ Restart \/ ServerChanges
    BY <2>3, <2>9 DEF Raise, SkipLink, Finish, Kill, Restart, ServerChanges
  <2>10. ASSUME NEW d \in DryRuns PROVE ~List(d)
    BY DEF List, Running
  <2> QED
    BY <2>4, <2>5, <2>6, <2>7, <2>8, <2>9, <2>10 DEF Next, Work, TakeNext
<1> QED
  BY <1>1, SyncInvariant, PTL DEF Spec, DryRunOnlyDeletes

=============================================================================
