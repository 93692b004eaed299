----------------------------- MODULE CopyProofs -----------------------------
(***************************************************************************)
(* Theorems about CopyDB, for any mirrors, files, source databases and      *)
(* options.                                                                *)
(***************************************************************************)
EXTENDS CopyDB, FiniteSetTheorems, SequenceTheorems, TLAPS

\* Servers are being copied, or have been; files are.
Stage == {"server", "files", "file", "hash"}
Filling == pc \in {"file", "hash"}

Listed(f) ==
  /\ f \in FId /\ run.file[f] # NoRow
  /\ IdsNamed(run.server, Master) \cap run.file[f].marks # {}

MarksRight(t) ==
  \A i \in DOMAIN t.file :
    /\ t.file[i].marks \subseteq DOMAIN t.server
    /\ {t.server[m] : m \in t.file[i].marks} = t.file[i].names

OwnHashes(t) ==
  \A i \in DOMAIN t.file : t.file[i].hash \in {None, t.file[i].path}

\* One of the first n rows is the copy of file f.
HasCopy(t, f, n) ==
  \E i \in 1..n : /\ t.file[i].path = run.file[f].path
                  /\ t.file[i].names = NamesOf(f)
                  /\ f \notin touched => t.file[i].hash = run.file[f].hash

\* A row of the source is below the sequence, and has its own hash.
SourceInv ==
  \A i \in FId : source.file[i] # NoRow =>
    i <= source.lastFile /\ source.file[i].hash \in {None, source.file[i].path}

\* A mirror has an id as soon as it is inserted, and it is the right one.
MapInv ==
  pc \in Stage => \A s \in SId :
    /\ idMap[s] # 0 => /\ idMap[s] \in DOMAIN work.server
                       /\ run.server[s] # None
                       /\ work.server[idMap[s]] = run.server[s]
    /\ run.server[s] # None => idMap[s] # 0 \/ (pc = "server" /\ s \in todo)

TodoInv ==
  /\ pc = "server" => todo \subseteq Named(run.server)
  /\ Filling => IdsNamed(run.server, Master) # {} /\ \A f \in todo : Listed(f)

\* The transaction changes one table.
WorkInv ==
  /\ pc = "server" => work.file = target.file
  /\ pc \in {"files", "file", "hash"} => work.server = target.server

MarksInv ==
  /\ ~halfway => MarksRight(target)
  /\ pc = "server" /\ ~run.truncate /\ ~halfway => MarksRight(work)
  /\ Filling /\ (run.truncate \/ ~halfway) => MarksRight(work)

\* An id of the source is the same file, or none any more.
ListInv ==
  Filling => \A f \in FId : run.file[f] # NoRow =>
    /\ f <= source.lastFile
    /\ source.file[f] # NoRow => source.file[f].path = run.file[f].path
    /\ f \notin touched => source.file[f] = run.file[f]

HashInv ==
  /\ OwnHashes(target)
  /\ pc \in Stage => OwnHashes(work)

\* What is listed is still to do or has its copy.
DoneInv ==
  /\ pc = "hash" =>
       /\ newId = Len(work.file) /\ newId > 0
       /\ \A f \in FId : Least(todo, f) =>
            /\ work.file[newId].path = run.file[f].path
            /\ work.file[newId].names = NamesOf(f)
            /\ work.file[newId].hash = None
  /\ Filling => \A f \in FId : Listed(f) =>
       f \in todo \/ HasCopy(work, f, IF pc = "hash" THEN newId - 1 ELSE Len(work.file))
  /\ Filling /\ run.truncate => \A i \in DOMAIN work.file :
       \E f \in FId : Listed(f) /\ work.file[i].path = run.file[f].path

StaticInv ==
  run.truncate =>
    /\ pc \in {"country", "region", "servers"} \cup Stage => held["version"] = 1
    /\ pc \in {"region", "servers"} \cup Stage => held["country"] = 1
    /\ pc \in {"servers"} \cup Stage => held["region"] = 1

\* CompletedCopyIsExact in the terms used here.
ExactInv ==
  pc = "idle" /\ rc = "copied" =>
    /\ \A f \in FId : Listed(f) => HasCopy(target, f, Len(target.file))
    /\ run.truncate =>
         /\ \A i \in DOMAIN target.file :
              \E f \in FId : Listed(f) /\ target.file[i].path = run.file[f].path
         /\ \A table \in Static : held[table] = 1

\* The inductive invariant.
CopyInv ==
  /\ TypeOK /\ SourceInv /\ MapInv /\ TodoInv /\ WorkInv /\ MarksInv
  /\ ListInv /\ HashInv /\ DoneInv /\ StaticInv /\ ExactInv

-----------------------------------------------------------------------------
(* Changes of the source.                                                  *)

\* What a change of the source may do to its files: those that are stay what
\* they are or go, new ones get new ids, and files names those that differ.
Evolves(new, files) ==
  /\ new \in Source /\ files \subseteq FId
  /\ new.lastFile >= source.lastFile
  /\ \A f \in FId : new.file[f] # NoRow =>
       /\ f <= new.lastFile /\ new.file[f].hash \in {None, new.file[f].path}
       /\ f <= source.lastFile =>
            source.file[f] # NoRow /\ new.file[f].path = source.file[f].path
  /\ \A f \in FId : f <= source.lastFile /\ f \notin files =>
       new.file[f] = source.file[f]

LEMMA SourceIds ==
  /\ FId \subseteq Nat
  /\ \A any \in Source : any.lastFile \in Nat
<1>1. FId \subseteq Nat
  BY CopyAssumption
<1>2. ASSUME NEW any \in Source
      PROVE  any.lastFile \in Nat
  <2>1. any.lastFile \in FId \cup {0}
    BY DEF Source
  <2>2. 0 \in Nat
    OBVIOUS
  <2> QED
    BY <1>1, <2>1, <2>2, Zenon
<1> QED
  BY <1>1, <1>2

LEMMA SourceEvolves ==
  ASSUME TypeOK, SourceInv, SourceChanges
  PROVE  \E new \in Source, files \in SUBSET FId :
           Evolves(new, files) /\ Change(new, files)
<1> USE CopyAssumption, SourceAssumption
<1>1. source \in Source
  BY DEF TypeOK
<1>2. ASSUME NEW name \in Name, AddServer(name)
      PROVE  \E new \in Source, files \in SUBSET FId :
               Evolves(new, files) /\ Change(new, files)
  <2> DEFINE new == [source EXCEPT !.server[source.lastServer + 1] = name,
                                   !.lastServer = source.lastServer + 1]
  <2>1. new \in Source /\ new.file = source.file /\ new.lastFile = source.lastFile
    BY <1>1, <1>2 DEF AddServer, Source
  <2>2. Evolves(new, {})
    BY <1>1, <2>1 DEF Evolves, SourceInv, Source
  <2> QED
    BY <1>2, <2>1, <2>2 DEF AddServer
<1>3. ASSUME NEW i \in SId, DropServer(i)
      PROVE  \E new \in Source, files \in SUBSET FId :
               Evolves(new, files) /\ Change(new, files)
  <2> DEFINE new == [source EXCEPT !.server[i] = None]
  <2>1. new \in Source /\ new.file = source.file /\ new.lastFile = source.lastFile
    BY <1>1 DEF Source
  <2>2. Evolves(new, {})
    BY <1>1, <2>1 DEF Evolves, SourceInv, Source
  <2> QED
    BY <1>3, <2>1, <2>2 DEF DropServer
<1>4. ASSUME NEW i \in SId, NEW f \in FId, ToggleMark(i, f)
      PROVE  \E new \in Source, files \in SUBSET FId :
               Evolves(new, files) /\ Change(new, files)
  <2> DEFINE marks == source.file[f].marks
             ms == IF i \in marks THEN marks \ {i} ELSE marks \cup {i}
             new == [source EXCEPT !.file[f].marks = ms]
  <2>1. source.file[f] \in SourceFile
    BY <1>1, <1>4 DEF ToggleMark, Source, Rows
  <2>2. ms \subseteq SId
    BY <2>1 DEF SourceFile
  <2> HIDE DEF ms
  <2>3. [source.file[f] EXCEPT !.marks = ms] \in SourceFile
    BY <2>1, <2>2 DEF SourceFile
  <2>4. /\ new \in Source /\ new.lastFile = source.lastFile
        /\ new.file = [source.file EXCEPT ![f] = [source.file[f] EXCEPT !.marks = ms]]
    BY <1>1, <2>3 DEF Source
  <2>5. Evolves(new, {f})
    BY <1>1, <2>1, <2>3, <2>4 DEF Evolves, SourceInv, Source, SourceFile
  <2>6. Change(new, {f})
    BY <1>4 DEF ToggleMark, ms
  <2> QED
    BY <2>4, <2>5, <2>6
<1>5. ASSUME NEW path \in Path, NEW i \in SId, AddFile(path, i)
      PROVE  \E new \in Source, files \in SUBSET FId :
               Evolves(new, files) /\ Change(new, files)
  <2> DEFINE n == source.lastFile + 1
             row == [path |-> path, marks |-> {i}, hash |-> None]
             new == [source EXCEPT !.file[n] = row, !.lastFile = n]
  <2>1. row \in SourceFile /\ row.hash = None
    BY DEF SourceFile
  <2>2. n \in FId /\ Change(new, {n})
    BY <1>5 DEF AddFile
  <2> HIDE DEF row
  <2>3. /\ new \in Source /\ new.lastFile = n
        /\ new.file = [source.file EXCEPT ![n] = row]
    BY <1>1, <2>1, <2>2 DEF Source
  <2>4. Evolves(new, {n})
    BY <1>1, <2>1, <2>2, <2>3 DEF Evolves, SourceInv, Source
  <2> QED
    BY <2>2, <2>3, <2>4
<1>6. ASSUME NEW f \in FId, DropFile(f)
      PROVE  \E new \in Source, files \in SUBSET FId :
               Evolves(new, files) /\ Change(new, files)
  <2> DEFINE new == [source EXCEPT !.file[f] = NoRow]
  <2>1. /\ new \in Source /\ new.lastFile = source.lastFile
        /\ new.file = [source.file EXCEPT ![f] = NoRow]
    BY <1>1 DEF Source
  <2>2. Evolves(new, {f})
    BY <1>1, <2>1 DEF Evolves, SourceInv, Source
  <2> QED
    BY <1>6, <2>1, <2>2 DEF DropFile
<1>7. ASSUME NEW f \in FId, RecordHash(f)
      PROVE  \E new \in Source, files \in SUBSET FId :
               Evolves(new, files) /\ Change(new, files)
  <2> DEFINE row == [source.file[f] EXCEPT !.hash = source.file[f].path]
             new == [source EXCEPT !.file[f] = row]
  <2>1. source.file[f] \in SourceFile
    BY <1>1, <1>7 DEF RecordHash, Source, Rows
  <2>2. row \in SourceFile /\ row.path = source.file[f].path /\ row.hash = row.path
    BY <2>1 DEF SourceFile
  <2>3. Change(new, {f})
    BY <1>1, <1>7, <2>1 DEF RecordHash, Source, SourceFile
  <2> HIDE DEF row
  <2>4. /\ new \in Source /\ new.lastFile = source.lastFile
        /\ new.file = [source.file EXCEPT ![f] = row]
    BY <1>1, <2>2 DEF Source
  <2>5. Evolves(new, {f})
    BY <1>1, <2>1, <2>2, <2>4 DEF Evolves, SourceInv, Source
  <2> QED
    BY <2>3, <2>4, <2>5
<1> QED
  BY <1>2, <1>3, <1>4, <1>5, <1>6, <1>7 DEF SourceChanges

\* The source may change under a copy at any time.
LEMMA SourceKeeps ==
  ASSUME CopyInv, SourceChanges
  PROVE  CopyInv'
<1> USE CopyAssumption, SourceAssumption
<1>1. PICK new \in Source, files \in SUBSET FId : Evolves(new, files) /\ Change(new, files)
  BY SourceEvolves DEF CopyInv
<1>2. /\ source' = new /\ target' = target /\ held' = held /\ work' = work /\ pc' = pc
      /\ run' = run /\ idMap' = idMap /\ newId' = newId /\ left' = left /\ todo' = todo
      /\ rc' = rc /\ halfway' = halfway /\ kills' = kills /\ changes' \in 0..MaxChanges
  BY <1>1 DEF Change, db, local, CopyInv, TypeOK
<1>3. /\ touched \subseteq touched' /\ touched' \subseteq FId
      /\ pc = "idle" => touched' = touched
      /\ pc # "idle" => files \subseteq touched'
  BY <1>1 DEF Change, Running, CopyInv, TypeOK
<1>4. TypeOK'
  BY <1>2, <1>3 DEF CopyInv, TypeOK
<1>5. SourceInv'
  BY <1>1, <1>2 DEF SourceInv, Evolves
<1>6. MapInv' /\ TodoInv' /\ WorkInv' /\ MarksInv' /\ HashInv' /\ StaticInv'
  BY <1>2 DEF CopyInv, MapInv, TodoInv, WorkInv, MarksInv, HashInv, StaticInv,
              Filling, Listed, Named, IdsNamed, MarksRight, OwnHashes
<1>7. ListInv'
  <2> SUFFICES ASSUME Filling, NEW f \in FId, run.file[f] # NoRow
               PROVE  /\ f <= new.lastFile
                      /\ new.file[f] # NoRow => new.file[f].path = run.file[f].path
                      /\ f \notin touched' => new.file[f] = run.file[f]
    BY <1>2 DEF ListInv, Filling
  <2>1. /\ f <= source.lastFile
        /\ source.file[f] # NoRow => source.file[f].path = run.file[f].path
        /\ f \notin touched => source.file[f] = run.file[f]
    BY DEF CopyInv, ListInv
  <2>2. f \in Nat /\ source.lastFile \in Nat /\ new.lastFile \in Nat
    BY SourceIds DEF CopyInv, TypeOK
  <2> QED
    BY <1>1, <1>3, <2>1, <2>2 DEF Evolves, Filling
<1>8. \A f \in FId : NamesOf(f)' = NamesOf(f) /\ Listed(f)' = Listed(f)
  BY <1>2 DEF NamesOf, Listed, IdsNamed
<1>9. DoneInv'
  <2>1. \A f \in FId : Least(todo, f)' = Least(todo, f)
    BY <1>2 DEF Least
  <2>3. DoneInv
    BY DEF CopyInv
  <2>4. ASSUME Filling, NEW f \in FId, Listed(f), f \notin todo
        PROVE  HasCopy(work, f, IF pc = "hash" THEN newId - 1 ELSE Len(work.file))'
    <3> DEFINE n == IF pc = "hash" THEN newId - 1 ELSE Len(work.file)
    <3>1. HasCopy(work, f, n)
      BY <2>3, <2>4 DEF DoneInv
    <3> HIDE DEF n
    <3>2. HasCopy(work, f, n)'
      BY <3>1, <1>2, <1>3, <1>8 DEF HasCopy, n
    <3> QED
      BY <3>2 DEF n
  <2> QED
    BY <1>2, <2>1, <1>8, <2>3, <2>4 DEF DoneInv, Filling
<1>10. ExactInv'
  BY <1>2, <1>3, <1>8 DEF CopyInv, ExactInv, HasCopy
<1> QED
  BY <1>4, <1>5, <1>6, <1>7, <1>9, <1>10 DEF CopyInv

\* A run that fails rolls back, and leaves the committed tables as they are.
LEMMA FailKeeps ==
  ASSUME CopyInv, Fail, kills' \in 0..MaxKills,
         UNCHANGED <<source, db, work, local, todo, history, changes>>
  PROVE  CopyInv'
<1>1. TypeOK'
  BY DEF CopyInv, TypeOK, Fail, db, local, history
<1>2. SourceInv' /\ MapInv' /\ TodoInv' /\ WorkInv' /\ ListInv' /\ DoneInv' /\ ExactInv'
  BY DEF CopyInv, SourceInv, MapInv, TodoInv, WorkInv, ListInv, DoneInv, ExactInv,
         Fail, Filling, Stage
<1>3. MarksInv' /\ HashInv' /\ StaticInv'
  BY DEF CopyInv, MarksInv, HashInv, StaticInv, MarksRight, OwnHashes,
         Fail, Filling, Stage, db, local, history
<1> QED
  BY <1>1, <1>2, <1>3 DEF CopyInv

-----------------------------------------------------------------------------
(* The steps of a run.                                                     *)

\* Outside the stages that fill the target.
Aside == pc \notin Stage

\* What holds of the tables goes on to hold while they stay and none is filled.
LEMMA AsideKeeps ==
  ASSUME CopyInv, TypeOK', Aside', pc' # "idle" \/ rc' # "copied",
         UNCHANGED <<source, target, halfway>>
  PROVE  /\ SourceInv' /\ MapInv' /\ TodoInv' /\ WorkInv' /\ MarksInv'
         /\ ListInv' /\ HashInv' /\ DoneInv' /\ ExactInv'
<1>1. SourceInv' /\ MapInv' /\ ListInv' /\ DoneInv' /\ ExactInv' /\ TodoInv' /\ WorkInv'
  BY DEF CopyInv, Aside, Stage, Filling, SourceInv, MapInv, ListInv, DoneInv, ExactInv,
         TodoInv, WorkInv
<1>2. MarksInv' /\ HashInv'
  BY DEF CopyInv, Aside, Stage, Filling, MarksInv, HashInv, MarksRight, OwnHashes
<1> QED
  BY <1>1, <1>2

LEMMA StartKeeps ==
  ASSUME CopyInv, NEW truncate \in Truncate, NEW keep \in Keep, Start(truncate, keep)
  PROVE  CopyInv'
<1>1. TypeOK'
  BY CopyAssumption DEF CopyInv, TypeOK, Start, Run, db, history, env
<1>2. StaticInv'
  BY DEF Start, StaticInv, Stage
<1>3. Aside' /\ pc' # "idle" /\ UNCHANGED <<source, target, halfway>>
  BY DEF Start, Aside, Stage, db, history
<1> QED
  BY <1>1, <1>2, <1>3, AsideKeeps DEF CopyInv

LEMMA NFilesIsNat ==
  ASSUME TypeOK
  PROVE  NFiles(source.server, source.file) \in Nat
<1>1. FilesOn(source.server, source.file) \subseteq FId
  BY DEF TypeOK, Source, FilesOn, Rows
<1> QED
  BY <1>1, CopyAssumption, FS_Subset, FS_CardinalityType DEF NFiles

LEMMA CountKeeps ==
  ASSUME CopyInv, Count
  PROVE  CopyInv'
<1>1. TypeOK'
  BY NFilesIsNat DEF CopyInv, TypeOK, Count, Run, Static, db, history, env
<1>2. StaticInv'
  BY DEF Count, StaticInv, Stage
<1>3. /\ Aside' /\ UNCHANGED <<source, target, halfway>>
      /\ pc' # "idle" \/ rc' # "copied"
  BY DEF Count, Aside, Stage, db, history
<1> QED
  BY <1>1, <1>2, <1>3, AsideKeeps DEF CopyInv

LEMMA CopyStaticKeeps ==
  ASSUME CopyInv, NEW t \in Static, CopyStatic(t)
  PROVE  CopyInv'
<1>1. held \in [Static -> 0..2]
  BY DEF CopyInv, TypeOK
<1>2. pc' \in {"country", "region", "servers"}
  BY DEF CopyStatic, After, Static
<1>3. TypeOK'
  BY <1>1, <1>2 DEF CopyInv, TypeOK, CopyStatic, local, history, env, Static
<1>4. StaticInv'
  BY <1>1, <1>2 DEF CopyInv, StaticInv, CopyStatic, After, Static, Stage, local
<1>5. Aside' /\ pc' # "idle" /\ UNCHANGED <<source, target, halfway>>
  BY <1>2 DEF CopyStatic, Aside, Stage, history
<1> QED
  BY <1>3, <1>4, <1>5, AsideKeeps DEF CopyInv

LEMMA ReadServersKeeps ==
  ASSUME CopyInv, ReadServers
  PROVE  CopyInv'
<1>1. source \in Source /\ target \in Target /\ run \in Run
  BY DEF CopyInv, TypeOK
<1>2. /\ work' \in Target /\ work'.file = target.file
      /\ ~run.truncate => work' = target
  <2>1. <<>> \in Seq(Name)
    BY EmptySeq
  <2> QED
    BY <1>1, <2>1 DEF ReadServers, Target
<1>3. /\ run' \in Run /\ run'.server = source.server /\ run'.truncate = run.truncate
  BY <1>1 DEF ReadServers, Run, Source
<1>4. /\ todo' = Named(source.server) /\ todo' \subseteq SId /\ pc' = "server"
      /\ idMap' = Unmapped /\ idMap' \in [SId -> Nat]
      /\ pc = "servers" /\ UNCHANGED <<source, target, held, rc, halfway, touched, env>>
      /\ newId' = newId /\ left' = left
  BY <1>1 DEF ReadServers, Named, Source, Unmapped, db, history
<1>5. TypeOK'
  BY <1>2, <1>3, <1>4 DEF CopyInv, TypeOK, env
<1>6. SourceInv' /\ WorkInv' /\ ListInv' /\ DoneInv' /\ ExactInv' /\ StaticInv'
  BY <1>2, <1>3, <1>4 DEF CopyInv, SourceInv, WorkInv, ListInv, DoneInv, ExactInv,
                          StaticInv, Filling, Stage
<1>7. MapInv' /\ TodoInv'
  BY <1>1, <1>3, <1>4 DEF MapInv, TodoInv, Filling, Unmapped, Named, Source
<1>8. MarksInv' /\ HashInv'
  BY <1>2, <1>3, <1>4 DEF CopyInv, MarksInv, HashInv, Filling, MarksRight, OwnHashes
<1> QED
  BY <1>5, <1>6, <1>7, <1>8 DEF CopyInv

LEMMA InsertServerKeeps ==
  ASSUME CopyInv, NEW i \in SId, InsertServer(i)
  PROVE  CopyInv'
<1>1. CASE Fail
  <2>1. UNCHANGED <<source, db, work, local, todo, history, env>>
    BY <1>1 DEF InsertServer, Fail, local
  <2> QED
    BY <1>1, <2>1, FailKeeps DEF env, CopyInv, TypeOK
<1>2. CASE ~Fail
  <2> DEFINE name == run.server[i]
             n == Len(work.server) + 1
  <2>1. work \in Target /\ work.server \in Seq(Name) /\ Len(work.server) \in Nat
    BY DEF CopyInv, TypeOK, Target
  <2>2. /\ pc = "server" /\ pc' = "server" /\ Least(todo, i) /\ todo' = todo \ {i}
        /\ work' = [work EXCEPT !.server = Append(@, name)]
        /\ idMap' = [idMap EXCEPT ![i] = n]
        /\ UNCHANGED <<source, target, held, run, newId, left, rc, halfway, touched, env>>
    BY <1>2 DEF InsertServer, Fail, db, history
  <2>3. run \in Run /\ name \in Name /\ i \in todo /\ todo \subseteq Named(run.server)
    BY <2>2 DEF CopyInv, TypeOK, TodoInv, Least, Named, Run
  <2>4. /\ work' \in Target /\ work'.file = work.file
        /\ work'.server = Append(work.server, name)
    <3> DEFINE servers == Append(work.server, name)
    <3>1. servers \in Seq(Name)
      BY <2>1, <2>3, AppendProperties
    <3>2. work' = [work EXCEPT !.server = servers]
      BY <2>2
    <3> HIDE DEF servers, name
    <3>3. work' \in Target /\ work'.file = work.file /\ work'.server = servers
      BY <2>1, <3>1, <3>2 DEF Target
    <3> QED
      BY <3>3 DEF servers
  <2>5. /\ DOMAIN work.server = 1..Len(work.server)
        /\ DOMAIN work'.server = 1..n /\ work'.server[n] = name
        /\ \A m \in DOMAIN work.server : work'.server[m] = work.server[m]
    BY <2>1, <2>3, <2>4
  <2>6. idMap \in [SId -> Nat] /\ idMap' \in [SId -> Nat]
    BY <2>1, <2>2 DEF CopyInv, TypeOK
  <2>7. TypeOK'
    BY <2>2, <2>4, <2>6 DEF CopyInv, TypeOK, env
  <2>8. SourceInv' /\ WorkInv' /\ ListInv' /\ DoneInv' /\ ExactInv' /\ StaticInv' /\ TodoInv'
    BY <2>2, <2>4 DEF CopyInv, SourceInv, WorkInv, ListInv, DoneInv, ExactInv,
                      StaticInv, TodoInv, Filling, Stage
  <2>9. MapInv'
    <3> SUFFICES ASSUME NEW s \in SId
                 PROVE  /\ idMap'[s] # 0 => /\ idMap'[s] \in DOMAIN work'.server
                                            /\ run.server[s] # None
                                            /\ work'.server[idMap'[s]] = run.server[s]
                        /\ run.server[s] # None => idMap'[s] # 0 \/ s \in todo'
      BY <2>2 DEF MapInv
    <3>1. CASE s = i
      BY <3>1, <2>1, <2>2, <2>3, <2>5, <2>6 DEF Named
    <3>2. CASE s # i
      <4>1. idMap'[s] = idMap[s] /\ (s \in todo => s \in todo')
        BY <3>2, <2>2, <2>6
      <4>2. /\ idMap[s] # 0 => /\ idMap[s] \in DOMAIN work.server
                               /\ run.server[s] # None
                               /\ work.server[idMap[s]] = run.server[s]
            /\ run.server[s] # None => idMap[s] # 0 \/ s \in todo
        BY <2>2 DEF CopyInv, MapInv, Stage
      <4> QED
        BY <4>1, <4>2, <2>1, <2>5
    <3> QED
      BY <3>1, <3>2
  <2>10. MarksRight(work) => MarksRight(work')
    <3> SUFFICES ASSUME MarksRight(work), NEW r \in DOMAIN work.file
                 PROVE  /\ work.file[r].marks \subseteq DOMAIN work'.server
                        /\ {work'.server[m] : m \in work.file[r].marks} = work.file[r].names
      BY <2>4 DEF MarksRight
    <3>1. /\ work.file[r].marks \subseteq DOMAIN work.server
          /\ {work.server[m] : m \in work.file[r].marks} = work.file[r].names
      BY DEF MarksRight
    <3>2. {work'.server[m] : m \in work.file[r].marks}
            = {work.server[m] : m \in work.file[r].marks}
      BY <3>1, <2>5
    <3> QED
      BY <3>1, <3>2, <2>1, <2>5
  <2>11. MarksInv' /\ HashInv'
    <3>1. (~halfway => MarksRight(target))' /\ OwnHashes(target)'
      BY <2>2 DEF CopyInv, MarksInv, HashInv, MarksRight, OwnHashes
    <3>2. MarksRight(work)' = MarksRight(work') /\ OwnHashes(work)' = OwnHashes(work)
      BY <2>4 DEF MarksRight, OwnHashes
    <3> QED
      BY <3>1, <3>2, <2>2, <2>10 DEF CopyInv, MarksInv, HashInv, Filling, Stage
  <2> QED
    BY <2>7, <2>8, <2>9, <2>11 DEF CopyInv
<1> QED
  BY <1>1, <1>2

LEMMA CommitServersKeeps ==
  ASSUME CopyInv, CommitServers
  PROVE  CopyInv'
<1>1. /\ pc = "server" /\ pc' = "files" /\ todo = {} /\ todo' = {} /\ target' = work
      /\ halfway' = (halfway \/ run.truncate)
      /\ UNCHANGED <<source, held, work, run, idMap, newId, left, rc, touched, env>>
  BY DEF CommitServers, local
<1>2. TypeOK'
  BY <1>1 DEF CopyInv, TypeOK, env
<1>3. SourceInv' /\ WorkInv' /\ ListInv' /\ DoneInv' /\ ExactInv' /\ StaticInv' /\ TodoInv'
  BY <1>1 DEF CopyInv, SourceInv, WorkInv, ListInv, DoneInv, ExactInv,
              StaticInv, TodoInv, Filling, Stage
<1>4. MapInv'
  BY <1>1 DEF CopyInv, MapInv, Stage
<1>5. MarksRight(target)' = MarksRight(work) /\ OwnHashes(target)' = OwnHashes(work)
      /\ OwnHashes(work)' = OwnHashes(work)
  BY <1>1 DEF MarksRight, OwnHashes
<1>6. MarksInv' /\ HashInv'
  BY <1>1, <1>5 DEF CopyInv, MarksInv, HashInv, Filling, Stage, TypeOK, Run
<1> QED
  BY <1>2, <1>3, <1>4, <1>6 DEF CopyInv

LEMMA ReadFilesKeeps ==
  ASSUME CopyInv, ReadFiles
  PROVE  CopyInv'
<1> DEFINE ids == IdsNamed(run.server, Master)
           wanted == {f \in Rows(source.file) : ids \cap source.file[f].marks # {}}
<1>1. CASE ids = {}
  <2>1. Fail /\ UNCHANGED <<source, db, work, local, todo, history, env>>
    BY <1>1 DEF ReadFiles, db, local, history
  <2> QED
    BY <2>1, FailKeeps DEF env, CopyInv, TypeOK
<1>2. CASE ids # {}
  <2>1. source \in Source /\ target \in Target /\ run \in Run /\ work \in Target
    BY DEF CopyInv, TypeOK
  <2>2. /\ pc = "files" /\ pc' = "file" /\ todo' = wanted /\ left' = run.count
        /\ run' = [run EXCEPT !.file = source.file]
        /\ work' = (IF run.truncate THEN [target EXCEPT !.file = <<>>] ELSE target)
        /\ touched' = {}
        /\ UNCHANGED <<source, target, held, idMap, newId, halfway, rc, env>>
    BY <1>2 DEF ReadFiles, db
  <2>3. /\ run' \in Run /\ run'.server = run.server /\ run'.file = source.file
        /\ run'.truncate = run.truncate /\ run'.keep = run.keep /\ run.count \in Nat
    BY <2>1, <2>2 DEF Run, Source
  <2>4. /\ work' \in Target /\ work'.server = target.server
        /\ work'.file = IF run.truncate THEN <<>> ELSE target.file
    <3>1. <<>> \in Seq(TargetFile)
      BY EmptySeq
    <3> QED
      BY <2>1, <2>2, <3>1 DEF Target
  <2>5. wanted \subseteq FId /\ \A f \in wanted : Listed(f)'
    BY <2>1, <2>3 DEF Rows, Source, Listed, IdsNamed
  <2>6. TypeOK'
    BY <2>2, <2>3, <2>4, <2>5 DEF CopyInv, TypeOK, env
  <2>7. work.server = target.server
    BY <2>2 DEF CopyInv, WorkInv
  <2>8. SourceInv' /\ WorkInv' /\ StaticInv' /\ ExactInv'
    BY <2>2, <2>3, <2>4 DEF CopyInv, SourceInv, WorkInv, StaticInv, ExactInv, Stage
  <2>9. MapInv'
    BY <2>2, <2>3, <2>4, <2>7 DEF CopyInv, MapInv, Stage
  <2>10. TodoInv'
    BY <1>2, <2>2, <2>3, <2>5 DEF TodoInv, Filling, IdsNamed
  <2>11. ListInv'
    BY <2>2, <2>3 DEF CopyInv, SourceInv, ListInv
  <2>12. DOMAIN work'.file = {} \/ ~run.truncate
    BY <2>4
  <2>13. DoneInv'
    <3>1. \A f \in FId : Listed(f)' => f \in todo'
      BY <2>1, <2>2, <2>3 DEF Listed, IdsNamed, Rows, Source
    <3> QED
      BY <2>2, <2>3, <2>12, <3>1 DEF DoneInv, Filling
  <2>14. MarksInv' /\ HashInv'
    <3>1. MarksRight(target)' = MarksRight(target) /\ OwnHashes(target)' = OwnHashes(target)
      BY <2>2 DEF MarksRight, OwnHashes
    <3>2. run.truncate => MarksRight(work)' /\ OwnHashes(work)'
      BY <2>4 DEF MarksRight, OwnHashes
    <3>3. ~run.truncate => MarksRight(work)' = MarksRight(target)
                           /\ OwnHashes(work)' = OwnHashes(target)
      BY <2>4 DEF MarksRight, OwnHashes
    <3> QED
      BY <2>2, <2>3, <3>1, <3>2, <3>3 DEF CopyInv, MarksInv, HashInv, Filling
  <2> QED
    BY <2>6, <2>8, <2>9, <2>10, <2>11, <2>13, <2>14 DEF CopyInv
<1> QED
  BY <1>1, <1>2

LEMMA CommitFilesKeeps ==
  ASSUME CopyInv, CommitFiles
  PROVE  CopyInv'
<1>1. /\ pc = "file" /\ pc' = "idle" /\ rc' = "copied" /\ todo = {} /\ target' = work
      /\ halfway' = (halfway /\ ~run.truncate)
      /\ UNCHANGED <<source, held, work, run, idMap, newId, left, todo, touched, env>>
  BY DEF CommitFiles, local
<1>2. TypeOK'
  BY <1>1 DEF CopyInv, TypeOK, env
<1>3. SourceInv' /\ WorkInv' /\ ListInv' /\ DoneInv' /\ StaticInv' /\ TodoInv' /\ MapInv'
  BY <1>1 DEF CopyInv, SourceInv, WorkInv, ListInv, DoneInv, StaticInv, TodoInv, MapInv,
              Filling, Stage
<1>4. MarksRight(target)' = MarksRight(work) /\ OwnHashes(target)' = OwnHashes(work)
  BY <1>1 DEF MarksRight, OwnHashes
<1>5. MarksInv' /\ HashInv'
  BY <1>1, <1>4 DEF CopyInv, MarksInv, HashInv, Filling, Stage, TypeOK, Run
<1>6. ExactInv'
  <2>1. \A f \in FId : Listed(f)' = Listed(f)
    BY <1>1 DEF Listed, IdsNamed
  <2>2. \A f \in FId : NamesOf(f)' = NamesOf(f)
    BY <1>1 DEF NamesOf
  <2>3. \A f \in FId : HasCopy(target, f, Len(target.file))'
                         = HasCopy(work, f, Len(work.file))
    BY <1>1, <2>2 DEF HasCopy
  <2>4. \A f \in FId : Listed(f) => HasCopy(work, f, Len(work.file))
    BY <1>1 DEF CopyInv, DoneInv, Filling
  <2>5. run.truncate => /\ \A i \in DOMAIN work.file :
                             \E f \in FId : Listed(f) /\ work.file[i].path = run.file[f].path
                        /\ \A t \in Static : held[t] = 1
    BY <1>1 DEF CopyInv, DoneInv, StaticInv, Filling, Stage, Static
  <2> QED
    BY <1>1, <2>1, <2>3, <2>4, <2>5 DEF ExactInv
<1> QED
  BY <1>2, <1>3, <1>5, <1>6 DEF CopyInv

\* The marks a file gets lead to the mirrors the source has it on.
LEMMA NewMarksAreRight ==
  ASSUME CopyInv, Filling, NEW f \in todo, ~Refused(f)
  PROVE  /\ NewMarks(f) \subseteq DOMAIN work.server
         /\ {work.server[m] : m \in NewMarks(f)} = NamesOf(f)
         /\ NamesOf(f) \subseteq Name
<1>1. /\ f \in FId /\ run.file[f] # NoRow /\ IdsNamed(run.server, Master) # {}
      /\ run \in Run
  BY DEF CopyInv, TypeOK, TodoInv, Listed
<1>2. run.file[f].marks \subseteq SId
  BY <1>1 DEF Run, SourceFile
<1>3. ASSUME NEW s \in SId, idMap[s] # 0
      PROVE  /\ idMap[s] \in DOMAIN work.server
             /\ work.server[idMap[s]] = run.server[s] /\ run.server[s] \in Name
  BY <1>1, <1>3 DEF CopyInv, MapInv, Filling, Stage, Run
<1>4. ASSUME NEW s \in SId, run.server[s] # None
      PROVE  idMap[s] # 0
  BY <1>4 DEF CopyInv, MapInv, Filling, Stage
<1>5. CASE run.keep
  <2>1. \A s \in run.file[f].marks : idMap[s] # 0
    BY <1>5 DEF Refused
  <2> QED
    BY <1>2, <1>3, <1>5, <2>1 DEF NewMarks, NamesOf
<1>6. CASE ~run.keep
  <2> DEFINE ids == IdsNamed(run.server, Master)
  <2>1. Master \in Name /\ Master # None
    BY CopyAssumption
  <2>2. \A s \in ids : s \in SId /\ run.server[s] = Master
    BY <1>1 DEF IdsNamed, Run
  <2>3. \A s \in ids : /\ idMap[s] \in DOMAIN work.server
                       /\ work.server[idMap[s]] = Master
    BY <1>3, <1>4, <2>1, <2>2
  <2>4. NewMarks(f) = {idMap[s] : s \in ids} /\ NamesOf(f) = {Master}
    BY <1>6 DEF NewMarks, NamesOf
  <2>5. ids # {}
    BY <1>1
  <2> HIDE DEF ids
  <2> QED
    BY <2>1, <2>3, <2>4, <2>5
<1> QED
  BY <1>5, <1>6

LEMMA InsertFileKeeps ==
  ASSUME CopyInv, NEW f \in FId, InsertFile(f)
  PROVE  CopyInv'
<1>1. CASE Refused(f)
  <2>1. Fail /\ UNCHANGED <<source, db, work, local, todo, history, env>>
    BY <1>1 DEF InsertFile, local
  <2> QED
    BY <2>1, FailKeeps DEF env, CopyInv, TypeOK
<1>2. CASE ~Refused(f)
  <2> DEFINE row == [path |-> run.file[f].path, marks |-> NewMarks(f), hash |-> None,
                     names |-> NamesOf(f)]
             n == Len(work.file) + 1
             files == Append(work.file, row)
  <2>1. /\ pc = "file" /\ pc' = "hash" /\ Least(todo, f)
        /\ work' = [work EXCEPT !.file = files] /\ newId' = n
        /\ UNCHANGED <<source, target, held, run, idMap, left, todo, rc, halfway, touched, env>>
    BY <1>2 DEF InsertFile, db, history
  <2>2. /\ f \in todo /\ run \in Run /\ run.file[f] \in SourceFile /\ work \in Target
    BY <2>1 DEF Least, CopyInv, TypeOK, TodoInv, Listed, Filling, Run
  <2>3. work.file \in Seq(TargetFile) /\ Len(work.file) \in Nat
    BY <2>2 DEF Target
  <2>4. /\ NewMarks(f) \subseteq DOMAIN work.server
        /\ {work.server[m] : m \in NewMarks(f)} = NamesOf(f)
        /\ NamesOf(f) \subseteq Name
    BY <1>2, <2>1, <2>2, NewMarksAreRight DEF Filling
  <2>5. DOMAIN work.server \subseteq Nat \ {0}
    BY <2>2 DEF Target
  <2>6. /\ row \in TargetFile /\ row.path = run.file[f].path /\ row.marks = NewMarks(f)
        /\ row.hash = None /\ row.names = NamesOf(f)
    BY <2>2, <2>4, <2>5 DEF TargetFile, SourceFile
  <2> HIDE DEF row
  <2>7. /\ files \in Seq(TargetFile) /\ Len(files) = n
        /\ DOMAIN files = 1..n /\ DOMAIN work.file = 1..Len(work.file)
        /\ files[n] = row /\ \A i \in 1..Len(work.file) : files[i] = work.file[i]
    BY <2>3, <2>6, AppendProperties
  <2> HIDE DEF files
  <2>8. /\ work' \in Target /\ work'.server = work.server /\ work'.file = files
    BY <2>1, <2>2, <2>7 DEF Target
  <2>9. TypeOK'
    BY <2>1, <2>3, <2>8 DEF CopyInv, TypeOK, env
  <2>10. \A g \in FId : /\ NamesOf(g)' = NamesOf(g)
                        /\ Listed(g)' = Listed(g) /\ Least(todo, g)' = Least(todo, g)
    BY <2>1 DEF NamesOf, Listed, IdsNamed, Least
  <2>11. SourceInv' /\ ExactInv' /\ StaticInv'
    BY <2>1 DEF CopyInv, SourceInv, ExactInv, StaticInv, Stage
  <2>12. MapInv' /\ WorkInv'
    BY <2>1, <2>8 DEF CopyInv, MapInv, WorkInv, Stage
  <2>13. TodoInv' /\ ListInv'
    <3>1. Filling' /\ Filling
      BY <2>1 DEF Filling
    <3>2. ListInv'
      BY <2>1, <3>1 DEF CopyInv, ListInv
    <3>3. IdsNamed(run.server, Master)' = IdsNamed(run.server, Master)
      BY <2>1 DEF IdsNamed
    <3>4. todo \subseteq FId
      BY <3>1 DEF CopyInv, TodoInv, Listed
    <3>5. TodoInv'
      BY <2>1, <2>10, <3>1, <3>3, <3>4 DEF CopyInv, TodoInv
    <3> QED
      BY <3>2, <3>5
  <2>14. MarksInv'
    <3>1. MarksRight(target)' = MarksRight(target)
      BY <2>1 DEF MarksRight
    <3>2. MarksRight(work) => MarksRight(work)'
      <4> SUFFICES ASSUME MarksRight(work), NEW i \in 1..n
                   PROVE  /\ files[i].marks \subseteq DOMAIN work.server
                          /\ {work.server[m] : m \in files[i].marks} = files[i].names
        BY <2>7, <2>8 DEF MarksRight
      <4>1. CASE i = n
        BY <4>1, <2>4, <2>6, <2>7
      <4>2. CASE i # n
        <5>1. i \in DOMAIN work.file /\ files[i] = work.file[i]
          BY <4>2, <2>3, <2>7
        <5>2. /\ work.file[i].marks \subseteq DOMAIN work.server
              /\ {work.server[m] : m \in work.file[i].marks} = work.file[i].names
          BY <5>1 DEF MarksRight
        <5> QED
          BY <5>1, <5>2
      <4> QED
        BY <4>1, <4>2
    <3> QED
      BY <2>1, <3>1, <3>2 DEF CopyInv, MarksInv, Filling
  <2>15. HashInv'
    <3>1. OwnHashes(target)' = OwnHashes(target)
      BY <2>1 DEF OwnHashes
    <3>2. OwnHashes(work)
      BY <2>1 DEF CopyInv, HashInv, Stage
    <3>3. OwnHashes(work)'
      <4> SUFFICES ASSUME NEW i \in 1..n
                   PROVE  files[i].hash \in {None, files[i].path}
        BY <2>7, <2>8 DEF OwnHashes
      <4>1. CASE i = n
        BY <4>1, <2>6, <2>7
      <4>2. CASE i # n
        BY <4>2, <3>2, <2>3, <2>7 DEF OwnHashes
      <4> QED
        BY <4>1, <4>2
    <3> QED
      BY <3>1, <3>3 DEF CopyInv, HashInv
  <2>16. DoneInv'
    <3> DEFINE last == Len(work.file)
    <3>1. n - 1 = last /\ newId' - 1 = last /\ Filling /\ Filling'
      BY <2>1, <2>3 DEF Filling
    <3>2. ASSUME NEW g \in FId, Least(todo, g)
          PROVE  files[n].path = run.file[g].path /\ files[n].names = NamesOf(g)
                 /\ files[n].hash = None
      <4>1. g = f
        BY <3>2, <2>1, SourceIds DEF Least
      <4> QED
        BY <4>1, <2>6, <2>7
    <3>3. ASSUME NEW g \in FId, Listed(g), g \notin todo
          PROVE  HasCopy(work, g, newId - 1)'
      <4>1. HasCopy(work, g, last)
        BY <2>1, <3>3, <3>1 DEF CopyInv, DoneInv
      <4>2. PICK i \in 1..last : /\ work.file[i].path = run.file[g].path
                                 /\ work.file[i].names = NamesOf(g)
                                 /\ g \notin touched => work.file[i].hash = run.file[g].hash
        BY <4>1 DEF HasCopy
      <4>3. i \in 1..Len(work'.file) /\ work'.file[i] = work.file[i]
        BY <2>3, <2>7, <2>8
      <4>4. \E j \in 1..last : /\ work'.file[j].path = run'.file[g].path
                               /\ work'.file[j].names = NamesOf(g)'
                               /\ g \notin touched' => work'.file[j].hash = run'.file[g].hash
        BY <2>1, <2>10, <4>2, <4>3
      <4> QED
        BY <3>1, <4>4 DEF HasCopy
    <3>4. ASSUME run.truncate, NEW i \in 1..n
          PROVE  \E g \in FId : Listed(g) /\ files[i].path = run.file[g].path
      <4>1. CASE i = n
        <5>1. Listed(f)
          BY <2>2, <3>1 DEF CopyInv, TodoInv
        <5> QED
          BY <4>1, <5>1, <2>6, <2>7
      <4>2. CASE i # n
        BY <3>1, <3>4, <4>2, <2>3, <2>7 DEF CopyInv, DoneInv
      <4> QED
        BY <4>1, <4>2
    <3>5. n > 0 /\ newId' = n /\ Len(work'.file) = n /\ DOMAIN work'.file = 1..n
      BY <2>1, <2>3, <2>7, <2>8
    <3> QED
      BY <2>1, <2>8, <2>10, <3>1, <3>2, <3>3, <3>4, <3>5 DEF DoneInv
  <2> QED
    BY <2>9, <2>11, <2>12, <2>13, <2>14, <2>15, <2>16 DEF CopyInv
<1> QED
  BY <1>1, <1>2

LEMMA CopyHashKeeps ==
  ASSUME CopyInv, NEW f \in FId, CopyHash(f)
  PROVE  CopyInv'
<1>1. CASE left = 0
  <2>1. Fail /\ UNCHANGED <<source, db, work, local, todo, history, env>>
    BY <1>1 DEF CopyHash, local
  <2> QED
    BY <2>1, FailKeeps DEF env, CopyInv, TypeOK
<1>2. CASE left # 0
  <2> DEFINE hash == IF source.file[f] = NoRow THEN work.file[newId].hash
                     ELSE source.file[f].hash
             row == [work.file[newId] EXCEPT !.hash = hash]
             files == [work.file EXCEPT ![newId] = row]
  <2>1. /\ pc = "hash" /\ pc' = "file" /\ Least(todo, f)
        /\ work' = (IF source.file[f] = NoRow THEN work
                    ELSE [work EXCEPT !.file[newId].hash = source.file[f].hash])
        /\ left' = left - 1 /\ todo' = todo \ {f}
        /\ UNCHANGED <<source, target, held, run, idMap, newId, rc, halfway, touched, env>>
    BY <1>2 DEF CopyHash, db, history
  <2>2. /\ f \in todo /\ run \in Run /\ run.file[f] # NoRow /\ run.file[f] \in SourceFile
        /\ work \in Target /\ left \in Nat /\ source \in Source
    BY <2>1 DEF Least, CopyInv, TypeOK, TodoInv, Listed, Filling, Run
  <2>3. work.file \in Seq(TargetFile) /\ newId = Len(work.file) /\ newId \in Nat /\ newId > 0
        /\ DOMAIN work.file = 1..newId /\ newId \in 1..newId
    BY <2>1, <2>2 DEF Target, CopyInv, DoneInv
  <2>4. /\ work.file[newId].path = run.file[f].path
        /\ work.file[newId].names = NamesOf(f)
        /\ work.file[newId].hash = None
    BY <2>1 DEF CopyInv, DoneInv
  <2>5. /\ source.file[f] # NoRow =>
             /\ source.file[f].path = run.file[f].path
             /\ source.file[f].hash \in {None, source.file[f].path}
        /\ f \notin touched => source.file[f] = run.file[f]
    BY <2>1, <2>2 DEF CopyInv, ListInv, SourceInv, Filling
  <2>6. /\ hash \in {None, run.file[f].path}
        /\ f \notin touched => hash = run.file[f].hash
    BY <2>2, <2>4, <2>5
  <2>7. run.file[f].path \in Path
    BY <2>2 DEF SourceFile
  <2>8. work.file[newId] \in TargetFile
    BY <2>3, ElementOfSeq
  <2>9. work' = [work EXCEPT !.file = files]
    <3>1. CASE source.file[f] = NoRow
      <4>1. row = work.file[newId]
        BY <3>1, <2>8 DEF TargetFile
      <4>2. files = work.file
        BY <4>1, <2>3
      <4> QED
        BY <3>1, <4>2, <2>1, <2>2 DEF Target
    <3>2. CASE source.file[f] # NoRow
      BY <3>2, <2>1
    <3> QED
      BY <3>1, <3>2
  <2> HIDE DEF hash
  <2>10. /\ row \in TargetFile /\ row.path = work.file[newId].path
         /\ row.marks = work.file[newId].marks /\ row.names = work.file[newId].names
         /\ row.hash = hash
    BY <2>6, <2>7, <2>8 DEF TargetFile
  <2> HIDE DEF row
  <2>11. /\ files \in Seq(TargetFile) /\ Len(files) = newId /\ DOMAIN files = 1..newId
         /\ files[newId] = row /\ \A i \in 1..newId : i # newId => files[i] = work.file[i]
    BY <2>3, <2>10
  <2>12. \A i \in 1..newId : /\ files[i].path = work.file[i].path
                             /\ files[i].marks = work.file[i].marks
                             /\ files[i].names = work.file[i].names
    BY <2>10, <2>11
  <2> HIDE DEF files
  <2>13. work' \in Target /\ work'.server = work.server /\ work'.file = files
    BY <2>2, <2>9, <2>11 DEF Target
  <2>14. TypeOK'
    BY <1>2, <2>1, <2>2, <2>13 DEF CopyInv, TypeOK, env
  <2>15. \A g \in FId : NamesOf(g)' = NamesOf(g) /\ Listed(g)' = Listed(g)
    BY <2>1 DEF NamesOf, Listed, IdsNamed
  <2>16. SourceInv' /\ ExactInv' /\ StaticInv'
    BY <2>1 DEF CopyInv, SourceInv, ExactInv, StaticInv, Stage
  <2>17. MapInv' /\ WorkInv'
    BY <2>1, <2>13 DEF CopyInv, MapInv, WorkInv, Stage
  <2>18. Filling /\ Filling'
    BY <2>1 DEF Filling
  <2>19. ListInv'
    BY <2>1, <2>18 DEF CopyInv, ListInv
  <2>20. TodoInv'
    <3>1. IdsNamed(run.server, Master)' = IdsNamed(run.server, Master)
      BY <2>1 DEF IdsNamed
    <3>2. todo \subseteq FId
      BY <2>18 DEF CopyInv, TodoInv, Listed
    <3> QED
      BY <2>1, <2>15, <2>18, <3>1, <3>2 DEF CopyInv, TodoInv
  <2>21. MarksInv'
    <3>1. MarksRight(target)' = MarksRight(target)
      BY <2>1 DEF MarksRight
    <3>2. MarksRight(work) => MarksRight(work)'
      <4> SUFFICES ASSUME MarksRight(work), NEW i \in 1..newId
                   PROVE  /\ files[i].marks \subseteq DOMAIN work.server
                          /\ {work.server[m] : m \in files[i].marks} = files[i].names
        BY <2>11, <2>13 DEF MarksRight
      <4>1. /\ work.file[i].marks \subseteq DOMAIN work.server
            /\ {work.server[m] : m \in work.file[i].marks} = work.file[i].names
        BY <2>3 DEF MarksRight
      <4> QED
        BY <4>1, <2>12
    <3> QED
      BY <2>1, <2>18, <3>1, <3>2 DEF CopyInv, MarksInv
  <2>22. HashInv'
    <3>1. OwnHashes(target)' = OwnHashes(target)
      BY <2>1 DEF OwnHashes
    <3>2. \A i \in 1..newId : work.file[i].hash \in {None, work.file[i].path}
      BY <2>1, <2>3 DEF CopyInv, HashInv, Stage, OwnHashes
    <3>3. files[newId].hash \in {None, files[newId].path}
      BY <2>4, <2>6, <2>10, <2>11
    <3>4. \A i \in 1..newId : files[i].hash \in {None, files[i].path}
      BY <2>11, <3>2, <3>3
    <3>5. OwnHashes(work)'
      BY <2>11, <2>13, <3>4 DEF OwnHashes
    <3> QED
      BY <3>1, <3>5 DEF CopyInv, HashInv
  <2>23. DoneInv'
    <3>1. ASSUME NEW g \in FId, Listed(g), g \notin todo'
          PROVE  HasCopy(work, g, Len(work.file))'
      <4>1. \E i \in 1..newId : /\ files[i].path = run.file[g].path
                                /\ files[i].names = NamesOf(g)
                                /\ g \notin touched => files[i].hash = run.file[g].hash
        <5>1. CASE g = f
          BY <5>1, <2>3, <2>4, <2>6, <2>10, <2>11
        <5>2. CASE g # f
          <6>1. HasCopy(work, g, newId - 1)
            BY <2>1, <2>18, <3>1, <5>2 DEF CopyInv, DoneInv
          <6>2. PICK i \in 1..(newId - 1) :
                       /\ work.file[i].path = run.file[g].path
                       /\ work.file[i].names = NamesOf(g)
                       /\ g \notin touched => work.file[i].hash = run.file[g].hash
            BY <6>1 DEF HasCopy
          <6>3. i \in 1..newId /\ files[i] = work.file[i]
            BY <2>3, <2>11
          <6> QED
            BY <6>2, <6>3
        <5> QED
          BY <5>1, <5>2
      <4>2. \E i \in 1..Len(work'.file) :
              /\ work'.file[i].path = run'.file[g].path
              /\ work'.file[i].names = NamesOf(g)'
              /\ g \notin touched' => work'.file[i].hash = run'.file[g].hash
        BY <2>1, <2>11, <2>13, <2>15, <4>1
      <4> QED
        BY <4>2 DEF HasCopy
    <3>2. ASSUME run.truncate, NEW i \in 1..newId
          PROVE  \E g \in FId : Listed(g) /\ files[i].path = run.file[g].path
      BY <2>3, <2>12, <2>18, <3>2 DEF CopyInv, DoneInv
    <3>3. DOMAIN work'.file = 1..newId /\ pc' # "hash"
      BY <2>1, <2>11, <2>13
    <3>4. ASSUME run'.truncate, NEW i \in DOMAIN work'.file
          PROVE  \E g \in FId : Listed(g)' /\ work'.file[i].path = run'.file[g].path
      <4>1. PICK g \in FId : Listed(g) /\ files[i].path = run.file[g].path
        BY <2>1, <3>2, <3>3, <3>4
      <4> QED
        BY <2>1, <2>13, <2>15, <4>1
    <3>5. \A g \in FId : Listed(g)' => g \in todo' \/ HasCopy(work, g, Len(work.file))'
      BY <2>15, <3>1
    <3> QED
      BY <3>3, <3>4, <3>5 DEF DoneInv
  <2> QED
    BY <2>14, <2>16, <2>17, <2>19, <2>20, <2>21, <2>22, <2>23 DEF CopyInv
<1> QED
  BY <1>1, <1>2

LEMMA KillKeeps ==
  ASSUME CopyInv, Kill
  PROVE  CopyInv'
<1>1. kills' \in 0..MaxKills
  BY CopyAssumption DEF Kill, CopyInv, TypeOK
<1> QED
  BY <1>1, FailKeeps DEF Kill

-----------------------------------------------------------------------------
(* The theorems.                                                           *)

LEMMA InitHolds ==
  ASSUME Init
  PROVE  CopyInv
<1>1. 0 \in 0..MaxChanges /\ 0 \in 0..MaxKills
  BY CopyAssumption
<1>2. PICK n \in {0, 1} : held = [t \in Static |-> n]
  BY DEF Init
<1>3. run \in Run /\ held \in [Static -> 0..2] /\ target \in Target /\ work \in Target
  <2>1. <<>> \in Seq(Name) /\ <<>> \in Seq(TargetFile)
    BY EmptySeq
  <2> QED
    BY <1>2, <2>1 DEF Init, Run, Target
<1>4. TypeOK
  BY <1>1, <1>3, SourceAssumption DEF Init, TypeOK, Unmapped
<1>5. SourceInv
  BY SourceAssumption DEF Init, SourceInv, IsSource
<1>6. target.file = <<>> /\ DOMAIN target.file = {}
  BY DEF Init
<1>7. MarksRight(target) /\ OwnHashes(target)
  BY <1>6 DEF MarksRight, OwnHashes
<1>8. /\ MapInv /\ TodoInv /\ WorkInv /\ MarksInv /\ ListInv /\ HashInv /\ DoneInv
      /\ StaticInv /\ ExactInv
  BY <1>7 DEF Init, MapInv, TodoInv, WorkInv, MarksInv, ListInv, HashInv, DoneInv,
              StaticInv, ExactInv, Filling, Stage
<1> QED
  BY <1>4, <1>5, <1>8 DEF CopyInv

LEMMA StutterKeeps ==
  ASSUME CopyInv, UNCHANGED vars
  PROVE  CopyInv'
<1>1. UNCHANGED <<source, target, held, work, pc, run, idMap, newId, left, todo, rc,
                  halfway, touched, changes, kills>>
  BY DEF vars, db, local, history, env
<1>2. TypeOK' /\ SourceInv' /\ MapInv' /\ TodoInv' /\ WorkInv' /\ MarksInv'
  BY <1>1 DEF CopyInv, TypeOK, SourceInv, MapInv, TodoInv, WorkInv, MarksInv, MarksRight,
              Filling, Listed, IdsNamed, Named
<1>3. ListInv' /\ HashInv' /\ StaticInv'
  BY <1>1 DEF CopyInv, ListInv, HashInv, StaticInv, OwnHashes, Filling
<1>4. \A f \in FId : /\ NamesOf(f)' = NamesOf(f)
                     /\ Listed(f)' = Listed(f) /\ Least(todo, f)' = Least(todo, f)
  BY <1>1 DEF NamesOf, Listed, IdsNamed, Least
<1>5. DoneInv' /\ ExactInv'
  BY <1>1, <1>4 DEF CopyInv, DoneInv, ExactInv, HasCopy, Filling
<1> QED
  BY <1>2, <1>3, <1>5 DEF CopyInv

\* The inductive invariant holds in every state, for every sequence of copies
\* that complete, fail or are killed while the source goes on changing.
THEOREM CopyInvariant == Spec => []CopyInv
<1>1. ASSUME CopyInv, [Next]_vars
      PROVE  CopyInv'
  <2>1. CASE \E truncate \in Truncate, keep \in Keep : Start(truncate, keep)
    BY <1>1, <2>1, StartKeeps
  <2>2. CASE Work
    <3>1. CASE Count
      BY <1>1, <3>1, CountKeeps
    <3>2. CASE \E t \in Static : CopyStatic(t)
      BY <1>1, <3>2, CopyStaticKeeps
    <3>3. CASE ReadServers
      BY <1>1, <3>3, ReadServersKeeps
    <3>4. CASE \E i \in SId : InsertServer(i)
      BY <1>1, <3>4, InsertServerKeeps
    <3>5. CASE CommitServers
      BY <1>1, <3>5, CommitServersKeeps
    <3>6. CASE ReadFiles
      BY <1>1, <3>6, ReadFilesKeeps
    <3>7. CASE \E f \in FId : InsertFile(f) \/ CopyHash(f)
      BY <1>1, <3>7, InsertFileKeeps, CopyHashKeeps
    <3>8. CASE CommitFiles
      BY <1>1, <3>8, CommitFilesKeeps
    <3> QED
      BY <2>2, <3>1, <3>2, <3>3, <3>4, <3>5, <3>6, <3>7, <3>8 DEF Work
  <2>3. CASE Kill
    BY <1>1, <2>3, KillKeeps
  <2>4. CASE SourceChanges
    BY <1>1, <2>4, SourceKeeps
  <2>5. CASE UNCHANGED vars
    BY <1>1, <2>5, StutterKeeps
  <2> QED
    BY <1>1, <2>1, <2>2, <2>3, <2>4, <2>5 DEF Next
<1> QED
  BY <1>1, InitHolds, PTL DEF Spec

\* The variables of copydb and of both databases have their types.
THEOREM CopyTypeCorrect == Spec => []TypeOK
<1>1. CopyInv => TypeOK
  BY DEF CopyInv
<1> QED
  BY <1>1, CopyInvariant, PTL

\* Marks are right in the target whatever ids the mirrors had at the source and
\* get, but for a --truncate copy that stopped between servers and files.
THEOREM MarksAreRight == Spec => []MarksNameTheirServers
<1>1. CopyInv => MarksNameTheirServers
  BY DEF CopyInv, MarksInv, MarksRight, MarksNameTheirServers
<1> QED
  BY <1>1, CopyInvariant, PTL

\* A copy that completed has what the source listed, with the right hashes, and
\* with --truncate nothing else.
THEOREM CopyIsExact == Spec => []CompletedCopyIsExact
<1>1. ASSUME CopyInv
      PROVE  CompletedCopyIsExact
  <2> DEFINE listed == {f \in Rows(run.file) :
                          IdsNamed(run.server, Master) \cap run.file[f].marks # {}}
  <2> SUFFICES ASSUME pc = "idle", rc = "copied"
               PROVE  /\ \A f \in listed :
                           \E i \in DOMAIN target.file :
                             /\ target.file[i].path = run.file[f].path
                             /\ target.file[i].names = NamesOf(f)
                             /\ f \notin touched => target.file[i].hash = run.file[f].hash
                      /\ \A i \in DOMAIN target.file :
                           /\ target.file[i].hash \in {None, target.file[i].path}
                           /\ run.truncate =>
                                target.file[i].path \in {run.file[f].path : f \in listed}
                      /\ run.truncate => \A table \in Static : held[table] = 1
    BY DEF CompletedCopyIsExact
  <2>1. /\ target.file \in Seq(TargetFile) /\ run \in Run
        /\ DOMAIN target.file = 1..Len(target.file)
    BY <1>1 DEF CopyInv, TypeOK, Target
  <2>2. \A f : f \in listed <=> f \in FId /\ Listed(f)
    BY <2>1 DEF Rows, Run, Listed
  <2>3. ASSUME NEW f \in listed
        PROVE  \E i \in DOMAIN target.file :
                 /\ target.file[i].path = run.file[f].path
                 /\ target.file[i].names = NamesOf(f)
                 /\ f \notin touched => target.file[i].hash = run.file[f].hash
    <3>1. HasCopy(target, f, Len(target.file))
      BY <1>1, <2>2 DEF CopyInv, ExactInv
    <3> QED
      BY <2>1, <3>1 DEF HasCopy
  <2>4. \A i \in DOMAIN target.file : target.file[i].hash \in {None, target.file[i].path}
    BY <1>1 DEF CopyInv, HashInv, OwnHashes
  <2>5. ASSUME run.truncate, NEW i \in DOMAIN target.file
        PROVE  target.file[i].path \in {run.file[f].path : f \in listed}
    <3>1. PICK f \in FId : Listed(f) /\ target.file[i].path = run.file[f].path
      BY <1>1, <2>5 DEF CopyInv, ExactInv
    <3> QED
      BY <2>2, <3>1
  <2>6. run.truncate => \A table \in Static : held[table] = 1
    BY <1>1 DEF CopyInv, ExactInv
  <2> QED
    BY <2>3, <2>4, <2>5, <2>6
<1> QED
  BY <1>1, CopyInvariant, PTL

=============================================================================
