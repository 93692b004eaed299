------------------------------- MODULE CopyDB -------------------------------
(***************************************************************************)
(* entrypoints/copydb.py: copy the mirrors, and the files of one of them    *)
(* with their hashes, from the database of a running instance to another.   *)
(* Rows get new ids.  Every statement on the source sees it as it is then;  *)
(* the target is written in five transactions, one after the other.         *)
(***************************************************************************)
EXTENDS Naturals, Sequences, FiniteSets

CONSTANTS Path, Name,   \* paths of files, identifiers of mirrors
          Master,       \* the mirror the copy is asked for
          SId, FId,     \* ids of the source: initial segments of 1, 2, ...
          Sources,      \* the source databases to begin with
          Truncate,     \* the values of --truncate a run may have
          Keep,         \* the values of --keep-onmirror-info
          MaxChanges,   \* bound on changes of the source
          MaxKills,     \* bound on signals and lost connections
          None, NoRow

\* A row of filearr with its row of hash.  Digests are those of a file, so the
\* path stands for them.  Nothing reads the order of marks, or tells NULL from {}.
SourceFile == [path : Path, marks : SUBSET SId, hash : Path \cup {None}]
\* names is history: the mirrors the marks were copied for.
TargetFile == [path : Path, marks : SUBSET (Nat \ {0}), hash : Path \cup {None},
               names : SUBSET Name]

Source == [server : [SId -> Name \cup {None}], file : [FId -> SourceFile \cup {NoRow}],
           lastServer : SId \cup {0}, lastFile : FId \cup {0}]
\* Its ids count from 1.  The gaps that rolled back inserts leave without
\* --truncate change nothing but numbers.
Target == [server : Seq(Name), file : Seq(TargetFile)]
Run == [truncate : BOOLEAN, keep : BOOLEAN, count : Nat,
        server : [SId -> Name \cup {None}], file : [FId -> SourceFile \cup {NoRow}]]
Static == {"version", "country", "region"}

Rows(t) == {i \in DOMAIN t : t[i] # NoRow}

\* Identifiers and paths are unique, ids are drawn in order, and digests are
\* those of their file.
IsSource(src) ==
  /\ \A i, j \in SId : src.server[i] = src.server[j] /\ src.server[i] # None => i = j
  /\ \A i, j \in Rows(src.file) : src.file[i].path = src.file[j].path => i = j
  /\ \A i \in SId : src.server[i] # None => i <= src.lastServer
  /\ \A i \in FId : src.file[i] # NoRow =>
       i <= src.lastFile /\ src.file[i].hash \in {None, src.file[i].path}

ASSUME CopyAssumption ==
  /\ SId \subseteq Nat \ {0} /\ FId \subseteq Nat \ {0}
  /\ IsFiniteSet(SId) /\ IsFiniteSet(FId)
  /\ Master \in Name /\ None \notin Name \cup Path
  /\ Truncate \subseteq BOOLEAN /\ Keep \subseteq BOOLEAN
  /\ MaxChanges \in Nat /\ MaxKills \in Nat

ASSUME SourceAssumption ==
  /\ NoRow \notin SourceFile
  /\ Sources \subseteq Source /\ \A src \in Sources : IsSource(src)

VARIABLES
  source,   \* the database copied from
  target,   \* the one copied to, as committed
  held,     \* how often it holds each static entry: 0, 1, or 2 for more
  work,     \* the target as the open transaction sees it
  pc, run,  \* the stage; the options and what was fetched from the source
  todo,     \* ids of the fetched rows not inserted yet
  idMap,    \* server_ids_map; 0 stands for no entry
  newId,    \* new_file_id
  left,     \* the items the progress bar has left
  rc,       \* how the last run ended
  halfway,  \* history: servers replaced, and the files not yet
  touched,  \* history: files of the source changed since they were listed
  changes, kills

env == <<changes, kills>>
db == <<target, held>>
local == <<run, idMap, newId, left>>
history == <<halfway, touched>>
vars == <<source, db, work, pc, local, todo, rc, history, env>>

-----------------------------------------------------------------------------
(* Tables.                                                                 *)

Named(t) == {i \in DOMAIN t : t[i] # None}
IdsNamed(t, name) == {i \in DOMAIN t : t[i] = name}
Least(ids, i) == i \in ids /\ \A j \in ids : i <= j

\* mirr_get_nfiles: an identifier nobody has is on no file.
FilesOn(servers, files) ==
  {i \in Rows(files) : IdsNamed(servers, Master) \cap files[i].marks # {}}

\* Mutant of NFiles: the rows of hash are counted.
NFilesHashed(servers, files) ==
  Cardinality({i \in FilesOn(servers, files) : files[i].hash # None})

NFiles(servers, files) == Cardinality(FilesOn(servers, files))

Unmapped == [i \in SId |-> 0]

-----------------------------------------------------------------------------
(* run().                                                                  *)

Running == pc # "idle"

\* The exception rolls the open transaction back and is caught in entrypoint.
Fail == pc' = "idle" /\ rc' = "failed"

Start(truncate, keep) ==
  /\ pc = "idle"
  /\ pc' = "count" /\ rc' = "none"
  /\ run' = [run EXCEPT !.truncate = truncate, !.keep = keep]
  /\ UNCHANGED <<source, db, work, idMap, newId, left, todo, history, env>>

Count ==
  LET count == NFiles(source.server, source.file)
  IN /\ pc = "count"
     /\ run' = [run EXCEPT !.count = count]
     /\ IF NFiles(target.server, target.file) > count
        THEN pc' = "idle" /\ rc' = "refused"
        ELSE pc' = "version" /\ UNCHANGED rc
     /\ UNCHANGED <<source, db, work, idMap, newId, left, todo, history, env>>

After == [version |-> "country", country |-> "region", region |-> "servers"]

\* One transaction per table.  Only version is always replaced.
CopyStatic(table) ==
  /\ pc = table
  /\ held' = [held EXCEPT ![table] =
                IF run.truncate \/ table = "version" \/ @ = 0 THEN 1 ELSE 2]
  /\ pc' = After[table]
  /\ UNCHANGED <<source, target, work, local, todo, rc, history, env>>

ReadServers ==
  /\ pc = "servers"
  /\ run' = [run EXCEPT !.server = source.server]
  /\ todo' = Named(source.server)
  /\ idMap' = Unmapped
  /\ work' = IF run.truncate THEN [target EXCEPT !.server = <<>>] ELSE target
  /\ pc' = "server"
  /\ UNCHANGED <<source, db, newId, left, rc, history, env>>

\* The identifier is unique in the target.
InsertServer(i) ==
  /\ pc = "server" /\ Least(todo, i)
  /\ IF IdsNamed(work.server, run.server[i]) # {}
     THEN Fail /\ UNCHANGED <<work, idMap, todo>>
     ELSE /\ work' = [work EXCEPT !.server = Append(@, run.server[i])]
          /\ idMap' = [idMap EXCEPT ![i] = Len(work.server) + 1]
          /\ todo' = todo \ {i}
          /\ UNCHANGED <<pc, rc>>
  /\ UNCHANGED <<source, db, run, newId, left, history, env>>

CommitServers ==
  /\ pc = "server" /\ todo = {}
  /\ target' = work
  /\ halfway' = (halfway \/ run.truncate)
  /\ pc' = "files"
  /\ UNCHANGED <<source, held, work, local, todo, rc, touched, env>>

\* The assertions come after the commit: the mirror may not be there.
ReadFiles ==
  LET ids == IdsNamed(run.server, Master)
      wanted == {f \in Rows(source.file) : ids \cap source.file[f].marks # {}}
  IN /\ pc = "files"
     /\ IF ids = {}
        THEN Fail /\ UNCHANGED <<run, todo, left, work, touched>>
        ELSE /\ run' = [run EXCEPT !.file = source.file]
             /\ todo' = wanted
             /\ left' = run.count
             /\ work' = IF run.truncate THEN [target EXCEPT !.file = <<>>]
                        ELSE target
             /\ touched' = {}
             /\ pc' = "file" /\ UNCHANGED rc
     /\ UNCHANGED <<source, db, idMap, newId, halfway, env>>


\* Mutant of NewMarks: the mirror copied is taken for the first of the target.
NewMarksFirst(f) == IF run.keep THEN {idMap[s] : s \in run.file[f].marks} ELSE {1}

NewMarks(f) ==
  LET sids == IF run.keep THEN run.file[f].marks ELSE IdsNamed(run.server, Master)
  IN {idMap[s] : s \in sids}

NamesOf(f) == IF run.keep THEN {run.server[s] : s \in run.file[f].marks} ELSE {Master}

\* Mutant of Refused: an unknown mirror is mapped to nothing, and copied.
RefusedPath(f) == \E i \in DOMAIN work.file : work.file[i].path = run.file[f].path

\* server_ids_map has no such key; the path is unique in the target.
Refused(f) ==
  \/ run.keep /\ \E s \in run.file[f].marks : idMap[s] = 0
  \/ \E i \in DOMAIN work.file : work.file[i].path = run.file[f].path

InsertFile(f) ==
  /\ pc = "file" /\ Least(todo, f)
  /\ IF Refused(f)
     THEN Fail /\ UNCHANGED <<work, newId>>
     ELSE /\ work' = [work EXCEPT !.file = Append(@, [path |-> run.file[f].path,
                        marks |-> NewMarks(f), hash |-> None, names |-> NamesOf(f)])]
          /\ newId' = Len(work.file) + 1
          /\ pc' = "hash" /\ UNCHANGED rc
  /\ UNCHANGED <<source, db, run, idMap, left, todo, history, env>>

\* Mutant of CopyHash: the hash is looked up under the id the file got.
CopyHashOfNewId(f) ==
  /\ pc = "hash" /\ Least(todo, f)
  /\ IF left = 0
     THEN Fail /\ UNCHANGED <<work, left, todo>>
     ELSE /\ work' = IF source.file[newId] = NoRow THEN work
                     ELSE [work EXCEPT !.file[newId].hash = source.file[newId].hash]
          /\ left' = left - 1
          /\ todo' = todo \ {f}
          /\ pc' = "file" /\ UNCHANGED rc
  /\ UNCHANGED <<source, db, run, idMap, newId, history, env>>

\* The hash is looked up on the source one file at a time.  The progress bar
\* has as many items as files were counted: next() on an exhausted one raises.
CopyHash(f) ==
  /\ pc = "hash" /\ Least(todo, f)
  /\ IF left = 0
     THEN Fail /\ UNCHANGED <<work, left, todo>>
     ELSE /\ work' = IF source.file[f] = NoRow THEN work
                     ELSE [work EXCEPT !.file[newId].hash = source.file[f].hash]
          /\ left' = left - 1
          /\ todo' = todo \ {f}
          /\ pc' = "file" /\ UNCHANGED rc
  /\ UNCHANGED <<source, db, run, idMap, newId, history, env>>

CommitFiles ==
  /\ pc = "file" /\ todo = {}
  /\ target' = work
  /\ halfway' = (halfway /\ ~run.truncate)
  /\ pc' = "idle" /\ rc' = "copied"
  /\ UNCHANGED <<source, held, work, local, todo, touched, env>>

Kill ==
  /\ Running /\ kills < MaxKills
  /\ kills' = kills + 1
  /\ Fail
  /\ UNCHANGED <<source, db, work, local, todo, history, changes>>

-----------------------------------------------------------------------------
(* The instance the source belongs to goes on: scans, hashers, clean-ups and *)
(* the administrator.                                                      *)

Change(new, files) ==
  /\ changes < MaxChanges
  /\ changes' = changes + 1
  /\ source' = new
  /\ touched' = IF Running THEN touched \cup files ELSE touched
  /\ UNCHANGED <<db, work, pc, local, todo, rc, halfway, kills>>

AddServer(name) ==
  LET new == source.lastServer + 1
  IN /\ new \in SId /\ IdsNamed(source.server, name) = {}
     /\ Change([source EXCEPT !.server[new] = name, !.lastServer = new], {})

\* Marks of the server stay.
DropServer(s) ==
  /\ s \in Named(source.server)
  /\ Change([source EXCEPT !.server[s] = None], {})

ToggleMark(s, f) ==
  /\ s \in Named(source.server) /\ f \in Rows(source.file)
  /\ LET marks == source.file[f].marks
     IN Change([source EXCEPT !.file[f].marks =
                  IF s \in marks THEN marks \ {s} ELSE marks \cup {s}], {f})

AddFile(path, s) ==
  LET new == source.lastFile + 1
  IN /\ new \in FId /\ s \in Named(source.server)
     /\ \A f \in Rows(source.file) : source.file[f].path # path
     /\ Change([source EXCEPT
                  !.file[new] = [path |-> path, marks |-> {s}, hash |-> None],
                  !.lastFile = new], {new})

DropFile(f) ==
  /\ f \in Rows(source.file)
  /\ Change([source EXCEPT !.file[f] = NoRow], {f})

RecordHash(f) ==
  /\ f \in Rows(source.file) /\ source.file[f].hash = None
  /\ Change([source EXCEPT !.file[f].hash = source.file[f].path], {f})

-----------------------------------------------------------------------------
\* A target made from the schema alone, or with the initial data.
Init ==
  /\ source \in Sources
  /\ target = [server |-> <<>>, file |-> <<>>] /\ work = target
  /\ \E n \in {0, 1} : held = [t \in Static |-> n]
  /\ pc = "idle" /\ rc = "none"
  /\ run = [truncate |-> FALSE, keep |-> FALSE, count |-> 0,
            server |-> [i \in SId |-> None], file |-> [i \in FId |-> NoRow]]
  /\ todo = {} /\ idMap = Unmapped /\ newId = 0 /\ left = 0
  /\ halfway = FALSE /\ touched = {}
  /\ changes = 0 /\ kills = 0

Work ==
  \/ Count \/ \E t \in Static : CopyStatic(t)
  \/ ReadServers \/ (\E i \in SId : InsertServer(i)) \/ CommitServers
  \/ ReadFiles \/ (\E f \in FId : InsertFile(f) \/ CopyHash(f)) \/ CommitFiles

SourceChanges ==
  \/ \E name \in Name : AddServer(name)
  \/ \E s \in SId : DropServer(s)
  \/ \E s \in SId, f \in FId : ToggleMark(s, f)
  \/ \E path \in Path, s \in SId : AddFile(path, s)
  \/ \E f \in FId : DropFile(f) \/ RecordHash(f)

Next ==
  \/ \E truncate \in Truncate, keep \in Keep : Start(truncate, keep)
  \/ Work
  \/ Kill
  \/ SourceChanges

Spec == Init /\ [][Next]_vars

\* A copy that runs goes on.  Nobody owes a run.
FairSpec == Spec /\ WF_vars(Work)

-----------------------------------------------------------------------------
(* Properties.                                                             *)

\* The variables have their types.
TypeOK ==
  /\ source \in Source
  /\ target \in Target /\ work \in Target
  /\ held \in [Static -> 0..2]
  /\ pc \in {"idle", "count", "servers", "server", "files", "file", "hash"} \cup Static
  /\ run \in Run
  /\ todo \subseteq SId \cup FId
  /\ idMap \in [SId -> Nat]
  /\ newId \in Nat /\ left \in Nat
  /\ rc \in {"none", "copied", "failed", "refused"}
  /\ halfway \in BOOLEAN /\ touched \subseteq FId
  /\ changes \in 0..MaxChanges /\ kills \in 0..MaxKills

\* A mark of the target leads to the mirror it was recorded for, although ids
\* of mirrors are given anew in an earlier transaction than the files that use
\* them.  Only after a --truncate copy stopped between the two, until another
\* one completes, may a mark lead elsewhere or nowhere.
MarksNameTheirServers ==
  ~halfway =>
    \A i \in DOMAIN target.file :
      /\ target.file[i].marks \subseteq DOMAIN target.server
      /\ {target.server[m] : m \in target.file[i].marks} = target.file[i].names

\* A copy that completed has the files the source listed for the mirror, on the
\* mirrors they were on or on that one, and with the hashes they had unless the
\* source changed a file meanwhile; no file has another's hash.  With --truncate
\* it has nothing else, and every country and region once.
CompletedCopyIsExact ==
  LET listed == {f \in Rows(run.file) :
                   IdsNamed(run.server, Master) \cap run.file[f].marks # {}}
  IN pc = "idle" /\ rc = "copied" =>
       /\ \A f \in listed :
            \E i \in DOMAIN target.file :
              /\ target.file[i].path = run.file[f].path
              /\ target.file[i].names = NamesOf(f)
              /\ f \notin touched => target.file[i].hash = run.file[f].hash
       /\ \A i \in DOMAIN target.file :
            /\ target.file[i].hash \in {None, target.file[i].path}
            /\ run.truncate => target.file[i].path \in {run.file[f].path : f \in listed}
       /\ run.truncate => \A table \in Static : held[table] = 1

\* What a --truncate copy needs of the source: the mirror is there, and its
\* files are on mirrors that are.
Copyable ==
  /\ IdsNamed(source.server, Master) # {}
  /\ \A f \in FilesOn(source.server, source.file) :
       \A s \in source.file[f].marks : source.server[s] # None

\* Whatever an earlier copy that failed or was killed left in the target, and
\* however the source grew while it was read: once the source stays copyable,
\* copies with --truncate that are not refused complete.
CopyCompletes ==
  (<>[]Copyable /\ []<>(pc = "servers" /\ run.truncate))
    => []<>(rc = "copied" /\ run.truncate)
=============================================================================
