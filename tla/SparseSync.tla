----------------------------- MODULE SparseSync -----------------------------
(***************************************************************************)
(* fakesync/sparse-sync.py: a copy of an rsync server's tree that has its   *)
(* folders and, for its files, sparse files of the same size, time and      *)
(* mode.  sync_tree asks rsync what a transfer would change (a dry run of   *)
(* rsync), and makes those changes itself, line by line.                    *)
(* fakesync/forever-entrypoint.py repeats it while it ends well.            *)
(*                                                                         *)
(* The root of the tree, which always exists, is no path of the model.      *)
(***************************************************************************)
EXTENDS Naturals

CONSTANTS Path,        \* relative paths
          Above,       \* the folders above each path, within Path
          Spaced,      \* the paths that have a space in them
          Offered,     \* the entries the server may have at each path
          Found,       \* those the copy may have before the first run
          DryRuns,     \* the values of --dry-run a run may have
          MaxChanges,  \* bound on changes of the server's tree
          MaxKills,    \* bound on signals, crashes and failures of rsync
          Now,         \* an mtime set by writing, different from any listed
          None

\* The execute bit of the owner and the setuid bit, as `ls` and rsync show them.
Mode == {"-", "x", "s", "S"}
Entry == [kind : {"none", "file", "dir", "link"}, size : Nat,
          time : Nat \cup {Now}, mode : Mode, to : Path \cup {None}]
NoEntry == [kind |-> "none", size |-> 0, time |-> 0, mode |-> "-", to |-> None]
Line == [op : {"recv", "del."}, path : Path, kind : {"file", "dir", "link"},
         new : BOOLEAN, size : BOOLEAN, time : BOOLEAN, mode : BOOLEAN]
NoLine == [op |-> "none"]

Below(p) == {q \in Path : p \in Above[q]}
\* The folder a path is in, if it is not the root.
Holder(p) == {a \in Above[p] : Above[p] \subseteq Above[a] \cup {a}}

Exists(t, p) == t[p].kind # "none"
IsDir(t, p) == t[p].kind = "dir"
IsTree(t) == \A p \in Path : Exists(t, p) => \A a \in Above[p] : IsDir(t, a)

Trees(at) ==
  {t \in [Path -> UNION {at[p] : p \in Path} \cup {NoEntry}] :
     IsTree(t) /\ \A p \in Path : t[p] \in at[p] \cup {NoEntry}}
RemoteTrees == Trees(Offered)

ASSUME PathAssumption ==
  /\ Above \in [Path -> SUBSET Path]
  /\ \A p \in Path : p \notin Above[p]
  /\ \A p \in Path : \A a \in Above[p] : Above[a] \subseteq Above[p]
  /\ Spaced \subseteq Path
  /\ DryRuns \subseteq BOOLEAN /\ FALSE \in DryRuns
  /\ MaxChanges \in Nat /\ MaxKills \in Nat
  /\ Now \notin Nat /\ None \notin Path

\* Nothing on the server is of now; links of the copy lead to no other link.
ASSUME EntryAssumption ==
  /\ Offered \in [Path -> SUBSET Entry] /\ Found \in [Path -> SUBSET Entry]
  /\ \A p \in Path : \A e \in Offered[p] : e.time # Now
  /\ \A p \in Path : \A e \in Offered[p] \cup Found[p] : e.kind # "none"
  /\ \A p \in Path : \A e \in Offered[p] \cup Found[p] :
       (e.kind = "link") = (e.to # None)

VARIABLES
  remote,   \* the server's tree
  local,    \* the copy
  pc, dry,
  todo,     \* the lines of rsync's output not read yet
  line,     \* the one being worked on
  stamps,   \* dir_timestamp_map
  rc,       \* how the last run ended
  goal,     \* history: the server's tree as rsync listed it
  changes, kills

server == <<remote, changes>>
run == <<dry, goal>>
vars == <<server, local, pc, run, todo, line, stamps, rc, kills>>

-----------------------------------------------------------------------------
(* rsync --recursive --links --perms --times --delete --dry-run            *)

\* %o and %i of its output for one path: what differs, "+" being all.
\* A path whose kind changed is new; a link's time and mode do not count.
LineFor(r, l, p) ==
  LET new == l[p].kind # r[p].kind
  IN IF Exists(r, p)
     THEN [op |-> "recv", path |-> p, kind |-> r[p].kind, new |-> new,
           size |-> new \/ l[p].size # r[p].size,
           time |-> new \/ (l[p].time # r[p].time /\ r[p].kind # "link"),
           mode |-> new \/ (l[p].mode # r[p].mode /\ r[p].kind # "link")]
     ELSE [op |-> "del.", path |-> p, kind |-> l[p].kind, new |-> FALSE,
           size |-> FALSE, time |-> FALSE, mode |-> FALSE]

Differs(r, l, p) ==
  \/ l[p].kind # r[p].kind \/ l[p].size # r[p].size \/ l[p].to # r[p].to
  \/ (l[p].time # r[p].time \/ l[p].mode # r[p].mode) /\ r[p].kind # "link"

Listing(r, l) == {LineFor(r, l, p) : p \in {q \in Path : Differs(r, l, q)}}

\* A folder is listed before what is in it; what is deleted, and what is in
\* a folder that something else replaces, before the folder.
Ready(L) ==
  \A M \in todo \ {L} :
    IF M.op = "del." THEN L.path \notin Above[M.path]
    ELSE M.path \notin Above[L.path] \/ L.op = "del."

-----------------------------------------------------------------------------
(* The tree on disk.                                                       *)

\* An entry that comes or goes changes the time of its folder.
Put(t, p, e) ==
  [q \in Path |->
     IF q = p THEN e
     ELSE IF q \in Holder(p) /\ (Exists(t, p) # (e.kind # "none"))
          THEN [t[q] EXCEPT !.time = Now]
          ELSE t[q]]

Removed(t, p) == Put(t, p, NoEntry)
Folder(mode) == [NoEntry EXCEPT !.kind = "dir", !.time = Now, !.mode = mode]
EmptyFile == [NoEntry EXCEPT !.kind = "file", !.time = Now]

\* open(), chmod() and utime() follow a link.
Followed(t, p) == IF t[p].kind = "link" THEN t[p].to ELSE p

\* perms_to_mode: the owner's "s" and "S" are taken for each other.
PermsToMode(mode) ==
  CASE mode = "s" -> "S" [] mode = "S" -> "s" [] OTHER -> mode

-----------------------------------------------------------------------------
(* sync_tree.                                                              *)

Running == pc \notin {"asleep", "down"}

\* main returns 1 or the process dies; the loop ends with it.
Stop == pc' = "down" /\ rc' = "failed"

NoStamps == [p \in Path |-> None]

List(dryRun) ==
  /\ pc = "asleep"
  /\ pc' = "next" /\ rc' = "none"
  /\ dry' = dryRun /\ goal' = remote
  /\ todo' = Listing(remote, local)
  /\ stamps' = NoStamps
  /\ UNCHANGED <<server, local, line, kills>>

\* "d" stands for a folder in "cd+++++++", and is the second letter of
\* "*deleting" too.
IsDirItem(L) == L.kind = "dir" \/ L.op = "del."

\* Mutant of Take: a link is left where a folder comes.
TakeKeepsLink(L) ==
  /\ pc = "next" /\ L \in todo /\ Ready(L)
  /\ todo' = todo \ {L}
  /\ line' = L
  /\ IF L.path \in Spaced THEN Stop ELSE pc' = "act" /\ UNCHANGED rc
  /\ UNCHANGED <<server, local, run, stamps, kills>>

\* A path with a space makes the fields of its line shift: int() raises.
Take(L) ==
  /\ pc = "next" /\ L \in todo /\ Ready(L)
  /\ todo' = todo \ {L}
  /\ line' = L
  /\ IF L.path \in Spaced
     THEN Stop /\ UNCHANGED local
     ELSE /\ local' = IF IsDirItem(L) /\ local[L.path].kind = "link"
                      THEN Removed(local, L.path) ELSE local
          /\ pc' = "act"
          /\ UNCHANGED rc
  /\ UNCHANGED <<server, run, stamps, kills>>

\* The target of a link is joined to the root, not to the link's folder:
\* one that goes up from a folder leads out of the tree, and relative_to raises.
LeadsOut(L) ==
  /\ L.op = "recv" /\ L.kind = "link"
  /\ Holder(L.path) # {}
  /\ Holder(L.path) \cap Above[goal[L.path].to] = {}

InFolders(p) == \A a \in Above[p] : IsDir(local, a)

\* rmdir() of a folder with something in it, unlink() of what is gone,
\* mkdir() on something else than a folder, open() of a folder.
Raises(L) ==
  \/ LeadsOut(L)
  \/ /\ L.op = "del."
     /\ IF L.kind = "dir"
        THEN ~IsDir(local, L.path) \/ \E q \in Below(L.path) : Exists(local, q)
        ELSE local[L.path].kind \notin {"file", "link"}
  \/ /\ L.op = "recv" /\ L.kind = "dir" /\ L.new /\ ~dry
     /\ local[L.path].kind \notin {"none", "dir"} \/ ~InFolders(L.path)
  \/ /\ L.op = "recv" /\ L.kind = "file" /\ L.size /\ ~dry
     /\ LET q == Followed(local, L.path) IN IsDir(local, q) \/ ~InFolders(q)

Raise ==
  /\ pc = "act" /\ Raises(line)
  /\ Stop
  /\ UNCHANGED <<server, local, run, todo, line, stamps, kills>>

Handle(op, kind) ==
  pc = "act" /\ line.op = op /\ line.kind \in kind /\ ~Raises(line)

p0 == line.path
UpTo(stage) == pc' = stage /\ UNCHANGED rc

\* Also in a dry run.
Delete ==
  /\ Handle("del.", {"file", "link", "dir"})
  /\ local' = Removed(local, p0)
  /\ UpTo("next")
  /\ UNCHANGED <<server, run, todo, line, stamps, kills>>

\* mkdir(exist_ok=True), if it is new.  The time is for the end.
MakeFolder ==
  /\ Handle("recv", {"dir"})
  /\ local' = IF line.new /\ ~dry /\ ~IsDir(local, p0)
              THEN Put(local, p0, Folder(PermsToMode(goal[p0].mode)))
              ELSE local
  /\ stamps' = IF line.time /\ (line.new => ~dry)
               THEN [stamps EXCEPT ![p0] = goal[p0].time] ELSE stamps
  /\ UpTo("chmod")
  /\ UNCHANGED <<server, run, todo, line, kills>>

\* needs_local is never true of a line that is "recv": no link is made.
SkipLink ==
  /\ Handle("recv", {"link"})
  /\ UpTo("next")
  /\ UNCHANGED <<server, local, run, todo, line, stamps, kills>>

\* create_sparse empties the file, or makes it, and then writes one byte.
OpenFile ==
  LET q == Followed(local, p0)
  IN /\ Handle("recv", {"file"})
     /\ IF line.size /\ ~dry
        THEN /\ local' = IF Exists(local, q)
                         THEN [local EXCEPT ![q].size = 0, ![q].time = Now]
                         ELSE Put(local, q, EmptyFile)
             /\ UpTo(IF goal[p0].size = 0 THEN "chmod" ELSE "write")
        ELSE UNCHANGED local /\ UpTo("chmod")
     /\ UNCHANGED <<server, run, todo, line, stamps, kills>>

WriteByte ==
  /\ pc = "write"
  /\ local' = [local EXCEPT ![Followed(local, p0)].size = goal[p0].size,
                            ![Followed(local, p0)].time = Now]
  /\ UpTo("chmod")
  /\ UNCHANGED <<server, run, todo, line, stamps, kills>>

\* Mutant of SetMode: chmod is not guarded by dry_run.
SetModeInDryRun ==
  /\ pc = "chmod"
  /\ local' = IF line.mode /\ Exists(local, Followed(local, p0))
              THEN [local EXCEPT ![Followed(local, p0)].mode =
                                   PermsToMode(goal[p0].mode)]
              ELSE local
  /\ UpTo("utime")
  /\ UNCHANGED <<server, run, todo, line, stamps, kills>>

SetMode ==
  /\ pc = "chmod"
  /\ local' = IF line.mode /\ ~dry
              THEN [local EXCEPT ![Followed(local, p0)].mode =
                                   PermsToMode(goal[p0].mode)]
              ELSE local
  /\ UpTo("utime")
  /\ UNCHANGED <<server, run, todo, line, stamps, kills>>

\* Mutant of SetTime: the time of a file rewritten for its size stays.
SetTimeIfListed ==
  /\ pc = "utime"
  /\ local' = IF line.kind = "file" /\ line.time /\ ~dry
              THEN [local EXCEPT ![Followed(local, p0)].time = goal[p0].time]
              ELSE local
  /\ UpTo("next")
  /\ UNCHANGED <<server, run, todo, line, stamps, kills>>

SetTime ==
  /\ pc = "utime"
  /\ local' = IF line.kind = "file" /\ (line.time \/ line.size) /\ ~dry
              THEN [local EXCEPT ![Followed(local, p0)].time = goal[p0].time]
              ELSE local
  /\ UpTo("next")
  /\ UNCHANGED <<server, run, todo, line, stamps, kills>>

\* Mutant of StampFolder: folders whose time was not recorded are stamped too.
StampAnyFolder(p) ==
  /\ pc = "next" /\ todo = {} /\ stamps # NoStamps
  /\ local' = IF dry THEN local ELSE [local EXCEPT ![p].time = stamps[p]]
  /\ stamps' = [stamps EXCEPT ![p] = None]
  /\ UNCHANGED <<server, pc, run, todo, line, rc, kills>>

\* The folders' own times, after everything that changes them.
StampFolder(p) ==
  /\ pc = "next" /\ todo = {} /\ stamps[p] # None
  /\ local' = IF dry THEN local ELSE [local EXCEPT ![p].time = stamps[p]]
  /\ stamps' = [stamps EXCEPT ![p] = None]
  /\ UNCHANGED <<server, pc, run, todo, line, rc, kills>>

Finish ==
  /\ pc = "next" /\ todo = {} /\ stamps = NoStamps
  /\ pc' = "asleep" /\ rc' = "copied"
  /\ UNCHANGED <<server, local, run, todo, line, stamps, kills>>

-----------------------------------------------------------------------------
(* The loop, the server and the environment.                               *)

\* SIGTERM, a crash: at any point, also while the loop sleeps.
Kill ==
  /\ pc # "down" /\ kills < MaxKills
  /\ kills' = kills + 1
  /\ Stop
  /\ UNCHANGED <<server, local, run, todo, line, stamps>>

\* The container is started again.
Restart ==
  /\ pc = "down"
  /\ pc' = "asleep"
  /\ UNCHANGED <<server, local, run, todo, line, stamps, rc, kills>>

ServerChanges ==
  /\ changes < MaxChanges
  /\ changes' = changes + 1
  /\ remote' \in RemoteTrees \ {remote}
  /\ UNCHANGED <<local, pc, run, todo, line, stamps, rc, kills>>

Init ==
  /\ remote \in RemoteTrees
  /\ local \in Trees(Found)
  /\ \A p \in Path : local[p].kind = "link" => local[local[p].to].kind # "link"
  /\ pc = "asleep" /\ rc = "none"
  /\ dry = FALSE /\ goal = remote
  /\ todo = {} /\ line = NoLine /\ stamps = NoStamps
  /\ changes = 0 /\ kills = 0

TakeNext == \E L \in todo : Take(L)
StampNext == \E p \in Path : StampFolder(p)
Work ==
  \/ TakeNext \/ Raise \/ Delete \/ MakeFolder \/ SkipLink
  \/ OpenFile \/ WriteByte \/ SetMode \/ SetTime \/ StampNext \/ Finish

Next ==
  \/ \E d \in DryRuns : List(d)
  \/ Work
  \/ Kill \/ Restart
  \/ ServerChanges

Spec == Init /\ [][Next]_vars

\* What runs goes on, and the loop's own command is no dry run; that a
\* container is started again is no step anybody owes.
FairSpec == Spec /\ WF_vars(Work) /\ SF_vars(List(FALSE))

-----------------------------------------------------------------------------
(* Properties.                                                             *)

Tree == [Path -> Entry]

\* The variables have their types.
TypeOK ==
  /\ remote \in Tree /\ local \in Tree /\ goal \in Tree
  /\ pc \in {"asleep", "next", "act", "write", "chmod", "utime", "down"}
  /\ dry \in BOOLEAN
  /\ todo \subseteq Line
  /\ line \in Line \cup {NoLine}
  /\ stamps \in [Path -> Nat \cup {None}]
  /\ rc \in {"none", "copied", "failed"}
  /\ changes \in 0..MaxChanges /\ kills \in 0..MaxKills

\* An entry of the copy is as the server's g.  Links are never made, and a
\* mode with a setuid bit is what perms_to_mode makes of it.  A folder's own
\* time is not part of it: see Settles.
Agrees(e, g) ==
  \/ g.kind = "link"
  \/ g.kind = "none" /\ e.kind = "none"
  \/ /\ g.kind \in {"file", "dir"}
     /\ e.kind = g.kind
     /\ e.mode \in {g.mode, PermsToMode(g.mode)}
     /\ e.kind = "file" => e.size = g.size /\ e.time = g.time

\* A link of the copy stands where the server has a file: the file is
\* written where the link leads, and nothing is promised.
LinkInTheWay ==
  \E p \in Path : local[p].kind = "link" /\ goal[p].kind = "file"

Promised == ~dry /\ ~LinkInTheWay
Behind == {p \in Path : ~Agrees(local[p], goal[p])}

Copy == INSTANCE FaithfulCopy WITH
  busy <- Running /\ Promised,
  behind <- IF Running /\ Promised THEN Behind ELSE {},
  outcome <- IF Promised THEN rc ELSE "none"

\* A run only brings paths up to date with the server's tree as it was
\* listed, disturbs none that is, and reports success only when none is left:
\* whatever order the lines come in, whatever an earlier run that was killed
\* left behind.
CopyIsFaithful == Copy!Spec

\* A run with --dry-run makes nothing and sets nothing; it deletes, though.
DryRunOnlyDeletes ==
  [][dry /\ Running =>
       \A p \in Path : \/ local'[p] = local[p]
                       \/ local'[p] = NoEntry
                       \/ local'[p] = [local[p] EXCEPT !.time = Now]]_vars

Plain(e) == e.kind # "link" /\ e.mode \in {"-", "x"}

\* Nothing on the server is a link, setuid or of a name with a space, and
\* nothing of the copy is of another kind, but for a link where a folder comes.
Settleable ==
  \A p \in Path :
    /\ Plain(remote[p])
    /\ Differs(remote, local, p) => p \notin Spaced
    /\ \/ local[p].kind \in {"none", remote[p].kind} \/ ~Exists(remote, p)
       \/ local[p].kind = "link" /\ IsDir(remote, p)

\* The copy of such a tree becomes the same as the server's once that stays
\* and the container is started again after each failure, whatever was killed
\* when: sizes, modes and all times, those of the folders included.
Settles ==
  ([]<>(pc # "down") /\ <>[]Settleable)
    => <>[](\A p \in Path : ~Differs(remote, local, p))
=============================================================================
