---------------------------- MODULE MCSparseSync ----------------------------
(* Instances of SparseSync: a folder, a file in it, and next to it a path
   with a space.  *)
EXTENDS SparseSync, TLC

CONSTANTS d, f, g

MCAbove == (d :> {}) @@ (f :> {d}) @@ (g :> {})

FileOf(size, time, mode) ==
  [kind |-> "file", size |-> size, time |-> time, mode |-> mode, to |-> None]
FolderOf(time, mode) ==
  [kind |-> "dir", size |-> 0, time |-> time, mode |-> mode, to |-> None]
LinkTo(p) == [kind |-> "link", size |-> 0, time |-> 1, mode |-> "-", to |-> p]

\* Files that differ in size, time or mode, one of them empty and setuid; a
\* link that leads out of its folder, and one in the place of the folder; a
\* name with a space.
MCOffered ==
  (d :> {FolderOf(1, "x"), FolderOf(2, "x"), LinkTo(g)})
  @@ (f :> {FileOf(2, 1, "-"), FileOf(0, 2, "s"), LinkTo(g)})
  @@ (g :> {FileOf(1, 1, "x")})

\* What an earlier copy, or somebody else, left: links where a folder or a
\* file belongs, a folder where a file does.
MCFound ==
  (d :> {FolderOf(1, "x"), LinkTo(g)})
  @@ (f :> {FileOf(1, 1, "-"), LinkTo(g), FolderOf(1, "x")})
  @@ (g :> {FileOf(1, 1, "x")})
=============================================================================
