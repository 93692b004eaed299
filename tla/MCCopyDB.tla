------------------------------ MODULE MCCopyDB ------------------------------
(* Instances of CopyDB: the mirror to copy, another one, and two files.     *)
EXTENDS CopyDB, TLC

CONSTANTS master, other, zim, zip

On(path, marks, hash) == [path |-> path, marks |-> marks, hash |-> hash]

\* Ids with gaps, so that none is the same in the target; a mark of a mirror
\* that is gone; an instance without the mirror.
MCSources ==
  {[server |-> <<None, other, master, None>>,
    file |-> <<On(zip, {2}, zip), On(zim, {2, 3}, zim), NoRow>>,
    lastServer |-> 3, lastFile |-> 2],
   [server |-> <<None, other, master, None>>,
    file |-> <<NoRow, On(zim, {1, 3}, None), NoRow>>,
    lastServer |-> 3, lastFile |-> 2],
   [server |-> <<None, other, None, None>>,
    file |-> <<NoRow, On(zim, {2}, None), NoRow>>,
    lastServer |-> 3, lastFile |-> 2]}
=============================================================================
