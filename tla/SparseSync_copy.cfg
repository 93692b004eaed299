\* A folder, a file in it, and next to it a path with a space; dry runs, one
\* crash, one change of the server's tree.
CONSTANTS
  d = d
  f = f
  g = g
  Path = {d, f, g}
  Above <- MCAbove
  Spaced = {g}
  Offered <- MCOffered
  Found <- MCFound
  DryRuns = {FALSE, TRUE}
  MaxChanges = 1
  MaxKills = 1
  Now = Now
  None = None
SPECIFICATION FairSpec
INVARIANTS
  TypeOK
PROPERTIES
  Settles
  CopyIsFaithful
  DryRunOnlyDeletes
