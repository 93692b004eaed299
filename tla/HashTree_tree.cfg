\* A makehashes, real or dry, a pull, a crash; a folder that may become an
\* empty file, and a file in it.
SPECIFICATION FairSpec
CONSTANTS
  zim = zim
  file = file
  Path = {zim, file}
  Above <- MCAbove
  MaxVersion = 3
  Mtimes <- MCMtimes
  Losable = {file}
  Size <- MCSize
  Hasher = {h1}
  Puller = {p1}
  Modes = {"normal", "dry"}
  MaxKills = 1
  Absent = Absent
  Dir = Dir
  Now = Now
  Torn = Torn
  NoHash = NoHash
  Free = Free
  None = None
INVARIANTS
  TypeOK
  TreeTruth
PROPERTIES
  HashSettles
