\* Two makehashes side by side; a folder and a file in it.
SPECIFICATION Spec
CONSTANTS
  zim = zim
  file = file
  Path = {zim, file}
  Above <- MCAbove
  MaxVersion = 3
  Mtimes <- MCMtimes
  Losable = {file}
  Size <- MCSize
  Hasher = {h1, h2}
  Puller = {}
  Modes = {"normal"}
  MaxKills = 0
  Absent = Absent
  Dir = Dir
  Now = Now
  Torn = Torn
  NoHash = NoHash
  Free = Free
  None = None
INVARIANTS
  OneHasherPerFile
