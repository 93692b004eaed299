\* Two trusted scans meet on a path the table does not have yet.
CONSTANTS
  m1 = m1
  m2 = m2
  p1 = p1
  p2 = p2
  h1 = h1
  Mirror = {m1, m2}
  Path = {1}
  FileId = {1, 2}
  Master = m1
  NULL = NULL
  NoRow = NoRow
  Scanner = {p1, p2}
  Hasher = {}
  MirrorOf <- OneScannerPerMirror
  Trusted = {p1, p2}
  Modes = {"record"}
  Killable = {}
SPECIFICATION FairSpec
PROPERTY
  InsertRaceIsRetried
