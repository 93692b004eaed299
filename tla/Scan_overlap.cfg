\* Two overlapping scans of one mirror, one of them trusted, next to a hasher
\* and a clean-up against that mirror. Nobody is killed: every scan ends.
CONSTANTS
  m1 = m1
  m2 = m2
  p1 = p1
  p2 = p2
  h1 = h1
  Mirror = {m1, m2}
  Path = {1}
  FileId = {1}
  Master = m1
  NULL = NULL
  NoRow = NoRow
  Scanner = {p1, p2}
  Hasher = {h1}
  MirrorOf <- SameMirror
  Trusted = {p2}
  Modes = {"record", "dry_run"}
  Killable = {}
SPECIFICATION FairSpec
INVARIANTS
  TypeOK
  NoDuplicateMarks
PROPERTIES
  ScanEnds
  CleanSparesUnscanned
  CatalogIsAtomic
