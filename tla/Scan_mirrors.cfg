\* Two mirrors scanned at the same time, one of them trusted, next to a
\* clean-up against the first. Files may be deleted and created again.
CONSTANTS
  m1 = m1
  m2 = m2
  p1 = p1
  p2 = p2
  h1 = h1
  Mirror = {m1, m2}
  Path = {1, 2}
  FileId = {1, 2}
  Master = m1
  NULL = NULL
  NoRow = NoRow
  Scanner = {p1, p2}
  Hasher = {}
  MirrorOf <- OneScannerPerMirror
  Trusted = {p2}
  Modes = {"record", "only_scan"}
  Killable = {p1}
SPECIFICATION Spec
INVARIANTS
  PartialScanIsSound
  CompletedScanIsExact
  PurgeSparesListed
PROPERTIES
  CatalogIsAtomic
  MarksChangeByOwnerOnly
