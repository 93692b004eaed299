\* Any options, two changes of the source, one crash.
CONSTANTS
  master = master
  other = other
  zim = zim
  zip = zip
  Name = {master, other}
  Path = {zim, zip}
  Master = master
  SId = {1, 2, 3, 4}
  FId = {1, 2, 3}
  Sources <- MCSources
  Truncate = {FALSE, TRUE}
  Keep = {FALSE, TRUE}
  MaxChanges = 2
  MaxKills = 1
  None = None
  NoRow = NoRow
SPECIFICATION FairSpec
INVARIANTS
  TypeOK
  MarksNameTheirServers
  CompletedCopyIsExact
PROPERTY
  CopyCompletes
