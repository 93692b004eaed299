\* Two probe-then-scan processes on one mirror, and probes and scans by hand.
CONSTANTS
  a = a
  b = b
  NoRow = NoRow
  Proc = {a, b}
  JobsOf <- MCJobs
  Killable = {b}
  Destinations = 1
SPECIFICATION FairSpec
INVARIANTS
  TypeOK
  DownHasStart
PROPERTIES
  NeverDownUntold
  EnabledFlipsAreMeant
  StatusSettles
