CONSTANTS
  m1 = m1
  m2 = m2
  f1 = f1
  f2 = f2
  here = here
  there = there
  everywhere = everywhere
  Mirror = {m1, m2}
  Fallback = {f1, f2}
  FallbackCountry <- MCFallbackCountry
  FallbackRegion <- MCFallbackRegion
  Prefix = {here, there}
  AS = {here, there}
  Country = {here, there, everywhere}
  Region = {here, there}
  AnyCountry = everywhere
  DistancePrio = 4
  Requests <- MCRequests
  Servers <- MCServers
  Size <- MCSize
  MaxVersion = 2
  Parts <- MCParts
  LinkMax = 1
  YumMax = 2
SYMMETRY Twins
SPECIFICATION Spec
INVARIANTS
  TypeOK
  NearestServes
  OnlyWhereAdmitted
  SuitableIsNamed
  DigestsMatch
PROPERTIES
  FallbackServes
