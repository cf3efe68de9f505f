SPECIFICATION Spec
CONSTANTS
  d1 = d1
  d2 = d2
  s1 = s1
  s2 = s2
  c1 = c1
  e1 = e1
  Devices = {d1, d2}
  Services = {s1, s2}
  Attributes = {c1, e1}
  None = None
  MaxId = 2
  MaxCalls = 2
  MaxTimeouts = 1
  ParentOf <- MCParentOf
  UuidOf <- MCUuidOf
INVARIANTS
  TypeOK
  ToldIsTable
  
  TimersOwned
  NothingStale
CHECK_DEADLOCK FALSE
