SPECIFICATION FairSpec
CONSTANTS
  Address = {a1, a2}
  Session = {s1, s2}
  s1 = s1
  s2 = s2
  Prefix <- SessionPrefix
  TransferId = {t1}
  Empty = {}
  NoSession = NoSession
  MaxCalls = 1
  MaxProxyCalls = 2
INVARIANTS
  TypeOK
  ConnectedMatches
  StoredSessionsLive
  OneFinalResult

  
CHECK_DEADLOCK FALSE
