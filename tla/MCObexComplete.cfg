SPECIFICATION Spec
CONSTANTS
  Address = {a1}
  Session = {s1, s2}
  s1 = s1
  s2 = s2
  Prefix <- SessionPrefix
  TransferId = {t1}
  Empty = {t1}
  NoSession = NoSession
  MaxCalls = 1
  MaxProxyCalls = 1
INVARIANTS CompleteIsDeleted
CHECK_DEADLOCK FALSE
