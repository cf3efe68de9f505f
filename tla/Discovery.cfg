SPECIFICATION FairSpec
CONSTANTS
  ScanId = {s1, s2}
  Uuid = {u1, u2}
  NoScan = NoScan
  MaxSignals = 3
INVARIANTS
  TypeOK
  TimeoutOwned
  FilterHidesNothing
  AnswerUnderWay
PROPERTIES
  CancelAnswered
