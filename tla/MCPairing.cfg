SPECIFICATION Spec
CONSTANTS
  Adapter = {a0}
  Address = {x0, x1}
  NoAddress = NoAddress
  Freed = Freed
  NoInfo = NoInfo
  MaxCalls = 1
SYMMETRY Symmetry
INVARIANTS
  TypeOK
  OutgoingInfoHasPairCall
PROPERTIES
  StrandedOnlyWithoutAgent
\* a crash of the process ends the behaviour
CHECK_DEADLOCK FALSE
