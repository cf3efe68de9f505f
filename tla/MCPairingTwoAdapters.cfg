SPECIFICATION Spec
CONSTANTS
  Adapter = {a0, a1}
  Address = {x0}
  NoAddress = NoAddress
  Freed = Freed
  NoInfo = NoInfo
  MaxCalls = 1
PROPERTIES
  InfoKeptUntilPairCallback
CHECK_DEADLOCK FALSE
