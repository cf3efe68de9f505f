SPECIFICATION Spec
CONSTANTS
  ScanId = {s1}
  Uuid = {u1}
  NoScan = NoScan
  MaxSignals = 3
PROPERTIES
  TimeoutResetWhenStopped
