SPECIFICATION Spec
CONSTANTS
  Address = {a1, a2}
  NoAddress = NoAddress
  Object = {d1, d2}
  NoObject = NoObject
  NoDevice = NoDevice
  MaxScanId = 2
SYMMETRY Symmetry
INVARIANTS
  TypeOK
  DevicesLive
  ScanDevicesLive
  ReportedIsTable
\* a crash of the process ends the behaviour
CHECK_DEADLOCK FALSE
