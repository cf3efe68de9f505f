SPECIFICATION Spec
CONSTANTS
  hci0 = hci0
  hci1 = hci1
  hci10 = hci10
  dev10 = dev10
  Root = Root
  Path = {hci0, hci1, hci10}
  Hci0 = hci0
  Device = {dev10}
  MaxManagers = 2
  PrefixOf <- MCPrefixOf
  Owner <- MCOwner
INVARIANTS
  TypeOK
  DefaultIsHci0
  PointersCurrent
  AdapterPerManager
  DevicesFindable
CHECK_DEADLOCK FALSE
