SPECIFICATION Spec
CONSTANTS
  hci0 = hci0
  hci1 = hci1
  hci10 = hci10
  dev10 = dev10
  Root = Root
  Path = {hci0, hci1}
  Hci0 = hci0
  Device = {}
  MaxManagers = 3
  PrefixOf <- MCNoPrefix
  Owner <- MCOwner
PROPERTIES
  FollowsBluez
CHECK_DEADLOCK FALSE
