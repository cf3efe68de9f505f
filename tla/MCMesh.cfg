SPECIFICATION Spec
CONSTANTS
  Nodes = {n1, n2}
  Local = Local
  Gets <- MCGets
  Sets <- MCSets
  NoRequest = NoRequest
  AppKeys = 1
  MaxRequests = 2
PROPERTIES
  RequestsEnd
CHECK_DEADLOCK FALSE
