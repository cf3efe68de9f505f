SPECIFICATION Spec
CONSTANTS
  MaxApp = 1
  MaxService = 11
  MaxChar = 2
  MaxDesc = 1
  ServiceGap = 9
  MaxPending = 2
  MaxExported = 5
  IdRange = 4
  MaxInstances = 2
  Nodes = {n1, n2}
  Local = Local
  Gets <- MCGets
  Sets <- MCSets
  NoRequest = NoRequest
  AppKeys = 1
  MaxRequests = 2
  FirstAddress = 2
  UnicastEnd = 5
  Counts = {1, 3}
  MaxNodes = 3
  ChannelId = {i22, i6}
  Uuid = {u1}
  Address = {a1, a2}
  NoAddress = NoAddress
  Channel = {c1, c2, c3}
  NoChannel = NoChannel
  NoInfo = NoInfo
  MaxLinks = 2
  Devices = {d1, d2}
  NoDevice = NoDevice
  MaxOverlap = 3
  Players = {p1, p2, p3}
  Names = {"a", "b"}
  NoPlayer = NoPlayer
  Transfers = {t1}
  MaxSessions = 2
  MaxCalls = 2
  MaxAgents = 3
  MaxCreations = 2
  Senders = {s1}
  MaxPushes = 2
  MaxBytes = 1
  Folders = {f1, f2}
  NoFolder = NoFolder
  MaxFileRequests = 2
  Instances = {i1, i2}
  NoInstance = NoInstance
  NumberGap = 10
SYMMETRY Symmetry
INVARIANTS
  TypeOK
  
  AdvertisedOwned
  TimerPerRequest
  
  NodesApart
  IdsAccounted
  
  MediaTold
  
CHECK_DEADLOCK FALSE
