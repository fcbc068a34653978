\* Buffers and lists of two lines fill and lose lines while a reader looks at
\* two of them; the device list has addresses of two subnets and an IPv6
\* one, and the rings of the radar hold one node each.
CONSTANTS
  FeedCap = 2
  Rows = 2
  MaxPackets = 6
  MaxKeys = 3
  Address <- MCAddress
  Within <- MCWithin
  AlertCap = 2
  AlertRows = 2
  MaxAlerts = 4
  DeviceAddr = {2, 3, 4, 6}
  FirstV6 = 6
  SubnetSize = 2
  DeviceRows = 3
  NodeAddr = {1, 2, 3, 4, 5}
  PrivateAddr = {1, 2}
  GroupAddr = {5}
  Labelings <- MCLabelings
  NodeAge = 1
  LocalRing = 1
  OuterRing = 1
  FewBytes = 1
  PacketSize = {1}
  MaxMet = 2
SPECIFICATION PanelsSpec
INVARIANT DevicesInReach
PROPERTIES ReadersKeepPlace HostStays
