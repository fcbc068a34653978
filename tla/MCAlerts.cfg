\* Limits of two, a window of two units of time, and three stamps judged of the
\* four kept.  A run ends when its packets were sent.
CONSTANTS
  Traffic <- MCTraffic
  Address <- MCAddress
  Within <- MCWithin
  Noise = {}
  Private <- MCPrivate
  Local <- MCPrivate
  LinkLocal = {}
  GeoService = {}
  AlertCap = 2
  AlertRows = 1
  FloodLimit = 2
  FloodWindow = 2
  BeaconGap = 4
  BeaconLen = 3
  BeaconKept = 4
  MeanMin = 5
  MeanMax = 9
  ScanLimit = 2
  VolumeLimit = 2
  MaxPackets = 6
  FeedCap = 2
  Rows = 1
SPECIFICATION Spec
INVARIANTS LimitsReported FloodReported HeartbeatReported WhitelistHolds
           AlertedOnce OutboundReported
CHECK_DEADLOCK FALSE
