CONSTANTS
  Ip = {a}
  Packet <- MCPacket
  Vendors = {"apple"}
  Models = {"ios"}
  DhcpConfidence = 3
  MaxConfidence = 4
  MaxGuesses = 2
SPECIFICATION Spec
INVARIANT PanelAppliesOverrides
