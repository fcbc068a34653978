\* One address; three guesses of a tag pass the confidence of a DHCP request,
\* four are the largest one.
CONSTANTS
  Ip = {a}
  Packet <- MCPacket
  Vendors = {"google"}
  Models = {"ios"}
  DhcpConfidence = 3
  MaxConfidence = 4
  MaxGuesses = 4
SPECIFICATION Spec
INVARIANTS ConfidenceEarned TagSettles
