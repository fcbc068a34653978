\* One after the other of two programs uses the traced port.
\* Three addresses and two slots, turns of two packets, channels of one or two.
CONSTANTS
  i1 = i1
  i2 = i2
  i3 = i3
  a = a
  b = b
  Ip = {i1, i2, i3}
  Local = Local
  NoIp = NoIp
  MaxInFlight = 2
  Program = {a, b}
  NoProgram = NoProgram
  NoPacket = NoPacket
  NoLimit = NoLimit
  MaxPerTurn = 2
  Network <- MCOwners
SPECIFICATION UiSpec
PROPERTIES TracedToOwner
