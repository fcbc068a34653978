CONSTANTS
  Absent = Absent
  Device = {d1}
  Resolvable = {d1}
  Fe80 = {}
  MaxRequests = 1
SPECIFICATION Spec
PROPERTY MarkedBeforeAccepted
