\* Two runs of the program, the first with two scans, the second of which may
\* cancel the first: it is killed in every state it has.  One device is enough
\* to be reported by one scan and missed by the next.
CONSTANTS
  Absent = Absent
  Device = {d1}
  Resolvable = {d1}
  Fe80 = {}
  MaxRequests = 2
  MaxSessions = 2
SPECIFICATION SessionsSpec
PROPERTY ReportedSurvives
