\* One device, three scans: a request may come in every phase of the first,
\* and another while the scan it caused is waiting or running.
CONSTANTS
  Absent = Absent
  Device = {d1}
  Resolvable = {d1}
  Fe80 = {}
  MaxRequests = 3
SPECIFICATION Spec
INVARIANTS RequestsConserved LookupsSettle
PROPERTIES ScanKeepsNames EveryRequestServed PromiseKept
VIEW Unmarked
