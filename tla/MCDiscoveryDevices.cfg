\* Two devices that are looked up, two scans: the second may cancel the first.
CONSTANTS
  Absent = Absent
  Device = {d1, d2}
  Resolvable = {d1, d2}
  Fe80 = {}
  MaxRequests = 2
SYMMETRY Symmetry
SPECIFICATION Spec
INVARIANTS PublishedIsKnown ScanIsPublished OneWriter
PROPERTIES DevicesNeverVanish SavesKeepSession ReadyIsSaved
VIEW Unmarked
