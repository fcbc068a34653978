SPECIFICATION Spec
CONSTANTS
  Device <- Devices
  Resolvable <- Resolvables
  Fe80 <- LinkLocal
  Absent = Absent
  Window = 3
  Latency = 1
  Worker = {w1, w2}
  Free = Free
  Gone = Gone
INVARIANTS
  ProbedOnce
  Fe80Named
  LookupsAreOneStep
PROPERTIES
  FoundInTime
  PhasesEnd
\* A scan ends.
CHECK_DEADLOCK FALSE
