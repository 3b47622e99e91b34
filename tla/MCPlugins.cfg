SPECIFICATION LiveSpec
CONSTANTS
  Runners = {r1, r2, r3}
  Requests = {q1, q2}
  Versions = {v1, v2}
  None = None
  BreakerCrashes = 2
  MaxGrants = 1
  MaxEvents = 2
  PipeCap = 4
  MaxMisses = 3
  Dials = {c1}
  Setters = {s1, s2}
  Keys = {k1, k2}
  MaxChanges = 2
  MaxSaves = 2
INVARIANT TypeOK
INVARIANT OneRuns
INVARIANT RunsAsGranted
INVARIANT HandlesAreTrue
INVARIANT AcknowledgedIsStored
PROPERTY PluginsEnd
CHECK_DEADLOCK FALSE
