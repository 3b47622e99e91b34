SPECIFICATION LiveSpec
CONSTANTS
  Requests = {q1, q2}
  Runners = {r1, r2}
  Configs = {c1, c2, off}
  Enabled = {c1, c2}
  None = None
  TapCap = 1
  MaxRequests = 2
  MaxRestarts = 1
  Plugins = {p1}
  AISWriters = {p1}
  Connection = Connection
  Paths = {position}
  Targets = {m1}
  Providers = {p1, p2}
  Readers = {l1, l2}
  MaxVersion = 2
  MaxChanges = 3
INVARIANT TypeOK
INVARIANT RunningIsConfigured
INVARIANT NothingIsStale
PROPERTY FeedsCatchUp
CHECK_DEADLOCK FALSE
