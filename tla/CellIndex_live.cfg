SPECIFICATION LiveSpec
CONSTANTS
  Cells = {c1}
  Scanners = {s1, s2}
  MaxEdition = 2
  MaxDeletes = 2
  MaxRestarts = 1
PROPERTY ImplementsRescan
CHECK_DEADLOCK FALSE
