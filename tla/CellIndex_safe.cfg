SPECIFICATION Spec
CONSTANTS
  Cells = {c1, c2}
  Scanners = {s1, s2}
  MaxEdition = 2
  MaxDeletes = 1
  MaxRestarts = 1
INVARIANT TypeOK
INVARIANT SingleFlight
INVARIANT IndexIsCurrent
CHECK_DEADLOCK FALSE
SYMMETRY Symmetry
