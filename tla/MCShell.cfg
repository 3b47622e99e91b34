SPECIFICATION LiveSpec
CONSTANTS
  None = None
  Noaa = {n1}
  User = u
  Clicks = {b1, b2}
  MaxOps = 2
  MaxFaults = 2
  DetailPack = {n1, n2}
  Cell = {c1}
  MaxShots = 2
  MaxCloses = 1
  Features = {f1, f2}
  BrowseLimit = 2
  CellLimit = 1
  FeatLimit = 1
  Views = {0, 2}
INVARIANT TypeOK
INVARIANT LibraryIsTrue
INVARIANT ToolsLetGo
INVARIANT SearchAnswers
PROPERTY ShellCatchesUp
CHECK_DEADLOCK FALSE
