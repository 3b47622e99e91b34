SPECIFICATION Spec
CONSTANTS
  None = None
  Districts = {d1, d2}
  Engines = {e1, e2}
  MaxEdition = 2
  MaxJobs = 1
  MaxCrashes = 1
  MaxFailures = 0
  NoRebakeValues = {FALSE}
INVARIANT TypeOK
INVARIANT StampTruthful
INVARIANT ChartsSurvive
PROPERTY RestartKeepsCharts
SYMMETRY Symmetry
