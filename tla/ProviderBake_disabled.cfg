SPECIFICATION LiveSpec
CONSTANTS
  None = None
  Districts = {d1, d2}
  Engines = {e1, e2}
  MaxEdition = 1
  MaxJobs = 1
  MaxCrashes = 1
  MaxFailures = 0
  NoRebakeValues = {FALSE}
PROPERTY DisabledSurvivesRestart
