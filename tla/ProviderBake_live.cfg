SPECIFICATION LiveSpec
CONSTANTS
  None = None
  Districts = {d1}
  Engines = {e1, e2}
  MaxEdition = 1
  MaxJobs = 1
  MaxCrashes = 1
  MaxFailures = 1
  NoRebakeValues = {FALSE, TRUE}
PROPERTY Recovers
