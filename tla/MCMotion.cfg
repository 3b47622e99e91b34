SPECIFICATION LiveSpec
CONSTANTS
  w1 = w1
  w2 = w2
  Places = {w1}
  Headings = {0, 1}
  Nowhere = Nowhere
  Between = Between
  Else = Else
  StaleAge = 0
  Lost = 1
  MaxGestures = 1
  Waters = {w1, w2}
  Floor = 5
  Give = 2
  Scale <- MCScale
  Depth <- MCDepth
  Covered = {w1}
  StopEvents = 4
  Polls = 1
  MaxRefreshes = 1
  MaxEvents = 1
  Wind = {0, 32}
  Shifts = {0, 4, 6}
  Mmsi = {m1}
  MaxChanges = 2
  MaxClicks = 2
INVARIANT TypeOK
INVARIANT NoPhantomBoat
INVARIANT WindIsOne
PROPERTY CameraArrives
CHECK_DEADLOCK FALSE
