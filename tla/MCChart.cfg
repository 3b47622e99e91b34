SPECIFICATION LiveSpec
CONSTANTS
  CanvasSetting = {depth, scheme, pitch}
  Scheme = scheme
  Pitch = pitch
  Pack = {noaa, ienc}
  PackList = {{}, {noaa}, {noaa, ienc}}
  None = None
  CanvasChanges = 2
  MaxSetCalls = 2
  MaxBakes = 1
  MaxFails = 1
  MaxCalls = 2
  MaxBand = 2
  MaxEvents = 5
  Sets = {"general", "harbor"}
  MaxChanges = 3
  MaxRebuilds = 1
  Depth = {0, 1, 2, 3}
  Day = {1, 2, 3}
INVARIANT TypeOK
INVARIANT StyleIsCurrent
INVARIANT DrawnRight
PROPERTY MapSettles
CHECK_DEADLOCK FALSE
