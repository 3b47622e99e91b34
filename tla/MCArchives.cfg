SPECIFICATION LiveSpec
CONSTANTS
  MaxFails = 1
  MaxDrops = 1
  MaxPans = 1
  Held = {{}, {0, 1, 2}, {1, 4, 5, 6}}
  MaxMisses = 1
  MaxLeaves = 1
  MaxRequests = 3
  Packs = {p, q}
  Nothing = Nothing
  MaxEvents = 2
  Cell = {c, d}
  Small = {c}
  Callout = {c}
  Pack = Pack
  OverlayEvents = 2
INVARIANT TypeOK
INVARIANT TilesAreTrue
INVARIANT SetsAreTrue
PROPERTY BucketsFollow
CHECK_DEADLOCK FALSE
