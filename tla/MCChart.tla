------------------------------- MODULE MCChart --------------------------------
(* The chart canvas's style: what server mode keeps on the map, the SCAMIN    *)
(* gate, the styles the browser builds, and what their expressions draw.      *)
EXTENDS Naturals, Sequences, FiniteSets

CONSTANTS Scheme, Pitch, Pack, PackList, None, MaxSetCalls, MaxBakes, MaxFails, MaxCalls,
          CanvasSetting, CanvasChanges, MaxBand, MaxEvents, Sets, MaxChanges, MaxRebuilds,
          Depth, Day

VARIABLES part, \* the component this behaviour is one of; the variables of the others rest
          mariner, engineMode, cached, lastMariner, engineSet, serverSets, basemap, coastline,
          live, loaded, timer, waiting, calls, gen, left, overlapped, failed, told, band,
          gesture, engine, last, light, sweep, forcing, filter, worker, changed, reload, tiles,
          busy, internals, bare, events, now, cells, off, sets, loading, late, changes,
          rebuilds, feature

Canvas == INSTANCE ChartCanvas WITH Setting <- CanvasSetting, MaxChanges <- CanvasChanges
Gate == INSTANCE ScaminGate
Style == INSTANCE ChartStyle
Portrayal == INSTANCE Portrayal

ChartConstants ==
  /\ Canvas!CanvasConstants /\ Gate!GateConstants /\ Style!StyleConstants
  /\ Portrayal!PortrayalConstants
ASSUME ConstantsAssumption == ChartConstants

vars == <<part, mariner, engineMode, cached, lastMariner, engineSet, serverSets, basemap,
           coastline, live, loaded, timer, waiting, calls, gen, left, overlapped, failed, told,
           band, gesture, engine, last, light, sweep, forcing, filter, worker, changed, reload,
           tiles, busy, internals, bare, events, now, cells, off, sets, loading, late, changes,
           rebuilds, feature>>
NotCanvas == <<band, gesture, engine, last, light, sweep, forcing, filter, worker, changed,
               reload, tiles, busy, internals, bare, events, now, cells, off, sets, loading,
               late, changes, rebuilds, feature>>
NotGate == <<mariner, engineMode, cached, lastMariner, engineSet, serverSets, basemap,
             coastline, live, loaded, waiting, calls, gen, left, overlapped, failed, told, now,
             cells, off, sets, loading, late, changes, rebuilds, feature>>
NotStyle == <<mariner, engineMode, cached, lastMariner, engineSet, serverSets, coastline,
              loaded, timer, waiting, calls, gen, left, overlapped, failed, told, band, gesture,
              engine, last, light, sweep, forcing, filter, worker, changed, reload, tiles, busy,
              internals, bare, events, feature>>
NotPortrayal == <<engineMode, cached, lastMariner, engineSet, serverSets, basemap, coastline,
                  live, loaded, timer, waiting, calls, gen, left, overlapped, failed, told,
                  band, gesture, engine, last, light, sweep, forcing, filter, worker, changed,
                  reload, tiles, busy, internals, bare, events, now, cells, off, sets, loading,
                  late, changes, rebuilds>>

Init ==
  \/ /\ part = "canvas" /\ Canvas!Init
     /\ band = 0 /\ gesture = 0 /\ engine = 0 /\ last = 0 /\ light = 0 /\ sweep = 0
     /\ forcing = 0 /\ filter = 0 /\ worker = 0 /\ changed = 0 /\ reload = 0 /\ tiles = 0
     /\ busy = 0 /\ internals = 0 /\ bare = 0 /\ events = 0 /\ now = 0 /\ cells = 0 /\ off = 0
     /\ sets = 0 /\ loading = 0 /\ late = 0 /\ changes = 0 /\ rebuilds = 0 /\ feature = 0
  \/ /\ part = "gate" /\ Gate!Init
     /\ mariner = 0 /\ engineMode = 0 /\ cached = 0 /\ lastMariner = 0 /\ engineSet = 0
     /\ serverSets = 0 /\ basemap = 0 /\ coastline = 0 /\ live = 0 /\ loaded = 0 /\ waiting = 0
     /\ calls = 0 /\ gen = 0 /\ left = 0 /\ overlapped = 0 /\ failed = 0 /\ told = 0 /\ now = 0
     /\ cells = 0 /\ off = 0 /\ sets = 0 /\ loading = 0 /\ late = 0 /\ changes = 0
     /\ rebuilds = 0 /\ feature = 0
  \/ /\ part = "style" /\ Style!Init
     /\ mariner = 0 /\ engineMode = 0 /\ cached = 0 /\ lastMariner = 0 /\ engineSet = 0
     /\ serverSets = 0 /\ coastline = 0 /\ loaded = 0 /\ timer = 0 /\ waiting = 0 /\ calls = 0
     /\ gen = 0 /\ left = 0 /\ overlapped = 0 /\ failed = 0 /\ told = 0 /\ band = 0
     /\ gesture = 0 /\ engine = 0 /\ last = 0 /\ light = 0 /\ sweep = 0 /\ forcing = 0
     /\ filter = 0 /\ worker = 0 /\ changed = 0 /\ reload = 0 /\ tiles = 0 /\ busy = 0
     /\ internals = 0 /\ bare = 0 /\ events = 0 /\ feature = 0
  \/ /\ part = "portrayal" /\ Portrayal!Init
     /\ engineMode = 0 /\ cached = 0 /\ lastMariner = 0 /\ engineSet = 0 /\ serverSets = 0
     /\ basemap = 0 /\ coastline = 0 /\ live = 0 /\ loaded = 0 /\ timer = 0 /\ waiting = 0
     /\ calls = 0 /\ gen = 0 /\ left = 0 /\ overlapped = 0 /\ failed = 0 /\ told = 0
     /\ band = 0 /\ gesture = 0 /\ engine = 0 /\ last = 0 /\ light = 0 /\ sweep = 0
     /\ forcing = 0 /\ filter = 0 /\ worker = 0 /\ changed = 0 /\ reload = 0 /\ tiles = 0
     /\ busy = 0 /\ internals = 0 /\ bare = 0 /\ events = 0 /\ now = 0 /\ cells = 0 /\ off = 0
     /\ sets = 0 /\ loading = 0 /\ late = 0 /\ changes = 0 /\ rebuilds = 0
Next ==
  \/ part = "canvas" /\ Canvas!Next /\ UNCHANGED <<part, NotCanvas>>
  \/ part = "gate" /\ Gate!Next /\ UNCHANGED <<part, NotGate>>
  \/ part = "style" /\ Style!Next /\ UNCHANGED <<part, NotStyle>>
  \/ part = "portrayal" /\ Portrayal!Next /\ UNCHANGED <<part, NotPortrayal>>
Spec == Init /\ [][Next]_vars

(* Each component under the fairness its own module states.                     *)
CanvasStep(A) == part = "canvas" /\ A /\ UNCHANGED <<part, NotCanvas>>
GateStep(A) == part = "gate" /\ A /\ UNCHANGED <<part, NotGate>>
Fairness ==
  /\ WF_vars(CanvasStep(Canvas!EngineRestyle \/ Canvas!Idle \/ Canvas!Answer))
  /\ WF_vars(GateStep(Gate!MoveEnd))
  /\ WF_vars(GateStep(Gate!ApplySettled))
  /\ WF_vars(GateStep(Gate!Force))
  /\ WF_vars(GateStep(Gate!Sweep))
  /\ WF_vars(GateStep(Gate!SetsLanded))
  /\ WF_vars(GateStep(Gate!Frame))
  /\ WF_vars(GateStep(Gate!Parsed))
LiveSpec == Spec /\ Fairness
-----------------------------------------------------------------------------
(* The state of each component is typed.                                      *)
TypeOK ==
  /\ part = "canvas" => Canvas!TypeOK
  /\ part = "gate" => Gate!TypeOK
  /\ part = "style" => Style!TypeOK
  /\ part = "portrayal" => Portrayal!TypeOK

(* Whatever order restyles, failed requests, rebuilds and answers took, the   *)
(* map at rest shows the settings, packs and basemap chosen, and the next     *)
(* difference starts from what it shows.                                      *)
StyleIsCurrent == part = "canvas" => Canvas!SerialChangesShow /\ Canvas!DiffBaseIsShown

(* The layers updated in place are those a style built anew would have, finer *)
(* charts cover coarser ones; everything that compares a depth with the       *)
(* safety contour agrees, periods are read as the reference reads them, a text*)
(* is drawn by one layer and data quality by its own switch.                  *)
DrawnRight ==
  /\ part = "style" => Style!UpdatersMatchRebuild /\ Style!FinerOnTop
  /\ part = "portrayal" => Portrayal!SafetyAgrees /\ Portrayal!DatesAsReference /\ Portrayal!LabelsOnce /\ Portrayal!QualityIsItsOwn

(* Once changes, gestures and requests stop, the restyles come to rest and the*)
(* gate ends at the display's scale, in the filters and in every tile; until  *)
(* then it reloads no source under a gesture, and a display item turned on    *)
(* hides nothing.                                                             *)
MapSettles ==
  /\ [][part = "gate" => Gate!ReloadsAtRest]_vars
  /\ [][part = "portrayal" => Portrayal!AddsOnly]_vars
  /\ <>[](/\ part = "canvas" => Canvas!Quiescent
          /\ part = "gate" => Gate!Exact \/ bare)
=============================================================================
