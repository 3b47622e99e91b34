------------------------------- MODULE MCMotion -------------------------------
(* What moves over the chart: own ship and the camera modes that follow it,   *)
(* the other vessels, the stops of the wheel's zoom, and the weather overlay. *)
EXTENDS Naturals, Sequences, TLC

CONSTANTS Places, Headings, Between, Else, Lost, MaxGestures, Nowhere, StaleAge, Floor, Give,
          Scale, Depth, Covered, Waters, StopEvents, w1, w2, Polls, MaxRefreshes, MaxEvents,
          Wind, Shifts, Mmsi, MaxChanges, MaxClicks

VARIABLES part, \* the component this behaviour is one of; the variables of the others rest
          nav, fix, fresh, gps, drawn, tween, vectors, pill, chip, follow, centred, throttled,
          mode, followFix, followed, cam, ease, reduced, gestures, zoom, place, maxZoom, target,
          quiet, armed, parked, latched, settle, detent, probes, held, byHand, events, upstream,
          config, seen, window, chain, pub, docs, grids, load, refresh, centre, hi, recent, pos,
          auto, gone, wanted, overlap, refreshes, base, fine, frac, server, wire, last, started,
          markers, visible, hidden, card, changes, clicks

MCScale == (w1 :> 3) @@ (w2 :> 2)
MCDepth == (w1 :> 5) @@ (w2 :> 4)

Ship == INSTANCE OwnShip WITH None <- Nowhere, Stale <- StaleAge
Stops == INSTANCE ZoomStops WITH Places <- Waters, MaxEvents <- StopEvents, None <- Nowhere
Forecast == INSTANCE WindForecast
Grid == INSTANCE WindGrid WITH None <- Nowhere
Ais == INSTANCE AisTargets WITH Place <- Places, None <- Nowhere

MotionConstants ==
  /\ Ship!ShipConstants /\ Stops!ZoomConstants /\ Ais!AisConstants /\ Forecast!ForecastConstants
  /\ Grid!GridConstants
ASSUME ConstantsAssumption == MotionConstants

vars == <<part, nav, fix, fresh, gps, drawn, tween, vectors, pill, chip, follow, centred,
           throttled, mode, followFix, followed, cam, ease, reduced, gestures, zoom, place,
           maxZoom, target, quiet, armed, parked, latched, settle, detent, probes, held, byHand,
           events, upstream, config, seen, window, chain, pub, docs, grids, load, refresh,
           centre, hi, recent, pos, auto, gone, wanted, overlap, refreshes, base, fine, frac,
           server, wire, last, started, markers, visible, hidden, card, changes, clicks>>
NotShip == <<zoom, place, maxZoom, target, quiet, armed, parked, latched, settle, detent,
             probes, held, byHand, events, upstream, config, seen, window, chain, pub, docs,
             grids, load, refresh, centre, hi, recent, pos, auto, gone, wanted, overlap,
             refreshes, base, fine, frac, server, wire, last, started, markers, visible, hidden,
             card, changes, clicks>>
NotStops == <<nav, fix, fresh, gps, drawn, tween, vectors, pill, chip, follow, centred,
              throttled, mode, followFix, followed, cam, reduced, gestures, upstream, config,
              seen, window, chain, pub, docs, grids, load, refresh, centre, hi, recent, pos,
              auto, gone, wanted, overlap, refreshes, base, fine, frac, server, wire, last,
              started, markers, visible, hidden, card, changes, clicks>>
NotForecast == <<nav, fix, fresh, gps, drawn, tween, vectors, pill, chip, follow, centred,
                 throttled, mode, followFix, followed, cam, ease, reduced, gestures, zoom,
                 place, maxZoom, target, quiet, armed, parked, latched, settle, detent, probes,
                 held, byHand, base, fine, frac, server, wire, last, started, markers, visible,
                 hidden, card, changes, clicks>>
NotGrid == <<nav, fix, fresh, gps, drawn, tween, vectors, pill, chip, follow, centred,
             throttled, mode, followFix, followed, cam, ease, reduced, gestures, zoom, place,
             maxZoom, target, quiet, armed, parked, latched, settle, detent, probes, held,
             byHand, events, upstream, config, seen, window, chain, pub, docs, grids, load,
             refresh, centre, hi, recent, auto, gone, wanted, overlap, refreshes, server, wire,
             last, started, markers, visible, hidden, card, changes, clicks>>
NotAis == <<nav, fix, fresh, gps, drawn, tween, vectors, pill, chip, follow, centred, throttled,
            mode, followFix, followed, cam, ease, reduced, gestures, zoom, place, maxZoom,
            target, quiet, armed, parked, latched, settle, detent, probes, held, byHand, events,
            upstream, config, seen, window, chain, pub, docs, grids, load, refresh, centre, hi,
            recent, pos, auto, gone, wanted, overlap, refreshes, base, fine, frac>>

Init ==
  \/ /\ part = "ship" /\ Ship!Init
     /\ zoom = 0 /\ place = 0 /\ maxZoom = 0 /\ target = 0 /\ quiet = 0 /\ armed = 0
     /\ parked = 0 /\ latched = 0 /\ settle = 0 /\ detent = 0 /\ probes = 0 /\ held = 0
     /\ byHand = 0 /\ events = 0 /\ upstream = 0 /\ config = 0 /\ seen = 0 /\ window = 0
     /\ chain = 0 /\ pub = 0 /\ docs = 0 /\ grids = 0 /\ load = 0 /\ refresh = 0 /\ centre = 0
     /\ hi = 0 /\ recent = 0 /\ pos = 0 /\ auto = 0 /\ gone = 0 /\ wanted = 0 /\ overlap = 0
     /\ refreshes = 0 /\ base = 0 /\ fine = 0 /\ frac = 0 /\ server = 0 /\ wire = 0 /\ last = 0
     /\ started = 0 /\ markers = 0 /\ visible = 0 /\ hidden = 0 /\ card = 0 /\ changes = 0
     /\ clicks = 0
  \/ /\ part = "stops" /\ Stops!Init
     /\ nav = 0 /\ fix = 0 /\ fresh = 0 /\ gps = 0 /\ drawn = 0 /\ tween = 0 /\ vectors = 0
     /\ pill = 0 /\ chip = 0 /\ follow = 0 /\ centred = 0 /\ throttled = 0 /\ mode = 0
     /\ followFix = 0 /\ followed = 0 /\ cam = 0 /\ reduced = 0 /\ gestures = 0 /\ upstream = 0
     /\ config = 0 /\ seen = 0 /\ window = 0 /\ chain = 0 /\ pub = 0 /\ docs = 0 /\ grids = 0
     /\ load = 0 /\ refresh = 0 /\ centre = 0 /\ hi = 0 /\ recent = 0 /\ pos = 0 /\ auto = 0
     /\ gone = 0 /\ wanted = 0 /\ overlap = 0 /\ refreshes = 0 /\ base = 0 /\ fine = 0
     /\ frac = 0 /\ server = 0 /\ wire = 0 /\ last = 0 /\ started = 0 /\ markers = 0
     /\ visible = 0 /\ hidden = 0 /\ card = 0 /\ changes = 0 /\ clicks = 0
  \/ /\ part = "forecast" /\ Forecast!Init
     /\ nav = 0 /\ fix = 0 /\ fresh = 0 /\ gps = 0 /\ drawn = 0 /\ tween = 0 /\ vectors = 0
     /\ pill = 0 /\ chip = 0 /\ follow = 0 /\ centred = 0 /\ throttled = 0 /\ mode = 0
     /\ followFix = 0 /\ followed = 0 /\ cam = 0 /\ ease = 0 /\ reduced = 0 /\ gestures = 0
     /\ zoom = 0 /\ place = 0 /\ maxZoom = 0 /\ target = 0 /\ quiet = 0 /\ armed = 0
     /\ parked = 0 /\ latched = 0 /\ settle = 0 /\ detent = 0 /\ probes = 0 /\ held = 0
     /\ byHand = 0 /\ base = 0 /\ fine = 0 /\ frac = 0 /\ server = 0 /\ wire = 0 /\ last = 0
     /\ started = 0 /\ markers = 0 /\ visible = 0 /\ hidden = 0 /\ card = 0 /\ changes = 0
     /\ clicks = 0
  \/ /\ part = "grid" /\ Grid!Init
     /\ nav = 0 /\ fix = 0 /\ fresh = 0 /\ gps = 0 /\ drawn = 0 /\ tween = 0 /\ vectors = 0
     /\ pill = 0 /\ chip = 0 /\ follow = 0 /\ centred = 0 /\ throttled = 0 /\ mode = 0
     /\ followFix = 0 /\ followed = 0 /\ cam = 0 /\ ease = 0 /\ reduced = 0 /\ gestures = 0
     /\ zoom = 0 /\ place = 0 /\ maxZoom = 0 /\ target = 0 /\ quiet = 0 /\ armed = 0
     /\ parked = 0 /\ latched = 0 /\ settle = 0 /\ detent = 0 /\ probes = 0 /\ held = 0
     /\ byHand = 0 /\ events = 0 /\ upstream = 0 /\ config = 0 /\ seen = 0 /\ window = 0
     /\ chain = 0 /\ pub = 0 /\ docs = 0 /\ grids = 0 /\ load = 0 /\ refresh = 0 /\ centre = 0
     /\ hi = 0 /\ recent = 0 /\ auto = 0 /\ gone = 0 /\ wanted = 0 /\ overlap = 0
     /\ refreshes = 0 /\ server = 0 /\ wire = 0 /\ last = 0 /\ started = 0 /\ markers = 0
     /\ visible = 0 /\ hidden = 0 /\ card = 0 /\ changes = 0 /\ clicks = 0
  \/ /\ part = "ais" /\ Ais!Init
     /\ nav = 0 /\ fix = 0 /\ fresh = 0 /\ gps = 0 /\ drawn = 0 /\ tween = 0 /\ vectors = 0
     /\ pill = 0 /\ chip = 0 /\ follow = 0 /\ centred = 0 /\ throttled = 0 /\ mode = 0
     /\ followFix = 0 /\ followed = 0 /\ cam = 0 /\ ease = 0 /\ reduced = 0 /\ gestures = 0
     /\ zoom = 0 /\ place = 0 /\ maxZoom = 0 /\ target = 0 /\ quiet = 0 /\ armed = 0
     /\ parked = 0 /\ latched = 0 /\ settle = 0 /\ detent = 0 /\ probes = 0 /\ held = 0
     /\ byHand = 0 /\ events = 0 /\ upstream = 0 /\ config = 0 /\ seen = 0 /\ window = 0
     /\ chain = 0 /\ pub = 0 /\ docs = 0 /\ grids = 0 /\ load = 0 /\ refresh = 0 /\ centre = 0
     /\ hi = 0 /\ recent = 0 /\ pos = 0 /\ auto = 0 /\ gone = 0 /\ wanted = 0 /\ overlap = 0
     /\ refreshes = 0 /\ base = 0 /\ fine = 0 /\ frac = 0
Next ==
  \/ part = "ship" /\ Ship!Next /\ UNCHANGED <<part, NotShip>>
  \/ part = "stops" /\ Stops!Next /\ UNCHANGED <<part, NotStops>>
  \/ part = "forecast" /\ Forecast!Next /\ UNCHANGED <<part, NotForecast>>
  \/ part = "grid" /\ Grid!Next /\ UNCHANGED <<part, NotGrid>>
  \/ part = "ais" /\ Ais!Next /\ UNCHANGED <<part, NotAis>>
Spec == Init /\ [][Next]_vars

(* Each component under the fairness its own module states.                     *)
ShipStep(A) == part = "ship" /\ A /\ UNCHANGED <<part, NotShip>>
StopsStep(A) == part = "stops" /\ A /\ UNCHANGED <<part, NotStops>>
ForecastStep(A) == part = "forecast" /\ A /\ UNCHANGED <<part, NotForecast>>
AisStep(A) == part = "ais" /\ A /\ UNCHANGED <<part, NotAis>>
Fairness ==
  /\ WF_vars(ShipStep(Ship!Frame(TRUE)))
  /\ WF_vars(ShipStep(Ship!EaseEnd))
  /\ WF_vars(ShipStep(Ship!ThrottleEnds))
  /\ WF_vars(ShipStep(Ship!Second))
  /\ WF_vars(ShipStep(Ship!TickGps))
  /\ SF_vars(ShipStep(Ship!Repeat))
  /\ WF_vars(StopsStep(Stops!Pause))
  /\ WF_vars(StopsStep(Stops!Settle))
  /\ WF_vars(StopsStep(Stops!EaseEnd))
  /\ WF_vars(StopsStep(\E p \in Waters : Stops!Probed(p)))
  /\ WF_vars(ForecastStep(Forecast!RefreshList(TRUE)))
  /\ WF_vars(ForecastStep(Forecast!RefreshPost(TRUE)))
  /\ WF_vars(ForecastStep(Forecast!RefreshFire))
  /\ WF_vars(ForecastStep(Forecast!RefreshBase(TRUE)))
  /\ WF_vars(ForecastStep(Forecast!RefreshHi(TRUE)))
  /\ WF_vars(ForecastStep(Forecast!RefreshMid(TRUE)))
  /\ WF_vars(AisStep(Ais!Send))
  /\ WF_vars(AisStep(Ais!Emit))
  /\ WF_vars(AisStep(Ais!Start))
LiveSpec == Spec /\ Fairness
-----------------------------------------------------------------------------
(* The state of each component is typed.                                      *)
TypeOK ==
  /\ part = "ship" => Ship!TypeOK
  /\ part = "stops" => Stops!TypeOK
  /\ part = "forecast" => Forecast!TypeOK
  /\ part = "grid" => Grid!TypeOK
  /\ part = "ais" => Ais!TypeOK

(* Once the position is gone neither frames nor ticks draw the boat again; the*)
(* vectors start at the boat and only from a live fix, and the chip is there  *)
(* exactly when following is broken; the other vessels on the chart are those *)
(* of the last message, as the Layers control shows them.                     *)
NoPhantomBoat ==
  /\ part = "ship" => Ship!NoPhantomBoat
  /\ part = "ais" => Ais!MarkersFollow

(* The grids are of the documents last read and show one wind in the tile, the*)
(* strip and the readout; writes of the window and of the refresh keep each   *)
(* other's part.                                                              *)
WindIsOne ==
  /\ part = "forecast" => Forecast!GridsFollowDocs /\ Forecast!CentreKept
  /\ part = "grid" => Grid!SameWindEverywhere /\ Grid!StepsAreExact

(* A fix that stays is reached by the boat, and in a following mode by the    *)
(* camera at the mode's bearing; a throw the detent stopped goes no further in*)
(* its gesture, a scroll past the floor settles back to it; a refresh of the  *)
(* weather ends, and the targets of the server come to be shown.              *)
CameraArrives ==
  /\ [][part = "stops" => Stops!Absorbs]_vars
  /\ \/ []<>((part = "ship" => Ship!Arrived) /\ (part = "forecast" => Forecast!RefreshOver))
     \/ []<><<part = "ship" /\ Ship!Moves>>_vars
  /\ <>[](part = "stops" => zoom <= Floor \/ byHand)
  /\ <>[](part = "ais" => Ais!Shows)
=============================================================================
