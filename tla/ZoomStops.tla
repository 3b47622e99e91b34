------------------------------ MODULE ZoomStops ------------------------------
(* The wheel's two stops, WheelZoom: the detent where overscale begins and the *)
(* floor with its elastic give, over a camera whose ceiling the shell sets     *)
(* after every move.  Zooms are counted in steps; the floor is that of one     *)
(* latitude, the detent and the data's depth those of the place in view.       *)
EXTENDS Naturals

CONSTANTS Places, Floor, Give,
          Scale, Depth,   \* of each place: where its overscale begins, its data ends
          Covered,        \* places in an active cell; the depth of others is probed
          None, MaxEvents \* bound: wheel events and moves by other means
Zooms == 0 .. Floor + Give
ZoomConstants ==
  /\ Floor \in Nat /\ Give \in Nat /\ Scale \in [Places -> Nat] /\ Depth \in [Places -> Nat]
  /\ None \notin Zooms

VARIABLES zoom, place, maxZoom,        \* MapLibre's camera and its ceiling
          ease,                        \* where an animation is taking it
          target, quiet,               \* _target, whether GESTURE_GAP_MS have passed
          armed, parked, latched,      \* _detentArmed, _detentParked, _floorLatched
          settle,                      \* _settleT
          detent,                      \* the HUD's detentZoom
          probes,                      \* places being probed for their depth
          held, byHand,                \* history: where this gesture was stopped, and
          events                       \* whether other input has moved the camera since
camera == <<zoom, place, maxZoom, ease, detent, probes>>
wheel == <<target, quiet, armed, parked, latched, settle>>
vars == <<camera, wheel, held, byHand, events>>

Event == events < MaxEvents /\ events' = events + 1
Lesser(a, b) == IF a < b THEN a ELSE b
(* _applyScaleFloor's ceiling of a place.                                      *)
ScaleFloor(p) == Lesser(Floor, Depth[p]) + Give
Init ==
  /\ place \in Places /\ zoom = 0 /\ maxZoom = ScaleFloor(place) /\ ease = None /\ detent = Scale[place]
  /\ probes = {} /\ target = None /\ quiet = TRUE /\ armed = TRUE /\ parked = FALSE /\ latched = FALSE
  /\ settle = FALSE /\ held = None /\ byHand = FALSE /\ events = 0
-----------------------------------------------------------------------------
(* A move ends: "moveend" has the HUD look the detent up and the shell apply   *)
(* the ceiling, at once in a cell and after a probe elsewhere.                 *)
MoveEnd(z, p) ==
  /\ place' = p /\ detent' = Scale[p]
  /\ IF p \in Covered
     THEN maxZoom' = ScaleFloor(p) /\ zoom' = Lesser(z, ScaleFloor(p)) /\ UNCHANGED probes
     ELSE zoom' = z /\ probes' = probes \cup {p} /\ UNCHANGED maxZoom
(* dataMaxZoomAt answers, for the place it was asked about.                    *)
Probed(p) ==
  /\ p \in probes /\ probes' = probes \ {p} /\ maxZoom' = ScaleFloor(p) /\ zoom' = Lesser(zoom, ScaleFloor(p))
  /\ UNCHANGED <<place, ease, detent, wheel, held, byHand, events>>

(* A parked detent gives way to a fresh gesture.                               *)
Releases(fresh) == fresh
(* _wheel: one event of d steps in or out, to the place p under the cursor.    *)
Wheel(in, d, pull, p) ==
  LET fresh == target = None \/ quiet
      from  == IF fresh THEN zoom ELSE target
      arm   == armed \/ from < detent
      park  == parked /\ from >= detent
      latch == latched /\ from >= Floor
      onto  == IF in THEN from + d ELSE IF from > d THEN from - d ELSE 0
      meets == in /\ detent < Floor /\ arm /\ from <= detent /\ onto > detent
      lets  == meets /\ park /\ Releases(fresh)
      stop  == meets /\ ~lets
      wish  == IF stop THEN detent ELSE onto
      over  == in /\ wish > Floor
      next  == IF over THEN (IF latch THEN Floor ELSE Floor + pull) ELSE Lesser(wish, Floor + Give)
  IN /\ Event /\ target' = next /\ quiet' = FALSE
     /\ armed' = (arm /\ ~lets) /\ parked' = ((park \/ stop) /\ ~lets) /\ latched' = (latch \/ over)
     /\ settle' = (settle \/ (over /\ ~latch))
     /\ held' = IF stop THEN detent ELSE IF fresh THEN None ELSE held
     /\ IF next = zoom THEN UNCHANGED camera
        ELSE ease' = None /\ MoveEnd(Lesser(next, maxZoom), p)
     /\ byHand' = (byHand /\ (~fresh \/ zoom' > Floor \/ ease' # None))
(* GESTURE_GAP_MS without an event, which outlast SETTLE_DELAY_MS + SETTLE_MS. *)
Pause ==
  /\ ~quiet /\ quiet' = TRUE /\ ~settle /\ (ease = None \/ byHand)
  /\ UNCHANGED <<camera, target, armed, parked, latched, settle, held, byHand, events>>
(* Mutant: the camera is not eased back.                                       *)
SettleForgets ==
  /\ settle /\ settle' = FALSE
  /\ IF zoom > Floor THEN target' = Floor ELSE UNCHANGED target
  /\ UNCHANGED <<camera, quiet, armed, parked, latched, held, byHand, events>>
(* The timer of _scheduleSettle.                                               *)
Settle ==
  /\ settle /\ settle' = FALSE
  /\ IF zoom > Floor THEN target' = Floor /\ ease' = [z |-> Floor, p |-> place] ELSE UNCHANGED <<target, ease>>
  /\ UNCHANGED <<zoom, place, maxZoom, detent, probes, quiet, armed, parked, latched, held, byHand, events>>
EaseEnd ==
  /\ ease # None /\ ease' = None /\ MoveEnd(Lesser(ease.z, maxZoom), ease.p)
  /\ UNCHANGED <<wheel, held, byHand, events>>
(* A drag or a pinch.                                                          *)
Gesture(z, p) ==
  /\ Event /\ ease' = None /\ MoveEnd(Lesser(z, maxZoom), p) /\ byHand' = TRUE
  /\ UNCHANGED <<wheel, held>>
(* The scale typed into the HUD's popover, whatever the floor.                 *)
GoToScale(z) ==
  /\ Event /\ ease' = [z |-> z, p |-> place] /\ byHand' = TRUE
  /\ UNCHANGED <<zoom, place, maxZoom, detent, probes, wheel, held>>
(* _flyToPacks: the ceiling is raised to the target first.                     *)
FlyToPacks(z, p) ==
  /\ Event /\ z <= Floor /\ maxZoom' = (IF maxZoom < z THEN z ELSE maxZoom) /\ ease' = [z |-> z, p |-> p]
  /\ byHand' = TRUE /\ UNCHANGED <<zoom, place, detent, probes, wheel, held>>

Next ==
  \/ \E in \in BOOLEAN, d \in 1 .. 3, pull \in 1 .. Give, p \in Places : Wheel(in, d, pull, p)
  \/ \E z \in Zooms, p \in Places : Gesture(z, p) \/ GoToScale(z) \/ FlyToPacks(z, p)
  \/ Pause \/ Settle \/ EaseEnd \/ \E p \in Places : Probed(p)
(* Timers, frames and probes.                                                  *)
Fairness == WF_vars(Pause) /\ WF_vars(Settle) /\ WF_vars(EaseEnd) /\ WF_vars(\E p \in Places : Probed(p))
Spec == Init /\ [][Next]_vars
LiveSpec == Spec /\ Fairness
-----------------------------------------------------------------------------
TypeOK ==
  /\ zoom \in 0 .. maxZoom /\ place \in Places /\ maxZoom \in Zooms /\ target \in Zooms \cup {None}
  /\ probes \subseteq Places \ Covered /\ held \in Zooms \cup {None}
  /\ {quiet, armed, parked, latched, settle, byHand} \subseteq BOOLEAN

(* wheel-zoom.mjs:6 "The whole scroll AND its momentum tail are absorbed, so a *)
(* throw can't punch through": a gesture the detent has stopped goes no        *)
(* further, unless it has already passed the detent of the place it came to, or *)
(* that place has none below the floor.                                         *)
Spun == ~quiet /\ held # None /\ events' # events /\ target' # target
Absorbs == Spun /\ target <= detent /\ detent < Floor => zoom' <= detent

=============================================================================
