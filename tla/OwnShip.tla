------------------------------ MODULE OwnShip ------------------------------
(* The vessel on the chart: own-ship.mjs draws the latest fix of the vessel   *)
(* store (a marker tweened from fix to fix, course and heading vectors, a pill *)
(* for the age of the fix) and follows it, through <chart-canvas>'s camera     *)
(* modes, which the orientation button cycles; the user's gestures interrupt   *)
(* both.  A pose is a fix, or Between two; Else is any other camera value.     *)
EXTENDS Naturals

CONSTANTS Places, Headings,  \* 0 is north
          None, Between, Else,
          Stale, Lost,       \* ticks after which a fix is stale, lost
          MaxGestures        \* bound: drags, rotations and turns of the wheel
Fixes == [at : Places, head : Headings]
Modes == <<"north-up", "course-up", "head-up", "free">>
ShipConstants == /\ {Lost, MaxGestures} \subseteq Nat /\ 0 \in Headings
                 /\ None \notin Fixes \cup {Between} \cup (0 .. Lost + 1)
Cam == [at : Places \cup {Else}, bearing : Headings \cup {Else}, pitch : {0, Else}]

VARIABLES nav,      \* the position in the vessel store
          fix,      \* OwnShip._fix
          fresh,    \* _freshWall, as its age in ticks
          gps,      \* what _gps says
          drawn,    \* _renderLng.._renderRot, and the marker, hidden at None
          tween,    \* _poseRAF: the fix the next frames lead to
          vectors,  \* the pose the predictor and heading layers start from
          pill, chip,       \* what the GPS pill says, the Re-centre chip shows
          follow, centred,  \* _follow, _centered
          throttled,        \* less than 250 ms since _lastFollow
          mode,             \* OrientationControl._i; the canvas's mode is Modes[mode]
          followFix, followed, \* _followFix, _lastFollowTs is set
          cam, ease,        \* the camera, and where its ease leads
          reduced,          \* prefers-reduced-motion
          gestures
ship == <<fix, fresh, gps, drawn, tween, vectors, pill, centred>>
view == <<throttled, followFix, followed, cam, ease>>
vars == <<nav, ship, chip, follow, mode, view, reduced, gestures>>

Gesture == gestures < MaxGestures /\ gestures' = gestures + 1
Mode == Modes[mode]

Init ==
  /\ nav = None /\ fix = None /\ fresh = None /\ gps = "none" /\ drawn = None /\ tween = None
  /\ vectors = None /\ pill = "" /\ chip = FALSE /\ follow = TRUE /\ centred = FALSE
  /\ throttled = FALSE /\ mode = 1 /\ followFix = None /\ followed = FALSE
  /\ cam = [at |-> Else, bearing |-> 0, pitch |-> 0] /\ ease = None
  /\ reduced \in BOOLEAN /\ gestures = 0
-----------------------------------------------------------------------------
Over(c, change) == [f \in DOMAIN c |-> IF f \in DOMAIN change THEN change[f] ELSE c[f]]
(* map.easeTo: the ease before it stops where it is; what is not named is kept. *)
EaseTo(v, change, snap) ==
  LET to == Over(v.cam, change) IN
    IF snap THEN [cam |-> to, ease |-> None] ELSE [cam |-> v.cam, ease |-> to]
Now == [cam |-> cam, ease |-> ease]
Show(v) == cam' = v.cam /\ ease' = v.ease
(* The bearing a mode holds on every fix.                                     *)
Held(m, f) == IF m = "north-up" THEN 0 ELSE f.head
(* updateFollow: only the fix is kept in free mode.                           *)
UpdateFollow(v, m, f) ==
  IF m = "free" THEN v
  ELSE EaseTo(v, [at |-> f.at, bearing |-> Held(m, f)], reduced \/ ~followed)
Followed(m) == IF m = "free" THEN UNCHANGED followed ELSE followed' = TRUE

(* setCameraMode, after the button's _cycle.                                  *)
Flat(v, m) ==
  IF m = "free" THEN v
  ELSE EaseTo(v, IF m = "north-up" THEN [pitch |-> 0, bearing |-> 0] ELSE [pitch |-> 0], reduced)
SetCameraMode(v, m) ==
  /\ Show(IF followFix = None THEN Flat(v, m) ELSE UpdateFollow(Flat(v, m), m, followFix))
  /\ IF followFix = None THEN UNCHANGED followed ELSE Followed(m)
Cycle ==
  /\ mode' = 1 + (mode % 4)
  /\ SetCameraMode(Now, Modes[mode'])
  /\ UNCHANGED <<nav, ship, chip, follow, throttled, followFix, reduced, gestures>>

(* _renderPose: the vectors only while the fix is live.                       *)
RenderPose(p, g) ==
  /\ drawn' = p
  /\ vectors' = IF g \in {"live", "none"} THEN p ELSE None
(* _animatePose: a first, far or late fix snaps.                              *)
AnimatePose(f, snap, g) ==
  IF snap THEN tween' = None /\ RenderPose(f, g) ELSE tween' = f /\ UNCHANGED <<drawn, vectors>>
(* _applyGps: the pill tells what is not live, and the vectors go.            *)
Pill(g) == IF g \in {"stale", "lost"} THEN g ELSE ""
(* _update: a fix is fresh when the position or its clock moved on.           *)
Update(f, advanced, snap) ==
  LET freshened == fix = None \/ f.at # fix.at \/ advanced
      g == IF freshened THEN "live" ELSE gps IN
  /\ fix' = f /\ gps' = g /\ pill' = Pill(g)
  /\ fresh' = IF freshened THEN 0 ELSE fresh
  /\ AnimatePose(f, snap \/ drawn = None \/ reduced, g)
  /\ centred' = TRUE /\ chip' = ~follow
  /\ IF ~centred
     THEN /\ Show(EaseTo(Now, [at |-> f.at], reduced))
          /\ UNCHANGED <<throttled, followFix, followed>>
     ELSE IF follow /\ ~throttled
     THEN throttled' = TRUE /\ followFix' = f /\ Show(UpdateFollow(Now, Mode, f)) /\ Followed(Mode)
     ELSE UNCHANGED view
  /\ UNCHANGED <<follow, mode, reduced>>
(* The vessel store publishes: a new fix, or the last one again.              *)
Publish(f, advanced, snap) == nav' = f /\ Update(f, advanced, snap) /\ UNCHANGED gestures
Repeat == nav # None /\ Update(nav, FALSE, FALSE) /\ UNCHANGED <<nav, gestures>>
(* Mutants: a tween in flight goes on; the last fix is kept.                  *)
HideInFlight ==
  /\ nav' = None /\ UNCHANGED tween /\ drawn' = None /\ fix' = None /\ fresh' = None
  /\ gps' = "none" /\ pill' = "" /\ vectors' = None /\ chip' = FALSE
  /\ UNCHANGED <<centred, follow, mode, view, reduced, gestures>>
HideKeepsFix ==
  /\ nav' = None /\ tween' = None /\ drawn' = None /\ UNCHANGED <<fix, fresh>>
  /\ gps' = "none" /\ pill' = "" /\ vectors' = None /\ chip' = FALSE
  /\ UNCHANGED <<centred, follow, mode, view, reduced, gestures>>
(* _hide: the source was disabled, the boat goes.                             *)
Hide ==
  /\ nav' = None /\ tween' = None /\ drawn' = None /\ fix' = None /\ fresh' = None
  /\ gps' = "none" /\ pill' = "" /\ vectors' = None /\ chip' = FALSE
  /\ UNCHANGED <<centred, follow, mode, view, reduced, gestures>>
Disable == nav # None /\ Hide

Frame(last) ==
  /\ tween # None
  /\ RenderPose(IF last THEN tween ELSE Between, gps)
  /\ tween' = IF last THEN None ELSE tween
  /\ UNCHANGED <<nav, fix, fresh, gps, pill, centred, chip, follow, mode, view, reduced, gestures>>
Vectors(next) == IF next = "live" THEN vectors ELSE None
(* A second goes by; _tickGps ages the fix, which stays where it was.         *)
Second ==
  /\ fresh # None /\ fresh <= Lost /\ fresh' = fresh + 1
  /\ UNCHANGED <<nav, fix, gps, drawn, tween, vectors, pill, centred, chip, follow, mode, view, reduced, gestures>>
TickGps ==
  /\ fresh # None
  /\ LET next == IF fresh > Lost THEN "lost" ELSE IF fresh > Stale THEN "stale" ELSE "live" IN
       /\ next # gps /\ gps' = next /\ pill' = Pill(next)
       /\ vectors' = Vectors(next)
  /\ UNCHANGED <<nav, fix, fresh, drawn, tween, centred, chip, follow, mode, view, reduced, gestures>>

(* The user: a drag (ctx.camera.onGesture) breaks follow, Re-centre resumes   *)
(* it; in free mode the chart turns, by Shift+drag (no gesture of the map) or *)
(* by touch; the wheel keeps the vessel, else the cursor, where it is.        *)
SetFollow(on) == follow' = on /\ chip' = (~on /\ fix # None)
Moved(at, bearing, pitch) == cam' = [at |-> at, bearing |-> bearing, pitch |-> pitch] /\ ease' = None
OnGesture ==
  /\ Gesture /\ SetFollow(FALSE) /\ Moved(Else, cam.bearing, cam.pitch)
  /\ UNCHANGED <<nav, ship, mode, throttled, followFix, followed, reduced>>
FreeRotate(touch) ==
  /\ Gesture /\ Mode = "free" /\ Moved(cam.at, Else, Else)
  /\ IF touch THEN SetFollow(FALSE) ELSE UNCHANGED <<follow, chip>>
  /\ UNCHANGED <<nav, ship, mode, throttled, followFix, followed, reduced>>
Wheel ==
  /\ Gesture /\ UNCHANGED <<nav, ship, follow, chip, mode, throttled, followFix, followed, reduced>>
  /\ Moved(IF follow /\ fix # None THEN cam.at ELSE Else, cam.bearing, cam.pitch)
Recenter ==
  /\ chip /\ SetFollow(TRUE) /\ followFix' = fix
  /\ Show(UpdateFollow(EaseTo(Now, [at |-> fix.at], reduced), Mode, fix)) /\ Followed(Mode)
  /\ UNCHANGED <<nav, ship, mode, throttled, reduced, gestures>>

Eased(to) == cam' = to /\ UNCHANGED <<nav, ship, chip, follow, mode, throttled, followFix, followed, reduced, gestures>>
EaseMid ==
  /\ ease # None /\ UNCHANGED ease
  /\ Eased([f \in DOMAIN cam |-> IF cam[f] = ease[f] THEN cam[f] ELSE Else])
EaseEnd == ease # None /\ ease' = None /\ Eased(ease)
ThrottleEnds ==
  /\ throttled /\ throttled' = FALSE
  /\ UNCHANGED <<nav, ship, chip, follow, mode, followFix, followed, cam, ease, reduced, gestures>>

Next ==
  \/ \E f \in Fixes, a, s \in BOOLEAN : Publish(f, a, s)
  \/ Repeat \/ Disable \/ Second \/ TickGps \/ (\E l \in BOOLEAN : Frame(l))
  \/ Cycle \/ OnGesture \/ (\E t \in BOOLEAN : FreeRotate(t)) \/ Wheel \/ Recenter
  \/ EaseMid \/ EaseEnd \/ ThrottleEnds

(* Timers, frames and eases end; the feed goes on publishing what it has.     *)
Fairness ==
  /\ WF_vars(Frame(TRUE)) /\ WF_vars(EaseEnd) /\ WF_vars(ThrottleEnds)
  /\ WF_vars(Second) /\ WF_vars(TickGps) /\ SF_vars(Repeat)
Spec == Init /\ [][Next]_vars
LiveSpec == Spec /\ Fairness
-----------------------------------------------------------------------------
TypeOK ==
  /\ nav \in Fixes \cup {None} /\ fix = nav /\ fresh \in 0 .. Lost + 1 \cup {None}
  /\ gps \in {"none", "live", "stale", "lost"} /\ drawn \in Fixes \cup {None, Between}
  /\ tween \in Fixes \cup {None} /\ vectors \in Fixes \cup {None, Between}
  /\ pill = Pill(gps) /\ chip \in BOOLEAN /\ follow \in BOOLEAN /\ centred \in BOOLEAN
  /\ throttled \in BOOLEAN /\ mode \in 1 .. 4 /\ followFix \in Fixes \cup {None} /\ followed \in BOOLEAN
  /\ cam \in Cam /\ ease \in Cam \cup {None} /\ reduced \in BOOLEAN /\ gestures \in 0 .. MaxGestures

(* A source that was disabled leaves no boat behind, nor a frame that would   *)
(* draw it again; the vectors start at the boat and only from a live fix, and *)
(* the chip is there exactly when following is broken.                        *)
NoPhantomBoat ==
  /\ nav = None => drawn = None /\ tween = None /\ vectors = None /\ pill = ""
  /\ vectors # None => gps = "live" /\ vectors = drawn
  /\ chip <=> ~follow /\ fix # None

(* The boat comes to rest at its fix and, while it is followed, the camera    *)
(* reaches it at the bearing the mode holds, however many fixes, frames, eases *)
(* and mode changes cross.                                                    *)
Arrived ==
  fix # None => /\ drawn = fix
                /\ follow /\ mode # 4 => cam.at = fix.at /\ cam.bearing = (IF mode = 1 THEN 0 ELSE fix.head)
Moves == fix' # fix \/ mode' # mode

=============================================================================
