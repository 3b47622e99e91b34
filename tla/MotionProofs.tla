---------------------------- MODULE MotionProofs ----------------------------
(***************************************************************************)
(* Proofs about what moves over the chart: the invariants the run of       *)
(* MCMotion checks, for any places, headings, targets, zooms and bounds.   *)
(***************************************************************************)
EXTENDS MCMotion, Integers, FiniteSetTheorems, TLAPS

-----------------------------------------------------------------------------
(* Own ship and the camera.                                                *)

(* There is a state of the GPS, and an age, exactly when there is a fix.   *)
ShipInv ==
  /\ Ship!TypeOK /\ Ship!NoPhantomBoat
  /\ (fix = Nowhere <=> gps = "none") /\ (fix = Nowhere <=> fresh = Nowhere)

LEMMA OverIsCam ==
  ASSUME NEW c \in Ship!Cam, NEW change,
         "at" \in DOMAIN change => change.at \in Places \cup {Else},
         "bearing" \in DOMAIN change => change.bearing \in Headings \cup {Else},
         "pitch" \in DOMAIN change => change.pitch \in {0, Else}
  PROVE  Ship!Over(c, change) \in Ship!Cam
<1>1. DOMAIN c = {"at", "bearing", "pitch"}
  BY DEF Ship!Cam
<1>2. c.at \in Places \cup {Else} /\ c.bearing \in Headings \cup {Else} /\ c.pitch \in {0, Else}
  BY DEF Ship!Cam
<1> DEFINE d == Ship!Over(c, change)
<1>3. d = [at |-> d.at, bearing |-> d.bearing, pitch |-> d.pitch]
  BY <1>1 DEF Ship!Over
<1>4. d.at \in Places \cup {Else} /\ d.bearing \in Headings \cup {Else} /\ d.pitch \in {0, Else}
  BY <1>1, <1>2 DEF Ship!Over
<1> QED
  BY <1>3, <1>4 DEF Ship!Cam

View == [cam : Ship!Cam, ease : Ship!Cam \cup {Nowhere}]

LEMMA EaseToIsView ==
  ASSUME NEW v \in View, NEW change, NEW snap \in BOOLEAN,
         "at" \in DOMAIN change => change.at \in Places \cup {Else},
         "bearing" \in DOMAIN change => change.bearing \in Headings \cup {Else},
         "pitch" \in DOMAIN change => change.pitch \in {0, Else}
  PROVE  Ship!EaseTo(v, change, snap) \in View
<1>1. v.cam \in Ship!Cam
  BY DEF View
<1>2. Ship!Over(v.cam, change) \in Ship!Cam
  BY <1>1, OverIsCam
<1> QED
  BY <1>1, <1>2 DEF View, Ship!EaseTo

LEMMA FollowIsView ==
  ASSUME Ship!ShipConstants, ShipInv,
         NEW v \in View, NEW m, NEW f \in Ship!Fixes
  PROVE  Ship!UpdateFollow(v, m, f) \in View
<1>1. Ship!Held(m, f) \in Headings /\ f.at \in Places
  BY DEF Ship!Held, Ship!Fixes, Ship!ShipConstants
<1> DEFINE to == [at |-> f.at, bearing |-> Ship!Held(m, f)]
<1>2. to.at \in Places \cup {Else} /\ to.bearing \in Headings \cup {Else} /\ "pitch" \notin DOMAIN to
  BY <1>1
<1>3. (reduced \/ ~followed) \in BOOLEAN
  OBVIOUS
<1>4. Ship!EaseTo(v, to, reduced \/ ~followed) \in View
  <2> HIDE DEF to
  <2> QED
    BY <1>2, <1>3, EaseToIsView
<1> QED
  BY <1>4 DEF Ship!UpdateFollow

LEMMA FlatIsView ==
  ASSUME Ship!ShipConstants, ShipInv, NEW v \in View, NEW m
  PROVE  Ship!Flat(v, m) \in View
<1>1. reduced \in BOOLEAN /\ 0 \in Headings
  BY DEF ShipInv, Ship!TypeOK, Ship!ShipConstants
<1> DEFINE north == [pitch |-> 0, bearing |-> 0]
           level == [pitch |-> 0]
<1>2. north.pitch = 0 /\ north.bearing = 0 /\ "at" \notin DOMAIN north
  OBVIOUS
<1>3. level.pitch = 0 /\ DOMAIN level = {"pitch"}
  OBVIOUS
<1> HIDE DEF north, level
<1>4. Ship!EaseTo(v, north, reduced) \in View
  BY <1>1, <1>2, EaseToIsView
<1>5. Ship!EaseTo(v, level, reduced) \in View
  <2>1. "at" \notin DOMAIN level /\ "bearing" \notin DOMAIN level
    BY <1>3
  <2> QED
    BY <1>1, <1>3, <2>1, EaseToIsView
<1> QED
  BY <1>4, <1>5 DEF Ship!Flat, north, level

LEMMA NowIsView ==
  ASSUME ShipInv
  PROVE  Ship!Now \in View
BY DEF ShipInv, Ship!TypeOK, Ship!Now, View

LEMMA ShipInit ==
  ASSUME Ship!ShipConstants
  PROVE  Ship!Init => ShipInv
<1> SUFFICES ASSUME Ship!Init
             PROVE  ShipInv
  OBVIOUS
<1> USE DEF Ship!Init, Ship!ShipConstants
<1>1. cam \in Ship!Cam
  BY DEF Ship!Cam
<1>2. gestures \in 0 .. MaxGestures /\ mode \in 1 .. 4
  <2>1. MaxGestures \in Nat /\ gestures = 0 /\ mode = 1
    OBVIOUS
  <2> HIDE DEF Ship!Init
  <2> QED
    BY <2>1
<1>3. Ship!TypeOK
  BY <1>1, <1>2 DEF Ship!TypeOK, Ship!Pill
<1>4. Ship!NoPhantomBoat
  BY DEF Ship!NoPhantomBoat
<1> QED
  BY <1>3, <1>4 DEF ShipInv

(* What a step that touches neither fix, boat nor chip leaves true.        *)
LEMMA ShipRests ==
  ASSUME ShipInv, UNCHANGED <<nav, fix, fresh, gps, drawn, tween, vectors, pill, chip, follow>>,
         Ship!TypeOK'
  PROVE  ShipInv'
<1>1. Ship!NoPhantomBoat'
  <2>1. (nav = Nowhere => drawn = Nowhere /\ tween = Nowhere /\ vectors = Nowhere /\ pill = "")'
    BY DEF ShipInv, Ship!NoPhantomBoat
  <2>2. (vectors # Nowhere => gps = "live" /\ vectors = drawn)'
    BY DEF ShipInv, Ship!NoPhantomBoat
  <2>3. (chip <=> ~follow /\ fix # Nowhere)'
    BY Zenon DEF ShipInv, Ship!NoPhantomBoat
  <2> QED
    BY <2>1, <2>2, <2>3, Zenon DEF Ship!NoPhantomBoat
<1> QED
  BY <1>1 DEF ShipInv

(* A fix of the store, new or the same again: tweened to or drawn at once, *)
(* followed or not.                                                        *)
LEMMA UpdateKeeps ==
  ASSUME Ship!ShipConstants, ShipInv,
         NEW f \in Ship!Fixes, NEW a \in BOOLEAN, NEW s \in BOOLEAN,
         Ship!Update(f, a, s), nav' = f, UNCHANGED gestures
  PROVE  ShipInv'
<1> USE DEF Ship!Update
<1> DEFINE freshened == fix = Nowhere \/ f.at # fix.at \/ a
           g == IF freshened THEN "live" ELSE gps
<1>1. f # Nowhere /\ g \in {"live", "stale", "lost"}
  BY DEF ShipInv, Ship!TypeOK, Ship!ShipConstants
<1>2. fix' = f /\ gps' = g /\ pill' = Ship!Pill(g) /\ fresh' = (IF freshened THEN 0 ELSE fresh)
  OBVIOUS
<1>3. Ship!AnimatePose(f, s \/ drawn = Nowhere \/ reduced, g)
  OBVIOUS
<1>4. fresh' \in 0 .. Lost + 1 /\ fresh' # Nowhere
  <2>1. ~freshened => fresh \in 0 .. Lost + 1 /\ fresh # Nowhere
    BY DEF ShipInv, Ship!TypeOK
  <2> QED
    BY <1>2, <2>1 DEF Ship!ShipConstants
<1>5. /\ drawn' \in Ship!Fixes \cup {Nowhere, Between}
      /\ tween' \in Ship!Fixes \cup {Nowhere}
      /\ vectors' \in Ship!Fixes \cup {Nowhere, Between}
      /\ vectors' # Nowhere => g = "live" /\ vectors' = drawn'
  <2> HIDE DEF g
  <2>1. vectors # Nowhere => gps = "live" /\ vectors = drawn
    BY DEF ShipInv, Ship!NoPhantomBoat
  <2>2. gps = "live" => g = "live"
    BY DEF g
  <2> QED
    BY <1>1, <1>3, <2>1, <2>2 DEF ShipInv, Ship!TypeOK, Ship!AnimatePose, Ship!RenderPose
<1>6. cam' \in Ship!Cam /\ ease' \in Ship!Cam \cup {Nowhere}
  <2>1. Ship!Now \in View
    BY NowIsView
  <2>2. Ship!EaseTo(Ship!Now, [at |-> f.at], reduced) \in View
    <3>1. f.at \in Places /\ reduced \in BOOLEAN
      BY DEF Ship!Fixes, ShipInv, Ship!TypeOK
    <3> DEFINE to == [at |-> f.at]
    <3>2. to.at \in Places /\ "bearing" \notin DOMAIN to /\ "pitch" \notin DOMAIN to
      BY <3>1
    <3> HIDE DEF to
    <3>3. Ship!EaseTo(Ship!Now, to, reduced) \in View
      BY <2>1, <3>1, <3>2, EaseToIsView
    <3> QED
      BY <3>3 DEF to
  <2>3. Ship!UpdateFollow(Ship!Now, Ship!Mode, f) \in View
    BY <2>1, FollowIsView
  <2>4. cam \in Ship!Cam /\ ease \in Ship!Cam \cup {Nowhere}
    BY DEF ShipInv, Ship!TypeOK
  <2> QED
    BY <2>2, <2>3, <2>4 DEF Ship!Show, View, Ship!view
<1>7. throttled' \in BOOLEAN /\ followFix' \in Ship!Fixes \cup {Nowhere} /\ followed' \in BOOLEAN
  BY DEF ShipInv, Ship!TypeOK, Ship!view, Ship!Followed
<1>8. centred' = TRUE /\ chip' = ~follow /\ UNCHANGED <<follow, mode, reduced, gestures>>
  OBVIOUS
<1>9. Ship!TypeOK'
  <2> HIDE DEF g, freshened, Ship!Update
  <2> QED
    BY <1>1, <1>2, <1>4, <1>5, <1>6, <1>7, <1>8 DEF ShipInv, Ship!TypeOK, Ship!Pill
<1> HIDE DEF g, freshened, Ship!Update
<1> QED
  BY <1>1, <1>2, <1>4, <1>5, <1>8, <1>9 DEF ShipInv, Ship!TypeOK, Ship!NoPhantomBoat

LEMMA CamMoves ==
  ASSUME NEW c \in Ship!Cam,
         NEW at \in Places \cup {Else, c.at}, NEW bearing \in {Else, c.bearing}, NEW pitch \in {Else, c.pitch},
         Ship!Moved(at, bearing, pitch)
  PROVE  cam' \in Ship!Cam /\ ease' = Nowhere
BY DEF Ship!Moved, Ship!Cam

LEMMA ShipNext ==
  ASSUME Ship!ShipConstants
  PROVE  ShipInv /\ [Ship!Next]_(Ship!vars) => ShipInv'
<1> SUFFICES ASSUME ShipInv, [Ship!Next]_(Ship!vars)
             PROVE  ShipInv'
  OBVIOUS
<1> USE DEF ShipInv
<1>1. ASSUME NEW f \in Ship!Fixes, NEW a \in BOOLEAN, NEW s \in BOOLEAN, Ship!Publish(f, a, s)
      PROVE  ShipInv'
  <2> HIDE DEF ShipInv
  <2> QED
    BY <1>1, UpdateKeeps DEF Ship!Publish
<1>2. CASE Ship!Repeat
  <2>1. nav \in Ship!Fixes /\ nav' = nav /\ UNCHANGED gestures
    BY <1>2 DEF Ship!Repeat, Ship!TypeOK
  <2> HIDE DEF ShipInv
  <2> QED
    BY <1>2, <2>1, UpdateKeeps DEF Ship!Repeat
<1>3. CASE Ship!Disable
  BY <1>3 DEF Ship!Disable, Ship!Hide, Ship!TypeOK, Ship!NoPhantomBoat, Ship!Pill, Ship!view
<1>4. CASE Ship!Second
  <2>1. /\ fresh' \in 0 .. Lost + 1 /\ fresh' # Nowhere /\ fix # Nowhere
        /\ UNCHANGED <<nav, fix, gps, drawn, tween, vectors, pill, centred, chip, follow, mode, Ship!view, reduced, gestures>>
    BY <1>4 DEF Ship!Second, Ship!TypeOK, Ship!ShipConstants
  <2>2. Ship!TypeOK'
    BY <2>1 DEF Ship!TypeOK, Ship!view
  <2>3. (chip <=> ~follow /\ fix # Nowhere)'
    BY <2>1, Zenon DEF Ship!NoPhantomBoat
  <2> QED
    BY <2>1, <2>2, <2>3 DEF Ship!NoPhantomBoat
<1>5. CASE Ship!TickGps
  <2>1. UNCHANGED <<nav, fix, fresh, drawn, tween, centred, chip, follow, mode, Ship!view, reduced, gestures>>
    BY <1>5 DEF Ship!TickGps
  <2>2. gps' \in {"live", "stale", "lost"} /\ pill' = Ship!Pill(gps') /\ vectors' = Ship!Vectors(gps')
    BY <1>5 DEF Ship!TickGps
  <2>3. fix # Nowhere /\ nav # Nowhere
    BY <1>5 DEF Ship!TickGps, Ship!TypeOK
  <2>4. Ship!TypeOK'
    BY <2>1, <2>2 DEF Ship!TypeOK, Ship!view, Ship!Vectors
  <2>5. (chip <=> ~follow /\ fix # Nowhere)'
    BY <2>1, Zenon DEF Ship!NoPhantomBoat
  <2>6. (vectors # Nowhere => gps = "live" /\ vectors = drawn)'
    BY <2>1, <2>2 DEF Ship!NoPhantomBoat, Ship!Vectors
  <2> QED
    BY <2>1, <2>2, <2>3, <2>4, <2>5, <2>6 DEF Ship!NoPhantomBoat
<1>6. ASSUME NEW l \in BOOLEAN, Ship!Frame(l)
      PROVE  ShipInv'
  BY <1>6 DEF Ship!Frame, Ship!RenderPose, Ship!TypeOK, Ship!NoPhantomBoat, Ship!view
<1>7. CASE Ship!Cycle
  <2>1. cam' \in Ship!Cam /\ ease' \in Ship!Cam \cup {Nowhere}
    <3> DEFINE v == Ship!Flat(Ship!Now, Ship!Modes[mode'])
    <3>1. v \in View
      <4> HIDE DEF ShipInv
      <4> QED
        BY NowIsView, FlatIsView
    <3>2. followFix # Nowhere => Ship!UpdateFollow(v, Ship!Modes[mode'], followFix) \in View
      <4>1. followFix \in Ship!Fixes \cup {Nowhere}
        BY DEF Ship!TypeOK
      <4> HIDE DEF ShipInv, v
      <4> QED
        BY <3>1, <4>1, FollowIsView
    <3> QED
      BY <1>7, <3>1, <3>2 DEF Ship!Cycle, Ship!SetCameraMode, Ship!Show, View
  <2>2. mode' \in 1 .. 4
    BY <1>7 DEF Ship!Cycle, Ship!TypeOK
  <2>3. followed' \in BOOLEAN
    BY <1>7 DEF Ship!Cycle, Ship!SetCameraMode, Ship!Followed, Ship!TypeOK
  <2>4. UNCHANGED <<nav, fix, fresh, gps, drawn, tween, vectors, pill, centred, chip, follow, throttled, followFix, reduced, gestures>>
    BY <1>7 DEF Ship!Cycle, Ship!ship
  <2>5. Ship!TypeOK'
    BY <2>1, <2>2, <2>3, <2>4 DEF Ship!TypeOK
  <2> QED
    BY <2>4, <2>5, ShipRests
<1>8. CASE Ship!OnGesture
  <2>1. /\ UNCHANGED <<nav, fix, fresh, gps, drawn, tween, vectors, pill, centred, mode, throttled, followFix, followed, reduced>>
        /\ follow' = FALSE /\ chip' = (fix # Nowhere) /\ ease' = Nowhere
    BY <1>8 DEF Ship!OnGesture, Ship!ship, Ship!SetFollow, Ship!Moved
  <2>2. cam' \in Ship!Cam /\ gestures' \in 0 .. MaxGestures
    BY <1>8, CamMoves DEF Ship!OnGesture, Ship!TypeOK, Ship!ShipConstants, Ship!Gesture
  <2>3. Ship!TypeOK'
    BY <2>1, <2>2 DEF Ship!TypeOK
  <2>4. (chip <=> ~follow /\ fix # Nowhere)'
    BY <2>1
  <2> QED
    BY <2>1, <2>3, <2>4 DEF Ship!NoPhantomBoat
<1>9. ASSUME NEW t \in BOOLEAN, Ship!FreeRotate(t)
      PROVE  ShipInv'
  <2>1. UNCHANGED <<nav, fix, fresh, gps, drawn, tween, vectors, pill, centred, mode, throttled, followFix, followed, reduced>> /\ ease' = Nowhere
    BY <1>9 DEF Ship!FreeRotate, Ship!ship, Ship!Moved
  <2>2. cam' \in Ship!Cam /\ gestures' \in 0 .. MaxGestures
    BY <1>9, CamMoves DEF Ship!FreeRotate, Ship!TypeOK, Ship!ShipConstants, Ship!Gesture
  <2>3. \/ follow' = FALSE /\ chip' = (fix # Nowhere)
        \/ UNCHANGED <<follow, chip>>
    BY <1>9 DEF Ship!FreeRotate, Ship!SetFollow
  <2> follow' \in BOOLEAN /\ chip' \in BOOLEAN
    BY <2>3 DEF Ship!TypeOK
  <2>4. Ship!TypeOK'
    BY <2>1, <2>2 DEF Ship!TypeOK
  <2>5. CASE follow' = FALSE /\ chip' = (fix # Nowhere)
    <3>1. (chip <=> ~follow /\ fix # Nowhere)'
      BY <2>1, <2>5
    <3> QED
      BY <2>1, <2>4, <3>1 DEF Ship!NoPhantomBoat
  <2>6. CASE UNCHANGED <<follow, chip>>
    BY <2>1, <2>4, <2>6, ShipRests
  <2> QED
    BY <2>3, <2>5, <2>6
<1>10. CASE Ship!Wheel
  <2>1. UNCHANGED <<nav, fix, fresh, gps, drawn, tween, vectors, pill, centred, follow, chip, mode, throttled, followFix, followed, reduced>> /\ ease' = Nowhere
    BY <1>10 DEF Ship!Wheel, Ship!ship, Ship!Moved
  <2>2. cam' \in Ship!Cam /\ gestures' \in 0 .. MaxGestures
    BY <1>10, CamMoves DEF Ship!Wheel, Ship!TypeOK, Ship!ShipConstants, Ship!Gesture
  <2>3. Ship!TypeOK'
    BY <2>1, <2>2 DEF Ship!TypeOK
  <2> QED
    BY <2>1, <2>3, ShipRests
<1>11. CASE Ship!Recenter
  <2>1. fix \in Ship!Fixes
    BY <1>11 DEF Ship!Recenter, Ship!TypeOK, Ship!NoPhantomBoat
  <2> DEFINE to == [at |-> fix.at]
  <2>2. to.at \in Places /\ "bearing" \notin DOMAIN to /\ "pitch" \notin DOMAIN to
    BY <2>1 DEF Ship!Fixes
  <2>3. reduced \in BOOLEAN /\ Ship!Now \in View
    BY NowIsView DEF Ship!TypeOK
  <2>4. cam' = Ship!UpdateFollow(Ship!EaseTo(Ship!Now, to, reduced), Ship!Mode, fix).cam
        /\ ease' = Ship!UpdateFollow(Ship!EaseTo(Ship!Now, to, reduced), Ship!Mode, fix).ease
    BY <1>11 DEF Ship!Recenter, Ship!Show
  <2>5. cam' \in Ship!Cam /\ ease' \in Ship!Cam \cup {Nowhere}
    <3> HIDE DEF to, ShipInv
    <3>1. Ship!EaseTo(Ship!Now, to, reduced) \in View
      BY <2>2, <2>3, EaseToIsView
    <3>2. Ship!UpdateFollow(Ship!EaseTo(Ship!Now, to, reduced), Ship!Mode, fix) \in View
      BY <2>1, <3>1, FollowIsView
    <3> QED
      BY <2>4, <3>2 DEF View
  <2>6. /\ UNCHANGED <<nav, fix, fresh, gps, drawn, tween, vectors, pill, centred, mode, throttled, reduced, gestures>>
        /\ follow' = TRUE /\ chip' = FALSE /\ followFix' = fix /\ followed' \in BOOLEAN
    BY <1>11 DEF Ship!Recenter, Ship!SetFollow, Ship!Followed, Ship!ship, Ship!TypeOK
  <2> QED
    BY <2>1, <2>5, <2>6 DEF Ship!TypeOK, Ship!NoPhantomBoat, Ship!Pill
<1>12. CASE Ship!EaseMid
  <2> DEFINE to == [f \in DOMAIN cam |-> IF cam[f] = ease[f] THEN cam[f] ELSE Else]
  <2>1. DOMAIN cam = {"at", "bearing", "pitch"} /\ cam.at \in Places \cup {Else} /\ cam.bearing \in Headings \cup {Else} /\ cam.pitch \in {0, Else}
    BY DEF Ship!TypeOK, Ship!Cam
  <2>2. to = [at |-> to.at, bearing |-> to.bearing, pitch |-> to.pitch]
    BY <2>1
  <2>3. to.at \in Places \cup {Else} /\ to.bearing \in Headings \cup {Else} /\ to.pitch \in {0, Else}
    BY <2>1
  <2>4. cam' = to
    BY <1>12 DEF Ship!EaseMid, Ship!Eased
  <2>5. cam' \in Ship!Cam
    <3> HIDE DEF to
    <3> QED
      BY <2>2, <2>3, <2>4 DEF Ship!Cam
  <2>6. UNCHANGED <<nav, fix, fresh, gps, drawn, tween, vectors, pill, centred, follow, chip, mode, throttled, followFix, followed, reduced, gestures, ease>>
    BY <1>12 DEF Ship!EaseMid, Ship!Eased, Ship!ship
  <2>7. Ship!TypeOK'
    BY <2>5, <2>6 DEF Ship!TypeOK
  <2> QED
    BY <2>6, <2>7, ShipRests
<1>13. CASE Ship!EaseEnd
  <2>1. UNCHANGED <<nav, fix, fresh, gps, drawn, tween, vectors, pill, centred, follow, chip, mode, throttled, followFix, followed, reduced, gestures>>
    BY <1>13 DEF Ship!EaseEnd, Ship!Eased, Ship!ship
  <2>2. Ship!TypeOK'
    BY <1>13, <2>1 DEF Ship!EaseEnd, Ship!Eased, Ship!TypeOK
  <2> QED
    BY <2>1, <2>2, ShipRests
<1>14. CASE Ship!ThrottleEnds
  <2>1. UNCHANGED <<nav, fix, fresh, gps, drawn, tween, vectors, pill, centred, follow, chip, mode, followFix, followed, cam, ease, reduced, gestures>>
    BY <1>14 DEF Ship!ThrottleEnds, Ship!ship
  <2>2. throttled' \in BOOLEAN
    BY <1>14 DEF Ship!ThrottleEnds
  <2>3. Ship!TypeOK'
    BY <2>1, <2>2 DEF Ship!TypeOK
  <2> QED
    BY <2>1, <2>3, ShipRests
<1>15. CASE UNCHANGED Ship!vars
  <2>1. UNCHANGED <<nav, fix, fresh, gps, drawn, tween, vectors, pill, centred, follow, chip, mode, throttled, followFix, followed, cam, ease, reduced, gestures>>
    BY <1>15 DEF Ship!vars, Ship!ship, Ship!view
  <2>2. Ship!TypeOK'
    BY <2>1 DEF Ship!TypeOK
  <2> QED
    BY <2>1, <2>2, ShipRests
<1> HIDE DEF ShipInv
<1> QED
  BY <1>1, <1>2, <1>3, <1>4, <1>5, <1>6, <1>7, <1>8, <1>9, <1>10, <1>11, <1>12, <1>13, <1>14, <1>15 DEF Ship!Next

-----------------------------------------------------------------------------
(* The other vessels.                                                      *)

Messages == [Mmsi -> Ais!Target \cup {Nowhere}]

(* The markers are of the last message even while nobody listens: there is *)
(* none of either before the first subscriber opens the stream.            *)
Follows(m) ==
  /\ markers[m] # Nowhere <=> Ais!Placed(last[m])
  /\ markers[m] # Nowhere => markers[m].t = last[m] /\ markers[m].at = last[m].at /\ markers[m].glyph = Ais!Glyph(last[m])
ShownAsSaid == \A m \in Mmsi : started /\ markers[m] # Nowhere => (markers[m].shown <=> ~hidden)
AisInv ==
  /\ Ais!TypeOK /\ wire \in Seq(Messages)
  /\ \A m \in Mmsi : Follows(m)
  /\ ShownAsSaid
  /\ started => (visible <=> ~hidden)
  /\ ~started => wire = <<>>

LEMMA UpsertIsMarker ==
  ASSUME NEW rec \in Ais!Marker \cup {Nowhere}, NEW t \in Ais!Target,
         Ais!Placed(t), visible \in BOOLEAN
  PROVE  Ais!Upsert(rec, t) \in Ais!Marker
<1>1. t.at \in Places /\ t.dir \in 0 .. 1 \cup {Nowhere} /\ t.danger \in BOOLEAN
  BY DEF Ais!Target, Ais!Placed
<1>2. (IF t.dir = Nowhere THEN 0 ELSE t.dir) \in 0 .. 1
  BY <1>1
<1>3. Ais!Glyph(t) \in [directed : BOOLEAN, danger : BOOLEAN]
  BY <1>1 DEF Ais!Glyph
<1>4. (IF rec = Nowhere THEN visible ELSE rec.shown) \in BOOLEAN
  BY DEF Ais!Marker
<1> QED
  BY <1>1, <1>2, <1>3, <1>4 DEF Ais!Upsert, Ais!Marker

LEMMA AisInit ==
  ASSUME Ais!AisConstants
  PROVE  Ais!Init => AisInv
<1> SUFFICES ASSUME Ais!Init
             PROVE  AisInv
  OBVIOUS
<1>1. /\ server = Ais!Nothing /\ last = Ais!Nothing /\ markers = Ais!Nothing
      /\ wire = <<>> /\ ~started /\ started \in BOOLEAN
  BY DEF Ais!Init
<1>2. changes \in 0 .. MaxChanges /\ clicks \in 0 .. MaxClicks /\ visible \in BOOLEAN /\ hidden \in BOOLEAN
  <2>1. changes = 0 /\ clicks = 0 /\ visible = TRUE /\ hidden \in BOOLEAN
    BY DEF Ais!Init
  <2> QED
    BY <2>1 DEF Ais!AisConstants
<1>3. Ais!Nothing \in [Mmsi -> Ais!Target \cup {Nowhere}] /\ Ais!Nothing \in [Mmsi -> Ais!Marker \cup {Nowhere}]
  BY DEF Ais!Nothing
<1>4. Ais!TypeOK
  BY <1>1, <1>2, <1>3 DEF Ais!TypeOK
<1>5. \A m \in Mmsi : markers[m] = Nowhere /\ last[m] = Nowhere
  BY <1>1 DEF Ais!Nothing
<1>6. wire \in Seq(Messages)
  BY <1>1
<1> QED
  BY <1>1, <1>4, <1>5, <1>6 DEF AisInv, Follows, ShownAsSaid, Ais!Placed

(* A step that leaves the markers, the last message and the switch alone.  *)
LEMMA MarkersRest ==
  ASSUME AisInv, UNCHANGED <<last, started, markers, visible, hidden>>,
         Ais!TypeOK', wire' \in Seq(Messages), ~started => wire' = <<>>
  PROVE  AisInv'
<1>1. \A m \in Mmsi : Follows(m)'
  BY DEF AisInv, Follows
<1>2. ShownAsSaid'
  BY Zenon DEF AisInv, ShownAsSaid
<1>3. (started => (visible <=> ~hidden))'
  BY Zenon DEF AisInv
<1> QED
  BY <1>1, <1>2, <1>3 DEF AisInv

LEMMA EmitKeeps ==
  ASSUME Ais!AisConstants, AisInv, Ais!Emit
  PROVE  AisInv'
<1> DEFINE ts == Head(wire)
<1>1. /\ wire # <<>> /\ wire' = Tail(wire) /\ last' = ts /\ Ais!Apply(ts)
      /\ UNCHANGED <<server, started, visible, hidden, card, changes, clicks>>
  BY DEF Ais!Emit
<1>2. ts \in Messages /\ wire' \in Seq(Messages) /\ Len(wire') <= 2
  BY <1>1 DEF AisInv, Ais!TypeOK
<1>3. markers' = [m \in Mmsi |-> IF Ais!Placed(ts[m]) THEN Ais!Upsert(markers[m], ts[m]) ELSE Nowhere]
  BY <1>1 DEF Ais!Apply
<1> HIDE DEF ts
<1>4. \A m \in Mmsi : Ais!Placed(ts[m]) => Ais!Upsert(markers[m], ts[m]) \in Ais!Marker
  <2> SUFFICES ASSUME NEW m \in Mmsi, Ais!Placed(ts[m])
               PROVE  Ais!Upsert(markers[m], ts[m]) \in Ais!Marker
    OBVIOUS
  <2>1. ts[m] \in Ais!Target
    BY <1>2 DEF Messages, Ais!Placed
  <2>2. markers[m] \in Ais!Marker \cup {Nowhere} /\ visible \in BOOLEAN
    BY DEF AisInv, Ais!TypeOK
  <2> QED
    BY <2>1, <2>2, UpsertIsMarker
<1>5. Ais!TypeOK'
  <2>1. markers' \in [Mmsi -> Ais!Marker \cup {Nowhere}]
    BY <1>3, <1>4
  <2>2. last' \in [Mmsi -> Ais!Target \cup {Nowhere}] /\ server' \in [Mmsi -> Ais!Target \cup {Nowhere}]
    BY <1>1, <1>2 DEF Messages, AisInv, Ais!TypeOK
  <2> QED
    BY <1>1, <1>2, <2>1, <2>2 DEF AisInv, Ais!TypeOK
<1>6. ~started' => wire' = <<>>
  BY <1>1 DEF AisInv
<1>7. ASSUME NEW m \in Mmsi
      PROVE  Follows(m)'
  <2>1. CASE Ais!Placed(ts[m])
    <3>1. markers'[m] = Ais!Upsert(markers[m], ts[m]) /\ markers'[m] # Nowhere
      BY <1>3, <1>4, <2>1 DEF Ais!AisConstants
    <3> QED
      BY <1>1, <2>1, <3>1 DEF Follows, Ais!Upsert
  <2>2. CASE ~Ais!Placed(ts[m])
    BY <1>1, <1>3, <2>2 DEF Follows
  <2> QED
    BY <2>1, <2>2
<1>8. ShownAsSaid'
  <2> SUFFICES ASSUME NEW m \in Mmsi, started, markers'[m] # Nowhere
               PROVE  markers'[m].shown <=> ~hidden
    <3>1. started' = started /\ hidden' = hidden
      BY <1>1
    <3> QED
      BY <3>1, Zenon DEF ShownAsSaid
  <2>1. markers'[m] = Ais!Upsert(markers[m], ts[m])
    BY <1>3
  <2>2. markers'[m].shown = (IF markers[m] = Nowhere THEN visible ELSE markers[m].shown)
    BY <2>1 DEF Ais!Upsert
  <2>3. visible <=> ~hidden
    BY DEF AisInv
  <2>4. markers[m] # Nowhere => (markers[m].shown <=> ~hidden)
    BY DEF AisInv, ShownAsSaid
  <2> QED
    BY <2>2, <2>3, <2>4, Zenon
<1>9. (started => (visible <=> ~hidden))'
  BY <1>1, Zenon DEF AisInv
<1> QED
  BY <1>2, <1>5, <1>6, <1>7, <1>8, <1>9 DEF AisInv

(* The switch, told at the start or flipped.                               *)
LEMMA SwitchKeeps ==
  ASSUME Ais!AisConstants, AisInv, NEW v \in BOOLEAN,
         Ais!SetVisible(v), v <=> ~hidden', started', started' \in BOOLEAN, hidden' \in BOOLEAN,
         UNCHANGED <<server, wire, last, card, changes>>, clicks' \in 0 .. MaxClicks
  PROVE  AisInv'
<1>1. visible' = v /\ markers' = [m \in Mmsi |-> IF markers[m] = Nowhere THEN Nowhere ELSE [markers[m] EXCEPT !.shown = v]]
  BY DEF Ais!SetVisible
<1>2. ASSUME NEW m \in Mmsi, markers[m] # Nowhere
      PROVE  /\ markers'[m] \in Ais!Marker /\ markers'[m].shown = v
             /\ markers'[m].t = markers[m].t /\ markers'[m].at = markers[m].at /\ markers'[m].glyph = markers[m].glyph
  <2>1. markers[m] \in Ais!Marker
    BY <1>2 DEF AisInv, Ais!TypeOK
  <2> QED
    BY <1>1, <1>2, <2>1 DEF Ais!Marker
<1>3. \A m \in Mmsi : markers[m] = Nowhere => markers'[m] = Nowhere
  BY <1>1
<1>4. markers' \in [Mmsi -> Ais!Marker \cup {Nowhere}]
  BY <1>1, <1>2, <1>3
<1>5. Ais!TypeOK'
  BY <1>1, <1>4 DEF AisInv, Ais!TypeOK
<1>6. ASSUME NEW m \in Mmsi
      PROVE  Follows(m)'
  BY <1>2, <1>3 DEF AisInv, Follows, Ais!AisConstants
<1>7. ASSUME NEW m \in Mmsi, markers'[m] # Nowhere
      PROVE  markers'[m].shown <=> ~hidden'
  <2>1. markers[m] # Nowhere
    BY <1>3, <1>7
  <2>2. markers'[m].shown = v
    BY <1>2, <2>1
  <2> QED
    BY <2>2, Zenon
<1>8. ShownAsSaid'
  BY <1>7, Zenon DEF ShownAsSaid
<1>9. visible' <=> ~hidden'
  BY <1>1, Zenon
<1> QED
  BY <1>5, <1>6, <1>8, <1>9 DEF AisInv

LEMMA AisNext ==
  ASSUME Ais!AisConstants
  PROVE  AisInv /\ [Ais!Next]_(Ais!vars) => AisInv'
<1> SUFFICES ASSUME AisInv, [Ais!Next]_(Ais!vars)
             PROVE  AisInv'
  OBVIOUS
<1>1. ASSUME NEW m \in Mmsi, Ais!Select(m)
      PROVE  AisInv'
  <2>1. UNCHANGED <<server, wire, last, started, markers, visible, hidden, changes>> /\ clicks' \in 0 .. MaxClicks
    BY <1>1 DEF Ais!Select, AisInv, Ais!TypeOK, Ais!AisConstants
  <2>2. Ais!TypeOK' /\ wire' \in Seq(Messages) /\ (~started => wire' = <<>>)
    BY <2>1 DEF AisInv, Ais!TypeOK
  <2> QED
    BY <2>1, <2>2, MarkersRest
<1>2. ASSUME NEW m \in Mmsi, NEW t \in Ais!Target \cup {Nowhere}, Ais!Change(m, t)
      PROVE  AisInv'
  <2>1. UNCHANGED <<wire, last, started, markers, visible, hidden, clicks>> /\ changes' \in 0 .. MaxChanges
    BY <1>2 DEF Ais!Change, AisInv, Ais!TypeOK, Ais!AisConstants
  <2>2. server' \in [Mmsi -> Ais!Target \cup {Nowhere}]
    BY <1>2 DEF Ais!Change, AisInv, Ais!TypeOK
  <2>3. Ais!TypeOK' /\ wire' \in Seq(Messages) /\ (~started => wire' = <<>>)
    BY <2>1, <2>2 DEF AisInv, Ais!TypeOK
  <2> QED
    BY <2>1, <2>3, MarkersRest
<1>3. CASE Ais!Send
  <2>1. UNCHANGED <<server, last, started, markers, visible, hidden, changes, clicks>> /\ started
    BY <1>3 DEF Ais!Send
  <2>2. wire' = Append(wire, server) /\ Len(wire) < 2 /\ server \in Messages
    BY <1>3 DEF Ais!Send, AisInv, Ais!TypeOK, Messages
  <2>3. wire' \in Seq(Messages) /\ Len(wire') <= 2
    BY <2>2 DEF AisInv
  <2>4. Ais!TypeOK'
    BY <2>1, <2>3 DEF AisInv, Ais!TypeOK
  <2> QED
    BY <2>1, <2>3, <2>4, MarkersRest
<1>4. CASE Ais!Drop
  <2>1. UNCHANGED <<server, last, started, markers, visible, hidden, clicks>> /\ wire' = <<>> /\ changes' \in 0 .. MaxChanges
    BY <1>4 DEF Ais!Drop, AisInv, Ais!TypeOK, Ais!AisConstants
  <2>2. wire' \in Seq(Messages) /\ Len(wire') <= 2
    BY <2>1
  <2>3. Ais!TypeOK'
    BY <2>1, <2>2 DEF AisInv, Ais!TypeOK
  <2> QED
    BY <2>1, <2>2, <2>3, MarkersRest
<1>5. CASE Ais!Emit
  BY <1>5, EmitKeeps
<1>6. CASE Ais!Start
  <2>1. started' = TRUE /\ hidden' = hidden /\ UNCHANGED <<server, wire, last, card, changes, clicks>>
    BY <1>6 DEF Ais!Start
  <2>2. hidden \in BOOLEAN /\ (~hidden) \in BOOLEAN /\ clicks \in 0 .. MaxClicks
    BY DEF AisInv, Ais!TypeOK
  <2>3. Ais!SetVisible(~hidden)
    BY <1>6 DEF Ais!Start
  <2>4. (~hidden) <=> ~hidden'
    BY <2>1, Zenon
  <2>5. started' /\ started' \in BOOLEAN /\ hidden' \in BOOLEAN /\ clicks' \in 0 .. MaxClicks
    BY <2>1, <2>2
  <2> QED
    BY <2>1, <2>2, <2>3, <2>4, <2>5, SwitchKeeps
<1>7. CASE Ais!Toggle
  <2>1. started /\ started' = started /\ UNCHANGED <<server, wire, last, card, changes>>
    BY <1>7 DEF Ais!Toggle
  <2>2. hidden \in BOOLEAN /\ clicks' \in 0 .. MaxClicks /\ started \in BOOLEAN
    BY <1>7 DEF AisInv, Ais!TypeOK, Ais!Toggle, Ais!AisConstants
  <2>3. hidden' = ~hidden /\ Ais!SetVisible(hidden)
    BY <1>7 DEF Ais!Toggle
  <2>4. hidden <=> ~hidden'
    BY <2>2, <2>3
  <2>5. started' /\ started' \in BOOLEAN /\ hidden' \in BOOLEAN
    BY <2>1, <2>2, <2>3, Zenon
  <2> QED
    BY <2>1, <2>2, <2>3, <2>4, <2>5, SwitchKeeps
<1>8. CASE Ais!HideCard
  <2>1. UNCHANGED <<server, wire, last, started, markers, visible, hidden, changes, clicks>>
    BY <1>8 DEF Ais!HideCard
  <2>2. Ais!TypeOK' /\ wire' \in Seq(Messages) /\ (~started => wire' = <<>>)
    BY <2>1 DEF AisInv, Ais!TypeOK
  <2> QED
    BY <2>1, <2>2, MarkersRest
<1>9. CASE UNCHANGED Ais!vars
  <2>1. UNCHANGED <<server, wire, last, started, markers, visible, hidden, changes, clicks>>
    BY <1>9 DEF Ais!vars
  <2>2. Ais!TypeOK' /\ wire' \in Seq(Messages) /\ (~started => wire' = <<>>)
    BY <2>1 DEF AisInv, Ais!TypeOK
  <2> QED
    BY <2>1, <2>2, MarkersRest
<1> QED
  BY <1>1, <1>2, <1>3, <1>4, <1>5, <1>6, <1>7, <1>8, <1>9 DEF Ais!Next

LEMMA AisSafe == AisInv => Ais!TypeOK /\ Ais!MarkersFollow
<1> SUFFICES ASSUME AisInv
             PROVE  Ais!MarkersFollow
  BY DEF AisInv
<1> QED
  BY Zenon DEF AisInv, Follows, ShownAsSaid, Ais!MarkersFollow

-----------------------------------------------------------------------------
(* The stops of the wheel.  A gesture the detent has stopped keeps it      *)
(* armed, and has a target.                                                *)
StopsInv ==
  /\ Stops!TypeOK /\ detent \in Nat /\ events \in Nat
  /\ ease \in {Nowhere} \cup [z : Stops!Zooms, p : Waters]
  /\ held # Nowhere /\ ~quiet => armed /\ target # Nowhere

LEMMA CeilingIsZoom ==
  ASSUME Stops!ZoomConstants, NEW p \in Waters
  PROVE  Stops!ScaleFloor(p) \in Stops!Zooms
BY DEF Stops!ZoomConstants, Stops!ScaleFloor, Stops!Zooms, Stops!Lesser

(* A move ends at a zoom below the ceiling there is, or the new one.       *)
LEMMA MovesAreTyped ==
  ASSUME Stops!ZoomConstants, StopsInv, NEW p \in Waters, NEW z \in Nat, NEW m \in Stops!Zooms,
         z <= m, Stops!MoveEnd(z, p), maxZoom = m
  PROVE  /\ zoom' \in 0 .. maxZoom' /\ place' \in Waters /\ maxZoom' \in Stops!Zooms
         /\ probes' \subseteq Waters \ Covered /\ detent' \in Nat /\ zoom' <= z
<1>1. Stops!ScaleFloor(p) \in Stops!Zooms
  BY CeilingIsZoom
<1>2. detent' \in Nat /\ place' \in Waters
  BY DEF Stops!MoveEnd, Stops!ZoomConstants
<1>3. CASE p \in Covered
  BY <1>1, <1>2, <1>3 DEF Stops!MoveEnd, Stops!Lesser, Stops!Zooms, StopsInv, Stops!TypeOK
<1>4. CASE p \notin Covered
  BY <1>1, <1>2, <1>4 DEF Stops!MoveEnd, StopsInv, Stops!TypeOK, Stops!Zooms
<1> QED
  BY <1>3, <1>4

LEMMA StopsInit ==
  ASSUME Stops!ZoomConstants, Stops!Init
  PROVE  StopsInv
<1>1. maxZoom \in Stops!Zooms /\ 0 \in 0 .. maxZoom
  BY CeilingIsZoom DEF Stops!Init, Stops!Zooms, Stops!ZoomConstants
<1>2. detent \in Nat
  BY DEF Stops!Init, Stops!ZoomConstants
<1> QED
  BY <1>1, <1>2 DEF Stops!Init, StopsInv, Stops!TypeOK

(* One event of the wheel, and what the detent does of it.                 *)
LEMMA WheelKeeps ==
  ASSUME Stops!ZoomConstants, StopsInv,
         NEW in \in BOOLEAN, NEW d \in 1 .. 3, NEW pull \in 1 .. Give, NEW p \in Waters,
         Stops!Wheel(in, d, pull, p)
  PROVE  StopsInv' /\ Stops!Absorbs
<1> DEFINE renewed == target = Nowhere \/ quiet
           from  == IF renewed THEN zoom ELSE target
           arm   == armed \/ from < detent
           park  == parked /\ from >= detent
           latch == latched /\ from >= Floor
           onto  == IF in THEN from + d ELSE IF from > d THEN from - d ELSE 0
           meets == in /\ detent < Floor /\ arm /\ from <= detent /\ onto > detent
           lets  == meets /\ park /\ Stops!Releases(renewed)
           stop  == meets /\ ~lets
           wish  == IF stop THEN detent ELSE onto
           over  == in /\ wish > Floor
           next  == IF over THEN (IF latch THEN Floor ELSE Floor + pull)
                            ELSE Stops!Lesser(wish, Floor + Give)
<1>1. /\ Stops!Event /\ target' = next /\ quiet' = FALSE
      /\ armed' = (arm /\ ~lets) /\ parked' = ((park \/ stop) /\ ~lets) /\ latched' = (latch \/ over)
      /\ settle' = (settle \/ (over /\ ~latch))
      /\ held' = IF stop THEN detent ELSE IF renewed THEN Nowhere ELSE held
      /\ IF next = zoom THEN UNCHANGED <<zoom, place, maxZoom, ease, detent, probes>>
         ELSE ease' = Nowhere /\ Stops!MoveEnd(Stops!Lesser(next, maxZoom), p)
      /\ byHand' = (byHand /\ (~renewed \/ zoom' > Floor \/ ease' # Nowhere))
  BY DEF Stops!Wheel, Stops!camera
<1>2. from \in Nat /\ detent \in Nat /\ zoom \in Nat /\ maxZoom \in Stops!Zooms /\ zoom <= maxZoom
  BY DEF StopsInv, Stops!TypeOK, Stops!Zooms, Stops!ZoomConstants
<1>3. onto \in Nat
  BY <1>2
<1>4. next \in Stops!Zooms
  <2> HIDE DEF onto, stop, latch
  <2> QED
    BY <1>2, <1>3 DEF Stops!Lesser, Stops!Zooms, Stops!ZoomConstants
<1>5. /\ zoom' \in 0 .. maxZoom' /\ place' \in Waters /\ maxZoom' \in Stops!Zooms
      /\ probes' \subseteq Waters \ Covered /\ detent' \in Nat /\ zoom' <= next
      /\ ease' \in {Nowhere} \cup [z : Stops!Zooms, p : Waters]
  <2> DEFINE z == Stops!Lesser(next, maxZoom)
  <2>1. z \in Nat /\ z <= maxZoom /\ z <= next
    BY <1>2, <1>4 DEF Stops!Lesser, Stops!Zooms, Stops!ZoomConstants
  <2>2. CASE next = zoom
    <3> HIDE DEF next
    <3> QED
      BY <1>1, <1>2, <2>2 DEF StopsInv, Stops!TypeOK
  <2>3. CASE next # zoom
    <3>1. ease' = Nowhere /\ Stops!MoveEnd(z, p)
      BY <1>1, <2>3
    <3> HIDE DEF z, next
    <3>2. zoom' <= z /\ zoom' \in 0 .. maxZoom' /\ maxZoom' \in Stops!Zooms
      BY <3>1, <2>1, <1>2, MovesAreTyped
    <3> QED
      BY <3>1, <3>2, <2>1, <1>2, <1>4, MovesAreTyped DEF Stops!Zooms, Stops!ZoomConstants
  <2> QED
    BY <2>2, <2>3
<1>6. stop => detent \in Stops!Zooms /\ arm
  BY <1>2 DEF Stops!Zooms, Stops!ZoomConstants
<1>7. held' \in Stops!Zooms \cup {Nowhere}
  <2> HIDE DEF stop, renewed
  <2> QED
    BY <1>1, <1>6 DEF StopsInv, Stops!TypeOK
<1>8. held' # Nowhere => armed' /\ target' # Nowhere
  <2>1. target' # Nowhere
    <3> HIDE DEF next
    <3> QED
      BY <1>1, <1>4 DEF Stops!ZoomConstants
  <2>2. ~renewed /\ held # Nowhere => armed
    BY DEF StopsInv
  <2>3. lets => renewed /\ ~stop
    BY DEF Stops!Releases
  <2> HIDE DEF stop, renewed, lets
  <2> QED
    BY <1>1, <1>6, <2>1, <2>2, <2>3
<1>9. {quiet', armed', parked', latched', settle', byHand'} \subseteq BOOLEAN
  <2> HIDE DEF stop, renewed, lets, over, latch, park, next
  <2> QED
    BY <1>1
<1>10. events' \in Nat
  BY DEF StopsInv, Stops!Wheel, Stops!Event
<1>11. StopsInv'
  <2> HIDE DEF next
  <2> QED
    BY <1>1, <1>4, <1>5, <1>7, <1>8, <1>9, <1>10 DEF StopsInv, Stops!TypeOK
<1>12. Stops!Absorbs
  <2> SUFFICES ASSUME Stops!Spun, target <= detent, detent < Floor
               PROVE  zoom' <= detent
    BY DEF Stops!Absorbs
  <2>1. ~renewed /\ armed /\ from = target
    BY DEF StopsInv, Stops!Spun
  <2>2. wish <= detent
    BY <1>2, <1>3, <2>1 DEF Stops!Releases
  <2>3. wish \in Nat
    BY <1>2, <1>3
  <2>4. next <= detent
    <3> HIDE DEF wish
    <3> QED
      BY <1>2, <2>2, <2>3 DEF Stops!Lesser, Stops!ZoomConstants
  <2> HIDE DEF next
  <2> QED
    BY <1>2, <1>4, <1>5, <2>4 DEF Stops!Zooms, Stops!ZoomConstants
<1> QED
  BY <1>11, <1>12

LEMMA StopsNext ==
  ASSUME Stops!ZoomConstants, StopsInv, [Stops!Next]_(Stops!vars)
  PROVE  StopsInv' /\ (UNCHANGED Stops!vars \/ Stops!Absorbs)
<1> USE DEF StopsInv, Stops!TypeOK
<1>1. ASSUME NEW in \in BOOLEAN, NEW d \in 1 .. 3, NEW pull \in 1 .. Give, NEW p \in Waters,
             Stops!Wheel(in, d, pull, p)
      PROVE  StopsInv' /\ Stops!Absorbs
  BY <1>1, WheelKeeps
<1>2. ASSUME UNCHANGED target
      PROVE  Stops!Absorbs
  BY <1>2 DEF Stops!Absorbs, Stops!Spun
<1>3. ASSUME NEW z \in Stops!Zooms, NEW p \in Waters, Stops!Gesture(z, p)
      PROVE  StopsInv' /\ UNCHANGED target
  <2>1. /\ Stops!Lesser(z, maxZoom) \in Nat /\ Stops!Lesser(z, maxZoom) <= maxZoom
        /\ maxZoom \in Stops!Zooms
    BY DEF Stops!Lesser, Stops!Zooms, Stops!ZoomConstants
  <2>2. events' \in Nat
    BY <1>3 DEF Stops!Gesture, Stops!Event
  <2> QED
    BY <1>3, <2>1, <2>2, MovesAreTyped DEF Stops!Gesture, Stops!wheel
<1>4. ASSUME NEW z \in Stops!Zooms, Stops!GoToScale(z)
      PROVE  StopsInv' /\ UNCHANGED target
  BY <1>4 DEF Stops!GoToScale, Stops!Event, Stops!wheel
<1>5. ASSUME NEW z \in Stops!Zooms, NEW p \in Waters, Stops!FlyToPacks(z, p)
      PROVE  StopsInv' /\ UNCHANGED target
  <2>1. maxZoom' \in Stops!Zooms /\ zoom \in 0 .. maxZoom'
    BY <1>5 DEF Stops!FlyToPacks, Stops!Zooms, Stops!ZoomConstants
  <2>2. events' \in Nat
    BY <1>5 DEF Stops!FlyToPacks, Stops!Event
  <2> QED
    BY <1>5, <2>1, <2>2 DEF Stops!FlyToPacks, Stops!wheel
<1>6. ASSUME Stops!Pause PROVE StopsInv'
  BY <1>6 DEF Stops!Pause, Stops!camera
<1>7. ASSUME Stops!Settle PROVE StopsInv'
  <2>1. Floor \in Stops!Zooms
    BY DEF Stops!Zooms, Stops!ZoomConstants
  <2>2. /\ UNCHANGED <<zoom, place, maxZoom, detent, probes, quiet, armed, parked, latched, held,
                       byHand, events>>
        /\ settle' = FALSE
    BY <1>7 DEF Stops!Settle
  <2>3. {quiet', armed', parked', latched', settle', byHand'} \subseteq BOOLEAN
    BY <2>2, Zenon
  <2>4. /\ target' \in Stops!Zooms \cup {Nowhere} /\ (target # Nowhere => target' # Nowhere)
        /\ ease' \in {Nowhere} \cup [z : Stops!Zooms, p : Waters]
    BY <1>7, <2>1 DEF Stops!Settle, Stops!ZoomConstants
  <2>5. (held # Nowhere /\ ~quiet => armed /\ target # Nowhere)'
    BY <2>2, <2>4, Zenon
  <2>6. /\ zoom' \in 0 .. maxZoom' /\ place' \in Waters /\ maxZoom' \in Stops!Zooms
        /\ probes' \subseteq Waters \ Covered /\ held' \in Stops!Zooms \cup {Nowhere}
        /\ detent' \in Nat /\ events' \in Nat
    BY <2>2
  <2> QED
    BY <2>3, <2>4, <2>5, <2>6
<1>8. ASSUME Stops!EaseEnd PROVE StopsInv'
  <2>1. ease.z \in Stops!Zooms /\ ease.p \in Waters
    BY <1>8 DEF Stops!EaseEnd
  <2>2. /\ Stops!Lesser(ease.z, maxZoom) \in Nat /\ Stops!Lesser(ease.z, maxZoom) <= maxZoom
        /\ maxZoom \in Stops!Zooms
    BY <2>1 DEF Stops!Lesser, Stops!Zooms, Stops!ZoomConstants
  <2> QED
    BY <1>8, <2>1, <2>2, MovesAreTyped DEF Stops!EaseEnd, Stops!wheel
<1>9. ASSUME NEW p \in Waters, Stops!Probed(p)
      PROVE  StopsInv' /\ UNCHANGED target
  <2>1. maxZoom' \in Stops!Zooms /\ zoom' \in 0 .. maxZoom'
    BY <1>9, CeilingIsZoom DEF Stops!Probed, Stops!Lesser, Stops!Zooms, Stops!ZoomConstants
  <2> QED
    BY <1>9, <2>1 DEF Stops!Probed, Stops!wheel
<1>10. ASSUME UNCHANGED Stops!vars PROVE StopsInv'
  BY <1>10 DEF Stops!vars, Stops!camera, Stops!wheel
<1>11. Stops!Settle => Stops!Absorbs
  BY DEF Stops!Settle, Stops!Absorbs, Stops!Spun
<1>12. Stops!Pause \/ Stops!EaseEnd => UNCHANGED target
  BY DEF Stops!Pause, Stops!EaseEnd, Stops!wheel
<1> QED
  BY <1>1, <1>2, <1>3, <1>4, <1>5, <1>6, <1>7, <1>8, <1>9, <1>10, <1>11, <1>12 DEF Stops!Next

-----------------------------------------------------------------------------
(* The weather overlay.                                                    *)

Doc == (0 .. MaxEvents + 1) \X Forecast!Place
Docs == [Forecast!Layer -> Doc]
Config == [nonce : Nat, at : Forecast!Place]
Refreshing ==
  [step : {"off", "list", "post", "timer", "base", "hi", "mid", "cleared"},
   left : 0 .. Polls, copy : Config, got : Doc]
Centring == [step : {"off", "list", "post"}, left : 0 .. Polls, copy : Config, got : Doc]
Polling ==
  [timer : 0 .. Polls, calls : SUBSET [left : 1 .. Polls, step : {"hi", "mid"}, got : Doc]]

(* The server: no document is of a later cycle than there is upstream.     *)
ServerTyped ==
  /\ upstream \in [gfs : 0 .. events + 1, hrrr : 0 .. events + 1]
  /\ config \in Config /\ chain \in [gfs : Doc, hrrr : Doc] /\ pub \in Docs
(* The overlay: a poll has tries left.                                     *)
OverlayTyped ==
  /\ docs \in Docs /\ (docs["base"] = Forecast!None => grids = Forecast!NoDocs)
  /\ refresh \in Refreshing /\ (refresh.step \in {"timer", "base"} => refresh.left # 0)
  /\ centre \in Centring /\ hi \in Polling
  /\ pos \in Forecast!Place /\ refreshes \in Nat /\ events \in 0 .. MaxEvents
(* Writes in flight: one at a time, unless they overlapped, and what each  *)
(* writes back has the centre there is.                                    *)
WritesApart ==
  ~overlap => /\ config.at = wanted
              /\ centre.step = "off" \/ refresh.step \notin {"list", "post"}
              /\ refresh.step = "post" => refresh.copy.at = wanted
ForecastInv == ServerTyped /\ OverlayTyped /\ Forecast!GridsFollowDocs /\ WritesApart

LEMMA NoneIsDoc ==
  ASSUME Forecast!ForecastConstants
  PROVE  /\ Forecast!None \in Doc /\ Forecast!NoDocs \in Docs
         /\ Forecast!Off \in Refreshing /\ Forecast!Off \in Centring
         /\ Forecast!Off.step = "off" /\ Forecast!Off.left = 0
BY DEF Forecast!ForecastConstants, Forecast!None, Forecast!NoDocs, Forecast!Off, Doc, Docs, Config,
       Refreshing, Centring, Forecast!Place, Forecast!Layer

LEMMA ForecastInit ==
  ASSUME Forecast!ForecastConstants, Forecast!Init
  PROVE  ForecastInv
<1>1. /\ upstream = [gfs |-> 1, hrrr |-> 1] /\ config.at \in {0, 1} /\ config.nonce = 0
      /\ config = [nonce |-> config.nonce, at |-> config.at]
      /\ docs = Forecast!NoDocs /\ grids = Forecast!NoDocs
      /\ refresh = Forecast!Off /\ centre = Forecast!Off /\ hi = [timer |-> 0, calls |-> {}]
      /\ pos = 1 /\ wanted = config.at /\ refreshes = 0 /\ events = 0
  BY DEF Forecast!Init
<1>2. \A c \in 0 .. 1, p \in Forecast!Place : <<c, p>> \in Doc
  BY DEF Doc, Forecast!ForecastConstants
<1>3. chain \in [gfs : Doc, hrrr : Doc] /\ pub \in Docs
  <2>1. CASE chain = Forecast!Idle
    <3>1. pub = [base |-> <<1, 0>>, hi |-> IF config.at = 0 THEN Forecast!None ELSE <<1, config.at>>]
          \/ pub = Forecast!NoDocs
      BY DEF Forecast!Init
    <3>2. <<1, 0>> \in Doc /\ <<1, config.at>> \in Doc
      BY <1>1, <1>2 DEF Forecast!Place
    <3> QED
      BY <2>1, <3>1, <3>2, NoneIsDoc DEF Forecast!Idle, Docs, Forecast!Layer
  <2>2. CASE chain # Forecast!Idle
    <3>1. chain = [gfs |-> <<1, 0>>, hrrr |-> <<1, config.at>>] /\ pub = Forecast!NoDocs
      BY <2>2 DEF Forecast!Init
    <3>2. <<1, 0>> \in Doc /\ <<1, config.at>> \in Doc
      BY <1>1, <1>2 DEF Forecast!Place
    <3> QED
      BY <3>1, <3>2, NoneIsDoc
  <2> QED
    BY <2>1, <2>2
<1>4. ServerTyped
  BY <1>1, <1>3 DEF ServerTyped, Config, Forecast!Place
<1>5. OverlayTyped
  BY <1>1, NoneIsDoc DEF OverlayTyped, Polling, Forecast!ForecastConstants, Forecast!Place
<1>6. Forecast!GridsFollowDocs /\ WritesApart
  BY <1>1, NoneIsDoc DEF Forecast!GridsFollowDocs, WritesApart
<1> QED
  BY <1>4, <1>5, <1>6 DEF ForecastInv

LEMMA RangeGrows ==
  ASSUME NEW a \in Nat, NEW b \in Nat, a <= b
  PROVE  0 .. a + 1 \subseteq 0 .. b + 1
<1>1. SUFFICES ASSUME NEW n \in 0 .. a + 1
               PROVE  n \in 0 .. b + 1
  OBVIOUS
<1> QED
  OBVIOUS

LEMMA EventsCount ==
  ASSUME Forecast!ForecastConstants, OverlayTyped, NEW ok,
         Forecast!Fails(ok) \/ Forecast!Event \/ UNCHANGED events
  PROVE  events' \in 0 .. MaxEvents /\ events <= events'
BY DEF Forecast!ForecastConstants, OverlayTyped, Forecast!Fails, Forecast!Event

LEMMA ServerRests ==
  ASSUME Forecast!ForecastConstants, ServerTyped, OverlayTyped,
         UNCHANGED <<upstream, chain, pub>>, config' \in Config,
         events' \in 0 .. MaxEvents, events <= events'
  PROVE  ServerTyped'
<1>1. events \in Nat /\ events' \in Nat
  BY DEF OverlayTyped, Forecast!ForecastConstants
<1>2. 0 .. events + 1 \subseteq 0 .. events' + 1
  BY <1>1, RangeGrows
<1> QED
  BY <1>1, <1>2 DEF ServerTyped

(* What the plugin does.                                                   *)
LEMMA PluginSteps ==
  ASSUME Forecast!ForecastConstants, ForecastInv,
         Forecast!Work \/ Forecast!ChainFails \/ \E m \in {"gfs", "hrrr"} : Forecast!Cycle(m)
  PROVE  ForecastInv'
<1> USE DEF ForecastInv
<1>1. /\ UNCHANGED <<config, docs, grids, refresh, centre, hi, pos, wanted, overlap, refreshes>>
      /\ UNCHANGED events \/ Forecast!Event
  BY DEF Forecast!Work, Forecast!ConfigChanged, Forecast!GfsDone, Forecast!HrrrDone, Forecast!ChainFails,
         Forecast!Cycle, Forecast!Plugin, Forecast!data, Forecast!writes, Forecast!hist,
         Forecast!bounds, Forecast!Fails
<1>2. events' \in 0 .. MaxEvents /\ events <= events'
  BY <1>1, EventsCount
<1>3. 0 .. events + 1 \subseteq 0 .. MaxEvents + 1 /\ 0 .. events + 1 \subseteq 0 .. events' + 1
  <2>1. events \in Nat /\ events' \in Nat /\ events <= MaxEvents /\ MaxEvents \in Nat
    BY <1>2 DEF OverlayTyped, Forecast!ForecastConstants
  <2> QED
    BY <1>2, <2>1, RangeGrows
<1>4. upstream.gfs \in 0 .. MaxEvents + 1 /\ upstream.hrrr \in 0 .. MaxEvents + 1
  BY <1>3 DEF ServerTyped
<1>5. <<upstream.gfs, 0>> \in Doc /\ <<upstream.hrrr, config.at>> \in Doc
  BY <1>4 DEF ServerTyped, Config, Doc, Forecast!Place
<1>6. upstream' \in [gfs : 0 .. events' + 1, hrrr : 0 .. events' + 1]
  <2>1. CASE UNCHANGED upstream
    BY <2>1, <1>3 DEF ServerTyped
  <2>2. ASSUME NEW m \in {"gfs", "hrrr"}, Forecast!Cycle(m)
        PROVE  upstream' \in [gfs : 0 .. events' + 1, hrrr : 0 .. events' + 1]
    <3>1. events' = events + 1 /\ upstream' = [upstream EXCEPT ![m] = @ + 1]
      BY <2>2 DEF Forecast!Cycle, Forecast!Event
    <3>2. upstream.gfs + 1 \in 0 .. events' + 1 /\ upstream.hrrr + 1 \in 0 .. events' + 1
      BY <3>1 DEF ServerTyped, OverlayTyped
    <3> QED
      BY <3>1, <3>2, <1>3 DEF ServerTyped
  <2> QED
    BY <2>1, <2>2
       DEF Forecast!Work, Forecast!ConfigChanged, Forecast!GfsDone, Forecast!HrrrDone,
           Forecast!ChainFails, Forecast!Plugin
<1>7. chain' \in [gfs : Doc, hrrr : Doc] /\ pub' \in Docs
  <2> USE NoneIsDoc DEF ServerTyped
  <2>1. CASE Forecast!ConfigChanged
    BY <2>1, <1>5 DEF Forecast!ConfigChanged
  <2>2. CASE Forecast!GfsDone \/ Forecast!HrrrDone \/ Forecast!ChainFails
    BY <2>2 DEF Forecast!GfsDone, Forecast!HrrrDone, Forecast!ChainFails, Forecast!Plugin, Docs, Forecast!Layer
  <2>3. CASE \E m \in {"gfs", "hrrr"} : Forecast!Cycle(m)
    BY <2>3 DEF Forecast!Cycle
  <2> QED
    BY <2>1, <2>2, <2>3 DEF Forecast!Work
<1>8. ServerTyped' /\ OverlayTyped'
  BY <1>1, <1>2, <1>6, <1>7 DEF ServerTyped, OverlayTyped
<1>9. Forecast!GridsFollowDocs' /\ WritesApart'
  <2>1. Forecast!GridsFollowDocs'
    BY <1>1 DEF Forecast!GridsFollowDocs
  <2>2. WritesApart'
    BY <1>1, Zenon DEF WritesApart
  <2> QED
    BY <2>1, <2>2
<1> QED
  BY <1>8, <1>9

(* The centre is asked for only where no refresh is being written.         *)
LEMMA CentreIsAsked ==
  ASSUME Forecast!ForecastConstants, OverlayTyped, WritesApart, NEW d \in Docs,
         NEW p \in Forecast!Place, Forecast!MaybeSetCenter(d, p),
         UNCHANGED <<config, wanted, refresh>>
  PROVE  centre' \in Centring /\ WritesApart'
<1>1. CASE UNCHANGED <<centre, overlap>>
  <2>1. centre' \in Centring
    BY <1>1 DEF OverlayTyped
  <2>2. WritesApart'
    BY <1>1, Zenon DEF WritesApart
  <2> QED
    BY <2>1, <2>2
<1>2. CASE /\ centre' = [Forecast!Off EXCEPT !.step = "list", !.copy.at = p]
           /\ overlap' = (overlap \/ refresh.step \in {"list", "post"})
  <2>1. centre' \in Centring
    BY <1>2, NoneIsDoc DEF Centring, Config, Forecast!Off
  <2>2. ~overlap' => ~overlap /\ refresh.step \notin {"list", "post"}
    BY <1>2, Zenon
  <2>3. WritesApart'
    BY <2>2 DEF WritesApart
  <2> QED
    BY <2>1, <2>3
<1> QED
  BY <1>1, <1>2 DEF Forecast!MaybeSetCenter

(* Documents are loaded, a place is shown, the slider moves.               *)
LEMMA LoadSteps ==
  ASSUME Forecast!ForecastConstants, ForecastInv,
         \/ \E lost \in SUBSET Forecast!Layer : Forecast!LoadDoc(lost)
         \/ Forecast!Scrub \/ (\E p \in Forecast!Place : Forecast!Fix(p)) \/ Forecast!Later
  PROVE  ForecastInv'
<1> USE DEF ForecastInv
<1>1. /\ UNCHANGED <<upstream, chain, pub, config, wanted, refresh, hi, refreshes>>
      /\ UNCHANGED events \/ Forecast!Event
  BY DEF Forecast!LoadDoc, Forecast!Scrub, Forecast!Fix, Forecast!Later, Forecast!server,
         Forecast!writes, Forecast!hist, Forecast!bounds, Forecast!Fails
<1>2. events' \in 0 .. MaxEvents /\ events <= events'
  BY <1>1, EventsCount
<1>3. ServerTyped'
  BY <1>1, <1>2, ServerRests DEF ServerTyped
<1>4. ASSUME NEW lost \in SUBSET Forecast!Layer, Forecast!LoadDoc(lost)
      PROVE  ForecastInv'
  <2> DEFINE d == [l \in Forecast!Layer |-> IF l \in lost THEN Forecast!None ELSE pub[l]]
  <2>1. d \in Docs
    BY NoneIsDoc DEF Docs, ServerTyped
  <2>2. CASE UNCHANGED <<docs, grids, centre, overlap>>
    <3>1. UNCHANGED pos
      BY <1>4 DEF Forecast!LoadDoc
    <3>2. OverlayTyped'
      BY <1>1, <1>2, <2>2, <3>1 DEF OverlayTyped
    <3>3. Forecast!GridsFollowDocs'
      BY <1>1, <2>2 DEF Forecast!GridsFollowDocs
    <3>4. WritesApart'
      BY <1>1, <2>2, Zenon DEF WritesApart
    <3> QED
      BY <1>3, <3>2, <3>3, <3>4
  <2>3. CASE d["base"] # Forecast!None /\ docs' = d /\ Forecast!SetStep(d) /\ Forecast!MaybeSetCenter(d, pos)
    <3> HIDE DEF d
    <3>1. UNCHANGED pos /\ pos \in Forecast!Place
      BY <1>4 DEF Forecast!LoadDoc, OverlayTyped
    <3>2. centre' \in Centring /\ WritesApart'
      BY <1>1, <2>1, <2>3, <3>1, CentreIsAsked
    <3>3. docs' = d /\ grids' = d /\ docs'["base"] # Forecast!None
      BY <2>3 DEF Forecast!SetStep
    <3>4. OverlayTyped'
      BY <1>1, <1>2, <2>1, <3>1, <3>2, <3>3 DEF OverlayTyped
    <3>5. Forecast!GridsFollowDocs'
      BY <3>3 DEF Forecast!GridsFollowDocs
    <3> QED
      BY <1>3, <3>2, <3>4, <3>5
  <2>4. \/ UNCHANGED <<docs, grids, centre, overlap>>
        \/ d["base"] # Forecast!None /\ docs' = d /\ Forecast!SetStep(d) /\ Forecast!MaybeSetCenter(d, pos)
    BY <1>4 DEF Forecast!LoadDoc, Forecast!data
  <2> QED
    BY <2>2, <2>3, <2>4
<1>5. CASE Forecast!Scrub
  <2>1. /\ UNCHANGED <<docs, centre, overlap, pos>>
        /\ grids' = IF docs["base"] = Forecast!None THEN grids ELSE docs
    BY <1>5 DEF Forecast!Scrub, Forecast!SetStep, Forecast!writes, Forecast!hist
  <2>2. OverlayTyped'
    BY <1>1, <1>2, <2>1 DEF OverlayTyped
  <2>3. Forecast!GridsFollowDocs'
    BY <1>1, <2>1 DEF Forecast!GridsFollowDocs
  <2>4. WritesApart'
    BY <1>1, <2>1, Zenon DEF WritesApart
  <2> QED
    BY <1>3, <2>2, <2>3, <2>4
<1>6. ASSUME NEW p \in Forecast!Place, Forecast!Fix(p)
      PROVE  ForecastInv'
  <2>1. UNCHANGED <<docs, grids>> /\ pos' = p /\ Forecast!MaybeSetCenter(docs, p)
    BY <1>6 DEF Forecast!Fix, Forecast!data
  <2>2. centre' \in Centring /\ WritesApart'
    BY <1>1, <2>1, CentreIsAsked DEF OverlayTyped
  <2>3. OverlayTyped'
    BY <1>1, <1>2, <2>1, <2>2 DEF OverlayTyped
  <2>4. Forecast!GridsFollowDocs'
    BY <1>1, <2>1 DEF Forecast!GridsFollowDocs
  <2> QED
    BY <1>3, <2>2, <2>3, <2>4
<1>7. CASE Forecast!Later
  <2>1. UNCHANGED <<docs, grids, centre, overlap, pos>>
    BY <1>7 DEF Forecast!Later, Forecast!data, Forecast!writes, Forecast!hist
  <2>2. OverlayTyped'
    BY <1>1, <1>2, <2>1 DEF OverlayTyped
  <2>3. Forecast!GridsFollowDocs'
    BY <1>1, <2>1 DEF Forecast!GridsFollowDocs
  <2>4. WritesApart'
    BY <1>1, <2>1, Zenon DEF WritesApart
  <2> QED
    BY <1>3, <2>2, <2>3, <2>4
<1> QED
  BY <1>4, <1>5, <1>6, <1>7

(* The centre of the window is written, and its polls.                     *)
LEMMA CentreSteps ==
  ASSUME Forecast!ForecastConstants, ForecastInv, NEW ok \in BOOLEAN,
         \/ Forecast!WriteCenter(ok) \/ Forecast!HiFire
         \/ \E c \in hi.calls : Forecast!HiAnswer(c, ok) \/ Forecast!HiMid(c, ok)
  PROVE  ForecastInv'
<1> USE DEF ForecastInv
<1>1. /\ UNCHANGED <<upstream, chain, pub, refresh, pos, overlap, refreshes>>
      /\ Forecast!Fails(ok) \/ UNCHANGED events
  BY DEF Forecast!WriteCenter, Forecast!HiFire, Forecast!HiAnswer, Forecast!HiMid, Forecast!server,
         Forecast!hist, Forecast!bounds
<1>2. events' \in 0 .. MaxEvents /\ events <= events'
  BY <1>1, EventsCount
<1>3. CASE Forecast!WriteCenter(ok)
  <2>1. UNCHANGED <<docs, grids>>
    BY <1>3 DEF Forecast!WriteCenter, Forecast!data
  <2>2. CASE UNCHANGED <<config, hi, wanted>> /\ centre' \in Centring
             /\ centre.step # "off"
    <3>1. ServerTyped'
      BY <1>1, <1>2, <2>2, ServerRests DEF ServerTyped
    <3>2. OverlayTyped'
      BY <1>1, <1>2, <2>1, <2>2 DEF OverlayTyped
    <3>3. Forecast!GridsFollowDocs'
      BY <1>1, <2>1, <2>2 DEF Forecast!GridsFollowDocs
    <3>4. WritesApart'
      <4>1. ~overlap' => ~overlap
        BY <1>1, Zenon
      <4> QED
        BY <1>1, <2>2, <4>1 DEF WritesApart
    <3> QED
      BY <3>1, <3>2, <3>3, <3>4
  <2>3. CASE /\ centre' = Forecast!Off /\ config' = centre.copy
             /\ hi' = [hi EXCEPT !.timer = Polls] /\ wanted' = centre.copy.at
    <3>1. ServerTyped'
      BY <1>1, <1>2, <2>3, ServerRests DEF ServerTyped, OverlayTyped, Centring
    <3>2. OverlayTyped'
      BY <1>1, <1>2, <2>1, <2>3, NoneIsDoc DEF OverlayTyped, Polling, Forecast!ForecastConstants
    <3>3. Forecast!GridsFollowDocs'
      BY <1>1, <2>1, <2>3 DEF Forecast!GridsFollowDocs, OverlayTyped, Polling
    <3>4. WritesApart'
      <4>1. ~overlap' => ~overlap
        BY <1>1, Zenon
      <4>2. centre.step # "off"
        BY <1>3 DEF Forecast!WriteCenter
      <4> QED
        BY <1>1, <2>3, <4>1, <4>2, NoneIsDoc DEF WritesApart
    <3> QED
      BY <3>1, <3>2, <3>3, <3>4
  <2>4. centre.step # "off" => [centre EXCEPT !.step = "post", !.copy = [config EXCEPT !.at = centre.copy.at]] \in Centring
    BY DEF OverlayTyped, ServerTyped, Centring, Config
  <2> QED
    BY <1>3, <2>2, <2>3, <2>4, NoneIsDoc DEF Forecast!WriteCenter
<1>4. ASSUME /\ UNCHANGED <<config, centre, wanted>>
             /\ docs' \in Docs /\ hi' \in Polling
             /\ docs'["base"] = docs["base"]
             /\ grids' \in {grids, docs'} /\ (docs["base"] = Forecast!None => grids' = grids)
             /\ Forecast!GridsFollowDocs'
      PROVE  ForecastInv'
  <2>1. ServerTyped'
    BY <1>1, <1>2, <1>4, ServerRests DEF ServerTyped
  <2>2. OverlayTyped'
    BY <1>1, <1>2, <1>4 DEF OverlayTyped
  <2>3. WritesApart'
    BY <1>1, <1>4, Zenon DEF WritesApart
  <2> QED
    BY <1>4, <2>1, <2>2, <2>3
<1>5. CASE Forecast!HiFire
  <2>1. /\ hi' = [timer |-> 0,
                  calls |-> hi.calls \cup {[left |-> hi.timer, step |-> "hi", got |-> pub["hi"]]}]
        /\ hi.timer # 0
        /\ UNCHANGED <<config, centre, wanted, docs, grids>>
    BY <1>5 DEF Forecast!HiFire, Forecast!server, Forecast!data, Forecast!hist
  <2>2. pub["hi"] \in Doc /\ hi.timer \in 1 .. Polls
    BY <2>1 DEF ServerTyped, OverlayTyped, Polling, Docs, Forecast!Layer, Forecast!ForecastConstants
  <2>3. hi' \in Polling
    BY <2>1, <2>2 DEF OverlayTyped, Polling, Forecast!ForecastConstants
  <2>4. Forecast!GridsFollowDocs'
    BY <1>1, <2>1 DEF Forecast!GridsFollowDocs
  <2> QED
    BY <1>4, <2>1, <2>3, <2>4 DEF OverlayTyped
<1>6. ASSUME NEW c \in hi.calls, Forecast!HiAnswer(c, ok)
      PROVE  ForecastInv'
  <2>1. UNCHANGED <<config, centre, wanted, grids>>
    BY <1>6 DEF Forecast!HiAnswer, Forecast!server, Forecast!hist
  <2>2. c \in [left : 1 .. Polls, step : {"hi", "mid"}, got : Doc]
    BY DEF OverlayTyped, Polling
  <2>3. CASE /\ docs' = [docs EXCEPT !["hi"] = c.got]
             /\ hi' = [hi EXCEPT !.calls = (@ \ {c}) \cup {[c EXCEPT !.step = "mid", !.got = Forecast!None]}]
    <3>1. docs' \in Docs /\ docs'["base"] = docs["base"]
      BY <2>2, <2>3 DEF OverlayTyped, Docs, Forecast!Layer
    <3> DEFINE m == [c EXCEPT !.step = "mid", !.got = Forecast!None]
    <3>2. m \in [left : 1 .. Polls, step : {"hi", "mid"}, got : Doc] /\ m.step = "mid"
      BY <2>2, NoneIsDoc
    <3>3. hi' \in Polling /\ m \in hi'.calls
      BY <2>3, <3>2 DEF OverlayTyped, Polling
    <3>4. Forecast!GridsFollowDocs'
      BY <3>2, <3>3 DEF Forecast!GridsFollowDocs
    <3> QED
      BY <1>4, <2>1, <3>1, <3>3, <3>4
  <2>4. CASE hi' = [timer |-> c.left - 1, calls |-> hi.calls \ {c}] /\ UNCHANGED docs
    <3>1. hi' \in Polling
      BY <2>2, <2>4 DEF OverlayTyped, Polling, Forecast!ForecastConstants
    <3>2. c.step = "hi"
      BY <1>6 DEF Forecast!HiAnswer
    <3>3. Forecast!GridsFollowDocs'
      BY <1>1, <2>1, <2>4, <3>2 DEF Forecast!GridsFollowDocs
    <3> QED
      BY <1>4, <2>1, <2>4, <3>1, <3>3 DEF OverlayTyped
  <2> QED
    BY <1>6, <2>3, <2>4 DEF Forecast!HiAnswer
<1>7. ASSUME NEW c \in hi.calls, Forecast!HiMid(c, ok)
      PROVE  ForecastInv'
  <2>1. /\ UNCHANGED <<config, centre, wanted, docs>>
        /\ grids' = (IF docs["base"] = Forecast!None THEN grids ELSE docs)
        /\ hi' = [hi EXCEPT !.calls = @ \ {c}]
    BY <1>7 DEF Forecast!HiMid, Forecast!SetStep, Forecast!server, Forecast!hist
  <2>2. hi' \in Polling
    BY <2>1 DEF OverlayTyped, Polling
  <2>3. Forecast!GridsFollowDocs'
    BY <2>1 DEF Forecast!GridsFollowDocs
  <2> QED
    BY <1>4, <2>1, <2>2, <2>3 DEF OverlayTyped
<1> QED
  BY <1>3, <1>5, <1>6, <1>7

(* The refresh: its write, its polls, and the end of the overlay.          *)
LEMMA RefreshSteps ==
  ASSUME Forecast!ForecastConstants, ForecastInv, NEW ok \in BOOLEAN,
         \/ Forecast!Refresh \/ Forecast!RefreshList(ok) \/ Forecast!RefreshPost(ok)
         \/ Forecast!RefreshFire \/ Forecast!RefreshBase(ok) \/ Forecast!RefreshHi(ok)
         \/ Forecast!RefreshMid(ok) \/ Forecast!Destroy
  PROVE  ForecastInv'
<1> USE DEF ForecastInv
<1>1. /\ UNCHANGED <<upstream, chain, pub, centre, pos, wanted>>
      /\ Forecast!Fails(ok) \/ Forecast!Event \/ UNCHANGED events
      /\ hi'.calls = hi.calls /\ hi' \in Polling
      /\ refreshes' \in Nat
  <2>1. /\ UNCHANGED <<upstream, chain, pub, centre, pos, wanted>>
        /\ Forecast!Fails(ok) \/ Forecast!Event \/ UNCHANGED events
        /\ hi' \in {hi, [hi EXCEPT !.timer = 0]}
        /\ refreshes' \in {refreshes, refreshes + 1}
    BY DEF Forecast!Refresh, Forecast!RefreshList, Forecast!RefreshPost, Forecast!RefreshFire,
           Forecast!RefreshBase, Forecast!RefreshHi, Forecast!RefreshMid, Forecast!Destroy,
           Forecast!server, Forecast!hist, Forecast!bounds
  <2> QED
    BY <2>1 DEF OverlayTyped, Polling, Forecast!ForecastConstants
<1>2. events' \in 0 .. MaxEvents /\ events <= events'
  BY <1>1, EventsCount
(* The steps that leave the documents and the config as they are.          *)
<1>3. ASSUME /\ UNCHANGED <<config, docs, grids, overlap>>
             /\ refresh' \in Refreshing /\ (refresh'.step \in {"timer", "base"} => refresh'.left # 0)
             /\ refresh'.step \notin {"hi", "mid"} => refresh.step \notin {"hi", "mid"}
             /\ refresh'.step \in {"list", "post"} => refresh.step \in {"list", "post"}
             /\ refresh'.step = "post" => refresh'.copy.at = config.at
      PROVE  ForecastInv'
  <2>1. ServerTyped'
    BY <1>1, <1>2, <1>3, ServerRests DEF ServerTyped
  <2>2. OverlayTyped'
    BY <1>1, <1>2, <1>3 DEF OverlayTyped
  <2>3. Forecast!GridsFollowDocs'
    BY <1>1, <1>3 DEF Forecast!GridsFollowDocs
  <2>4. ~overlap' => ~overlap
    BY <1>3, Zenon
  <2>5. WritesApart'
    BY <1>1, <1>3, <2>4 DEF WritesApart
  <2> QED
    BY <2>1, <2>2, <2>3, <2>5
<1>4. CASE Forecast!Refresh
  <2>1. /\ refresh' = [Forecast!Off EXCEPT !.step = "list"] /\ refresh.step = "off"
        /\ overlap' = (overlap \/ centre.step # "off")
        /\ UNCHANGED <<config, docs, grids>>
    BY <1>4 DEF Forecast!Refresh, Forecast!server, Forecast!data
  <2>2. refresh' \in Refreshing /\ refresh'.step = "list"
    BY <2>1, NoneIsDoc DEF Refreshing
  <2>3. ServerTyped'
    BY <1>1, <1>2, <2>1, ServerRests DEF ServerTyped
  <2>4. OverlayTyped'
    BY <1>1, <1>2, <2>1, <2>2 DEF OverlayTyped
  <2>5. Forecast!GridsFollowDocs'
    BY <1>1, <2>1 DEF Forecast!GridsFollowDocs
  <2>6. ~overlap' => ~overlap /\ centre.step = "off"
    BY <2>1, Zenon
  <2>7. WritesApart'
    BY <1>1, <2>1, <2>2, <2>6 DEF WritesApart
  <2> QED
    BY <2>3, <2>4, <2>5, <2>7
<1>5. CASE Forecast!RefreshList(ok)
  <2>1. /\ UNCHANGED <<config, docs, grids, overlap>> /\ refresh.step = "list"
        /\ \/ refresh' = [refresh EXCEPT !.step = "post", !.copy = [config EXCEPT !.nonce = refreshes]]
           \/ refresh' = Forecast!Off
    BY <1>5 DEF Forecast!RefreshList, Forecast!server, Forecast!data, Forecast!hist
  <2>2. refresh' \in Refreshing /\ refresh'.step \in {"off", "post"}
        /\ (refresh'.step = "post" => refresh'.copy.at = config.at)
    <3>1. CASE refresh' = Forecast!Off
      BY <3>1, NoneIsDoc
    <3> DEFINE copy == [config EXCEPT !.nonce = refreshes]
    <3>2. copy \in Config /\ copy.at = config.at
      BY DEF OverlayTyped, ServerTyped, Config
    <3>3. CASE refresh' = [refresh EXCEPT !.step = "post", !.copy = copy]
      <4> HIDE DEF copy
      <4> QED
        BY <3>2, <3>3 DEF OverlayTyped, Refreshing
    <3> QED
      BY <2>1, <3>1, <3>3
  <2> QED
    BY <1>3, <2>1, <2>2
<1>6. CASE Forecast!RefreshPost(ok)
  <2>1. /\ UNCHANGED <<docs, grids, overlap>> /\ refresh.step = "post"
        /\ \/ config' = refresh.copy /\ refresh' = [Forecast!Off EXCEPT !.step = "timer", !.left = Polls]
           \/ refresh' = Forecast!Off /\ UNCHANGED config
    BY <1>6 DEF Forecast!RefreshPost, Forecast!data, Forecast!hist
  <2>2. refresh' \in Refreshing /\ refresh'.step \in {"off", "timer"}
        /\ (refresh'.step = "timer" => refresh'.left # 0)
    <3>1. Polls \in 0 .. Polls /\ Polls # 0
      BY DEF Forecast!ForecastConstants
    <3> QED
      BY <2>1, <3>1, NoneIsDoc DEF Refreshing
  <2>3. ServerTyped'
    BY <1>1, <1>2, <2>1, ServerRests DEF ServerTyped, OverlayTyped, Refreshing
  <2>4. OverlayTyped'
    BY <1>1, <1>2, <2>1, <2>2 DEF OverlayTyped
  <2>5. Forecast!GridsFollowDocs'
    BY <1>1, <2>1 DEF Forecast!GridsFollowDocs
  <2>6. ~overlap' => ~overlap
    BY <2>1, Zenon
  <2>7. WritesApart'
    BY <1>1, <2>1, <2>2, <2>6 DEF WritesApart
  <2> QED
    BY <2>3, <2>4, <2>5, <2>7
<1>7. CASE Forecast!RefreshFire
  <2>1. /\ UNCHANGED <<config, docs, grids, overlap>> /\ refresh.step = "timer"
        /\ refresh' = [refresh EXCEPT !.step = "base", !.got = pub["base"]]
    BY <1>7 DEF Forecast!RefreshFire, Forecast!server, Forecast!data, Forecast!hist
  <2>2. pub["base"] \in Doc
    BY DEF ServerTyped, Docs, Forecast!Layer
  <2>3. refresh' \in Refreshing /\ refresh'.step = "base" /\ refresh'.left = refresh.left
    BY <2>1, <2>2 DEF OverlayTyped, Refreshing
  <2>4. refresh.left # 0
    BY <2>1 DEF OverlayTyped
  <2> QED
    BY <1>3, <2>1, <2>3, <2>4
<1>8. CASE Forecast!RefreshBase(ok)
  <2>1. UNCHANGED <<config, grids, overlap>> /\ refresh.step = "base"
    BY <1>8 DEF Forecast!RefreshBase, Forecast!server, Forecast!hist
  <2>2. CASE /\ refresh.got # Forecast!None /\ docs' = [docs EXCEPT !["base"] = refresh.got]
             /\ refresh' = [refresh EXCEPT !.step = "hi", !.got = pub["hi"]]
    <3>1. docs' \in Docs /\ docs'["base"] # Forecast!None
      BY <2>2 DEF OverlayTyped, Docs, Forecast!Layer, Refreshing
    <3>2. refresh' \in Refreshing /\ refresh'.step = "hi"
      BY <2>2 DEF OverlayTyped, ServerTyped, Docs, Forecast!Layer, Refreshing
    <3>3. ServerTyped'
      BY <1>1, <1>2, <2>1, ServerRests DEF ServerTyped
    <3>4. OverlayTyped'
      BY <1>1, <1>2, <2>1, <3>1, <3>2 DEF OverlayTyped
    <3>5. Forecast!GridsFollowDocs'
      BY <3>2 DEF Forecast!GridsFollowDocs
    <3>6. ~overlap' => ~overlap
      BY <2>1, Zenon
    <3>7. WritesApart'
      BY <1>1, <2>1, <3>2, <3>6 DEF WritesApart
    <3> QED
      BY <3>3, <3>4, <3>5, <3>7
  <2>3. CASE /\ refresh' = (IF refresh.left = 1 THEN Forecast!Off ELSE [refresh EXCEPT !.step = "timer", !.left = @ - 1])
             /\ UNCHANGED docs
    <3>1. refresh.left \in 1 .. Polls
      BY <2>1 DEF OverlayTyped, Refreshing, Forecast!ForecastConstants
    <3>2. refresh' \in Refreshing /\ refresh'.step \in {"off", "timer"}
          /\ (refresh'.step = "timer" => refresh'.left # 0)
      <4>1. CASE refresh.left = 1
        BY <2>3, <4>1, NoneIsDoc
      <4>2. CASE refresh.left # 1
        <5>1. refresh.left - 1 \in 0 .. Polls /\ refresh.left - 1 # 0
          BY <3>1, <4>2 DEF Forecast!ForecastConstants
        <5> QED
          BY <2>3, <4>2, <5>1 DEF OverlayTyped, Refreshing
      <4> QED
        BY <4>1, <4>2
    <3> QED
      BY <1>3, <2>1, <2>3, <3>2
  <2> QED
    BY <1>8, <2>2, <2>3 DEF Forecast!RefreshBase
<1>9. CASE Forecast!RefreshHi(ok)
  <2>1. /\ UNCHANGED <<config, grids, overlap>> /\ refresh.step = "hi"
        /\ docs' = [docs EXCEPT !["hi"] = IF ok THEN refresh.got ELSE Forecast!None]
        /\ refresh' = [Forecast!Off EXCEPT !.step = "mid"]
    BY <1>9 DEF Forecast!RefreshHi, Forecast!server, Forecast!hist
  <2>2. docs' \in Docs /\ docs'["base"] = docs["base"]
    BY <2>1, NoneIsDoc DEF OverlayTyped, Docs, Forecast!Layer, Refreshing
  <2>3. refresh' \in Refreshing /\ refresh'.step = "mid"
    BY <2>1, NoneIsDoc DEF Refreshing
  <2>4. ServerTyped'
    BY <1>1, <1>2, <2>1, ServerRests DEF ServerTyped
  <2>5. OverlayTyped'
    BY <1>1, <1>2, <2>1, <2>2, <2>3 DEF OverlayTyped
  <2>6. Forecast!GridsFollowDocs'
    BY <2>3 DEF Forecast!GridsFollowDocs
  <2>7. ~overlap' => ~overlap
    BY <2>1, Zenon
  <2>8. WritesApart'
    BY <1>1, <2>1, <2>3, <2>7 DEF WritesApart
  <2> QED
    BY <2>4, <2>5, <2>6, <2>8
<1>10. CASE Forecast!RefreshMid(ok)
  <2>1. /\ UNCHANGED <<config, docs, overlap>> /\ refresh.step = "mid" /\ refresh' = Forecast!Off
        /\ grids' = IF docs["base"] = Forecast!None THEN grids ELSE docs
    BY <1>10 DEF Forecast!RefreshMid, Forecast!SetStep, Forecast!server, Forecast!hist
  <2>2. refresh' \in Refreshing /\ refresh'.step = "off"
    BY <2>1, NoneIsDoc
  <2>3. ServerTyped'
    BY <1>1, <1>2, <2>1, ServerRests DEF ServerTyped
  <2>4. OverlayTyped'
    BY <1>1, <1>2, <2>1, <2>2 DEF OverlayTyped
  <2>5. Forecast!GridsFollowDocs'
    BY <2>1 DEF Forecast!GridsFollowDocs
  <2>6. ~overlap' => ~overlap
    BY <2>1, Zenon
  <2>7. WritesApart'
    BY <1>1, <2>1, <2>2, <2>6 DEF WritesApart
  <2> QED
    BY <2>3, <2>4, <2>5, <2>7
<1>11. CASE Forecast!Destroy
  <2>1. /\ UNCHANGED <<config, docs, grids, overlap>>
        /\ refresh' = IF refresh.step = "timer" THEN [refresh EXCEPT !.step = "cleared"] ELSE refresh
    BY <1>11 DEF Forecast!Destroy, Forecast!server, Forecast!data, Forecast!hist
  <2>2. CASE refresh.step = "timer"
    <3>1. refresh' \in Refreshing /\ refresh'.step = "cleared"
      BY <2>1, <2>2 DEF OverlayTyped, Refreshing
    <3> QED
      BY <1>3, <2>1, <2>2, <3>1
  <2>3. CASE refresh.step # "timer"
    <3>1. refresh' = refresh
      BY <2>1, <2>3
    <3>2. ServerTyped'
      BY <1>1, <1>2, <2>1, ServerRests DEF ServerTyped
    <3>3. OverlayTyped'
      BY <1>1, <1>2, <2>1, <3>1 DEF OverlayTyped
    <3>4. Forecast!GridsFollowDocs'
      BY <1>1, <2>1, <3>1 DEF Forecast!GridsFollowDocs
    <3>5. WritesApart'
      BY <1>1, <2>1, <3>1, Zenon DEF WritesApart
    <3> QED
      BY <3>2, <3>3, <3>4, <3>5
  <2> QED
    BY <2>2, <2>3
<1> QED
  BY <1>4, <1>5, <1>6, <1>7, <1>8, <1>9, <1>10, <1>11

LEMMA ForecastNext ==
  ASSUME Forecast!ForecastConstants, ForecastInv, [Forecast!Next]_(Forecast!vars)
  PROVE  ForecastInv'
<1>1. CASE UNCHANGED Forecast!vars
  <2>1. UNCHANGED <<upstream, config, chain, pub, docs, grids, refresh, centre, hi, pos, wanted,
                    overlap, refreshes, events>>
    BY <1>1 DEF Forecast!vars, Forecast!server, Forecast!data, Forecast!writes, Forecast!hist,
                Forecast!bounds
  <2>2. ServerTyped' /\ OverlayTyped'
    BY <2>1 DEF ForecastInv, ServerTyped, OverlayTyped
  <2>3. Forecast!GridsFollowDocs'
    BY <2>1 DEF ForecastInv, Forecast!GridsFollowDocs
  <2>4. WritesApart'
    BY <2>1, Zenon DEF ForecastInv, WritesApart
  <2> QED
    BY <2>2, <2>3, <2>4 DEF ForecastInv
<1>2. CASE Forecast!Next
  <2>1. ASSUME NEW ok \in BOOLEAN, Forecast!Answers(ok)
        PROVE  ForecastInv'
    BY <2>1, LoadSteps, CentreSteps, RefreshSteps DEF Forecast!Answers
  <2> QED
    BY <1>2, <2>1, PluginSteps, LoadSteps, CentreSteps, RefreshSteps
       DEF Forecast!Next, Forecast!Timers
<1> QED
  BY <1>1, <1>2

LEMMA ForecastSafe ==
  ASSUME Forecast!ForecastConstants, ForecastInv
  PROVE  Forecast!TypeOK /\ Forecast!GridsFollowDocs /\ Forecast!CentreKept
<1>1. \A d \in Docs, l \in Forecast!Layer : d[l][1] <= MaxEvents + 1
  BY DEF Docs, Doc, Forecast!ForecastConstants
<1>2. Forecast!TypeOK
  BY <1>1
     DEF ForecastInv, ServerTyped, OverlayTyped, Config, Refreshing, Centring, Polling,
         Forecast!TypeOK, Forecast!ForecastConstants
<1>3. Forecast!CentreKept
  BY Zenon DEF ForecastInv, WritesApart, Forecast!CentreKept
<1> QED
  BY <1>2, <1>3 DEF ForecastInv

-----------------------------------------------------------------------------
(* The grids of the wind overlay.                                          *)

LEMMA ColumnCount == \A n \in Nat : Grid!Cardinality(0 .. n - 1) = n
<1>1. \A S : Grid!Cardinality(S) = Cardinality(S)
  BY DEF Grid!Cardinality, Cardinality
<1>2. SUFFICES ASSUME NEW n \in Nat
               PROVE  Cardinality(0 .. n - 1) = n
  BY <1>1
<1>3. 0 \in Int /\ n - 1 \in Int
  OBVIOUS
<1>4. Cardinality(0 .. n - 1) = IF 0 > n - 1 THEN 0 ELSE (n - 1) - 0 + 1
  BY <1>3, FS_Interval
<1> QED
  BY <1>4

(* Planes of numbers, and two documents of the shapes Init gives them.     *)
Cells(n) == 0 .. n - 1
IsBase(n, a, b) ==
  /\ n \in {2, 4} /\ a \in [Cells(n) -> Wind] /\ b \in [Cells(n) -> Wind]
  /\ \E r \in Shifts : base = Grid!BaseDoc(n, 0, r, a, b)
Holed == Wind \cup {Grid!NaN}
IsFine(a, b, c) ==
  /\ a \in [Cells(2) -> Holed] /\ b \in [Cells(2) -> Holed] /\ c \in [Cells(2) -> Holed]
  /\ \A x \in Cells(2) : a[x] = Grid!NaN <=> b[x] = Grid!NaN
  /\ \A x \in Cells(2) : b[x] = Grid!NaN <=> c[x] = Grid!NaN
  /\ fine = Grid!FineDoc(a, b, c)
GridInv ==
  /\ \E n, a, b : IsBase(n, a, b)
  /\ fine = Nowhere \/ \E a, b, c : IsFine(a, b, c)
  /\ frac \in 0 .. 4 /\ pos \in -1 .. 2

LEMMA GridInit ==
  ASSUME Grid!GridConstants, Grid!Init
  PROVE  GridInv
<1>1. PICK r \in Shifts : \/ \E a, b \in Grid!Planes(2) : base = Grid!BaseDoc(2, 0, r, a, b)
                          \/ \E a \in Grid!Planes(4) : base = Grid!BaseDoc(4, 0, r, a, a)
  BY DEF Grid!Init
<1>2. \E n, a, b : IsBase(n, a, b)
  BY <1>1 DEF IsBase, Grid!Planes, Cells
<1>3. ASSUME fine # Nowhere
      PROVE  \E a, b, c : IsFine(a, b, c)
  <2>1. PICK a \in Grid!Planes(2), b \in Grid!Planes(2), nan \in {{}, {0}, {0, 1}} :
          \E c \in {a, b} :
            LET N(p) == Grid!Parsed([x \in 0 .. 1 |-> IF x \in nan THEN Grid!NaN ELSE p[x]])
            IN  N(a) # Grid!Absent /\ fine = Grid!FineDoc(N(a), N(b), N(c))
    BY <1>3 DEF Grid!Init
  <2> DEFINE H(p) == [x \in 0 .. 1 |-> IF x \in nan THEN Grid!NaN ELSE p[x]]
  <2>2. PICK c \in {a, b} : Grid!Parsed(H(a)) # Grid!Absent
                            /\ fine = Grid!FineDoc(Grid!Parsed(H(a)), Grid!Parsed(H(b)), Grid!Parsed(H(c)))
    BY <2>1
  <2>3. ASSUME NEW p \in Grid!Planes(2)
        PROVE  /\ H(p) \in [Cells(2) -> Holed]
               /\ \A x \in Cells(2) : H(p)[x] = Grid!NaN <=> x \in nan
               /\ nan # {0, 1} => Grid!Parsed(H(p)) = H(p)
               /\ nan = {0, 1} => Grid!Parsed(H(p)) = Grid!Absent
    <3>1. H(p) \in [Cells(2) -> Holed] /\ \A x \in Cells(2) : H(p)[x] = Grid!NaN <=> x \in nan
      BY DEF Grid!Planes, Cells, Holed, Grid!NaN, Grid!GridConstants
    <3>2. DOMAIN H(p) = 0 .. 1 /\ Grid!Cardinality(0 .. 1) = 2
      <4>1. 0 .. 1 = 0 .. 2 - 1
        OBVIOUS
      <4> QED
        BY <4>1, ColumnCount
    <3>3. nan # {0, 1} => H(p)[1] # Grid!NaN
      BY <3>1 DEF Cells
    <3>4. nan = {0, 1} => H(p)[0] = Grid!NaN /\ H(p)[1] = Grid!NaN
      OBVIOUS
    <3> HIDE DEF H
    <3> QED
      BY <3>1, <3>2, <3>3, <3>4 DEF Grid!Parsed
  <2>4. IsFine(H(a), H(b), H(c))
    <3>1. nan # {0, 1} /\ c \in Grid!Planes(2)
      BY <2>2, <2>3
    <3> HIDE DEF H
    <3> QED
      BY <2>2, <2>3, <3>1 DEF IsFine
  <2> QED
    BY <2>4
<1> QED
  BY <1>2, <1>3 DEF GridInv, Grid!Init

LEMMA GridNext ==
  ASSUME GridInv, [Grid!Next]_(Grid!vars)
  PROVE  GridInv'
<1>1. UNCHANGED <<base, fine>>
  BY DEF Grid!Next, Grid!vars, Grid!Slide, Grid!Cell, Grid!At
<1>2. PICK n, a, b : IsBase(n, a, b)
  BY DEF GridInv
<1>3. Len(base.steps) = 2
  BY <1>2 DEF IsBase, Grid!BaseDoc
<1>4. frac' \in 0 .. 4 /\ pos' \in -1 .. 2
  BY <1>3 DEF GridInv, Grid!Next, Grid!vars, Grid!Slide, Grid!Cell, Grid!At
<1>5. IsBase(n, a, b)' /\ \A d, e, f : IsFine(d, e, f)' <=> IsFine(d, e, f)
  BY <1>1, <1>2 DEF IsBase, IsFine
<1> QED
  BY <1>1, <1>4, <1>5 DEF GridInv

(* Both ways to interpolate agree: first between the steps, then between   *)
(* the columns, or the other way round.                                    *)
LEMMA MixIsExact ==
  ASSUME NEW a \in Nat, NEW b \in Nat, NEW d \in {2, 4}, NEW k \in 0 .. d
  PROVE  /\ d = 4 => Grid!Mix(32 * a, 32 * b, k, d) = 8 * (a * (4 - k) + b * k)
         /\ d = 2 => Grid!Mix(32 * a, 32 * b, k, d) = 16 * (a * (2 - k) + b * k)
<1>1. 32 * a # Grid!NaN /\ 32 * b # Grid!NaN
  BY DEF Grid!NaN
<1>2. Grid!Mix(32 * a, 32 * b, k, d) = (32 * a * (d - k) + 32 * b * k) \div d
  BY <1>1 DEF Grid!Mix
<1>3. CASE d = 4
  <2>1. k = 0 \/ k = 1 \/ k = 2 \/ k = 3 \/ k = 4
    BY <1>3
  <2> QED
    BY <1>2, <1>3, <2>1
<1>4. CASE d = 2
  <2>1. k = 0 \/ k = 1 \/ k = 2
    BY <1>4
  <2> QED
    BY <1>2, <1>4, <2>1
<1> QED
  BY <1>3, <1>4

LEMMA Exchange ==
  ASSUME NEW a \in Nat, NEW b \in Nat, NEW c \in Nat, NEW e \in Nat,
         NEW m \in 0 .. 1, NEW d \in {2, 4}, NEW k \in 0 .. d
  PROVE  LET A == 32 * a B == 32 * b C == 32 * c E == 32 * e
         IN  /\ Grid!Mix(Grid!Mix(A, C, k, d), Grid!Mix(B, E, k, d), m, 2)
                = Grid!Mix(Grid!Mix(A, B, m, 2), Grid!Mix(C, E, m, 2), k, d)
             /\ Grid!Mix(Grid!Mix(A, B, m, 2), Grid!Mix(C, E, m, 2), k, d) \in Nat
             /\ Grid!Mix(A, B, m, 2) \in Nat
<1> DEFINE ac == a * (d - k) + c * k
           be == b * (d - k) + e * k
           ab == a * (2 - m) + b * m
           ce == c * (2 - m) + e * m
<1>1. Grid!Mix(32 * a, 32 * b, m, 2) = 16 * ab /\ Grid!Mix(32 * c, 32 * e, m, 2) = 16 * ce
  BY MixIsExact
<1>2. ab \in Nat /\ ce \in Nat
  <2>1. m = 0 \/ m = 1
    OBVIOUS
  <2> QED
    BY <2>1
<1>3. \A x, y \in Nat : Grid!Mix(x, y, k, d) = (x * (d - k) + y * k) \div d
  BY DEF Grid!Mix, Grid!NaN
<1>4. \A x, y \in Nat : Grid!Mix(x, y, m, 2) = (x * (2 - m) + y * m) \div 2
  BY DEF Grid!Mix, Grid!NaN
<1>5. CASE d = 4
  <2>1. Grid!Mix(32 * a, 32 * c, k, d) = 8 * ac /\ Grid!Mix(32 * b, 32 * e, k, d) = 8 * be
    BY <1>5, MixIsExact
  <2>2. k = 0 \/ k = 1 \/ k = 2 \/ k = 3 \/ k = 4
    BY <1>5
  <2>3. 8 * ac \in Nat /\ 8 * be \in Nat /\ 16 * ab \in Nat /\ 16 * ce \in Nat
    BY <1>2, <1>5, <2>2
  <2>4. /\ Grid!Mix(8 * ac, 8 * be, m, 2) = (8 * ac * (2 - m) + 8 * be * m) \div 2
        /\ Grid!Mix(16 * ab, 16 * ce, k, d) = (16 * ab * (4 - k) + 16 * ce * k) \div 4
    BY <1>3, <1>4, <1>5, <2>3
  <2>5. m = 0 \/ m = 1
    OBVIOUS
  <2>6. /\ (8 * ac * (2 - m) + 8 * be * m) \div 2 = (16 * ab * (4 - k) + 16 * ce * k) \div 4
        /\ (16 * ab * (4 - k) + 16 * ce * k) \div 4 \in Nat
    BY <1>5, <2>2, <2>5
  <2> QED
    BY <1>1, <2>1, <2>3, <2>4, <2>6
<1>6. CASE d = 2
  <2>1. Grid!Mix(32 * a, 32 * c, k, d) = 16 * ac /\ Grid!Mix(32 * b, 32 * e, k, d) = 16 * be
    BY <1>6, MixIsExact
  <2>2. k = 0 \/ k = 1 \/ k = 2
    BY <1>6
  <2>3. 16 * ac \in Nat /\ 16 * be \in Nat /\ 16 * ab \in Nat /\ 16 * ce \in Nat
    BY <1>2, <1>6, <2>2
  <2>4. /\ Grid!Mix(16 * ac, 16 * be, m, 2) = (16 * ac * (2 - m) + 16 * be * m) \div 2
        /\ Grid!Mix(16 * ab, 16 * ce, k, d) = (16 * ab * (2 - k) + 16 * ce * k) \div 2
    BY <1>3, <1>4, <1>6, <2>3
  <2>5. m = 0 \/ m = 1
    OBVIOUS
  <2>6. /\ (16 * ac * (2 - m) + 16 * be * m) \div 2 = (16 * ab * (2 - k) + 16 * ce * k) \div 2
        /\ (16 * ab * (2 - k) + 16 * ce * k) \div 2 \in Nat
    BY <1>6, <2>2, <2>5
  <2> QED
    BY <1>1, <2>1, <2>3, <2>4, <2>6
<1> QED
  BY <1>5, <1>6

(* A grid interpolated from two planes, sampled at a place, against the    *)
(* samples of the planes at that place, interpolated.                      *)
LEMMA SamplesAgree ==
  ASSUME Grid!GridConstants, NEW n \in {2, 4}, NEW d \in {2, 4}, NEW k \in 0 .. d,
         NEW p \in [Cells(n) -> Wind], NEW q \in [Cells(n) -> Wind],
         NEW at \in -1 .. 2, n = 4 => at # -1,
         NEW doc, doc.lo = 0, Grid!Cols(doc) = n,
         NEW g, g.lo = 0, DOMAIN g.u = Cells(n),
         \A x \in Cells(n) : g.u[x] = Grid!Mix(p[x], q[x], k, d)
  PROVE  /\ at = -1 => /\ Grid!SampleGrid(g, at) = Grid!NaN
                       /\ Grid!DocArr(doc, p, at) = Grid!NaN
                       /\ Grid!DocArr(doc, q, at) = Grid!NaN
         /\ at # -1 => /\ Grid!SampleGrid(g, at)
                            = Grid!Mix(Grid!DocArr(doc, p, at), Grid!DocArr(doc, q, at), k, d)
                       /\ Grid!SampleGrid(g, at) \in Nat
                       /\ Grid!DocArr(doc, p, at) \in Nat /\ Grid!DocArr(doc, q, at) \in Nat
<1> DEFINE u == g.u
<1>1. DOMAIN u = 0 .. n - 1
  BY DEF Cells
<1>2. Grid!Cardinality(DOMAIN g.u) = n
  BY <1>1, ColumnCount
<1>3. p # Grid!Absent /\ q # Grid!Absent
  <2>1. 0 \in DOMAIN p /\ 0 \in DOMAIN q
    BY DEF Cells
  <2>2. DOMAIN Grid!Absent = {}
    BY DEF Grid!Absent
  <2> QED
    BY <2>1, <2>2
<1>4. CASE at = -1
  <2>1. n = 2
    BY <1>4
  <2>2. Grid!SampleGrid(g, at) = Grid!NaN
    <3> QED
      BY <1>1, <1>2, <1>4, <2>1 DEF Grid!SampleGrid, Grid!Turn
  <2>3. Grid!DocArr(doc, p, at) = Grid!NaN /\ Grid!DocArr(doc, q, at) = Grid!NaN
    BY <1>4 DEF Grid!DocArr
  <2> QED
    BY <1>4, <2>2, <2>3
<1>5. CASE at # -1
  <2> DEFINE x == at \div 2
             y == IF x + 1 <= n - 1 THEN x + 1 ELSE n - 1
             m == at % 2
  <2>1. /\ at \in 0 .. 2 /\ x \in Cells(n) /\ y \in Cells(n) /\ m \in 0 .. 1
        /\ ~(at > 2 * (n - 1)) /\ ~(at < 0)
        /\ n = 4 => at % 8 = at /\ (x + 1) % n = y
    <3>1. at = 0 \/ at = 1 \/ at = 2
      BY <1>5
    <3>2. n = 2 \/ n = 4
      OBVIOUS
    <3>3. n = 4 => at % 8 = at /\ (x + 1) % n = y
      BY <3>1
    <3>4. x \in 0 .. n - 1 /\ y \in 0 .. n - 1 /\ m \in 0 .. 1
      BY <3>1, <3>2
    <3> QED
      BY <3>1, <3>2, <3>3, <3>4 DEF Cells
  <2>2. Grid!SampleGrid(g, at) = Grid!Mix(u[x], u[y], m, 2)
    <3>1. CASE n = 2
      <4> QED
        BY <1>1, <1>2, <2>1, <3>1 DEF Grid!SampleGrid, Grid!Turn, Grid!Least
    <3>2. CASE n = 4
      <4> QED
        BY <1>1, <1>2, <2>1, <3>2 DEF Grid!SampleGrid, Grid!Turn
    <3> QED
      BY <3>1, <3>2
  <2>3. /\ Grid!DocArr(doc, p, at) = Grid!Mix(p[x], p[y], m, 2)
        /\ Grid!DocArr(doc, q, at) = Grid!Mix(q[x], q[y], m, 2)
    BY <1>3, <2>1 DEF Grid!DocArr, Grid!Least
  <2>4. u[x] = Grid!Mix(p[x], q[x], k, d) /\ u[y] = Grid!Mix(p[y], q[y], k, d)
    BY <2>1
  <2>5. \A w \in Wind : \E i \in Nat : w = 32 * i
    <3> SUFFICES ASSUME NEW w \in Wind
                 PROVE  \E i \in Nat : w = 32 * i
      OBVIOUS
    <3>1. w \in Nat /\ w % 32 = 0
      BY DEF Grid!GridConstants
    <3>2. w \div 32 \in Nat /\ w = 32 * (w \div 32)
      BY <3>1
    <3> QED
      BY <3>2
  <2>6. PICK a \in Nat, b \in Nat, c \in Nat, e \in Nat :
          p[x] = 32 * a /\ p[y] = 32 * b /\ q[x] = 32 * c /\ q[y] = 32 * e
    <3>1. p[x] \in Wind /\ p[y] \in Wind /\ q[x] \in Wind /\ q[y] \in Wind
      BY <2>1
    <3> HIDE DEF x, y
    <3>2. PICK a \in Nat : p[x] = 32 * a
      BY <2>5, <3>1
    <3>3. PICK b \in Nat : p[y] = 32 * b
      BY <2>5, <3>1
    <3>4. PICK c \in Nat : q[x] = 32 * c
      BY <2>5, <3>1
    <3>5. PICK e \in Nat : q[y] = 32 * e
      BY <2>5, <3>1
    <3> QED
      BY <3>2, <3>3, <3>4, <3>5
  <2> HIDE DEF x, y, m
  <2>7. Grid!Mix(32 * c, 32 * e, m, 2) \in Nat
    BY <2>1, Exchange
  <2> QED
    BY <1>5, <2>1, <2>2, <2>3, <2>4, <2>6, <2>7, Exchange
<1> QED
  BY <1>4, <1>5

(* The base document's steps, at 0 and 8 quarters, and a position between  *)
(* them.                                                                   *)
LEMMA BaseSteps ==
  ASSUME NEW n, NEW a, NEW b, IsBase(n, a, b), Grid!GridConstants, NEW f \in 0 .. 4
  PROVE  /\ Len(base.steps) = 2 /\ base.lo = 0 /\ base.ref \in Nat
         /\ base.steps[1].u = a /\ base.steps[2].u = b /\ DOMAIN a = Cells(n) /\ Grid!Cols(base) = n
         /\ Grid!Hours(base) = <<0, 8>> /\ Grid!Hour(f) = 2 * f
         /\ Grid!Low(f) \in {1, 2} /\ Grid!High(f) \in {1, 2} /\ f % 4 \in 0 .. 3
         /\ f % 4 = 0 => Grid!Hours(base)[Grid!Low(f)] = Grid!Hour(f)
<1>1. PICK r \in Shifts : base = Grid!BaseDoc(n, 0, r, a, b)
  BY DEF IsBase
<1>2. /\ base.steps = <<[hour |-> 0, u |-> a], [hour |-> 8, u |-> b]>> /\ base.lo = 0 /\ base.ref = r
      /\ Len(base.steps) = 2 /\ base.steps[1].u = a /\ base.steps[2].u = b
      /\ base.steps[1].hour = 0 /\ base.steps[2].hour = 8
  BY <1>1 DEF Grid!BaseDoc
<1>3. DOMAIN a = Cells(n) /\ n \in Nat
  BY DEF IsBase
<1>4. Grid!Cols(base) = n
  BY <1>2, <1>3, ColumnCount DEF Grid!Cols, Cells
<1>5. Grid!Hours(base)[1] = 0 /\ Grid!Hours(base)[2] = 8 /\ Grid!Hours(base) = <<0, 8>>
  BY <1>2 DEF Grid!Hours
<1>6. f = 0 \/ f = 1 \/ f = 2 \/ f = 3 \/ f = 4
  OBVIOUS
<1>7. /\ f # 4 => f \div 4 = 0 /\ f % 4 = f
      /\ f = 4 => f \div 4 = 1 /\ f % 4 = 0
  BY <1>6
<1>8. /\ f # 4 => Grid!Low(f) = 1 /\ Grid!High(f) = 2
      /\ f = 4 => Grid!Low(f) = 2 /\ Grid!High(f) = 2
  BY <1>2, <1>7 DEF Grid!Low, Grid!High, Grid!Least
<1>9. Grid!Hour(f) = 2 * f
  <2>1. CASE f # 4
    <3>1. Grid!Hour(f) = (0 * (4 - f) + 8 * f) \div 4
      BY <1>5, <1>7, <1>8, <2>1 DEF Grid!Hour
    <3> QED
      BY <1>6, <2>1, <3>1
  <2>2. CASE f = 4
    <3>1. Grid!Hour(f) = (8 * (4 - 0) + 8 * 0) \div 4
      BY <1>5, <1>7, <1>8, <2>2 DEF Grid!Hour
    <3> QED
      BY <2>2, <3>1
  <2> QED
    BY <2>1, <2>2
<1>10. f % 4 = 0 => Grid!Hours(base)[Grid!Low(f)] = Grid!Hour(f)
  BY <1>5, <1>6, <1>7, <1>8, <1>9
<1>11. f % 4 \in 0 .. 3
  BY <1>6
<1> QED
  BY <1>2, <1>3, <1>4, <1>5, <1>8, <1>9, <1>10, <1>11 DEF Grid!GridConstants

(* The base grid at the place read out, and the planes it was made from.   *)
BaseTile ==
  Grid!Either(Grid!DocArr(base, base.steps[Grid!Low(frac)].u, pos),
              Grid!DocArr(base, base.steps[Grid!High(frac)].u, pos), frac % 4, 4)

LEMMA BaseAgrees ==
  ASSUME Grid!GridConstants, GridInv, Grid!Plain
  PROVE  /\ Grid!SampleGrid(Grid!BaseGrid, pos) = BaseTile
         /\ frac % 4 = 0 =>
              Grid!SampleGrid(Grid!BaseGrid, pos) = Grid!DocArr(base, base.steps[Grid!Low(frac)].u, pos)
<1>1. PICK n, a, b : IsBase(n, a, b)
  BY DEF GridInv
<1> DEFINE p == base.steps[Grid!Low(frac)].u
           q == base.steps[Grid!High(frac)].u
           k == frac % 4
           P == Grid!DocArr(base, p, pos)
           Q == Grid!DocArr(base, q, pos)
<1>2. n \in {2, 4} /\ a \in [Cells(n) -> Wind] /\ b \in [Cells(n) -> Wind]
  BY <1>1 DEF IsBase
<1>3. /\ p \in [Cells(n) -> Wind] /\ q \in [Cells(n) -> Wind] /\ k \in 0 .. 3
      /\ base.lo = 0 /\ Grid!Cols(base) = n /\ DOMAIN base.steps[1].u = Cells(n)
  BY <1>1, <1>2, BaseSteps DEF GridInv
<1>4. pos \in -1 .. 2 /\ (n = 4 => pos # -1)
  <2>1. n = 4 => Grid!Global(base)
    BY <1>3 DEF Grid!Global, Grid!Turn
  <2>2. Grid!Global(base) => ~(pos < 0)
    BY <1>3 DEF Grid!Plain
  <2> QED
    BY <2>1, <2>2 DEF GridInv
<1>5. /\ Grid!BaseGrid.lo = 0 /\ DOMAIN Grid!BaseGrid.u = Cells(n)
      /\ \A x \in Cells(n) : Grid!BaseGrid.u[x] = Grid!Mix(p[x], q[x], k, 4)
  BY <1>3 DEF Grid!BaseGrid
<1> HIDE DEF p, q, k
<1>6. /\ pos = -1 => /\ Grid!SampleGrid(Grid!BaseGrid, pos) = Grid!NaN
                     /\ P = Grid!NaN /\ Q = Grid!NaN
      /\ pos # -1 => /\ Grid!SampleGrid(Grid!BaseGrid, pos) = Grid!Mix(P, Q, k, 4)
                     /\ P \in Nat /\ Q \in Nat
  <2>1. k \in 0 .. 4 /\ 4 \in {2, 4} /\ pos \in -1 .. 2 /\ n \in {2, 4}
    BY <1>2, <1>3, <1>4
  <2> QED
    BY <1>3, <1>4, <1>5, <2>1, SamplesAgree
<1>7. BaseTile = Grid!Either(P, Q, k, 4)
  BY DEF BaseTile, p, q, k
<1> HIDE DEF P, Q
<1>8. CASE pos = -1
  BY <1>6, <1>7, <1>8 DEF Grid!Either, P, p
<1>9. CASE pos # -1
  <2>1. P # Grid!NaN /\ Q # Grid!NaN
    BY <1>6, <1>9 DEF Grid!NaN
  <2>2. k = 0 => Grid!Mix(P, Q, k, 4) = P
    BY <1>6, <1>9, <2>1 DEF Grid!Mix
  <2> QED
    BY <1>6, <1>7, <1>9, <2>1, <2>2 DEF Grid!Either, P, p, k
<1> QED
  BY <1>8, <1>9

(* The fine document's steps, at 0, 2 and 4 quarters: the two around a     *)
(* lead time.                                                              *)
LEMMA FineSteps ==
  ASSUME NEW a, NEW b, NEW c, IsFine(a, b, c)
  PROVE  /\ Len(fine.steps) = 3 /\ fine.lo = 0 /\ fine.ref = 4
         /\ fine.steps[1].u = a /\ fine.steps[2].u = b /\ fine.steps[3].u = c
         /\ DOMAIN a = Cells(2) /\ Grid!Cols(fine) = 2
         /\ Grid!Hours(fine)[1] = 0 /\ Grid!Hours(fine)[2] = 2 /\ Grid!Hours(fine)[3] = 4
         /\ Len(Grid!Hours(fine)) = 3
<1>1. /\ fine.steps = <<[hour |-> 0, u |-> a], [hour |-> 2, u |-> b], [hour |-> 4, u |-> c]>>
      /\ fine.lo = 0 /\ fine.ref = 4
  BY DEF IsFine, Grid!FineDoc
<1>2. /\ Len(fine.steps) = 3 /\ fine.steps[1].u = a /\ fine.steps[2].u = b /\ fine.steps[3].u = c
      /\ fine.steps[1].hour = 0 /\ fine.steps[2].hour = 2 /\ fine.steps[3].hour = 4
  BY <1>1
<1>3. DOMAIN a = Cells(2)
  BY DEF IsFine
<1>4. Grid!Cols(fine) = 2
  BY <1>2, <1>3, ColumnCount DEF Grid!Cols, Cells
<1>5. Grid!Hours(fine) = [i \in 1 .. 3 |-> fine.steps[i].hour]
  BY <1>2 DEF Grid!Hours
<1> QED
  BY <1>1, <1>2, <1>3, <1>4, <1>5

LEMMA FineBracket ==
  ASSUME NEW a, NEW b, NEW c, IsFine(a, b, c), NEW lead \in Int
  PROVE  LET i == IF lead <= 2 THEN 1 ELSE 2
         IN  Grid!Bracket(fine, lead)
               = [i |-> i, j |-> i + 1, at |-> Grid!Clamp(lead - 2 * (i - 1), 0, 2), span |-> 2]
<1> DEFINE h == Grid!Hours(fine)
           Around(i) == (i >= 3 - 1 \/ lead <= h[i + 1]) /\ \A j \in 1 .. i - 1 : lead > h[j + 1]
           it == IF lead <= 2 THEN 1 ELSE 2
<1>1. h[1] = 0 /\ h[2] = 2 /\ h[3] = 4 /\ Len(h) = 3
  BY FineSteps
<1> HIDE DEF h
<1>2. \A i \in 1 .. 2 : Around(i) <=> i = it
  <2>1. Around(1) <=> lead <= 2
    BY <1>1
  <2>2. Around(2) <=> lead > 2
    <3>1. 1 .. 2 - 1 = {1}
      OBVIOUS
    <3> QED
      BY <1>1, <3>1
  <2>3. 1 .. 2 = {1, 2}
    OBVIOUS
  <2> HIDE DEF Around
  <2> QED
    BY <2>1, <2>2, <2>3
<1>3. (CHOOSE i \in 1 .. 2 : Around(i)) = it
  <2> HIDE DEF Around
  <2>1. it \in 1 .. 2
    OBVIOUS
  <2> QED
    BY <1>2, <2>1
<1>4. Grid!Most(3 - 1, 1) = 2
  BY DEF Grid!Most
<1>5. /\ Grid!Least(it + 1, 3) = it + 1 /\ h[it] = 2 * (it - 1) /\ h[it + 1] = 2 * it
      /\ h[it + 1] - h[it] = 2 /\ Grid!Most(2, 1) = 2
  BY <1>1 DEF Grid!Most, Grid!Least
<1>6. Grid!Bracket(fine, lead)
        = LET i == CHOOSE i \in 1 .. 2 : Around(i)
              j == Grid!Least(i + 1, 3)
          IN  [i |-> i, j |-> j, at |-> Grid!Clamp(lead - h[i], 0, h[j] - h[i]),
               span |-> Grid!Most(h[j] - h[i], 1)]
  BY <1>1, <1>4 DEF Grid!Bracket, h
<1> HIDE DEF Around, it
<1>7. Grid!Bracket(fine, lead)
        = [i |-> it, j |-> it + 1, at |-> Grid!Clamp(lead - 2 * (it - 1), 0, 2), span |-> 2]
  BY <1>3, <1>5, <1>6
<1> QED
  BY <1>7 DEF it


(* The fine grid and the fine document's sample, between the same two      *)
(* steps; both are missing outside the document's window.                  *)
Lead == base.ref + Grid!Hour(frac) - fine.ref
Before == IF Lead <= 2 THEN 1 ELSE 2
Part == Grid!Clamp(Lead - 2 * (Before - 1), 0, 2)
FineHere == Grid!DocSample(fine, base.ref + Grid!Hour(frac))

LEMMA FineBetween ==
  ASSUME Grid!GridConstants, GridInv, fine # Nowhere, NEW a, NEW b, NEW c, IsFine(a, b, c)
  PROVE  LET p == fine.steps[Before].u
             q == fine.steps[Before + 1].u
         IN  /\ Lead \in Int /\ Part \in 0 .. 2 /\ p \in [Cells(2) -> Holed] /\ q \in [Cells(2) -> Holed]
             /\ ~Grid!Within(fine, Lead) => Grid!FineGrid = Nowhere /\ FineHere = Grid!NaN
             /\ Grid!Within(fine, Lead) =>
                  /\ Grid!FineGrid # Nowhere /\ Grid!FineGrid.lo = 0 /\ DOMAIN Grid!FineGrid.u = Cells(2)
                  /\ \A x \in Cells(2) : Grid!FineGrid.u[x] = Grid!Mix(p[x], q[x], Part, 2)
                  /\ Grid!FineGrid.u = [x \in Cells(2) |-> Grid!FineGrid.u[x]]
                  /\ FineHere = Grid!Either(Grid!DocArr(fine, p, pos), Grid!DocArr(fine, q, pos), Part, 2)
<1> DEFINE p == fine.steps[Before].u
           q == fine.steps[Before + 1].u
           u == [x \in Cells(2) |-> Grid!Mix(p[x], q[x], Part, 2)]
<1>1. Lead \in Int /\ base.ref + Grid!Hour(frac) \in Int /\ (base.ref + Grid!Hour(frac)) - fine.ref = Lead
  <2>1. PICK n, d, e : IsBase(n, d, e)
    BY DEF GridInv
  <2>2. base.ref \in Nat /\ Grid!Hour(frac) = 2 * frac /\ frac \in 0 .. 4
    BY <2>1, BaseSteps DEF GridInv
  <2>3. fine.ref = 4
    BY FineSteps
  <2> QED
    BY <2>2, <2>3 DEF Lead
<1>2. Part \in 0 .. 2 /\ Before \in {1, 2}
  BY <1>1 DEF Part, Before, Grid!Clamp, Grid!Most, Grid!Least
<1>3. p \in [Cells(2) -> Holed] /\ q \in [Cells(2) -> Holed]
  <2>1. fine.steps[1].u = a /\ fine.steps[2].u = b /\ fine.steps[3].u = c
    BY FineSteps
  <2>2. a \in [Cells(2) -> Holed] /\ b \in [Cells(2) -> Holed] /\ c \in [Cells(2) -> Holed]
    BY DEF IsFine
  <2> QED
    BY <1>2, <2>1, <2>2
<1>4. Grid!Bracket(fine, Lead) = [i |-> Before, j |-> Before + 1, at |-> Part, span |-> 2]
  BY <1>1, FineBracket DEF Before, Part
<1> DEFINE V == base.ref + Grid!Hour(frac)
           B == Grid!Bracket(fine, Lead)
<1>v. FineHere = Grid!DocSample(fine, V)
  BY DEF FineHere
<1>w. V - fine.ref = Lead
  BY <1>1
<1> HIDE DEF V
<1>s. FineHere = IF ~Grid!Within(fine, Lead) THEN Grid!NaN
                 ELSE Grid!Either(Grid!DocArr(fine, fine.steps[B.i].u, pos),
                                  Grid!DocArr(fine, fine.steps[B.j].u, pos), B.at, B.span)
  BY ONLY <1>v, <1>w, fine # Nowhere, Zenon DEF Grid!DocSample
<1>5. ASSUME ~Grid!Within(fine, Lead)
      PROVE  Grid!FineGrid = Nowhere /\ FineHere = Grid!NaN
  <2>1. Grid!FineGrid = Nowhere
    BY <1>5 DEF Grid!FineGrid, Lead
  <2> QED
    BY <1>5, <1>s, <2>1
<1>6. ASSUME Grid!Within(fine, Lead)
      PROVE  /\ Grid!FineGrid = [lo |-> 0, u |-> u]
             /\ FineHere = Grid!Either(Grid!DocArr(fine, p, pos), Grid!DocArr(fine, q, pos), Part, 2)
  <2>1. DOMAIN fine.steps[1].u = Cells(2) /\ fine.lo = 0
    BY FineSteps
  <2>2. B.i = Before /\ B.j = Before + 1 /\ B.at = Part /\ B.span = 2
    BY <1>4
  <2>3. Grid!FineGrid = [lo |-> fine.lo, u |-> [x \in DOMAIN fine.steps[1].u |->
          Grid!Mix(fine.steps[B.i].u[x], fine.steps[B.j].u[x], B.at, B.span)]]
    BY <1>6 DEF Grid!FineGrid, Lead
  <2>4. FineHere = Grid!Either(Grid!DocArr(fine, fine.steps[B.i].u, pos),
                               Grid!DocArr(fine, fine.steps[B.j].u, pos), B.at, B.span)
    BY <1>6, <1>s
  <2> HIDE DEF B
  <2> QED
    BY <2>1, <2>2, <2>3, <2>4
<1>7. u \in [{0, 1} -> Int]
  <2>1. Cells(2) = {0, 1}
    BY DEF Cells
  <2>2. \A v, w \in Holed : Grid!Mix(v, w, Part, 2) \in Int
    <3>1. \A v \in Holed : v \in Int
      BY DEF Holed, Grid!NaN, Grid!GridConstants
    <3> QED
      BY <1>2, <3>1 DEF Grid!Mix, Grid!NaN
  <2> HIDE DEF p, q
  <2> QED
    BY <1>3, <2>1, <2>2
<1>8. Grid!Within(fine, Lead) => Grid!FineGrid # Nowhere
  <2> HIDE DEF u
  <2>1. [lo |-> 0, u |-> u] \in [lo : {0}, u : [{0, 1} -> Int]]
    BY <1>7
  <2> QED
    BY <1>6, <2>1 DEF Grid!GridConstants
<1>9. Grid!Within(fine, Lead) =>
        /\ Grid!FineGrid.lo = 0 /\ DOMAIN Grid!FineGrid.u = Cells(2)
        /\ \A x \in Cells(2) : Grid!FineGrid.u[x] = Grid!Mix(p[x], q[x], Part, 2)
        /\ Grid!FineGrid.u = [x \in Cells(2) |-> Grid!FineGrid.u[x]]
  BY <1>6
<1> HIDE DEF p, q, u
<1> QED
  BY <1>1, <1>2, <1>3, <1>5, <1>6, <1>8, <1>9 DEF p, q

LEMMA FineAgrees ==
  ASSUME Grid!GridConstants, GridInv, Grid!Plain
  PROVE  /\ (Grid!FineGrid # Nowhere /\ Grid!Finite(Grid!SampleGrid(Grid!FineGrid, pos)))
              <=> Grid!Finite(FineHere)
         /\ Grid!Finite(FineHere) => Grid!SampleGrid(Grid!FineGrid, pos) = FineHere
<1>1. CASE fine = Nowhere
  BY <1>1 DEF Grid!FineGrid, FineHere, Grid!DocSample, Grid!Finite
<1>2. CASE fine # Nowhere
  <2>1. PICK a, b, c : IsFine(a, b, c)
    BY <1>2 DEF GridInv
  <2>2. CASE ~Grid!Within(fine, Lead)
    <3>1. Grid!FineGrid = Nowhere /\ FineHere = Grid!NaN
      BY <1>2, <2>1, <2>2, FineBetween
    <3> QED
      BY <3>1 DEF Grid!Finite
  <2>3. CASE Grid!Within(fine, Lead)
    <3> DEFINE p == fine.steps[Before].u
               q == fine.steps[Before + 1].u
               P == Grid!DocArr(fine, p, pos)
               Q == Grid!DocArr(fine, q, pos)
               G == Grid!SampleGrid(Grid!FineGrid, pos)
    <3>1. /\ Lead \in Int /\ Part \in 0 .. 2 /\ p \in [Cells(2) -> Holed] /\ q \in [Cells(2) -> Holed]
          /\ Grid!FineGrid # Nowhere /\ Grid!FineGrid.lo = 0 /\ DOMAIN Grid!FineGrid.u = Cells(2)
          /\ \A x \in Cells(2) : Grid!FineGrid.u[x] = Grid!Mix(p[x], q[x], Part, 2)
          /\ FineHere = Grid!Either(P, Q, Part, 2)
      BY <1>2, <2>1, <2>3, FineBetween
    <3>2. fine.lo = 0 /\ Grid!Cols(fine) = 2 /\ Len(fine.steps) = 3
      BY <2>1, FineSteps
    <3>3. p \in [Cells(2) -> Wind] /\ q \in [Cells(2) -> Wind]
      <4>1. Before \in 1 .. 3 /\ Before + 1 \in 1 .. 3
        BY DEF Before
      <4>2. (\A x \in DOMAIN p : Grid!Finite(p[x])) /\ (\A x \in DOMAIN q : Grid!Finite(q[x]))
        BY <1>2, <3>2, <4>1 DEF Grid!Plain
      <4> HIDE DEF p, q
      <4> QED
        BY <3>1, <4>2 DEF Grid!Finite, Holed
    <3> HIDE DEF p, q
    <3>4. /\ pos = -1 => G = Grid!NaN /\ P = Grid!NaN /\ Q = Grid!NaN
          /\ pos # -1 => G = Grid!Mix(P, Q, Part, 2) /\ G \in Nat /\ P \in Nat /\ Q \in Nat
      <4>1. pos \in -1 .. 2 /\ 2 \in {2, 4} /\ 2 # 4
        BY DEF GridInv
      <4> QED
        BY <3>1, <3>2, <3>3, <4>1, SamplesAgree
    <3> HIDE DEF P, Q, G
    <3>5. pos = -1 => G = Grid!NaN /\ FineHere = Grid!NaN
      BY <3>1, <3>4 DEF Grid!Either
    <3>6. pos # -1 => G = FineHere /\ G # Grid!NaN
      BY <3>1, <3>4 DEF Grid!Either, Grid!NaN
    <3> QED
      BY <3>1, <3>5, <3>6 DEF G, Grid!Finite
  <2> QED
    BY <2>2, <2>3
<1> QED
  BY <1>1, <1>2

LEMMA WindAgrees ==
  ASSUME Grid!GridConstants, GridInv
  PROVE  Grid!SameWindEverywhere
<1> SUFFICES ASSUME Grid!Plain
             PROVE  /\ Grid!Readout = Grid!Tile
                    /\ frac % 4 = 0 => Grid!Readout = Grid!StripCell(Grid!Low(frac))
  BY DEF Grid!SameWindEverywhere
<1>1. Grid!Readout = IF Grid!Finite(FineHere) THEN FineHere ELSE Grid!SampleGrid(Grid!BaseGrid, pos)
  BY FineAgrees, Zenon DEF Grid!Readout
<1>2. Grid!Tile = IF Grid!Finite(FineHere) THEN FineHere ELSE BaseTile
  BY DEF Grid!Tile, FineHere, BaseTile
<1>3. ASSUME frac % 4 = 0
      PROVE  Grid!StripCell(Grid!Low(frac))
               = IF Grid!Finite(FineHere) THEN FineHere
                 ELSE Grid!DocArr(base, base.steps[Grid!Low(frac)].u, pos)
  <2>1. PICK n, a, b : IsBase(n, a, b)
    BY DEF GridInv
  <2>2. Grid!Hours(base)[Grid!Low(frac)] = Grid!Hour(frac)
    BY <1>3, <2>1, BaseSteps DEF GridInv
  <2> QED
    BY <2>2, Zenon DEF Grid!StripCell, FineHere
<1> QED
  BY <1>1, <1>2, <1>3, BaseAgrees, Zenon

(* A mix at either end of its two values is that value.                    *)
LEMMA MixEnds ==
  ASSUME Grid!GridConstants, NEW v \in Holed, NEW w \in Holed, v = Grid!NaN <=> w = Grid!NaN
  PROVE  Grid!Mix(v, w, 0, 2) = v /\ Grid!Mix(v, w, 2, 2) = w
<1>1. (v \in Nat \/ v = -1) /\ (w \in Nat \/ w = -1)
  BY DEF Holed, Grid!NaN, Grid!GridConstants
<1> QED
  BY <1>1 DEF Grid!Mix, Grid!NaN

LEMMA StepsShow ==
  ASSUME Grid!GridConstants, GridInv
  PROVE  Grid!StepsAreExact
<1>1. PICK n, d, e : IsBase(n, d, e)
  BY DEF GridInv
<1>2. Grid!Hours(base) = <<0, 8>> /\ Len(base.steps) = 2
  <2>1. 0 \in 0 .. 4
    OBVIOUS
  <2> QED
    BY <1>1, <2>1, BaseSteps
<1>3. ASSUME NEW h \in -4 .. 12, h % 2 = 0
      PROVE  Grid!Hour(Grid!FracForHour(h)) = Grid!Clamp(h, Grid!Hours(base)[1], Grid!Hours(base)[Len(base.steps)])
  <2> DEFINE f == IF h <= 0 THEN 0 ELSE IF h > 8 THEN 4 ELSE h \div 2
  <2>1. Grid!FracForHour(h) = f
    <3>1. CASE h <= 0
      BY <1>2, <3>1 DEF Grid!FracForHour
    <3>2. CASE h > 8
      BY <1>2, <3>2 DEF Grid!FracForHour
    <3>3. CASE h > 0 /\ h <= 8
      <4> DEFINE s == Grid!Hours(base)
                 First(i) == h <= s[i + 1] /\ \A j \in 1 .. i - 1 : h > s[j + 1]
                 i == CHOOSE i \in 1 .. 2 - 1 : First(i)
      <4>1. s[1] = 0 /\ s[2] = 8 /\ Len(s) = 2
        BY <1>2
      <4> HIDE DEF s
      <4>2. First(1)
        BY <3>3, <4>1
      <4>3. 1 .. 2 - 1 = {1}
        OBVIOUS
      <4> HIDE DEF First
      <4>4. i = 1
        BY <4>2, <4>3
      <4>5. Grid!FracForHour(h) = 4 * (i - 1) + (4 * (h - s[i])) \div (s[i + 1] - s[i])
        BY <3>3, <4>1 DEF Grid!FracForHour, s, First
      <4>6. (4 * h) \div 8 = h \div 2
        BY <3>3
      <4> HIDE DEF i
      <4>7. 4 * (i - 1) = 0 /\ 4 * (h - s[i]) = 4 * h /\ s[i + 1] - s[i] = 8
        BY <4>1, <4>4
      <4> QED
        BY <3>3, <4>5, <4>6, <4>7
    <3> QED
      BY <3>1, <3>2, <3>3
  <2>2. f \in 0 .. 4 /\ 2 * f = Grid!Clamp(h, 0, 8)
    BY <1>3 DEF Grid!Clamp, Grid!Most, Grid!Least
  <2>3. Grid!Hour(f) = 2 * f
    <3> HIDE DEF f
    <3> QED
      BY <1>1, <2>2, BaseSteps
  <2> HIDE DEF f
  <2>4. Grid!Hours(base)[1] = 0 /\ Grid!Hours(base)[Len(base.steps)] = 8
    BY <1>2
  <2> QED
    BY <2>1, <2>2, <2>3, <2>4
<1>4. ASSUME fine # Nowhere, NEW i \in 1 .. Len(fine.steps),
             base.ref + Grid!Hour(frac) = fine.ref + Grid!Hours(fine)[i]
      PROVE  Grid!FineGrid # Nowhere /\ Grid!FineGrid.u = fine.steps[i].u
  <2>1. PICK a, b, c : IsFine(a, b, c)
    BY <1>4 DEF GridInv
  <2>2. /\ i \in 1 .. 3 /\ fine.ref = 4 /\ Grid!Hours(fine)[i] = 2 * (i - 1)
        /\ Len(fine.steps) = 3 /\ fine.steps[1].u = a /\ fine.steps[2].u = b /\ fine.steps[3].u = c
        /\ Grid!Hours(fine)[1] = 0 /\ Grid!Hours(fine)[3] = 4
    BY <1>4, <2>1, FineSteps
  <2>3. Lead = 2 * (i - 1)
    <3>1. frac \in 0 .. 4
      BY DEF GridInv
    <3>2. base.ref \in Nat /\ Grid!Hour(frac) = 2 * frac
      BY <1>1, <3>1, BaseSteps
    <3> QED
      BY <1>4, <2>2, <3>1, <3>2 DEF Lead
  <2>4. i = 1 \/ i = 2 \/ i = 3
    BY <2>2
  <2>5. Grid!Within(fine, Lead)
    BY <2>2, <2>3, <2>4 DEF Grid!Within
  <2>6. /\ i = 1 => Before = 1 /\ Part = 0
        /\ i = 2 => Before = 1 /\ Part = 2
        /\ i = 3 => Before = 2 /\ Part = 2
    <3>1. /\ i = 1 => Before = 1
          /\ i = 2 => Before = 1
          /\ i = 3 => Before = 2
      BY <2>3 DEF Before
    <3> QED
      BY <2>3, <2>4, <3>1 DEF Part, Grid!Clamp, Grid!Most, Grid!Least
  <2> DEFINE p == fine.steps[Before].u
             q == fine.steps[Before + 1].u
  <2>7. /\ p \in [Cells(2) -> Holed] /\ q \in [Cells(2) -> Holed]
        /\ Grid!FineGrid # Nowhere /\ DOMAIN Grid!FineGrid.u = Cells(2)
        /\ \A x \in Cells(2) : Grid!FineGrid.u[x] = Grid!Mix(p[x], q[x], Part, 2)
    BY <1>4, <2>1, <2>5, FineBetween
  <2>8. \A x \in Cells(2) : p[x] = Grid!NaN <=> q[x] = Grid!NaN
    BY <2>1, <2>2, <2>4, <2>6 DEF IsFine
  <2>9. /\ i = 1 => fine.steps[i].u = p
        /\ i = 2 => fine.steps[i].u = q
        /\ i = 3 => fine.steps[i].u = q
    BY <2>6
  <2> HIDE DEF p, q
  <2>10. \A x \in Cells(2) : Grid!Mix(p[x], q[x], 0, 2) = p[x] /\ Grid!Mix(p[x], q[x], 2, 2) = q[x]
    BY <2>7, <2>8, MixEnds
  <2>11. fine.steps[i].u \in [Cells(2) -> Holed] /\ \A x \in Cells(2) : Grid!FineGrid.u[x] = fine.steps[i].u[x]
    BY <2>4, <2>6, <2>7, <2>9, <2>10
  <2>12. Grid!FineGrid.u = [x \in Cells(2) |-> Grid!FineGrid.u[x]]
    BY <1>4, <2>1, <2>5, FineBetween
  <2> QED
    BY <2>7, <2>11, <2>12
<1> QED
  BY <1>3, <1>4 DEF Grid!StepsAreExact

LEMMA GridTyped ==
  ASSUME Grid!GridConstants, GridInv
  PROVE  Grid!TypeOK
<1>1. PICK n, a, b : IsBase(n, a, b)
  BY DEF GridInv
<1>2. Len(base.steps) = 2 /\ frac \in 0 .. 4
  BY <1>1, BaseSteps DEF GridInv
<1> QED
  BY <1>2 DEF Grid!TypeOK, GridInv
-----------------------------------------------------------------------------
(* What moves over the chart, all of it: each component keeps its own      *)
(* invariant, and the others do not move meanwhile.                        *)

MotionInv ==
  /\ part = "ship" => ShipInv
  /\ part = "stops" => StopsInv
  /\ part = "forecast" => ForecastInv
  /\ part = "grid" => GridInv
  /\ part = "ais" => AisInv

LEMMA MotionInit == Init => MotionInv
<1> SUFFICES ASSUME Init
             PROVE  MotionInv
  OBVIOUS
<1>1. /\ part = "ship" => Ship!Init
      /\ part = "stops" => Stops!Init
      /\ part = "forecast" => Forecast!Init
      /\ part = "grid" => Grid!Init
      /\ part = "ais" => Ais!Init
  BY DEF Init
<1> QED
  BY <1>1, ShipInit, StopsInit, ForecastInit, GridInit, AisInit, ConstantsAssumption
     DEF MotionInv, MotionConstants

LEMMA MotionNext ==
  ASSUME MotionInv, [Next]_vars
  PROVE  MotionInv' /\ (UNCHANGED vars \/ (part = "stops" => Stops!Absorbs))
<1>1. part' = part
  BY DEF Next, vars
<1>2. /\ part = "ship" => [Ship!Next]_(Ship!vars)
      /\ part = "stops" => [Stops!Next]_(Stops!vars)
      /\ part = "forecast" => [Forecast!Next]_(Forecast!vars)
      /\ part = "grid" => [Grid!Next]_(Grid!vars)
      /\ part = "ais" => [Ais!Next]_(Ais!vars)
  <2>1. part = "ship" => [Ship!Next]_(Ship!vars)
    BY DEF Next, vars, Ship!vars, Ship!ship, Ship!view
  <2>2. part = "stops" => [Stops!Next]_(Stops!vars)
    BY DEF Next, vars, Stops!vars, Stops!camera, Stops!wheel
  <2>3. part = "forecast" => [Forecast!Next]_(Forecast!vars)
    BY DEF Next, vars, Forecast!vars, Forecast!server, Forecast!data, Forecast!writes, Forecast!hist,
           Forecast!bounds
  <2>4. part = "grid" => [Grid!Next]_(Grid!vars)
    BY DEF Next, vars, Grid!vars
  <2>5. part = "ais" => [Ais!Next]_(Ais!vars)
    BY DEF Next, vars, Ais!vars
  <2> QED
    BY <2>1, <2>2, <2>3, <2>4, <2>5
<1>3. MotionInv'
  BY <1>1, <1>2, ShipNext, StopsNext, ForecastNext, GridNext, AisNext, ConstantsAssumption
     DEF MotionInv, MotionConstants
<1>4. part = "stops" => UNCHANGED vars \/ Stops!Absorbs
  <2> SUFFICES ASSUME part = "stops"
               PROVE  UNCHANGED vars \/ Stops!Absorbs
    OBVIOUS
  <2>1. UNCHANGED Stops!vars \/ Stops!Absorbs
    BY <1>2, StopsNext, ConstantsAssumption DEF MotionInv, MotionConstants
  <2>2. ASSUME UNCHANGED Stops!vars
        PROVE  UNCHANGED vars
    BY <2>2 DEF Next, vars, Stops!vars, Stops!camera, Stops!wheel, NotStops
  <2> QED
    BY <2>1, <2>2
<1> QED
  BY <1>3, <1>4

(* Every component's state is typed, for any constants the assumptions     *)
(* allow: the one type invariant of the run.                               *)
THEOREM MotionIsTyped == Spec => []TypeOK
<1>1. MotionInv => TypeOK
  <2>1. MotionInv => /\ part = "ship" => Ship!TypeOK
                     /\ part = "stops" => Stops!TypeOK
    BY DEF MotionInv, ShipInv, StopsInv
  <2>2. MotionInv => /\ part = "forecast" => Forecast!TypeOK
                     /\ part = "grid" => Grid!TypeOK
                     /\ part = "ais" => Ais!TypeOK
    BY ForecastSafe, GridTyped, AisSafe, ConstantsAssumption DEF MotionInv, MotionConstants
  <2> QED
    BY <2>1, <2>2 DEF TypeOK
<1>2. MotionInv /\ [Next]_vars => MotionInv'
  BY MotionNext
<1> QED
  BY <1>1, <1>2, MotionInit, PTL DEF Spec

(* Own ship and the other vessels, for any places, headings, targets and   *)
(* bounds: own-ship.mjs leaves no boat, vector or frame of a source that   *)
(* is gone, and ais-overlay.mjs has the markers of the last message, shown *)
(* as the Layers control says.                                             *)
THEOREM NoBoatIsPhantom == Spec => []NoPhantomBoat
<1>1. MotionInv => NoPhantomBoat
  BY AisSafe DEF MotionInv, ShipInv, NoPhantomBoat
<1>2. MotionInv /\ [Next]_vars => MotionInv'
  BY MotionNext
<1> QED
  BY <1>1, <1>2, MotionInit, PTL DEF Spec

(* The weather overlay, for any winds, cycles, polls and failures: its     *)
(* grids are of the documents last read, writes of the window and of the   *)
(* refresh keep each other's part, and the readout, the tiles and the      *)
(* strip, each with an interpolation of its own, show one wind.            *)
THEOREM WindStaysOne == Spec => []WindIsOne
<1>1. MotionInv => WindIsOne
  <2>1. MotionInv => (part = "forecast" => Forecast!GridsFollowDocs /\ Forecast!CentreKept)
    BY ForecastSafe, ConstantsAssumption DEF MotionInv, MotionConstants
  <2>2. MotionInv => (part = "grid" => Grid!SameWindEverywhere /\ Grid!StepsAreExact)
    BY WindAgrees, StepsShow, ConstantsAssumption DEF MotionInv, MotionConstants
  <2> QED
    BY <2>1, <2>2 DEF WindIsOne
<1>2. MotionInv /\ [Next]_vars => MotionInv'
  BY MotionNext
<1> QED
  BY <1>1, <1>2, MotionInit, PTL DEF Spec

(* A throw of the wheel that the detent of zoom-limits.mjs stopped goes no *)
(* further within its gesture, for any stops, scales and waters: the first *)
(* part of what the run checks under CameraArrives.                        *)
THEOREM ThrowsAreAbsorbed == Spec => [][part = "stops" => Stops!Absorbs]_vars
<1>1. MotionInv /\ [Next]_vars => MotionInv'
  BY MotionNext
<1>2. MotionInv /\ [Next]_vars => [part = "stops" => Stops!Absorbs]_vars
  BY MotionNext
<1> QED
  BY <1>1, <1>2, MotionInit, PTL DEF Spec

=============================================================================
