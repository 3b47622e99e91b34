----------------------------- MODULE ScaminGate -----------------------------
(* The SCAMIN filter gate of <chart-canvas> (?scaminexact): the layers' filters *)
(* carry the display scale, and a new cutoff reaches the tiles already on the   *)
(* screen only when their source is reloaded.  The scale is the number of the   *)
(* ladder's values below it, 0 .. MaxBand.                                      *)
EXTENDS Naturals, FiniteSets

CONSTANTS MaxBand,
          MaxEvents   \* bound: moves of the camera and changes of the style
GateConstants == {MaxBand, MaxEvents} \subseteq Nat
Bands == 0 .. MaxBand
Baked == MaxBand + 1  \* the placeholder cutoff of the engine's style

VARIABLES band,         \* the display scale
          gesture,      \* what the camera is doing
          timer,        \* _scaminApplyT is running
          engine,       \* _engineMode
          last, light,  \* _scaminBandLast, _scaminLightApplied
          sweep,        \* _scaminSwept, _scaminSweepArmed
          forcing,      \* a once("idle") hook will force the cutoff
          filter,       \* MapLibre: the cutoff in the gated layers' filters
          worker,       \* the cutoff the workers parse tiles with
          changed, reload,  \* the style's pending work: layers to send, a source to reload
          tiles, busy,  \* the cutoffs of the tiles, whether some are in flight
          internals,    \* the style's internals are as the light apply expects
          bare,         \* history: the basemap was switched after the last apply
          events
applied == <<last, light, sweep, bare>>
style == <<filter, worker, changed, reload, tiles, busy>>
vars == <<band, gesture, timer, engine, forcing, applied, style, internals, events>>

Event == events < MaxEvents /\ events' = events + 1
(* isStyleLoaded()                                                             *)
Loaded == ~busy /\ ~reload
Init ==
  /\ band \in Bands /\ gesture = "rest" /\ timer = FALSE /\ engine = TRUE /\ last = Baked
  /\ light = FALSE /\ sweep = "no" /\ forcing = TRUE /\ bare = FALSE /\ events = 0
  /\ filter = Baked /\ worker = Baked /\ changed = FALSE /\ reload = FALSE
  /\ tiles = {Baked} /\ busy = TRUE /\ internals \in BOOLEAN
-----------------------------------------------------------------------------
(* map.setFilter: an equal filter is not applied again; "again" is             *)
(* _scaminQueueGatedReloads.                                                   *)
SetFilter(v, again) ==
  /\ filter' = v /\ changed' = (changed \/ filter # v) /\ reload' = (reload \/ again \/ filter # v)
  /\ UNCHANGED <<worker, tiles, busy>>
(* _scaminLightSetFilter: the layer goes to the workers, no tile is reloaded.  *)
LightSetFilter(v) == filter' = v /\ changed' = TRUE /\ UNCHANGED <<worker, reload, tiles, busy>>

(* _scaminUpdate at scale b: whether there is anything to apply,               *)
Due(force, b, zooming) == force \/ b # last \/ (light /\ ~zooming)
(* and its pass over the gated layers, which arms the sweep of the first idle. *)
Apply(b, zooming) ==
  /\ last' = b /\ bare' = FALSE
  /\ IF zooming /\ internals
     THEN LightSetFilter(b) /\ light' = TRUE /\ UNCHANGED sweep
     ELSE /\ SetFilter(b, light /\ ~zooming) /\ light' = (light /\ zooming)
          /\ sweep' = IF sweep = "no" THEN "armed" ELSE sweep
Update(force, b) ==
  LET zooming == ~force /\ gesture = "zoom" IN
    IF engine /\ Loaded /\ Due(force, b, zooming) THEN Apply(b, zooming) ELSE UNCHANGED <<applied, style>>

MoveStartKeeps(kind) ==
  /\ Event /\ gesture = "rest" /\ gesture' = kind
  /\ UNCHANGED <<band, timer, engine, forcing, applied, style, internals>>
MoveStart(kind) ==
  /\ Event /\ gesture = "rest" /\ gesture' = kind /\ timer' = FALSE
  /\ UNCHANGED <<band, engine, forcing, applied, style, internals>>
(* At most every 500 ms a zoom applies a crossing on its way; a pan, whose     *)
(* latitude changes the scale too, never does.                                 *)
Move(b, due) ==
  /\ Event /\ gesture # "rest" /\ b # band /\ band' = b
  /\ IF due /\ gesture = "zoom" THEN Update(FALSE, b) ELSE UNCHANGED <<applied, style>>
  /\ UNCHANGED <<gesture, timer, engine, forcing, internals>>
MoveEnd ==
  /\ gesture # "rest" /\ gesture' = "rest" /\ timer' = TRUE
  /\ UNCHANGED <<band, engine, forcing, applied, style, internals, events>>
(* _scaminApplySettled; it polls on while the style is loading.                *)
ApplySettled ==
  /\ timer /\ (engine => Loaded) /\ timer' = FALSE /\ Update(FALSE, band)
  /\ UNCHANGED <<band, gesture, engine, forcing, internals, events>>

(* _scaminForceWhenReady, from the idle hook.                                  *)
Force ==
  /\ forcing /\ Loaded /\ ~changed /\ gesture = "rest" /\ forcing' = FALSE /\ Update(TRUE, band)
  /\ UNCHANGED <<band, gesture, timer, engine, internals, events>>
Sweep ==
  /\ sweep = "armed" /\ Loaded /\ ~changed /\ gesture = "rest" /\ sweep' = "done"
  /\ tiles' = {worker} /\ busy' = TRUE
  /\ UNCHANGED <<band, gesture, timer, engine, forcing, last, light, bare, filter, worker, changed, reload, internals, events>>

(* A style diff or a rebuild, which bring the placeholders back.               *)
Restyle ==
  /\ Event /\ engine /\ SetFilter(Baked, FALSE) /\ forcing' = TRUE
  /\ UNCHANGED <<band, gesture, timer, engine, applied, internals>>
(* map.setStyle(buildStyle(), {diff: false}): the sources start over.          *)
NewStyle ==
  /\ filter' = Baked /\ worker' = Baked /\ changed' = FALSE /\ reload' = FALSE
  /\ tiles' = {Baked} /\ busy' = TRUE
SetBasemap ==
  /\ Event /\ NewStyle /\ bare' = TRUE
  /\ UNCHANGED <<band, gesture, timer, engine, forcing, last, light, sweep, internals>>
(* setServerSets leaves the engine mode until the style has been fetched.      *)
SetServerSets ==
  /\ Event /\ engine' = FALSE
  /\ UNCHANGED <<band, gesture, timer, forcing, applied, style, internals>>
SetsLanded ==
  /\ ~engine /\ engine' = TRUE /\ NewStyle /\ forcing' = TRUE
  /\ UNCHANGED <<band, gesture, timer, applied, internals, events>>

(* MapLibre: a frame sends the layers and reloads the source, tiles are        *)
(* requested in view, and tiles come in.  A reload reaches those in flight.    *)
Frame ==
  /\ changed \/ reload
  /\ worker' = filter /\ changed' = FALSE /\ reload' = FALSE
  /\ IF reload THEN tiles' = {filter} /\ busy' = TRUE ELSE UNCHANGED <<tiles, busy>>
  /\ UNCHANGED <<band, gesture, timer, engine, forcing, applied, filter, internals, events>>
Request ==
  /\ gesture # "rest" /\ ~changed /\ ~reload /\ tiles' = tiles \cup {worker} /\ busy' = TRUE
  /\ UNCHANGED <<band, gesture, timer, engine, forcing, applied, filter, worker, changed, reload, internals, events>>
Parsed ==
  /\ busy /\ busy' = FALSE
  /\ UNCHANGED <<band, gesture, timer, engine, forcing, applied, filter, worker, changed, reload, tiles, internals, events>>

Next ==
  \/ \E k \in {"zoom", "pan"} : MoveStart(k)
  \/ \E b \in Bands, due \in BOOLEAN : Move(b, due)
  \/ MoveEnd \/ ApplySettled \/ Force \/ Sweep \/ Restyle \/ SetBasemap \/ SetServerSets \/ SetsLanded
  \/ Frame \/ Request \/ Parsed
(* Gestures end, timers and frames run, and what is requested arrives.         *)
Fairness ==
  /\ WF_vars(MoveEnd) /\ WF_vars(ApplySettled) /\ WF_vars(Force) /\ WF_vars(Sweep)
  /\ WF_vars(SetsLanded) /\ WF_vars(Frame) /\ WF_vars(Parsed)
Spec == Init /\ [][Next]_vars
LiveSpec == Spec /\ Fairness
-----------------------------------------------------------------------------
TypeOK ==
  /\ band \in Bands /\ {filter, worker, last} \cup tiles \subseteq Bands \cup {Baked} /\ tiles # {}
  /\ sweep \in {"no", "armed", "done"} /\ (timer => gesture = "rest")
  /\ {timer, engine, light, forcing, changed, reload, busy, internals, bare} \subseteq BOOLEAN

(* chart-canvas.mjs:1805 "the settled chart is always SCAMIN-exact": light     *)
(* applies, polls, restyles and switched sets end with the filters and every   *)
(* tile at the display's scale, but for the basemap's rebuild.                 *)
Exact == filter = band /\ tiles = {band}

(* chart-canvas.mjs:474 "movestart cancels a pending apply so a resumed gesture *)
(* never reloads underneath itself": the gate reloads no source in a gesture,  *)
(* unless MapLibre's internals have drifted.                                   *)
ReloadsAtRest == gesture # "rest" /\ ~reload /\ reload' => filter' = Baked \/ ~internals

=============================================================================
