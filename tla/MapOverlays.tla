---------------------------- MODULE MapOverlays ----------------------------
(* The two overlays that follow what the chart renders: the outline of every   *)
(* chart on screen (plugins/coverage-boxes.mjs, fed by the shell) and the tap   *)
(* pads over the callout symbols (plugins/info-callouts.mjs).  Both are         *)
(* recomputed from map events by timers and throttles of their own; a style     *)
(* rebuild drops the boxes' source and keeps the pads, which are DOM elements.  *)
EXTENDS Naturals, FiniteSets

CONSTANTS Cell,      \* charts
          Small,     \* the charts too small on screen at zoom 0
          Callout,   \* the charts with an information or date callout
          Pack, None,
          MaxEvents  \* bound: pans, zooms, toggles, rebuilds and changes of the index

VARIABLES zoom, view,  \* the camera: its zoom, the charts that win under it
          moving,      \* a gesture, until its moveend
          rendered,    \* the charts of the tiles on screen
          style,       \* "up", or "loading" after setStyle
          busy,        \* frames are due: an idle event will follow
          indexed,     \* _activeCells
          callouts,    \* the callout symbols are switched on
          scale,       \* _featureSizeScale, one of two
          shown,       \* _showCellBounds and CoverageBoxes._visible
          raw,         \* _raw and its _featSig; None before the first
          source,      \* what "inst-bounds" holds, None without a source
          lastSig,     \* _lastSig: the boxes among it
          raf, regrow, \* _raf, _regrowT
          recent,      \* less than REGROW_MS since _lastApply
          covRecent,   \* less than 250 ms since _covIdleAt
          pads, padTimer, \* InfoCallouts._markers and _timer
          skipped,     \* history: the last idle was skipped, and nothing refreshed since
          events
camera == <<zoom, view, moving, rendered>>
switches == <<indexed, callouts, scale, shown>>
boxes == <<raw, source, lastSig, recent>>
timers == <<raf, regrow, covRecent, padTimer>>
vars == <<camera, style, busy, switches, boxes, timers, pads, skipped, events>>
-----------------------------------------------------------------------------
Event == events < MaxEvents /\ events' = events + 1
(* minSizeBox: a footprint below 26 pixels is drawn as a box of that size, so  *)
(* its outline depends on the zoom.                                            *)
Outline(c, z) == <<c, IF c \in Small /\ z < 2 THEN z ELSE None>>
Grown(r, z) == {Outline(c, z) : c \in r}
Boxes(r, z) == {o \in Grown(r, z) : o[2] # None}
Features == IF raw = None THEN {} ELSE raw

(* _apply: pushed unless the boxes are those last pushed.                      *)
Apply(r, last) ==
  IF source = None \/ (last # None /\ Boxes(r, zoom) = last)
  THEN lastSig' = last /\ UNCHANGED <<source, recent>>
  ELSE lastSig' = Boxes(r, zoom) /\ source' = Grown(r, zoom) /\ recent' = TRUE
SetFeaturesKept(r) == \* mutant: the signature of the boxes before is kept
  IF raw = r THEN UNCHANGED <<raw, source, lastSig, recent>>
  ELSE raw' = r /\ Apply(r, lastSig)
(* setFeatures: the same names and bands are the same features.                *)
SetFeatures(r) ==
  IF raw = r THEN UNCHANGED <<raw, source, lastSig, recent>>
  ELSE raw' = r /\ Apply(r, None)
(* _serverCellFeatures: the charts rendered whose footprint is indexed, or the *)
(* pack as a whole while the style cannot be queried.                          *)
ServerCells(cells, ready) == IF ready THEN rendered \cap cells ELSE {Pack}
RefreshBounds(cells, ready) == SetFeatures(ServerCells(cells, ready)) /\ skipped' = FALSE

Schedule == padTimer' = TRUE
(* InfoCallouts._refresh places a pad per callout symbol on screen and leaves  *)
(* everything alone while no symbol layer is there.                            *)
Pads == {<<c, scale>> : c \in IF callouts THEN rendered \cap Callout ELSE {}}
RefreshPads ==
  /\ padTimer /\ padTimer' = FALSE
  /\ pads' = IF style = "up" THEN Pads ELSE pads
  /\ UNCHANGED <<camera, style, busy, switches, boxes, raf, regrow, covRecent, skipped, events>>

Init ==
  /\ zoom = 0 /\ view \in SUBSET Cell /\ moving = FALSE /\ rendered = {} /\ style = "up" /\ busy = TRUE
  /\ indexed \in {{}, Cell} /\ callouts = TRUE /\ scale = 0 /\ shown \in BOOLEAN
  /\ raw = None /\ source = {} /\ lastSig = {} /\ recent = TRUE
  /\ raf = FALSE /\ regrow = FALSE /\ covRecent = FALSE /\ pads = {} /\ padTimer = TRUE
  /\ skipped = FALSE /\ events = 0
-----------------------------------------------------------------------------
(* The zoom hook: one regrow at most is due, next frame or after the throttle. *)
OnZoom ==
  IF ~shown \/ raf \/ regrow THEN UNCHANGED <<raf, regrow>>
  ELSE IF recent THEN regrow' = TRUE /\ UNCHANGED raf ELSE raf' = TRUE /\ UNCHANGED regrow
Move ==
  /\ Event /\ moving' = TRUE /\ busy' = TRUE
  /\ \/ zoom' \in 0 .. 2 /\ zoom' # zoom /\ OnZoom /\ UNCHANGED view
     \/ view' \in SUBSET Cell /\ view' # view /\ UNCHANGED <<zoom, raf, regrow>>
  /\ UNCHANGED <<rendered, style, switches, boxes, covRecent, padTimer, pads, skipped>>
MoveEnd ==
  /\ moving /\ moving' = FALSE /\ busy' = TRUE /\ Schedule
  /\ IF shown THEN RefreshBounds(indexed, style = "up") ELSE UNCHANGED <<boxes, skipped>>
  /\ UNCHANGED <<zoom, view, rendered, style, switches, raf, regrow, covRecent, pads, events>>
Frame ==
  /\ raf /\ raf' = FALSE /\ busy' = TRUE /\ Apply(Features, lastSig)
  /\ UNCHANGED <<camera, style, switches, raw, regrow, covRecent, padTimer, pads, skipped, events>>
Regrow ==
  /\ regrow /\ regrow' = FALSE /\ busy' = TRUE /\ Apply(Features, lastSig)
  /\ UNCHANGED <<camera, style, switches, raw, raf, covRecent, padTimer, pads, skipped, events>>
(* Time passes by the two throttles.                                          *)
Pause ==
  /\ recent \/ covRecent
  /\ recent' = FALSE /\ covRecent' = FALSE
  /\ UNCHANGED <<camera, style, busy, switches, raw, source, lastSig, raf, regrow, padTimer, pads, skipped, events>>
(* MapLibre: the tiles of the view arrive, then it goes idle.                  *)
TilesLoad ==
  /\ style = "up" /\ rendered # view /\ rendered' = view /\ busy' = TRUE
  /\ UNCHANGED <<zoom, view, moving, style, switches, boxes, timers, pads, skipped, events>>
(* ... which re-reads the charts, but not twice in 250 ms.                     *)
Idle ==
  /\ busy /\ ~moving /\ style = "up" /\ rendered = view /\ Schedule
  /\ IF shown /\ ~covRecent
     THEN covRecent' = TRUE /\ RefreshBounds(indexed, TRUE) /\ busy' = (source' # source)
     ELSE busy' = FALSE /\ skipped' = (skipped \/ shown) /\ UNCHANGED <<boxes, covRecent>>
  /\ UNCHANGED <<camera, style, switches, raf, regrow, pads, events>>
-----------------------------------------------------------------------------
SetVisible ==
  /\ Event /\ shown' = ~shown /\ busy' = TRUE
  /\ IF shown' THEN Apply(Features, lastSig) ELSE UNCHANGED <<source, lastSig, recent>>
  /\ UNCHANGED <<camera, style, indexed, callouts, scale, raw, timers, pads, skipped>>
(* A display setting shows or hides the callouts in place.                     *)
SetCallouts ==
  /\ Event /\ callouts' = ~callouts /\ busy' = TRUE
  /\ UNCHANGED <<camera, style, indexed, scale, shown, boxes, timers, pads, skipped>>
(* The refresh of the installed sets ends with the boxes.                      *)
Reindex ==
  /\ Event /\ \E cells \in SUBSET Cell : indexed' = cells /\ RefreshBounds(cells, style = "up")
  /\ busy' = TRUE
  /\ UNCHANGED <<camera, style, callouts, scale, shown, timers, pads>>
(* setStyle drops every source; a calibration rebuilds it for another size.    *)
Rebuild ==
  /\ Event /\ style' = "loading" /\ source' = None /\ rendered' = {} /\ busy' = TRUE
  /\ scale' \in 0 .. 1
  /\ UNCHANGED <<zoom, view, moving, indexed, callouts, shown, raw, lastSig, recent, timers, pads, skipped>>
(* style.load: addLayers pushes the features it has into the new source, then  *)
(* the shell hands over what is rendered.                                      *)
StyleLoad ==
  /\ style = "loading" /\ style' = "up" /\ busy' = TRUE
  /\ LET r == ServerCells(indexed, TRUE)
     IN raw' = r /\ lastSig' = Boxes(r, zoom) /\ source' = Grown(r, zoom)
  /\ recent' = TRUE /\ skipped' = FALSE
  /\ UNCHANGED <<camera, switches, timers, pads, events>>

Next ==
  \/ Move \/ MoveEnd \/ Frame \/ Regrow \/ Pause \/ TilesLoad \/ Idle \/ RefreshPads
  \/ SetVisible \/ SetCallouts \/ Reindex \/ Rebuild \/ StyleLoad
Spec == Init /\ [][Next]_vars
-----------------------------------------------------------------------------
TypeOK ==
  /\ zoom \in 0 .. 2 /\ {view, rendered, indexed} \subseteq SUBSET Cell
  /\ {moving, busy, callouts, shown, raf, regrow, recent, covRecent, padTimer, skipped} \subseteq BOOLEAN
  /\ style \in {"up", "loading"} /\ (source = None) = (style = "loading") /\ scale \in 0 .. 1
  /\ raw \in SUBSET (Cell \cup {Pack}) \cup {None} /\ pads \subseteq Callout \X {0, 1}
  /\ ~(raf /\ regrow) /\ events \in 0 .. MaxEvents

(* However pans, zooms, throttles, timers and rebuilds cross, a map at rest     *)
(* outlines the charts it renders, each at its least size for the zoom, and     *)
(* has a pad on every callout it shows, of the symbol's size.  The idle event   *)
(* the throttle drops is made up for by none (chartplotter.mjs: "Throttled --   *)
(* idle can fire often"), so the outlines are claimed where none was dropped.   *)
AtRest == ~busy /\ ~moving /\ style = "up" /\ rendered = view /\ ~raf /\ ~regrow /\ ~padTimer
OverlaysAreTrue ==
  AtRest => /\ shown /\ ~skipped => source = Grown(rendered \cap indexed, zoom)
            /\ pads = Pads
=============================================================================
