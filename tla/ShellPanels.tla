---------------------------- MODULE ShellPanels ----------------------------
(* What floats over the chart, and what is marked on it: the Charts/Settings  *)
(* drawer, the search popover and the agreement of <chart-plotter>, the       *)
(* <pick-report> with its external texts and pictures, and the developer      *)
(* tools' feature inspector and partition overlay.  They share the map's      *)
(* clicks, drags and keys, and the sources the shell adds to a style that the *)
(* canvas throws away and builds again.                                       *)
(* A stack is a sequence of features, those under a tap or in a dragged box,  *)
(* each once.                                                                 *)
EXTENDS Naturals, Sequences

CONSTANTS Features,   \* objects drawn on the chart
          None
PanelConstants == None \notin Features \cup {"charts", "settings"}

VARIABLES drawer,     \* the section the drawer shows, None when it is closed
          advanced,   \* the settings are on their Developer tab
          search, agreement,
          stack, idx, \* <pick-report>: the picked features and the one shown
          fills,      \* its reads of external files: [of, seq current?]
          text,       \* the feature whose file the panel shows
          pickHi,     \* the feature marked in the map's "pick" source
          inspecting, locked, selectingArea, insp, multi,  \* DevTools
          inspHi,     \* the features marked in the "inspect" source
          box,        \* a box is being dragged, with SHIFT or after "Select area"
          dragPan, boxZoom,  \* the map's own handlers are enabled
          free, turning,     \* the camera is in free mode; SHIFT drags its bearing
          partOn, partLayer, \* partition overlay: wanted, on the map
          style       \* the style is "up", or "loading" with no source of ours

pickVars == <<stack, idx, fills, text, pickHi>>
inspVars == <<inspecting, locked, selectingArea, insp, multi, inspHi, boxZoom>>
partVars == <<partOn, partLayer>>
chrome == <<drawer, advanced, search, agreement>>
drag == <<box, dragPan, free, turning>>
vars == <<chrome, pickVars, inspVars, partVars, drag, style>>

Stacks == {<<>>} \cup {<<f>> : f \in Features}
            \cup {s \in Features \X Features : s[1] # s[2]}
PickOpen == stack # <<>>

Init ==
  /\ drawer = None /\ advanced = FALSE /\ search = FALSE /\ agreement = FALSE
  /\ stack = <<>> /\ idx = 1 /\ fills = {} /\ text = None /\ pickHi = None
  /\ inspecting = FALSE /\ locked = FALSE /\ selectingArea = FALSE
  /\ insp = <<>> /\ multi = FALSE /\ inspHi = {} /\ box = FALSE
  /\ dragPan = TRUE /\ boxZoom = TRUE /\ free = FALSE /\ turning = FALSE
  /\ partOn = FALSE /\ partLayer = FALSE /\ style = "up"
-----------------------------------------------------------------------------
(* setData on a source the loading style does not have marks nothing.         *)
Marked(m, old) == IF style = "up" THEN m ELSE old

(* _render of the report: newer rows, so older reads no longer count.         *)
Render(s, i) ==
  /\ text' = None
  /\ fills' = {[r EXCEPT !.current = FALSE] : r \in fills}
                \cup {[of |-> s[i], current |-> TRUE]}
(* PickReport.show: the first of the stack, rendered and marked.              *)
Show(s) ==
  /\ stack' = s /\ idx' = 1 /\ Render(s, 1) /\ pickHi' = Marked(s[1], pickHi)
(* hide tells the shell, which clears the mark; reads under way go on.        *)
Hide == /\ stack' = <<>> /\ idx' = 1 /\ pickHi' = Marked(None, pickHi)
        /\ text' = None /\ UNCHANGED fills
ClosePick == IF PickOpen THEN Hide
             ELSE pickHi' = Marked(None, pickHi) /\ UNCHANGED <<stack, idx, fills, text>>
(* _fillAux: a read ends; the panel shows it only if its rows are still there.*)
FillAux(r) ==
  /\ fills' = fills \ {r}
  /\ text' = IF r.current /\ PickOpen THEN r.of ELSE text
  /\ UNCHANGED <<stack, idx, pickHi, chrome, inspVars, partVars, drag, style>>
Fill == \E r \in fills : FillAux(r)
Step == \* _step, by the buttons and the arrow keys
  /\ PickOpen /\ stack' = stack
  /\ idx' \in {idx, 1 + (idx % Len(stack))}  \* the same: the administrative rows
  /\ Render(stack, idx')
  /\ pickHi' = IF idx' = idx THEN pickHi ELSE Marked(stack[idx'], pickHi)
  /\ UNCHANGED <<chrome, inspVars, partVars, drag, style>>
-----------------------------------------------------------------------------
(* _renderInspect: the whole box, or the one feature of the cycler, is marked. *)
RenderInspect(s, all) ==
  inspHi' = IF s = <<>> THEN inspHi
            ELSE Marked(IF all THEN {s[i] : i \in DOMAIN s} ELSE {s[1]}, inspHi)
(* _closeInspect: no lock, no selection, no mark.                             *)
CloseInspect == locked' = FALSE /\ insp' = <<>> /\ multi' = FALSE /\ inspHi' = Marked({}, inspHi)
(* setInspectMode(on), guarded by its caller's change of mode.                *)
InspectOn ==
  /\ inspecting' = TRUE /\ locked' = FALSE /\ selectingArea' = FALSE
  /\ boxZoom' = FALSE /\ UNCHANGED <<insp, multi>>
  /\ RenderInspect(insp, multi)         \* _refreshPanel repaints what is left
InspectOff ==
  IF inspecting
  THEN inspecting' = FALSE /\ selectingArea' = FALSE /\ boxZoom' = TRUE /\ CloseInspect
  ELSE UNCHANGED inspVars

(* A control of a panel is pressed with a key, or by a pointer that goes down  *)
(* outside the report and the search and so dismisses them.                   *)
Press == UNCHANGED <<search, pickVars>> \/ (ClosePick /\ search' = FALSE)

(* setDrawerOpen(false): the inspector goes with its drawer.                  *)
CloseDrawer == drawer' = None /\ InspectOff
(* toggleSection: the rail button of the open section closes the drawer.      *)
ToggleSection(name) ==
  /\ ~agreement
  /\ IF drawer = name THEN CloseDrawer ELSE drawer' = name /\ InspectOff
  /\ ClosePick /\ search' = FALSE         \* the pointer went down outside those
  /\ UNCHANGED <<advanced, agreement, partVars, drag, style>>
(* The welcome card's buttons; the card hides while the drawer is open.       *)
OpenCharts ==
  /\ drawer = None /\ drawer' = "charts" /\ ClosePick /\ search' = FALSE
  /\ UNCHANGED <<advanced, agreement, inspVars, partVars, drag, style>>
Tab == /\ drawer = "settings" /\ advanced' = ~advanced /\ Press
       /\ UNCHANGED <<drawer, agreement, inspVars, partVars, drag, style>>
(* A download asks for the agreement; any answer closes it.                   *)
Agreement ==
  /\ drawer = "charts" \/ agreement
  /\ agreement' = ~agreement /\ Press
  /\ UNCHANGED <<drawer, advanced, inspVars, partVars, drag, style>>
SearchTab ==
  /\ ~agreement /\ search' = ~search /\ ClosePick
  /\ IF drawer # None /\ ~inspecting THEN CloseDrawer ELSE UNCHANGED <<drawer, inspVars>>
  /\ UNCHANGED <<advanced, agreement, partVars, drag, style>>

(* Escape: the report's captured handler first, else the topmost of the rest. *)
(* With the caret in the search input its own handler closes the search, and  *)
(* the window's then finds the search hidden.                                 *)
Escape ==
  /\ \/ PickOpen /\ Hide /\ UNCHANGED <<chrome, inspVars>>
     \/ /\ ~PickOpen /\ agreement /\ agreement' = FALSE
        /\ UNCHANGED <<drawer, advanced, search, pickVars, inspVars>>
     \/ /\ ~PickOpen /\ ~agreement /\ search /\ search' = FALSE
        /\ UNCHANGED <<advanced, agreement, pickVars>>
        /\ \/ UNCHANGED <<drawer, inspVars>>
           \/ drawer # None /\ CloseDrawer
     \/ /\ ~PickOpen /\ ~agreement /\ ~search /\ drawer # None /\ CloseDrawer
        /\ UNCHANGED <<advanced, search, agreement, pickVars>>
  /\ UNCHANGED <<partVars, drag, style>>

(* _dismissOverlays on a pointer that goes down, or a wheel, on the map.      *)
Dismiss ==
  /\ ClosePick /\ search' = FALSE
  /\ IF drawer # None /\ ~agreement /\ ~inspecting THEN CloseDrawer
     ELSE UNCHANGED <<drawer, inspVars>>
  /\ UNCHANGED <<advanced, agreement>>
Wheel == ~agreement /\ Dismiss /\ UNCHANGED <<partVars, drag, style>>
(* The attribution's "Terms" link shows the agreement, whatever is open.      *)
Terms ==
  /\ ClosePick /\ search' = FALSE /\ agreement' = TRUE
  /\ IF drawer # None /\ ~agreement /\ ~inspecting THEN CloseDrawer ELSE UNCHANGED <<drawer, inspVars>>
  /\ UNCHANGED <<advanced, partVars, drag, style>>
(* A tap: the dismissal, then the click, which is the inspector's or a pick.  *)
Tap(s) ==
  /\ ~inspecting /\ ~agreement
  /\ IF s = <<>> THEN ClosePick ELSE Show(s)
  /\ search' = FALSE /\ drawer' = None
  /\ UNCHANGED <<advanced, agreement, inspVars, partVars, drag, style>>
(* The tap pad of an information callout shows its own feature.               *)
Callout(f) ==
  /\ ~agreement /\ Show(<<f>>) /\ search' = FALSE
  /\ IF drawer # None /\ ~inspecting THEN CloseDrawer ELSE UNCHANGED <<drawer, inspVars>>
  /\ UNCHANGED <<advanced, agreement, partVars, drag, style>>
-----------------------------------------------------------------------------
(* _inspectAt: a hit shows and marks its stack, a miss of a hover clears it.  *)
InspectAt(s, lock) ==
  IF s = <<>>
  THEN IF lock THEN UNCHANGED <<insp, multi, inspHi, locked>>
       ELSE insp' = <<>> /\ inspHi' = Marked({}, inspHi) /\ UNCHANGED <<multi, locked>>
  ELSE insp' = s /\ multi' = FALSE /\ RenderInspect(s, FALSE) /\ locked' = (lock \/ locked)
Hover(s) ==
  /\ inspecting /\ ~locked /\ InspectAt(s, FALSE)
  /\ UNCHANGED <<inspecting, selectingArea, boxZoom, chrome, pickVars, partVars, drag, style>>
InspectTap(s) == \* _onClick, after the dismissal of the report and the search
  /\ inspecting /\ ~selectingArea /\ ClosePick /\ search' = FALSE
  /\ IF locked
     THEN /\ locked' = FALSE
          /\ IF s = <<>> THEN insp' = <<>> /\ inspHi' = Marked({}, inspHi) /\ UNCHANGED multi
             ELSE insp' = s /\ multi' = FALSE /\ RenderInspect(s, FALSE)
     ELSE InspectAt(s, TRUE)
  /\ UNCHANGED <<inspecting, selectingArea, boxZoom, drawer, advanced, agreement,
                 partVars, drag, style>>
InspectButton == \* with the pointer, which is not at a drag then
  /\ drawer = "settings" /\ advanced /\ ~turning
  /\ IF inspecting THEN InspectOff /\ Press ELSE InspectOn /\ ClosePick /\ search' \in {search, FALSE}
  /\ UNCHANGED <<drawer, advanced, agreement, partVars, drag, style>>
ToggleSelectArea ==
  /\ inspecting /\ drawer = "settings" /\ advanced /\ selectingArea' = ~selectingArea
  /\ Press
  /\ UNCHANGED <<inspecting, locked, insp, multi, inspHi, boxZoom, drawer, advanced, agreement,
                 partVars, drag, style>>
InspectStep == \* the cycler over a point's stack
  /\ inspecting /\ ~multi /\ Len(insp) = 2 /\ drawer = "settings" /\ advanced
  /\ inspHi' \in {{insp[1]}, {insp[2]}} /\ style = "up" /\ Press
  /\ UNCHANGED <<inspecting, locked, selectingArea, insp, multi, boxZoom, drawer, advanced, agreement,
                 partVars, drag, style>>
(* _onPointerDown with SHIFT or the armed toggle takes the map's pan away, a  *)
(* second pointer's as the first's ...                                        *)
BoxDown ==
  /\ inspecting /\ ~agreement /\ box' = TRUE /\ dragPan' = FALSE
  /\ ClosePick /\ search' = FALSE
  /\ UNCHANGED <<drawer, advanced, agreement, inspVars, partVars, free, turning, style>>
ShowInspectArea(s) == insp' = s /\ multi' = TRUE /\ locked' = TRUE /\ RenderInspect(s, TRUE)
BoxUpBusy(s) ==  \* (mutant) a small box returns before the pan is given back
  /\ box /\ box' = FALSE /\ selectingArea' = FALSE
  /\ \/ UNCHANGED <<insp, multi, inspHi, locked, dragPan>>
     \/ ShowInspectArea(s) /\ dragPan' = TRUE
  /\ UNCHANGED <<inspecting, boxZoom, chrome, pickVars, partVars, free, turning, style>>
(* ... and _onPointerUp gives it back, and locks onto what the box held.      *)
BoxUp(s) ==
  /\ box /\ box' = FALSE /\ dragPan' = TRUE /\ selectingArea' = FALSE
  /\ \/ UNCHANGED <<insp, multi, inspHi, locked>>      \* too small for a box
     \/ ShowInspectArea(s)
  /\ UNCHANGED <<inspecting, boxZoom, chrome, pickVars, partVars, free, turning, style>>
-----------------------------------------------------------------------------
(* setCameraMode, by the orientation button: the map's box zoom yields to the  *)
(* SHIFT drag of free mode and comes back in the others, armed inspector or not.*)
CameraMode ==
  /\ ~agreement /\ free' \in BOOLEAN /\ boxZoom' = ~free'
  /\ ClosePick /\ search' = FALSE
  /\ drawer' = IF inspecting THEN drawer ELSE None
  /\ UNCHANGED <<advanced, agreement, inspecting, locked, selectingArea, insp, multi, inspHi,
                 partVars, box, dragPan, turning, style>>
(* _installFreeRotate: the drag takes the pan away, and gives it back.  The    *)
(* inspector, while armed, takes SHIFT for its box.                           *)
TurnDown ==
  /\ free /\ ~inspecting /\ ~turning /\ ~agreement /\ turning' = TRUE /\ dragPan' = FALSE /\ Dismiss
  /\ UNCHANGED <<partVars, box, free, style>>
TurnUp ==
  /\ turning /\ turning' = FALSE /\ dragPan' = TRUE
  /\ UNCHANGED <<chrome, pickVars, inspVars, partVars, box, free, style>>
-----------------------------------------------------------------------------
(* _addPartitionLayers: nothing while MapLibre still loads the style's tiles.  *)
AddLayers(can) == {p \in BOOLEAN : p => can}
(* _togglePartitionOverlay: added only when the style and its tiles are there.*)
TogglePartition ==
  /\ drawer = "settings" /\ advanced /\ partOn' = ~partOn
  /\ partLayer' \in AddLayers(partOn' /\ style = "up") /\ Press
  /\ UNCHANGED <<drawer, advanced, agreement, inspVars, drag, style>>
(* The canvas sets another style: every source and layer of ours is gone.     *)
SetStyle ==
  /\ style = "up" /\ style' = "loading"
  /\ pickHi' = None /\ inspHi' = {} /\ partLayer' = FALSE
  /\ UNCHANGED <<chrome, stack, idx, fills, text, inspecting, locked, selectingArea,
                 insp, multi, boxZoom, partOn, drag>>
(* style.load: addCatalogOverlay adds the sources, empty; _reapplyPartitions  *)
(* adds the overlay again if MapLibre takes the style for loaded by then.     *)
StyleLoad ==
  /\ style = "loading" /\ style' = "up"
  /\ partLayer' \in AddLayers(partOn)
  /\ UNCHANGED <<chrome, pickVars, inspVars, partOn, drag>>

Next ==
  \/ Fill \/ Step \/ OpenCharts \/ Tab \/ Agreement \/ SearchTab \/ Escape \/ Wheel \/ Terms
  \/ \E name \in {"charts", "settings"} : ToggleSection(name)
  \/ \E s \in Stacks : Tap(s) \/ Hover(s) \/ InspectTap(s) \/ BoxUp(s)
  \/ \E f \in Features : Callout(f)
  \/ InspectButton \/ ToggleSelectArea \/ InspectStep \/ BoxDown
  \/ CameraMode \/ TurnDown \/ TurnUp
  \/ TogglePartition \/ SetStyle \/ StyleLoad
Spec == Init /\ [][Next]_vars
-----------------------------------------------------------------------------
TypeOK ==
  /\ drawer \in {None, "charts", "settings"}
  /\ {advanced, search, agreement, inspecting, locked, selectingArea, multi,
      dragPan, boxZoom, free, turning, partOn, partLayer} \subseteq BOOLEAN
  /\ stack \in Stacks /\ idx \in 1..2 /\ text \in Features \cup {None}
  /\ fills \subseteq [of : Features, current : BOOLEAN]
  /\ pickHi \in Features \cup {None} /\ insp \in Stacks /\ inspHi \subseteq Features
  /\ box \in BOOLEAN /\ style \in {"up", "loading"}

(* Whatever closed, switched or dismissed the panels, the inspector is armed  *)
(* only behind the settings drawer that can disarm it; the box zoom, which it *)
(* and the camera mode both write, is never on while SHIFT has both its other *)
(* uses, and is the user's again when it has neither; and once no drag goes   *)
(* on, the pan a drag took is given back.                                     *)
MapIsHandedBack ==
  /\ inspecting => drawer = "settings"
  /\ free /\ inspecting => ~boxZoom
  /\ ~free /\ ~inspecting => boxZoom
  /\ ~box /\ ~turning => dragPan

(* What the map and the panel say of a pick is about the same feature: a mark *)
(* is that of the feature the open report shows, and so is the text or the    *)
(* picture read for it, however late the read ended.                          *)
ReportIsOne ==
  /\ pickHi # None => PickOpen /\ pickHi = stack[idx]
  /\ text # None => PickOpen /\ text = stack[idx]

(* No partition overlay stays on the map that the panel says is off.          *)
OverlaySwitched == partLayer => partOn

=============================================================================
