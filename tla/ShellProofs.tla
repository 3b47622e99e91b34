----------------------------- MODULE ShellProofs ------------------------------
(***************************************************************************)
(* Proofs about MCShell: the invariants of the chart library with its      *)
(* detail pane and of the panels over the chart, for any packs, clicks,    *)
(* features and bounds.  A behaviour is one of one component, so that the  *)
(* invariant of each is proved by itself.                                  *)
(***************************************************************************)
EXTENDS MCShell, FiniteSetTheorems, TLAPS

-----------------------------------------------------------------------------
(* The panels over the chart.                                              *)

Shown == Panels!PickOpen => idx \in DOMAIN stack

(* A read that still counts is of the feature that shows.                  *)
ReadsShown == \A r \in fills : r.current /\ Panels!PickOpen => r.of = stack[idx]

LEMMA StackTypes ==
  ASSUME NEW s \in Panels!Stacks
  PROVE  /\ s # <<>> => 1 \in DOMAIN s
         /\ \A i \in DOMAIN s : i \in 1 .. 2 /\ s[i] \in Features
         /\ s # <<>> => Len(s) \in 1 .. 2 /\ DOMAIN s = 1 .. Len(s)
BY DEF Panels!Stacks

(* The report, its reads and its mark.                                     *)
Report ==
  /\ stack \in Panels!Stacks /\ idx \in 1 .. 2 /\ text \in Features \cup {None}
  /\ fills \subseteq [of : Features, current : BOOLEAN] /\ pickHi \in Features \cup {None}
  /\ Shown /\ ReadsShown /\ Panels!ReportIsOne /\ (style = "loading" => pickHi = None)

(* The inspector, its drawer and what it takes from the map.               *)
Inspector ==
  /\ drawer \in {None, "charts", "settings"} /\ insp \in Panels!Stacks /\ inspHi \subseteq Features
  /\ {inspecting, locked, selectingArea, multi, boxZoom} \subseteq BOOLEAN
  /\ (inspecting => drawer = "settings") /\ free \in BOOLEAN
  /\ (free /\ inspecting => ~boxZoom) /\ (~free /\ ~inspecting => boxZoom)
  /\ (style = "loading" => inspHi = {})

(* The rest: the drag, the other switches, the partition overlay, the style.*)
Rest ==
  /\ {advanced, search, agreement, dragPan, partOn, partLayer, box, turning} \subseteq BOOLEAN
  /\ style \in {"up", "loading"}
  /\ (~box /\ ~turning => dragPan) /\ (partLayer => partOn) /\ (style = "loading" => ~partLayer)

PanelsInv == Report /\ Inspector /\ Rest

LEMMA PanelsInit == Panels!Init => PanelsInv
<1> SUFFICES ASSUME Panels!Init PROVE PanelsInv
  OBVIOUS
<1> USE ConstantsAssumption DEF Panels!PanelConstants, Panels!Init
<1>1. <<>> \in Panels!Stacks
  BY DEF Panels!Stacks
<1>2. Report
  BY <1>1 DEF Report, Shown, ReadsShown, Panels!ReportIsOne, Panels!PickOpen
<1>3. Inspector /\ Rest
  BY <1>1 DEF Inspector, Rest
<1> QED
  BY <1>2, <1>3 DEF PanelsInv

LEMMA PanelsSafe ==
  PanelsInv => Panels!TypeOK /\ Panels!MapIsHandedBack /\ Panels!ReportIsOne /\ Panels!OverlaySwitched
BY DEF PanelsInv, Report, Inspector, Rest, Panels!TypeOK, Panels!MapIsHandedBack, Panels!OverlaySwitched

LEMMA ReportShows ==
  ASSUME Report, style \in {"up", "loading"}, style' = style, NEW s \in Panels!Stacks, s # <<>>, NEW i \in DOMAIN s,
         stack' = s, idx' = i, Panels!Render(s, i),
         pickHi' = Panels!Marked(s[i], pickHi) \/ (s = stack /\ i = idx /\ pickHi' = pickHi)
  PROVE  Report'
<1> USE ConstantsAssumption DEF Panels!PanelConstants
<1>1. i \in 1 .. 2 /\ s[i] \in Features
  BY StackTypes
<1>2. /\ text' = None
      /\ fills' = {[r EXCEPT !.current = FALSE] : r \in fills} \cup {[of |-> s[i], current |-> TRUE]}
  BY DEF Panels!Render
<1>3. fills' \subseteq [of : Features, current : BOOLEAN]
  <2>1. \A r \in fills : [r EXCEPT !.current = FALSE] \in [of : Features, current : BOOLEAN]
    BY DEF Report
  <2>2. [of |-> s[i], current |-> TRUE] \in [of : Features, current : BOOLEAN]
    BY <1>1
  <2> QED
    BY <1>2, <2>1, <2>2
<1>4. \A r \in fills' : r.current => r.of = s[i]
  BY <1>2 DEF Report
<1>5. pickHi' \in Features \cup {None} /\ (pickHi' # None => pickHi' = s[i]) /\ (style = "loading" => pickHi' = None)
  BY <1>1 DEF Panels!Marked, Report, Panels!ReportIsOne
<1> QED
  BY <1>1, <1>2, <1>3, <1>4, <1>5 DEF Report, Shown, ReadsShown, Panels!ReportIsOne, Panels!PickOpen

LEMMA ReportCloses ==
  ASSUME Report, style \in {"up", "loading"}, style' = style, Panels!ClosePick \/ Panels!Hide
  PROVE  Report'
<1> USE ConstantsAssumption DEF Panels!PanelConstants
<1>1. pickHi' = Panels!Marked(None, pickHi) /\ fills' = fills
  BY DEF Panels!ClosePick, Panels!Hide
<1>2. pickHi' = None
  BY <1>1 DEF Panels!Marked, Report
<1>3. CASE Panels!Hide
  <2>1. stack' = <<>> /\ idx' = 1 /\ text' = None
    BY <1>3 DEF Panels!Hide
  <2>2. <<>> \in Panels!Stacks
    BY DEF Panels!Stacks
  <2> QED
    BY <1>1, <1>2, <2>1, <2>2 DEF Report, Shown, ReadsShown, Panels!ReportIsOne, Panels!PickOpen
<1>4. CASE ~Panels!Hide
  <2>1. UNCHANGED <<stack, idx, fills, text>>
    BY <1>4 DEF Panels!ClosePick
  <2> QED
    BY <1>2, <2>1 DEF Report, Shown, ReadsShown, Panels!ReportIsOne, Panels!PickOpen
<1> QED
  BY <1>3, <1>4

LEMMA ReportStays ==
  ASSUME Report, UNCHANGED <<stack, idx, fills, text, pickHi, style>>
  PROVE  Report'
BY DEF Report, Shown, ReadsShown, Panels!ReportIsOne, Panels!PickOpen

LEMMA InspectorStays ==
  ASSUME Inspector, UNCHANGED <<drawer, free, Panels!inspVars, style>>
  PROVE  Inspector'
BY DEF Inspector, Panels!inspVars

(* Whoever closes or switches the drawer ends the inspector, with its mark.*)
LEMMA InspectorEnds ==
  ASSUME Inspector, style \in {"up", "loading"}, style' = style, free' = free,
         Panels!InspectOff, drawer' \in {None, "charts", "settings"}
  PROVE  Inspector'
<1>1. <<>> \in Panels!Stacks
  BY DEF Panels!Stacks
<1>2. CASE inspecting
  <2>1. inspHi' = {}
    BY <1>2 DEF Panels!InspectOff, Panels!CloseInspect, Panels!Marked, Inspector
  <2> QED
    BY <1>1, <1>2, <2>1 DEF Panels!InspectOff, Panels!CloseInspect, Inspector
<1>3. CASE ~inspecting
  BY <1>3 DEF Panels!InspectOff, Panels!inspVars, Inspector
<1> QED
  BY <1>2, <1>3

(* What the inspector marks are features that it shows.                    *)
LEMMA InspectorMarks ==
  ASSUME Inspector, style \in {"up", "loading"}, NEW s \in Panels!Stacks, NEW all \in BOOLEAN,
         Panels!RenderInspect(s, all) \/ inspHi' = Panels!Marked({}, inspHi)
  PROVE  inspHi' \subseteq Features /\ (style = "loading" => inspHi' = {})
<1>1. \A i \in DOMAIN s : s[i] \in Features
  BY StackTypes
<1>2. s # <<>> => s[1] \in Features
  BY StackTypes
<1>3. {s[i] : i \in DOMAIN s} \subseteq Features
  BY <1>1
<1> QED
  BY <1>2, <1>3 DEF Panels!RenderInspect, Panels!Marked, Inspector

LEMMA PanelsNext == PanelsInv /\ [Panels!Next]_(Panels!vars) => PanelsInv'
<1> SUFFICES ASSUME PanelsInv, [Panels!Next]_(Panels!vars) PROVE PanelsInv'
  OBVIOUS
<1> USE ConstantsAssumption DEF Panels!PanelConstants, Panels!chrome, Panels!pickVars, Panels!partVars, Panels!drag
<1>0. Report /\ Inspector /\ Rest /\ style \in {"up", "loading"} /\ stack \in Panels!Stacks
  BY DEF PanelsInv, Rest, Report
<1>00. Report' /\ Inspector' /\ Rest' => PanelsInv'
  BY DEF PanelsInv
<1>01. /\ UNCHANGED <<stack, idx, fills, text, pickHi, style>> => Report'
       /\ (Panels!ClosePick \/ Panels!Hide) /\ style' = style => Report'
       /\ UNCHANGED <<drawer, free, Panels!inspVars, style>> => Inspector'
       /\ Panels!CloseDrawer /\ UNCHANGED <<free, style>> => Inspector'
       /\ Panels!Press /\ style' = style => Report'
  BY <1>0, ReportStays, ReportCloses, InspectorStays, InspectorEnds DEF Panels!CloseDrawer, Panels!Press
<1>02. UNCHANGED <<advanced, Panels!partVars, Panels!drag, style>> /\ {search', agreement'} \subseteq BOOLEAN => Rest'
  BY <1>0 DEF Rest
<1>03. {advanced, search, agreement, inspecting, selectingArea, locked, multi} \subseteq BOOLEAN
  BY <1>0 DEF Rest, Inspector
<1>05. Panels!Press => search' \in BOOLEAN
  BY <1>03 DEF Panels!Press
<1>04. ASSUME NEW s \in Panels!Stacks, s # <<>>, Panels!Show(s), style' = style PROVE Report'
  <2>1. 1 \in DOMAIN s
    BY <1>04, StackTypes
  <2> QED
    BY <1>0, <1>04, <2>1, ReportShows DEF Panels!Show
<1>1. CASE UNCHANGED Panels!vars
  BY <1>0, <1>00, <1>01, <1>02, <1>03, <1>1 DEF Panels!vars
<1>2. CASE Panels!Fill
  <2>1. PICK r \in fills : Panels!FillAux(r)
    BY <1>2 DEF Panels!Fill
  <2>2. r.of \in Features
    BY <1>0 DEF Report
  <2>3. Report'
    BY <1>0, <2>1, <2>2 DEF Panels!FillAux, Report, Shown, ReadsShown, Panels!ReportIsOne, Panels!PickOpen
  <2> QED
    BY <1>00, <1>01, <1>02, <1>03, <2>1, <2>3 DEF Panels!FillAux
<1>3. CASE Panels!Step
  <2>1. /\ stack # <<>> /\ stack' = stack /\ Panels!Render(stack, idx')
        /\ pickHi' = IF idx' = idx THEN pickHi ELSE Panels!Marked(stack[idx'], pickHi)
        /\ UNCHANGED <<Panels!chrome, Panels!inspVars, Panels!partVars, Panels!drag, style>>
        /\ idx' \in {idx, 1 + (idx % Len(stack))}
    BY <1>3 DEF Panels!Step, Panels!PickOpen
  <2>2. idx \in DOMAIN stack
    BY <1>0, <2>1 DEF Report, Shown, Panels!PickOpen
  <2>3. idx' \in DOMAIN stack
    BY <1>0, <2>1, <2>2, StackTypes
  <2>4. Report'
    BY <1>0, <2>1, <2>3, ReportShows
  <2> QED
    BY <1>00, <1>01, <1>02, <1>03, <2>1, <2>4
<1>4. CASE Panels!OpenCharts
  <2>1. Report' /\ Rest'
    BY <1>01, <1>02, <1>03, <1>4 DEF Panels!OpenCharts
  <2>2. Inspector'
    BY <1>0, <1>4 DEF Panels!OpenCharts, Panels!inspVars, Inspector
  <2> QED
    BY <1>00, <2>1, <2>2
<1>5. CASE Panels!Tab
  <2>1. Report' /\ Inspector'
    BY <1>01, <1>5 DEF Panels!Tab
  <2>2. Rest'
    BY <1>0, <1>05, <1>5 DEF Panels!Tab, Rest
  <2> QED
    BY <1>00, <2>1, <2>2
<1>6. CASE Panels!Agreement
  <2>1. Report' /\ Inspector'
    BY <1>01, <1>6 DEF Panels!Agreement
  <2>2. Rest'
    BY <1>02, <1>03, <1>05, <1>6 DEF Panels!Agreement
  <2> QED
    BY <1>00, <2>1, <2>2
<1>7. CASE Panels!SearchTab
  BY <1>00, <1>01, <1>02, <1>03, <1>7 DEF Panels!SearchTab
<1>8. CASE Panels!Escape
  BY <1>00, <1>01, <1>02, <1>03, <1>8 DEF Panels!Escape
<1>9. CASE Panels!Wheel
  BY <1>00, <1>01, <1>02, <1>03, <1>9 DEF Panels!Wheel, Panels!Dismiss
<1>25. CASE Panels!Terms
  BY <1>00, <1>01, <1>02, <1>03, <1>25 DEF Panels!Terms
<1>26. CASE Panels!CameraMode
  <2>1. Report' /\ Rest'
    BY <1>0, <1>01, <1>26 DEF Panels!CameraMode, Rest
  <2>2. Inspector'
    BY <1>0, <1>26 DEF Panels!CameraMode, Inspector
  <2> QED
    BY <1>00, <2>1, <2>2
<1>27. CASE Panels!TurnDown
  <2>1. Report' /\ Inspector'
    BY <1>01, <1>27 DEF Panels!TurnDown, Panels!Dismiss
  <2>2. Rest'
    BY <1>0, <1>27 DEF Panels!TurnDown, Panels!Dismiss, Rest
  <2> QED
    BY <1>00, <2>1, <2>2
<1>28. CASE Panels!TurnUp
  <2>1. Report' /\ Inspector'
    BY <1>01, <1>28 DEF Panels!TurnUp
  <2>2. Rest'
    BY <1>0, <1>28 DEF Panels!TurnUp, Rest
  <2> QED
    BY <1>00, <2>1, <2>2
<1>10. ASSUME NEW name \in {"charts", "settings"}, Panels!ToggleSection(name) PROVE PanelsInv'
  <2>1. Inspector'
    BY <1>0, <1>10, InspectorEnds DEF Panels!ToggleSection, Panels!CloseDrawer
  <2> QED
    BY <1>00, <1>01, <1>02, <1>03, <1>10, <2>1 DEF Panels!ToggleSection
<1>11. ASSUME NEW s \in Panels!Stacks, Panels!Tap(s) PROVE PanelsInv'
  <2>1. Report'
    BY <1>01, <1>04, <1>11 DEF Panels!Tap
  <2>2. Inspector'
    BY <1>0, <1>11 DEF Panels!Tap, Panels!inspVars, Inspector
  <2> QED
    BY <1>00, <1>02, <1>03, <1>11, <2>1, <2>2 DEF Panels!Tap
<1>12. ASSUME NEW fe \in Features, Panels!Callout(fe) PROVE PanelsInv'
  <2>1. <<fe>> \in Panels!Stacks /\ <<fe>> # <<>>
    BY DEF Panels!Stacks
  <2> QED
    BY <1>00, <1>01, <1>02, <1>03, <1>04, <1>12, <2>1 DEF Panels!Callout
<1>13. ASSUME NEW s \in Panels!Stacks, style' = style, UNCHANGED <<inspecting, boxZoom, drawer, free>>,
              {selectingArea', locked', multi'} \subseteq BOOLEAN, insp' = s,
              \/ \E all \in BOOLEAN : Panels!RenderInspect(s, all)
              \/ inspHi' = Panels!Marked({}, inspHi)
       PROVE  Inspector'
  <2>1. inspHi' \subseteq Features /\ (style = "loading" => inspHi' = {})
    BY <1>0, <1>13, InspectorMarks
  <2> QED
    BY <1>0, <1>13, <2>1 DEF Inspector
<1>14. \A s \in Panels!Stacks, lock \in BOOLEAN :
         /\ Panels!InspectAt(s, lock) /\ style' = style /\ UNCHANGED <<inspecting, selectingArea, boxZoom, drawer, free>>
         => Inspector'
  <2>1. <<>> \in Panels!Stacks /\ insp \in Panels!Stacks
    BY <1>0 DEF Panels!Stacks, Inspector
  <2> QED
    BY <1>01, <1>03, <1>13, <2>1 DEF Panels!InspectAt, Panels!inspVars
<1>15. ASSUME NEW s \in Panels!Stacks, Panels!Hover(s) PROVE PanelsInv'
  BY <1>00, <1>01, <1>02, <1>03, <1>14, <1>15 DEF Panels!Hover
<1>16. ASSUME NEW s \in Panels!Stacks, Panels!InspectTap(s) PROVE PanelsInv'
  <2>1. <<>> \in Panels!Stacks
    BY DEF Panels!Stacks
  <2>2. Inspector'
    BY <1>03, <1>13, <1>14, <1>16, <2>1 DEF Panels!InspectTap
  <2> QED
    BY <1>00, <1>01, <1>02, <1>03, <1>16, <2>2 DEF Panels!InspectTap
<1>17. ASSUME NEW s \in Panels!Stacks, Panels!BoxUp(s) PROVE PanelsInv'
  <2>1. Inspector'
    BY <1>0, <1>03, <1>13, <1>17 DEF Panels!BoxUp, Panels!ShowInspectArea, Inspector
  <2>2. Rest'
    BY <1>0, <1>17 DEF Panels!BoxUp, Panels!ShowInspectArea, Rest
  <2> QED
    BY <1>00, <1>01, <1>17, <2>1, <2>2 DEF Panels!BoxUp
<1>18. CASE Panels!InspectButton
  <2>1. /\ UNCHANGED <<drawer, advanced, agreement, Panels!partVars, Panels!drag, style>>
        /\ drawer = "settings" /\ search' \in BOOLEAN
    BY <1>03, <1>05, <1>18 DEF Panels!InspectButton
  <2>2. Report'
    BY <1>01, <1>18, <2>1 DEF Panels!InspectButton
  <2>3. CASE inspecting
    BY <1>00, <1>0, <1>02, <1>03, <1>18, <2>1, <2>2, <2>3, InspectorEnds DEF Panels!InspectButton
  <2>4. CASE ~inspecting
    <3>1. /\ inspecting' = TRUE /\ locked' = FALSE /\ selectingArea' = FALSE /\ boxZoom' = FALSE
          /\ UNCHANGED <<insp, multi>> /\ Panels!RenderInspect(insp, multi)
      BY <1>18, <2>4 DEF Panels!InspectButton, Panels!InspectOn
    <3>2. inspHi' \subseteq Features /\ (style = "loading" => inspHi' = {})
      BY <1>0, <1>03, <3>1, InspectorMarks DEF Inspector
    <3>3. Inspector'
      BY <1>0, <2>1, <3>1, <3>2 DEF Inspector
    <3> QED
      BY <1>00, <1>02, <1>03, <2>1, <2>2, <3>3
  <2> QED
    BY <2>3, <2>4
<1>19. CASE Panels!ToggleSelectArea
  <2>1. Inspector'
    BY <1>0, <1>19 DEF Panels!ToggleSelectArea, Inspector
  <2>2. Report' /\ Rest'
    BY <1>01, <1>02, <1>03, <1>05, <1>19 DEF Panels!ToggleSelectArea
  <2> QED
    BY <1>00, <2>1, <2>2
<1>20. CASE Panels!InspectStep
  <2>1. insp # <<>> /\ Len(insp) = 2 /\ insp \in Panels!Stacks
    BY <1>0, <1>20 DEF Panels!InspectStep, Inspector
  <2>2. insp[1] \in Features /\ insp[2] \in Features
    BY <2>1, StackTypes
  <2>3. Inspector'
    BY <1>0, <1>20, <2>2 DEF Panels!InspectStep, Inspector
  <2>4. Report' /\ Rest'
    BY <1>01, <1>02, <1>03, <1>05, <1>20 DEF Panels!InspectStep
  <2> QED
    BY <1>00, <2>3, <2>4
<1>21. CASE Panels!BoxDown
  <2>1. Rest'
    BY <1>0, <1>21 DEF Panels!BoxDown, Rest
  <2> QED
    BY <1>00, <1>01, <1>21, <2>1 DEF Panels!BoxDown
<1>22. CASE Panels!TogglePartition
  <2>1. Rest'
    BY <1>0, <1>05, <1>22 DEF Panels!TogglePartition, Panels!AddLayers, Rest
  <2> QED
    BY <1>00, <1>01, <1>22, <2>1 DEF Panels!TogglePartition
<1>23. CASE Panels!SetStyle
  <2>1. Rest'
    BY <1>0, <1>23 DEF Panels!SetStyle, Rest
  <2>2. Inspector'
    BY <1>0, <1>23 DEF Panels!SetStyle, Inspector
  <2>3. Report'
    BY <1>0, <1>23 DEF Panels!SetStyle, Report, Shown, ReadsShown, Panels!ReportIsOne, Panels!PickOpen
  <2> QED
    BY <1>00, <2>1, <2>2, <2>3
<1>24. CASE Panels!StyleLoad
  <2>1. Rest'
    BY <1>0, <1>24 DEF Panels!StyleLoad, Panels!AddLayers, Rest
  <2>2. Inspector'
    BY <1>0, <1>24 DEF Panels!StyleLoad, Panels!inspVars, Inspector
  <2>3. Report'
    BY <1>0, <1>24 DEF Panels!StyleLoad, Report, Shown, ReadsShown, Panels!ReportIsOne, Panels!PickOpen
  <2> QED
    BY <1>00, <2>1, <2>2, <2>3
<1> QED
  BY <1>1, <1>2, <1>3, <1>4, <1>5, <1>6, <1>7, <1>8, <1>9, <1>10, <1>11, <1>12, <1>15, <1>16, <1>17, <1>18,
     <1>19, <1>20, <1>21, <1>22, <1>23, <1>24, <1>25, <1>26, <1>27, <1>28 DEF Panels!Next

-----------------------------------------------------------------------------
(* The detail pane of the library.                                         *)

Shot(k, at0, cut0) == [pack |-> k, at |-> at0, cut |-> cut0]

(* A picture is cut off only once it has a map, and a pack has no more     *)
(* pictures under way than are let in.                                     *)
ShotsCount ==
  /\ shots \in [Detail!Shot -> Nat]
  /\ \A k \in DetailPack :
       /\ shots[Shot(k, "coast", TRUE)] = 0
       /\ shots[Shot(k, "coast", FALSE)] + shots[Shot(k, "map", FALSE)] + shots[Shot(k, "map", TRUE)] <= MaxShots

(* What is waited for is a picture of the pack selected.                   *)
WantsSelected == want # None => want = sel

DetailInv == Detail!TypeOK /\ ShotsCount /\ WantsSelected /\ Detail!DetailIsSelected

(* The four kinds of picture of a pack.                                    *)
LEMMA ShotKinds ==
  ASSUME NEW k \in DetailPack
  PROVE  /\ Shot(k, "coast", TRUE) \in Detail!Shot /\ Shot(k, "coast", FALSE) \in Detail!Shot
         /\ Shot(k, "map", TRUE) \in Detail!Shot /\ Shot(k, "map", FALSE) \in Detail!Shot
         /\ Shot(k, "coast", TRUE) # Shot(k, "coast", FALSE) /\ Shot(k, "coast", TRUE) # Shot(k, "map", FALSE)
         /\ Shot(k, "coast", TRUE) # Shot(k, "map", TRUE) /\ Shot(k, "coast", FALSE) # Shot(k, "map", FALSE)
         /\ Shot(k, "coast", FALSE) # Shot(k, "map", TRUE) /\ Shot(k, "map", FALSE) # Shot(k, "map", TRUE)
BY DEF Shot, Detail!Shot

LEMMA ShotMoves ==
  ASSUME NEW k
  PROVE  /\ [Shot(k, "coast", FALSE) EXCEPT !.at = "map"] = Shot(k, "map", FALSE)
         /\ [Shot(k, "map", FALSE) EXCEPT !.cut = TRUE] = Shot(k, "map", TRUE)
<1>1. ASSUME NEW c, NEW d
      PROVE  /\ [Shot(k, "coast", c) EXCEPT !.at = "map"] = Shot(k, "map", c)
             /\ [Shot(k, "map", c) EXCEPT !.cut = d] = Shot(k, "map", d)
  BY DEF Shot
<1> QED
  BY <1>1, Zenon

LEMMA EveryShot ==
  ASSUME NEW s \in Detail!Shot
  PROVE  /\ s.pack \in DetailPack
         /\ s \in {Shot(s.pack, "coast", TRUE), Shot(s.pack, "coast", FALSE),
                   Shot(s.pack, "map", TRUE), Shot(s.pack, "map", FALSE)}
BY DEF Shot, Detail!Shot

LEMMA DetailInit == Detail!Init => DetailInv
<1> SUFFICES ASSUME Detail!Init PROVE DetailInv
  OBVIOUS
<1> USE ConstantsAssumption DEF Detail!DetailConstants
<1>1. shots = [s \in Detail!Shot |-> 0] /\ MaxShots \in Nat
  BY DEF Detail!Init
<1>2. ShotsCount
  <2>1. shots \in [Detail!Shot -> Nat]
    BY <1>1
  <2>2. ASSUME NEW k \in DetailPack
        PROVE  /\ shots[Shot(k, "coast", TRUE)] = 0 /\ shots[Shot(k, "coast", FALSE)] = 0
               /\ shots[Shot(k, "map", FALSE)] = 0 /\ shots[Shot(k, "map", TRUE)] = 0
    BY <1>1, ShotKinds
  <2>3. \A k \in DetailPack :
          /\ shots[Shot(k, "coast", TRUE)] = 0
          /\ shots[Shot(k, "coast", FALSE)] + shots[Shot(k, "map", FALSE)] + shots[Shot(k, "map", TRUE)] <= MaxShots
    <3> TAKE k \in DetailPack
    <3> DEFINE a == shots[Shot(k, "coast", FALSE)]
               b == shots[Shot(k, "map", FALSE)]
               c == shots[Shot(k, "map", TRUE)]
    <3>1. a = 0 /\ b = 0 /\ c = 0
      BY <2>2
    <3> HIDE DEF a, b, c
    <3>2. a + b + c <= MaxShots
      BY <3>1, <1>1
    <3> QED
      BY <2>2, <3>2 DEF a, b, c
  <2> QED
    BY <2>1, <2>3 DEF ShotsCount
<1>3. Detail!TypeOK
  BY DEF Detail!Init, Detail!TypeOK
<1>4. Detail!DetailIsSelected
  BY DEF Detail!Init, Detail!DetailIsSelected, Detail!Listed
<1>5. WantsSelected
  BY DEF Detail!Init, WantsSelected
<1> QED
  BY <1>2, <1>3, <1>4, <1>5 DEF DetailInv

(* Pictures move from the coastline to the map, or are cut off there.      *)
LEMMA ShotsMove ==
  ASSUME ShotsCount, NEW k \in DetailPack, NEW s, NEW t, shots[s] > 0,
         \/ s = Shot(k, "coast", FALSE) /\ t = Shot(k, "map", FALSE)
         \/ s = Shot(k, "map", FALSE) /\ t = Shot(k, "map", TRUE),
         shots' = Detail!Move(shots, s, t)
  PROVE  ShotsCount' /\ shots'[t] > 0 /\ \A u \in Detail!Shot \ {s} : shots'[u] >= shots[u]
<1> USE ConstantsAssumption DEF Detail!DetailConstants
<1>1. s \in Detail!Shot /\ t \in Detail!Shot /\ s # t
  BY ShotKinds
<1>2. shots[s] \in Nat /\ shots[t] \in Nat
  BY <1>1 DEF ShotsCount
<1>3. /\ shots'[s] = shots[s] - 1 /\ shots'[t] = shots[t] + 1
      /\ \A u \in Detail!Shot \ {s, t} : shots'[u] = shots[u]
      /\ shots' \in [Detail!Shot -> Nat]
  BY <1>1, <1>2 DEF ShotsCount, Detail!Move
<1>4. ASSUME NEW j \in DetailPack
      PROVE  /\ shots'[Shot(j, "coast", TRUE)] = 0
             /\ shots'[Shot(j, "coast", FALSE)] + shots'[Shot(j, "map", FALSE)]
                  + shots'[Shot(j, "map", TRUE)] <= MaxShots
  <2> DEFINE z == Shot(j, "coast", TRUE)  a == Shot(j, "coast", FALSE)
             b == Shot(j, "map", FALSE)   c == Shot(j, "map", TRUE)
  <2>1. shots[z] = 0 /\ shots[a] + shots[b] + shots[c] <= MaxShots
    BY DEF ShotsCount
  <2>2. {z, a, b, c} \subseteq Detail!Shot /\ z \notin {a, b, c} /\ a # b /\ a # c /\ b # c
    BY ShotKinds
  <2>3. j # k => z \notin {s, t} /\ a \notin {s, t} /\ b \notin {s, t} /\ c \notin {s, t}
    BY DEF Shot
  <2>4. j = k => (s = a /\ t = b) \/ (s = b /\ t = c)
    OBVIOUS
  <2> HIDE DEF z, a, b, c
  <2>5. shots[a] \in Nat /\ shots[b] \in Nat /\ shots[c] \in Nat
    BY <2>2 DEF ShotsCount
  <2>6. CASE j # k
    <3>1. shots'[z] = shots[z] /\ shots'[a] = shots[a] /\ shots'[b] = shots[b] /\ shots'[c] = shots[c]
      BY <1>3, <2>2, <2>3, <2>6
    <3>2. shots'[z] = 0 /\ shots'[a] + shots'[b] + shots'[c] <= MaxShots
      BY <2>1, <2>5, <3>1
    <3> QED
      BY <3>2 DEF z, a, b, c
  <2>7. CASE s = a /\ t = b
    <3>1. shots'[z] = 0 /\ shots'[a] = shots[a] - 1 /\ shots'[b] = shots[b] + 1 /\ shots'[c] = shots[c]
      BY <1>3, <2>1, <2>2, <2>7
    <3>2. shots'[a] + shots'[b] + shots'[c] <= MaxShots
      BY <2>1, <2>5, <3>1
    <3> QED
      BY <3>1, <3>2 DEF z, a, b, c
  <2>8. CASE s = b /\ t = c
    <3>1. shots'[z] = 0 /\ shots'[b] = shots[b] - 1 /\ shots'[c] = shots[c] + 1 /\ shots'[a] = shots[a]
      BY <1>3, <2>1, <2>2, <2>8
    <3>2. shots'[a] + shots'[b] + shots'[c] <= MaxShots
      BY <2>1, <2>5, <3>1
    <3> QED
      BY <3>1, <3>2 DEF z, a, b, c
  <2> QED
    BY <2>4, <2>6, <2>7, <2>8
<1>5. ShotsCount'
  BY <1>3, <1>4 DEF ShotsCount
<1>6. \A u \in Detail!Shot \ {s} : shots'[u] >= shots[u]
  <2>1. ASSUME NEW u \in Detail!Shot \ {s} PROVE shots'[u] >= shots[u]
    <3>1. shots[u] \in Nat
      BY DEF ShotsCount
    <3> QED
      BY <1>2, <1>3, <3>1
  <2> QED
    BY <2>1
<1> QED
  BY <1>2, <1>3, <1>5, <1>6

(* Pictures under way stay within their bound, which is that of a pack.    *)
LEMMA ShotsBound == ShotsCount => shots \in [Detail!Shot -> 0 .. MaxShots]
<1> SUFFICES ASSUME ShotsCount, NEW s \in Detail!Shot PROVE shots[s] \in 0 .. MaxShots
  BY DEF ShotsCount
<1> DEFINE z == Shot(s.pack, "coast", TRUE)  a == Shot(s.pack, "coast", FALSE)
           b == Shot(s.pack, "map", FALSE)   c == Shot(s.pack, "map", TRUE)
<1>1. s \in {z, c, a, b} /\ {z, a, b, c} \subseteq Detail!Shot
  BY EveryShot, ShotKinds
<1>2. shots[z] = 0 /\ shots[a] + shots[b] + shots[c] <= MaxShots
  BY EveryShot DEF ShotsCount
<1> HIDE DEF z, a, b, c
<1>3. shots[a] \in Nat /\ shots[b] \in Nat /\ shots[c] \in Nat
  BY <1>1 DEF ShotsCount
<1>4. MaxShots \in Nat
  BY ConstantsAssumption DEF Detail!DetailConstants
<1> QED
  BY <1>1, <1>2, <1>3, <1>4

LEMMA NatNext == \A n \in Nat : n + 1 \in Nat /\ n + 1 >= n
OBVIOUS

ShotsTyped == shots \in [Detail!Shot -> 0 .. MaxShots]
LEMMA ShotsBoundNext == ShotsCount' => ShotsTyped'
<1>1. ShotsCount => ShotsTyped
  BY ShotsBound DEF ShotsTyped
<1> QED
  BY <1>1, PTL

(* One picture more is let in while the pack has room for it.              *)
HasRoom(k) == Detail!Total(k) < MaxShots

LEMMA ShotsAdd ==
  ASSUME ShotsCount, NEW k \in DetailPack, NEW s \in {Shot(k, "coast", FALSE)},
         HasRoom(k), shots' = Detail!Add(shots, s)
  PROVE  ShotsCount' /\ \A u \in Detail!Shot : shots'[u] >= shots[u]
<1> USE ConstantsAssumption DEF Detail!DetailConstants
<1>1. s \in Detail!Shot
  BY ShotKinds
<1>2. shots[s] \in Nat
  BY <1>1 DEF ShotsCount
<1>3. shots[s] + shots[Shot(k, "map", FALSE)] + shots[Shot(k, "map", TRUE)] < MaxShots
  BY DEF HasRoom, Detail!Total, Shot
<1>4. /\ shots'[s] = shots[s] + 1 /\ \A u \in Detail!Shot \ {s} : shots'[u] = shots[u]
      /\ shots' \in [Detail!Shot -> Nat]
  <2>1. shots' = [shots EXCEPT ![s] = shots[s] + 1] /\ shots \in [Detail!Shot -> Nat]
    BY <1>3 DEF ShotsCount, Detail!Add
  <2>2. shots[s] + 1 \in Nat
    BY <1>2, NatNext, Zenon
  <2> QED
    BY <1>1, <2>1, <2>2
<1>5. ASSUME NEW j \in DetailPack
      PROVE  /\ shots'[Shot(j, "coast", TRUE)] = 0
             /\ shots'[Shot(j, "coast", FALSE)] + shots'[Shot(j, "map", FALSE)]
                  + shots'[Shot(j, "map", TRUE)] <= MaxShots
  <2> DEFINE z == Shot(j, "coast", TRUE)  a == Shot(j, "coast", FALSE)
             b == Shot(j, "map", FALSE)   c == Shot(j, "map", TRUE)
  <2>1. shots[z] = 0 /\ shots[a] + shots[b] + shots[c] <= MaxShots
    BY DEF ShotsCount
  <2>2. {z, a, b, c} \subseteq Detail!Shot /\ z \notin {a, b, c} /\ a # b /\ a # c /\ b # c
    BY ShotKinds
  <2>3. j # k => z # s /\ a # s /\ b # s /\ c # s
    BY DEF Shot
  <2>4. j = k => s = a /\ shots[s] + shots[b] + shots[c] < MaxShots
    BY <1>3
  <2> HIDE DEF z, a, b, c
  <2>5. shots[a] \in Nat /\ shots[b] \in Nat /\ shots[c] \in Nat
    BY <2>2 DEF ShotsCount
  <2>6. shots'[z] = 0 /\ shots'[b] = shots[b] /\ shots'[c] = shots[c]
    BY <1>4, <2>1, <2>2, <2>3, <2>4
  <2>8. shots'[a] + shots'[b] + shots'[c] <= MaxShots
    <3>1. MaxShots \in Nat
      OBVIOUS
    <3>2. CASE j = k
      <4>1. shots'[a] = shots[a] + 1 /\ shots[a] + shots[b] + shots[c] < MaxShots
        BY <1>4, <2>4, <3>2
      <4> QED
        BY <2>5, <2>6, <3>1, <4>1
    <3>3. CASE j # k
      <4>1. shots'[a] = shots[a]
        BY <1>4, <2>2, <2>3, <3>3
      <4> QED
        BY <2>1, <2>6, <4>1
    <3> QED
      BY <3>2, <3>3
  <2> QED
    BY <2>6, <2>8 DEF z, a, b, c
<1>6. ShotsCount'
  BY <1>4, <1>5 DEF ShotsCount
<1>7. ASSUME NEW u \in Detail!Shot PROVE shots'[u] >= shots[u]
  <2>1. shots[u] \in Nat
    BY DEF ShotsCount
  <2>2. CASE u = s
    <3>1. shots[s] + 1 >= shots[s]
      BY <1>2, NatNext, Zenon
    <3> QED
      BY <1>4, <2>2, <3>1
  <2>3. CASE u # s
    <3>1. shots'[u] = shots[u]
      BY <1>4, <2>3
    <3> QED
      BY <2>1, <3>1
  <2> QED
    BY <2>2, <2>3
<1> QED
  BY <1>6, <1>7

(* A picture that ends leaves one fewer of its kind.                       *)
LEMMA ShotsEnd ==
  ASSUME ShotsCount, NEW s \in Detail!Shot, shots[s] > 0, shots' = [shots EXCEPT ![s] = @ - 1]
  PROVE  ShotsCount' /\ shots'[s] = shots[s] - 1 /\ \A u \in Detail!Shot \ {s} : shots'[u] = shots[u]
<1> USE ConstantsAssumption DEF Detail!DetailConstants
<1>1. shots[s] \in Nat
  BY DEF ShotsCount
<1>2. /\ shots'[s] = shots[s] - 1 /\ \A u \in Detail!Shot \ {s} : shots'[u] = shots[u]
      /\ shots' \in [Detail!Shot -> Nat]
  BY <1>1 DEF ShotsCount
<1>3. ASSUME NEW u \in Detail!Shot PROVE shots'[u] <= shots[u] /\ shots'[u] \in Nat /\ shots[u] \in Nat
  <2>1. shots[u] \in Nat /\ shots'[u] \in Nat
    BY <1>2 DEF ShotsCount
  <2> QED
    BY <1>1, <1>2, <2>1
<1>4. ASSUME NEW j \in DetailPack
      PROVE  /\ shots'[Shot(j, "coast", TRUE)] = 0
             /\ shots'[Shot(j, "coast", FALSE)] + shots'[Shot(j, "map", FALSE)]
                  + shots'[Shot(j, "map", TRUE)] <= MaxShots
  <2> DEFINE z == Shot(j, "coast", TRUE)  a == Shot(j, "coast", FALSE)
             b == Shot(j, "map", FALSE)   c == Shot(j, "map", TRUE)
  <2>1. shots[z] = 0 /\ shots[a] + shots[b] + shots[c] <= MaxShots
    BY DEF ShotsCount
  <2>2. z \in Detail!Shot /\ a \in Detail!Shot /\ b \in Detail!Shot /\ c \in Detail!Shot
    BY ShotKinds
  <2> HIDE DEF z, a, b, c
  <2>3. shots'[z] = 0
    BY <1>3, <2>1, <2>2
  <2>4. shots'[a] + shots'[b] + shots'[c] <= MaxShots
    BY <1>3, <2>1, <2>2
  <2> QED
    BY <2>3, <2>4 DEF z, a, b, c
<1> QED
  BY <1>2, <1>4 DEF ShotsCount

(* The boxes of a list.                                                    *)
LEMMA ListedType ==
  ASSUME NEW k, NEW h, NEW f
  PROVE  Detail!Listed(k, h, f) \in [Cell -> {"on", "off"}] \cup {<<>>}
BY DEF Detail!Listed

(* A pane built for the pack selected shows that pack's picture.           *)
LEMMA PictureKeeps ==
  ASSUME DetailInv, NEW k \in DetailPack \cup {User, None}, Detail!Picture(k), sel' = k
  PROVE  /\ ShotsCount' /\ WantsSelected'
         /\ want' \in DetailPack \cup {None} /\ img' \in DetailPack \cup {None, "wait"}
         /\ img' \in DetailPack => img' = sel'
         /\ \A u \in Detail!Shot : shots'[u] >= shots[u]
<1> USE ConstantsAssumption DEF Detail!DetailConstants
<1>0. Detail!TypeOK /\ ShotsCount
  BY DEF DetailInv
<1>1. WantsSelected' /\ want' \in DetailPack \cup {None} /\ img' \in DetailPack \cup {None, "wait"}
      /\ (img' \in DetailPack => img' = sel')
  BY DEF Detail!Picture, WantsSelected
<1>2. \/ UNCHANGED shots
      \/ k \in DetailPack /\ HasRoom(k) /\ shots' = Detail!Add(shots, Shot(k, "coast", FALSE))
  BY DEF Detail!Picture, HasRoom, Shot
<1>3. CASE UNCHANGED shots
  <2>1. ASSUME NEW u \in Detail!Shot PROVE shots'[u] >= shots[u]
    <3>1. shots[u] \in Nat
      BY <1>0 DEF ShotsCount
    <3> QED
      BY <1>3, <3>1
  <2> QED
    BY <1>0, <1>1, <1>3, <2>1 DEF ShotsCount
<1> QED
  BY <1>0, <1>1, <1>2, <1>3, ShotsAdd

(* A map in the slot is still at work while its pictures do not end.       *)
SlotWorks == slot # None => shots[Shot(slot, "map", FALSE)] > 0
LEMMA SlotStays ==
  ASSUME Detail!TypeOK, ShotsCount, SlotWorks, UNCHANGED slot, \A u \in Detail!Shot : shots'[u] >= shots[u], ShotsCount'
  PROVE  SlotWorks'
<1> USE ConstantsAssumption DEF Detail!DetailConstants
<1> SUFFICES ASSUME slot # None PROVE shots'[Shot(slot, "map", FALSE)] > 0
  BY DEF SlotWorks
<1> DEFINE u == Shot(slot, "map", FALSE)
<1>1. u \in Detail!Shot
  BY ShotKinds DEF Detail!TypeOK
<1>2. shots[u] > 0
  BY DEF SlotWorks
<1> HIDE DEF u
<1>3. shots[u] \in Nat /\ shots'[u] \in Nat /\ shots'[u] >= shots[u]
  BY <1>1 DEF ShotsCount
<1>4. shots'[u] > 0
  BY <1>2, <1>3
<1> QED
  BY <1>4 DEF u

(* What the pane shows beside its picture.                                 *)
Listing == open => boxes = Detail!Listed(sel, hidden, fetched)

LEMMA DetailParts ==
  DetailInv <=> Detail!TypeOK /\ ShotsCount /\ WantsSelected /\ SlotWorks /\ Listing
                  /\ (img \in DetailPack => img = sel)
BY DEF DetailInv, Detail!DetailIsSelected, SlotWorks, Listing, Shot

LEMMA DetailPartsNext ==
  Detail!TypeOK' /\ ShotsCount' /\ WantsSelected' /\ SlotWorks' /\ Listing' /\ (img' \in DetailPack => img' = sel')
    => DetailInv'
BY DEF DetailInv, Detail!DetailIsSelected, SlotWorks, Listing, Shot

(* The part of the types that a step which builds the pane does not show.  *)
LEMMA DetailTyped ==
  ASSUME Detail!TypeOK, ShotsCount', open' \in BOOLEAN, sel' \in DetailPack \cup {User, None},
         want' \in DetailPack \cup {None}, img' \in DetailPack \cup {None, "wait"},
         cache' \subseteq DetailPack, blank' \subseteq DetailPack, slot' \in DetailPack \cup {None},
         light' \in DetailPack \cup {None}, fetched' \in {"none", "asked", "have"}, hidden' \subseteq Cell,
         boxes' \in [Cell -> {"on", "off"}] \cup {<<>>}, closes' \in 0 .. MaxCloses
  PROVE  Detail!TypeOK'
<1>1. shots' \in [Detail!Shot -> 0 .. MaxShots]
  <2>1. ShotsTyped'
    BY ShotsBoundNext
  <2> QED
    BY <2>1 DEF ShotsTyped
<1> QED
  BY <1>1 DEF Detail!TypeOK

(* A step that builds the pane anew for the pack it selects.               *)
LEMMA Rebuilt ==
  ASSUME DetailInv, NEW k \in DetailPack \cup {User, None}, NEW f \in {"none", "asked", "have"},
         sel' = k, fetched' \in {"none", "asked", "have"},
         Detail!Rebuild(k, hidden, f), Detail!Listed(k, hidden, f) = Detail!Listed(k, hidden, fetched'),
         open' \in BOOLEAN, UNCHANGED <<cache, slot, light, blank, hidden, closes>>
  PROVE  DetailInv'
<1> USE ConstantsAssumption DEF Detail!DetailConstants
<1>1. /\ Detail!TypeOK /\ ShotsCount /\ SlotWorks
  BY DetailParts
<1>2. boxes' = Detail!Listed(k, hidden, f) /\ Detail!Picture(k)
  BY DEF Detail!Rebuild
<1>3. /\ ShotsCount' /\ WantsSelected'
      /\ want' \in DetailPack \cup {None} /\ img' \in DetailPack \cup {None, "wait"}
      /\ (img' \in DetailPack => img' = sel')
      /\ \A u \in Detail!Shot : shots'[u] >= shots[u]
  BY <1>2, PictureKeeps
<1>4. SlotWorks'
  BY <1>1, <1>3, SlotStays
<1>5. boxes' \in [Cell -> {"on", "off"}] \cup {<<>>}
  BY <1>2, ListedType
<1>6. Detail!TypeOK'
  <2>1. /\ cache' \subseteq DetailPack /\ blank' \subseteq DetailPack /\ slot' \in DetailPack \cup {None}
        /\ light' \in DetailPack \cup {None} /\ hidden' \subseteq Cell /\ closes' \in 0 .. MaxCloses
    BY <1>1 DEF Detail!TypeOK
  <2> QED
    BY <1>1, <1>3, <1>5, <2>1, DetailTyped
<1>7. Listing'
  BY <1>2 DEF Listing
<1> QED
  BY <1>3, <1>4, <1>6, <1>7, DetailPartsNext

LEMMA DetailNext == DetailInv /\ [Detail!Next]_(Detail!vars) => DetailInv'
<1> SUFFICES ASSUME DetailInv, [Detail!Next]_(Detail!vars) PROVE DetailInv'
  OBVIOUS
<1> USE ConstantsAssumption DEF Detail!DetailConstants
<1>0. /\ Detail!TypeOK /\ ShotsCount /\ WantsSelected /\ SlotWorks /\ Listing
      /\ (img \in DetailPack => img = sel)
  BY DetailParts
<1>00. /\ open \in BOOLEAN /\ sel \in DetailPack \cup {User, None} /\ fetched \in {"none", "asked", "have"}
       /\ hidden \subseteq Cell /\ want \in DetailPack \cup {None} /\ img \in DetailPack \cup {None, "wait"}
       /\ cache \subseteq DetailPack /\ blank \subseteq DetailPack /\ slot \in DetailPack \cup {None}
       /\ light \in DetailPack \cup {None} /\ boxes \in [Cell -> {"on", "off"}] \cup {<<>>} /\ closes \in 0 .. MaxCloses
  BY <1>0 DEF Detail!TypeOK
<1>1. ASSUME NEW k \in DetailPack \cup {User}, Detail!Select(k) PROVE DetailInv'
  <2>1. fetched' \in {"none", "asked", "have"} /\ Detail!Listed(k, hidden, fetched) = Detail!Listed(k, hidden, fetched')
    BY <1>00, <1>1 DEF Detail!Select, Detail!Listed
  <2> QED
    BY <1>00, <1>1, <2>1, Rebuilt DEF Detail!Select
<1>2. CASE Detail!Render
  BY <1>00, <1>2, Rebuilt DEF Detail!Render
<1>3. CASE Detail!Answer
  <2>1. CASE sel = User
    BY <1>00, <1>3, <2>1, Rebuilt DEF Detail!Answer
  <2>2. CASE sel # User
    <3>1. UNCHANGED <<boxes, want, img, shots, open, sel, cache, slot, light, blank, hidden, closes>> /\ fetched' = "have"
      BY <1>3, <2>2 DEF Detail!Answer
    <3>2. Listing'
      BY <1>0, <2>2, <3>1 DEF Listing, Detail!Listed
    <3>3. ShotsCount' /\ WantsSelected' /\ SlotWorks'
      BY <1>0, <3>1 DEF ShotsCount, WantsSelected, SlotWorks
    <3>4. Detail!TypeOK'
      BY <1>0, <3>1 DEF Detail!TypeOK
    <3> QED
      BY <1>0, <3>1, <3>2, <3>3, <3>4, DetailPartsNext
  <2> QED
    BY <2>1, <2>2
<1>4. CASE Detail!NoAnswer
  <2>1. UNCHANGED <<boxes, want, img, shots, open, sel, cache, slot, light, blank, hidden, closes>>
        /\ fetched = "asked" /\ fetched' = "none"
    BY <1>4 DEF Detail!NoAnswer, Detail!preview
  <2>2. Listing'
    BY <1>0, <2>1 DEF Listing, Detail!Listed
  <2>3. ShotsCount' /\ WantsSelected' /\ SlotWorks'
    BY <1>0, <2>1 DEF ShotsCount, WantsSelected, SlotWorks
  <2>4. Detail!TypeOK'
    BY <1>0, <2>1 DEF Detail!TypeOK
  <2> QED
    BY <1>0, <2>1, <2>2, <2>3, <2>4, DetailPartsNext
<1>5. CASE Detail!Enlarge \/ Detail!Shrink
  <2>1. UNCHANGED <<boxes, want, img, shots, open, sel, cache, slot, blank, hidden, fetched, closes>>
        /\ light' \in DetailPack \cup {None}
    BY <1>5 DEF Detail!Enlarge, Detail!Shrink, Detail!list
  <2>2. Listing' /\ ShotsCount' /\ WantsSelected' /\ SlotWorks'
    BY <1>0, <2>1 DEF Listing, ShotsCount, WantsSelected, SlotWorks
  <2>3. Detail!TypeOK'
    BY <1>0, <2>1 DEF Detail!TypeOK
  <2> QED
    BY <1>0, <2>1, <2>2, <2>3, DetailPartsNext
<1>6. ASSUME NEW s \in Detail!Shot, Detail!Coast(s) PROVE DetailInv'
  <2>1. s.pack \in DetailPack /\ s.at = "coast" /\ shots[s] > 0
    BY <1>6, EveryShot DEF Detail!Coast
  <2>2. s = Shot(s.pack, "coast", FALSE) \/ s = Shot(s.pack, "coast", TRUE)
    BY <2>1, EveryShot DEF Shot
  <2>3. s # Shot(s.pack, "coast", TRUE)
    <3>1. shots[Shot(s.pack, "coast", TRUE)] = 0
      BY <1>0, <2>1 DEF ShotsCount
    <3>2. ASSUME s = Shot(s.pack, "coast", TRUE) PROVE FALSE
      <4>1. shots[s] = 0
        BY <3>1, <3>2
      <4> QED
        BY <2>1, <4>1
    <3> QED
      BY <3>2
  <2>4. s = Shot(s.pack, "coast", FALSE)
    BY <2>2, <2>3
  <2>5. [s EXCEPT !.at = "map"] = Shot(s.pack, "map", FALSE)
    BY <2>4, ShotMoves
  <2>6. shots' = Detail!Move(shots, s, Shot(s.pack, "map", FALSE)) /\ slot' = s.pack
        /\ UNCHANGED <<open, sel, want, img, cache, light, blank, fetched, hidden, boxes, closes>>
    BY <1>6, <2>5 DEF Detail!Coast, Detail!list
  <2>7. ShotsCount' /\ shots'[Shot(s.pack, "map", FALSE)] > 0
    BY <1>0, <2>1, <2>4, <2>6, ShotsMove
  <2>8. SlotWorks' /\ Listing' /\ WantsSelected'
    BY <1>0, <2>6, <2>7 DEF SlotWorks, Listing, WantsSelected
  <2>9. Detail!TypeOK'
    BY <1>0, <1>00, <2>1, <2>6, <2>7, DetailTyped
  <2> QED
    BY <1>0, <2>6, <2>7, <2>8, <2>9, DetailPartsNext
<1>7. ASSUME NEW s \in Detail!Shot, Detail!Finish(s) PROVE DetailInv'
  <2>1. s.pack \in DetailPack /\ s.at = "map" /\ shots[s] > 0 /\ shots' = [shots EXCEPT ![s] = @ - 1]
        /\ UNCHANGED <<open, sel, want, light, fetched, hidden, boxes, closes>>
    BY <1>7, EveryShot DEF Detail!Finish, Detail!Unfinished, Detail!list
  <2>2. ShotsCount' /\ shots'[s] = shots[s] - 1 /\ \A u \in Detail!Shot \ {s} : shots'[u] = shots[u]
    BY <1>0, <2>1, ShotsEnd
  <2>3. slot' = None \/ ((slot # s.pack \/ s.cut \/ shots[s] > 1) /\ slot' = slot)
    BY <1>7 DEF Detail!Finish
  <2>4. SlotWorks'
    <3> SUFFICES ASSUME slot' # None PROVE shots'[Shot(slot', "map", FALSE)] > 0
      BY DEF SlotWorks
    <3> DEFINE u == Shot(slot, "map", FALSE)
    <3>1. slot' = slot /\ slot # None /\ shots[u] > 0 /\ u \in Detail!Shot
      BY <1>0, <1>00, <2>3, ShotKinds DEF SlotWorks
    <3>2. u # s \/ shots[s] > 1
      BY <2>3, <3>1 DEF Shot
    <3> HIDE DEF u
    <3>3. shots[u] \in Nat /\ shots[s] \in Nat
      BY <1>0, <3>1 DEF ShotsCount
    <3>4. shots'[u] > 0
      <4>1. CASE u = s
        BY <2>2, <3>2, <3>3, <4>1
      <4>2. CASE u # s
        BY <2>2, <3>1, <4>2
      <4> QED
        BY <4>1, <4>2
    <3> QED
      BY <3>1, <3>4 DEF u
  <2>5. \/ cache' = cache \cup {s.pack} /\ img' = (IF want = s.pack THEN s.pack ELSE img)
             /\ (blank' = blank \cup {s.pack} \/ blank' = blank)
        \/ UNCHANGED <<cache, img, blank>>
    BY <1>7 DEF Detail!Finish, Detail!Paint
  <2>6. /\ cache' \subseteq DetailPack /\ blank' \subseteq DetailPack /\ slot' \in DetailPack \cup {None}
        /\ img' \in DetailPack \cup {None, "wait"} /\ (img' \in DetailPack => img' = sel')
    BY <1>0, <1>00, <2>1, <2>3, <2>5 DEF WantsSelected
  <2>7. Listing' /\ WantsSelected'
    BY <1>0, <2>1 DEF Listing, WantsSelected
  <2>8. Detail!TypeOK'
    BY <1>0, <1>00, <2>1, <2>2, <2>6, DetailTyped
  <2> QED
    BY <2>2, <2>4, <2>6, <2>7, <2>8, DetailPartsNext
<1>8. CASE Detail!Close
  <2>1. /\ closes' = closes + 1 /\ closes < MaxCloses /\ open' = FALSE /\ light' = None /\ slot' = None
        /\ shots' = (IF slot = None THEN shots ELSE Detail!Cut(slot))
        /\ UNCHANGED <<sel, want, img, cache, blank, fetched, hidden, boxes>>
    BY <1>8 DEF Detail!Close, Detail!list
  <2>2. shots' = shots \/ (slot \in DetailPack /\ shots[Shot(slot, "map", FALSE)] > 0
                            /\ shots' = Detail!Move(shots, Shot(slot, "map", FALSE), Shot(slot, "map", TRUE)))
    BY <1>00, <2>1, ShotMoves DEF Detail!Cut, Shot
  <2>3. ShotsCount'
    <3>1. CASE shots' = shots
      BY <1>0, <3>1 DEF ShotsCount
    <3> QED
      BY <1>0, <2>2, <3>1, ShotsMove
  <2>4. SlotWorks' /\ Listing' /\ WantsSelected'
    BY <1>0, <2>1 DEF SlotWorks, Listing, WantsSelected
  <2>5. closes' \in 0 .. MaxCloses
    BY <1>00, <2>1
  <2>6. Detail!TypeOK'
    BY <1>0, <1>00, <2>1, <2>3, <2>5, DetailTyped
  <2> QED
    BY <1>0, <2>1, <2>3, <2>4, <2>6, DetailPartsNext
<1>9. CASE Detail!Open
  BY <1>00, <1>9, Rebuilt DEF Detail!Open
<1>10. ASSUME NEW c \in Cell, NEW yes \in BOOLEAN, Detail!SetCell(c, yes) PROVE DetailInv'
  <2>1. /\ open /\ boxes # <<>> /\ UNCHANGED <<open, sel, want, img, cache, shots, slot, light, blank, fetched, closes>>
        /\ boxes' = [boxes EXCEPT ![c] = IF yes THEN "on" ELSE "off"]
        /\ hidden' = IF yes THEN hidden \ {c} ELSE hidden \cup {c}
    BY <1>10 DEF Detail!SetCell, Detail!preview
  <2>2. ~(sel = None \/ (sel = User /\ fetched # "have")) /\ boxes = [d \in Cell |-> IF d \in hidden THEN "off" ELSE "on"]
    BY <1>0, <2>1 DEF Listing, Detail!Listed
  <2>3. boxes' = [d \in Cell |-> IF d \in hidden' THEN "off" ELSE "on"]
    <3>1. CASE yes
      BY <2>1, <2>2, <3>1
    <3>2. CASE ~yes
      BY <2>1, <2>2, <3>2
    <3> QED
      BY <3>1, <3>2
  <2>4. Listing'
    BY <2>1, <2>2, <2>3 DEF Listing, Detail!Listed
  <2>5. hidden' \subseteq Cell /\ boxes' \in [Cell -> {"on", "off"}] \cup {<<>>}
    BY <1>00, <2>1, <2>3
  <2>6. ShotsCount' /\ WantsSelected' /\ SlotWorks'
    BY <1>0, <2>1 DEF ShotsCount, WantsSelected, SlotWorks
  <2>7. Detail!TypeOK'
    BY <1>0, <1>00, <2>1, <2>5, <2>6, DetailTyped
  <2> QED
    BY <1>0, <2>1, <2>4, <2>6, <2>7, DetailPartsNext
<1>11. ASSUME NEW yes \in BOOLEAN, Detail!SetAll(yes) PROVE DetailInv'
  <2>1. /\ open /\ boxes # <<>> /\ UNCHANGED <<open, sel, want, img, cache, shots, slot, light, blank, fetched, closes>>
        /\ boxes' = [c \in Cell |-> IF yes THEN "on" ELSE "off"]
        /\ hidden' = IF yes THEN hidden \ Cell ELSE hidden \cup Cell
    BY <1>11 DEF Detail!SetAll, Detail!preview
  <2>2. ~(sel = None \/ (sel = User /\ fetched # "have"))
    BY <1>0, <2>1 DEF Listing, Detail!Listed
  <2>3. boxes' = [d \in Cell |-> IF d \in hidden' THEN "off" ELSE "on"]
    <3>1. CASE yes
      BY <2>1, <3>1
    <3>2. CASE ~yes
      BY <2>1, <3>2
    <3> QED
      BY <3>1, <3>2
  <2>4. Listing'
    BY <2>1, <2>2, <2>3 DEF Listing, Detail!Listed
  <2>5. hidden' \subseteq Cell /\ boxes' \in [Cell -> {"on", "off"}] \cup {<<>>}
    BY <1>00, <2>1, <2>3
  <2>6. ShotsCount' /\ WantsSelected' /\ SlotWorks'
    BY <1>0, <2>1 DEF ShotsCount, WantsSelected, SlotWorks
  <2>7. Detail!TypeOK'
    BY <1>0, <1>00, <2>1, <2>5, <2>6, DetailTyped
  <2> QED
    BY <1>0, <2>1, <2>4, <2>6, <2>7, DetailPartsNext
<1>12. CASE UNCHANGED Detail!vars
  <2>1. UNCHANGED <<open, sel, want, img, cache, shots, slot, light, blank, fetched, hidden, boxes, closes>>
    BY <1>12 DEF Detail!vars, Detail!preview, Detail!list
  <2>2. ShotsCount' /\ WantsSelected' /\ SlotWorks' /\ Listing'
    BY <1>0, <2>1 DEF ShotsCount, WantsSelected, SlotWorks, Listing
  <2>3. Detail!TypeOK'
    BY <1>0, <2>1 DEF Detail!TypeOK
  <2> QED
    BY <1>0, <2>1, <2>2, <2>3, DetailPartsNext
<1> QED
  BY <1>1, <1>2, <1>3, <1>4, <1>5, <1>6, <1>7, <1>8, <1>9, <1>10, <1>11, <1>12 DEF Detail!Next

-----------------------------------------------------------------------------
(* The chart library: the flows and the jobs they follow.                  *)

Stages == {"idle", "agree", "post", "stream", "poll", "ask", "answer", "cells"}
Working(f) == at[f] \in {"post", "stream", "poll"}
FlowTypes ==
  /\ agreed \in BOOLEAN /\ modal \in Clicks \cup {None} /\ batchBusy \in BOOLEAN
  /\ job \in [Library!Jobs -> {"none", "running", "done", "error"}]
  /\ at \in [Library!Flow -> Stages] /\ on \in [Library!Flow -> Library!Jobs \cup {None}]
  /\ packs \in [Library!Flow -> SUBSET Library!Packs]
  /\ claimed \subseteq Library!Packs /\ made \subseteq Library!Packs

(* The modal on the screen is of a click that waits for it, and nothing is *)
(* fetched before it was accepted.                                         *)
Gate == (modal # None => at[modal] = "agree" /\ ~agreed) /\ (batchBusy => agreed)

(* A flow follows a job of its own kind, and only while it works.          *)
MayFollow(f) == IF f \in Clicks THEN {"bundle", "percell"} ELSE {f} \cap {"remove", "import"}
FollowsJobs == \A f \in Library!Flow : IF Working(f) THEN on[f] \in MayFollow(f) ELSE on[f] = None

(* While the batch is busy just one click works, and none otherwise.       *)
OneWorks ==
  /\ \A b, c \in Clicks : Working(b) => batchBusy /\ (Working(c) => b = c)
  /\ batchBusy => \E b \in Clicks : Working(b)

(* A finished job that a click still watches has made the click's packs.   *)
JobIsMade == \A b \in Clicks : at[b] \in {"stream", "poll"} /\ job[on[b]] = "done" => packs[b] \subseteq made

FlowInv == FlowTypes /\ Gate /\ FollowsJobs /\ OneWorks /\ JobIsMade /\ Library!DoneIsDone

LEMMA Names ==
  /\ Clicks \subseteq Library!Flow /\ {"remove", "import", "switch", "refresh"} \subseteq Library!Flow
  /\ Clicks \cap {"remove", "import", "switch", "refresh"} = {}
  /\ None \notin Library!Flow /\ None \notin Library!Jobs /\ None \notin Library!Packs /\ None \notin Clicks
  /\ Library!Jobs = {"bundle", "percell", "remove", "import"}
BY ConstantsAssumption DEF Library!LibraryConstants, Library!Flow, Library!Jobs

LEMMA FlowsStay ==
  ASSUME FlowInv, UNCHANGED <<agreed, modal, batchBusy, at, on, packs, job, claimed, made>>
  PROVE  FlowInv'
BY DEF FlowInv, FlowTypes, Gate, FollowsJobs, OneWorks, JobIsMade, Library!DoneIsDone, Working

(* Every step of one flow leaves the others where they were.               *)
LEMMA OneGoes ==
  ASSUME FlowTypes, NEW f \in Library!Flow, NEW w \in Stages, at' = [at EXCEPT ![f] = w]
  PROVE  /\ at' \in [Library!Flow -> Stages] /\ at'[f] = w
         /\ \A g \in Library!Flow \ {f} : at'[g] = at[g] /\ (Working(g)' <=> Working(g))
         /\ Working(f)' <=> w \in {"post", "stream", "poll"}
BY DEF FlowTypes, Stages, Working

(* A flow that is not at work goes on to its next wait.                    *)
LEMMA FlowMoves ==
  ASSUME FlowInv, NEW f \in Library!Flow, NEW w \in {"idle", "ask", "answer", "cells"},
         at[f] \in {"idle", "ask", "answer", "cells"}, at' = [at EXCEPT ![f] = w],
         packs' \in [Library!Flow -> SUBSET Library!Packs],
         \A g \in Library!Flow \ {f} : packs'[g] = packs[g],
         UNCHANGED <<agreed, modal, batchBusy, on, job, claimed, made>>
  PROVE  FlowInv'
<1>0. FlowTypes /\ Gate /\ FollowsJobs /\ OneWorks /\ JobIsMade /\ Library!DoneIsDone
  BY DEF FlowInv
<1>1. w \in Stages
  BY DEF Stages
<1>2. /\ at' \in [Library!Flow -> Stages] /\ at'[f] = w
      /\ \A g \in Library!Flow \ {f} : at'[g] = at[g] /\ (Working(g)' <=> Working(g))
  BY <1>0, <1>1, OneGoes
<1>3. ~Working(f) /\ ~Working(f)'
  BY <1>2 DEF Working
<1>4. FlowTypes'
  BY <1>0, <1>2 DEF FlowTypes
<1>5. Gate'
  BY <1>0, <1>2, Names DEF Gate, FlowTypes
<1>6. FollowsJobs'
  BY <1>0, <1>2, <1>3 DEF FollowsJobs, MayFollow
<1>7. OneWorks'
  BY <1>0, <1>2, <1>3, Names DEF OneWorks
<1>8. JobIsMade'
  BY <1>0, <1>2, Names DEF JobIsMade
<1> QED
  BY <1>0, <1>4, <1>5, <1>6, <1>7, <1>8 DEF FlowInv, Library!DoneIsDone

(* A flow at work goes from its request to the stream and to polling.      *)
LEMMA FlowWatches ==
  ASSUME FlowInv, NEW f \in Library!Flow, NEW w \in {"stream", "poll"}, Working(f), at' = [at EXCEPT ![f] = w],
         \/ at[f] \in {"stream", "poll"} /\ UNCHANGED job
         \/ job' = [job EXCEPT ![on[f]] = "running"] /\ job[on[f]] = "none",
         UNCHANGED <<agreed, modal, batchBusy, on, packs, claimed, made>>
  PROVE  FlowInv'
<1>0. FlowTypes /\ Gate /\ FollowsJobs /\ OneWorks /\ JobIsMade /\ Library!DoneIsDone
  BY DEF FlowInv
<1>1. w \in Stages
  BY DEF Stages
<1>2. /\ at' \in [Library!Flow -> Stages] /\ at'[f] = w
      /\ \A g \in Library!Flow \ {f} : at'[g] = at[g] /\ (Working(g)' <=> Working(g))
  BY <1>0, <1>1, OneGoes
<1>3. Working(f)'
  BY <1>2 DEF Working
<1>4. on[f] \in MayFollow(f) /\ on[f] \in Library!Jobs
  BY <1>0, Names DEF FollowsJobs, MayFollow, FlowTypes
<1>5. job' \in [Library!Jobs -> {"none", "running", "done", "error"}]
  BY <1>0, <1>4 DEF FlowTypes
<1>6. FlowTypes'
  BY <1>0, <1>2, <1>5 DEF FlowTypes
<1>7. Gate'
  BY <1>0, <1>2, Names DEF Gate, FlowTypes, Working
<1>8. FollowsJobs'
  BY <1>0, <1>2, <1>3, <1>4 DEF FollowsJobs, MayFollow
<1>9. OneWorks'
  BY <1>0, <1>2, <1>3, Names DEF OneWorks
<1>10. JobIsMade'
  <2> SUFFICES ASSUME NEW b \in Clicks, at'[b] \in {"stream", "poll"}, job'[on[b]] = "done"
               PROVE  packs[b] \subseteq made
    BY DEF JobIsMade
  <2>1. b \in Library!Flow /\ on[b] \in Library!Jobs
    BY <1>0, <1>2, <1>4, Names DEF FollowsJobs, MayFollow, Working
  <2>2. job[on[b]] = "done"
    BY <1>0, <1>4, <2>1 DEF FlowTypes
  <2>3. on[b] # on[f] \/ at[f] \in {"stream", "poll"}
    BY <1>0, <1>4, <2>1 DEF FlowTypes
  <2>4. at[b] \in {"stream", "poll"}
    BY <1>2, <2>1, <2>3
  <2> QED
    BY <1>0, <2>2, <2>4 DEF JobIsMade
<1> QED
  BY <1>0, <1>6, <1>7, <1>8, <1>9, <1>10 DEF FlowInv, Library!DoneIsDone

(* A job is forgotten, or left as it was.                                  *)
JobLeft(f) == UNCHANGED job \/ job' = [job EXCEPT ![on[f]] = "none"]
LEMMA JobIsLeft ==
  ASSUME FlowInv, NEW f \in Library!Flow, Working(f), JobLeft(f)
  PROVE  /\ job' \in [Library!Jobs -> {"none", "running", "done", "error"}]
         /\ \A j \in Library!Jobs : job'[j] = "done" => job[j] = "done"
<1>1. on[f] \in Library!Jobs
  BY Names DEF FlowInv, FlowTypes, FollowsJobs, MayFollow
<1> QED
  BY <1>1 DEF FlowInv, FlowTypes, JobLeft

(* A flow at work ends; a click's ends the batch.                          *)
LEMMA FlowEnds ==
  ASSUME FlowInv, NEW f \in Library!Flow, Working(f), at' = [at EXCEPT ![f] = "ask"], on' = [on EXCEPT ![f] = None],
         JobLeft(f), batchBusy' = (IF f \in Clicks THEN FALSE ELSE batchBusy),
         claimed' = claimed \/ (claimed' = claimed \cup packs[f] /\ packs[f] \subseteq made),
         UNCHANGED <<agreed, modal, packs, made>>
  PROVE  FlowInv'
<1>0. FlowTypes /\ Gate /\ FollowsJobs /\ OneWorks /\ JobIsMade /\ Library!DoneIsDone
  BY DEF FlowInv
<1>2. /\ at' \in [Library!Flow -> Stages] /\ at'[f] = "ask"
      /\ \A g \in Library!Flow \ {f} : at'[g] = at[g] /\ (Working(g)' <=> Working(g))
  <2>1. "ask" \in Stages
    BY DEF Stages
  <2> QED
    BY <1>0, <2>1, OneGoes
<1>3. ~Working(f)'
  BY <1>2 DEF Working
<1>4. /\ on' \in [Library!Flow -> Library!Jobs \cup {None}] /\ on'[f] = None
      /\ \A g \in Library!Flow \ {f} : on'[g] = on[g]
  BY <1>0 DEF FlowTypes
<1>5. /\ job' \in [Library!Jobs -> {"none", "running", "done", "error"}]
      /\ \A j \in Library!Jobs : job'[j] = "done" => job[j] = "done"
  BY JobIsLeft
<1>6. claimed' \subseteq made /\ batchBusy' \in BOOLEAN /\ (batchBusy' => batchBusy)
  BY <1>0 DEF FlowTypes, Library!DoneIsDone
<1>7. FlowTypes'
  BY <1>0, <1>2, <1>4, <1>5, <1>6 DEF FlowTypes
<1>8. Gate'
  BY <1>0, <1>2, <1>6, Names DEF Gate, FlowTypes, Working
<1>9. FollowsJobs'
  BY <1>0, <1>2, <1>3, <1>4 DEF FollowsJobs, MayFollow
<1>10. OneWorks'
  <2>1. CASE f \in Clicks
    <3>1. ~batchBusy' /\ \A b \in Clicks : ~Working(b)'
      BY <1>0, <1>2, <1>3, <2>1, Names DEF OneWorks
    <3> QED
      BY <3>1 DEF OneWorks
  <2>2. CASE f \notin Clicks
    <3>1. (batchBusy' <=> batchBusy) /\ \A b \in Clicks : Working(b)' <=> Working(b)
      BY <1>2, <2>2, Names
    <3> QED
      BY <1>0, <3>1 DEF OneWorks
  <2> QED
    BY <2>1, <2>2
<1>11. JobIsMade'
  <2> SUFFICES ASSUME NEW b \in Clicks, at'[b] \in {"stream", "poll"}, job'[on'[b]] = "done"
               PROVE  packs[b] \subseteq made
    BY DEF JobIsMade
  <2>1. b # f /\ b \in Library!Flow /\ at[b] = at'[b] /\ on'[b] = on[b]
    BY <1>2, <1>4, Names
  <2>2. on[b] \in Library!Jobs
    BY <1>0, <2>1, Names DEF FollowsJobs, MayFollow, Working
  <2> QED
    BY <1>0, <1>5, <2>1, <2>2 DEF JobIsMade
<1> QED
  BY <1>6, <1>7, <1>8, <1>9, <1>10, <1>11 DEF FlowInv, Library!DoneIsDone

(* A bundle that failed is asked for cell by cell.                         *)
LEMMA FlowRetries ==
  ASSUME FlowInv, NEW f \in Library!Flow, Working(f), on[f] = "bundle", at' = [at EXCEPT ![f] = "post"],
         on' = [on EXCEPT ![f] = "percell"], JobLeft(f),
         UNCHANGED <<agreed, modal, batchBusy, packs, claimed, made>>
  PROVE  FlowInv'
<1>0. FlowTypes /\ Gate /\ FollowsJobs /\ OneWorks /\ JobIsMade /\ Library!DoneIsDone
  BY DEF FlowInv
<1>2. /\ at' \in [Library!Flow -> Stages] /\ at'[f] = "post"
      /\ \A g \in Library!Flow \ {f} : at'[g] = at[g] /\ (Working(g)' <=> Working(g))
  <2>1. "post" \in Stages
    BY DEF Stages
  <2> QED
    BY <1>0, <2>1, OneGoes
<1>3. Working(f)' /\ f \in Clicks
  BY <1>0, <1>2 DEF Working, FollowsJobs, MayFollow
<1>4. /\ on' \in [Library!Flow -> Library!Jobs \cup {None}] /\ on'[f] = "percell"
      /\ \A g \in Library!Flow \ {f} : on'[g] = on[g]
  BY <1>0, Names DEF FlowTypes
<1>5. /\ job' \in [Library!Jobs -> {"none", "running", "done", "error"}]
      /\ \A j \in Library!Jobs : job'[j] = "done" => job[j] = "done"
  BY JobIsLeft
<1>7. FlowTypes'
  BY <1>0, <1>2, <1>4, <1>5 DEF FlowTypes
<1>8. Gate'
  BY <1>0, <1>2, Names DEF Gate, FlowTypes, Working
<1>9. FollowsJobs'
  BY <1>0, <1>2, <1>3, <1>4 DEF FollowsJobs, MayFollow
<1>10. OneWorks'
  BY <1>0, <1>2, <1>3, Names DEF OneWorks
<1>11. JobIsMade'
  <2>1. \A b \in Clicks : at'[b] \notin {"stream", "poll"}
    BY <1>0, <1>2, <1>3, Names DEF OneWorks, Working
  <2> QED
    BY <2>1 DEF JobIsMade
<1> QED
  BY <1>0, <1>7, <1>8, <1>9, <1>10, <1>11 DEF FlowInv, Library!DoneIsDone

(* A click whose packs are asked for begins the batch.                     *)
LEMMA FlowStarts ==
  ASSUME FlowInv, NEW b \in Clicks, ~batchBusy, at[b] \in {"idle", "agree"}, Library!Start({b}), agreed',
         modal' = None \/ UNCHANGED <<modal, agreed>>,
         packs' \in [Library!Flow -> SUBSET Library!Packs], \A g \in Library!Flow \ {b} : packs'[g] = packs[g]
  PROVE  FlowInv'
<1>0. FlowTypes /\ Gate /\ FollowsJobs /\ OneWorks /\ JobIsMade /\ Library!DoneIsDone
  BY DEF FlowInv
<1>1. /\ batchBusy' = TRUE /\ UNCHANGED <<job, claimed, made>>
      /\ at' = [f \in Library!Flow |-> IF f \in {b} THEN "post" ELSE at[f]]
      /\ on' = [f \in Library!Flow |-> IF f \in {b} THEN "bundle" ELSE on[f]]
  BY DEF Library!Start, Library!history
<1>2. /\ at' \in [Library!Flow -> Stages] /\ at'[b] = "post" /\ on'[b] = "bundle"
      /\ on' \in [Library!Flow -> Library!Jobs \cup {None}]
      /\ \A g \in Library!Flow \ {b} : at'[g] = at[g] /\ on'[g] = on[g] /\ (Working(g)' <=> Working(g))
  BY <1>0, <1>1, Names DEF FlowTypes, Stages, Working
<1>3. Working(b)' /\ \A c \in Clicks : ~Working(c)
  BY <1>0, <1>2 DEF OneWorks, Working
<1>4. modal' = None /\ agreed' = TRUE
  BY <1>0 DEF Gate, FlowTypes
<1>5. FlowTypes'
  BY <1>0, <1>1, <1>2, <1>4 DEF FlowTypes
<1>6. Gate'
  BY <1>4 DEF Gate
<1>7. FollowsJobs'
  BY <1>0, <1>2, <1>3 DEF FollowsJobs, MayFollow
<1>8. OneWorks'
  BY <1>1, <1>2, <1>3, Names DEF OneWorks
<1>9. JobIsMade'
  <2>1. \A c \in Clicks : at'[c] \notin {"stream", "poll"}
    BY <1>2, <1>3, Names DEF Working
  <2> QED
    BY <2>1 DEF JobIsMade
<1> QED
  BY <1>0, <1>1, <1>5, <1>6, <1>7, <1>8, <1>9 DEF FlowInv, Library!DoneIsDone

(* A removal or an import begins.                                          *)
LEMMA FlowBegins ==
  ASSUME FlowInv, NEW f \in {"remove", "import"}, at[f] = "idle", at' = [at EXCEPT ![f] = "post"],
         on' = [on EXCEPT ![f] = f], packs' \in [Library!Flow -> SUBSET Library!Packs],
         \A g \in Library!Flow \ {f} : packs'[g] = packs[g],
         UNCHANGED <<agreed, modal, batchBusy, job, claimed, made>>
  PROVE  FlowInv'
<1>0. FlowTypes /\ Gate /\ FollowsJobs /\ OneWorks /\ JobIsMade /\ Library!DoneIsDone
  BY DEF FlowInv
<1>1. f \in Library!Flow /\ f \notin Clicks /\ f \in Library!Jobs
  BY Names
<1>2. /\ at' \in [Library!Flow -> Stages] /\ at'[f] = "post"
      /\ \A g \in Library!Flow \ {f} : at'[g] = at[g] /\ (Working(g)' <=> Working(g))
  <2>1. "post" \in Stages
    BY DEF Stages
  <2> QED
    BY <1>0, <1>1, <2>1, OneGoes
<1>3. /\ on' \in [Library!Flow -> Library!Jobs \cup {None}] /\ on'[f] = f
      /\ \A g \in Library!Flow \ {f} : on'[g] = on[g]
  BY <1>0, <1>1 DEF FlowTypes
<1>4. FlowTypes'
  BY <1>0, <1>2, <1>3 DEF FlowTypes
<1>5. Gate'
  BY <1>0, <1>2, Names DEF Gate, FlowTypes
<1>6. FollowsJobs'
  <2>1. Working(f)' /\ on'[f] \in MayFollow(f)
    BY <1>1, <1>2, <1>3 DEF Working, MayFollow
  <2> QED
    BY <1>0, <1>2, <1>3, <2>1 DEF FollowsJobs, MayFollow
<1>7. OneWorks'
  <2>1. \A b \in Clicks : Working(b)' <=> Working(b)
    BY <1>1, <1>2, Names
  <2> QED
    BY <1>0, <2>1 DEF OneWorks
<1>8. JobIsMade'
  <2>1. \A b \in Clicks : at'[b] = at[b] /\ on'[b] = on[b] /\ packs'[b] = packs[b]
    BY <1>1, <1>2, <1>3, Names
  <2> QED
    BY <1>0, <2>1 DEF JobIsMade
<1> QED
  BY <1>0, <1>4, <1>5, <1>6, <1>7, <1>8 DEF FlowInv, Library!DoneIsDone

(* A click puts its modal up, or takes it down.                            *)
LEMMA ClickAsks ==
  ASSUME FlowInv, NEW b \in Clicks, NEW w \in {"idle", "agree"}, at[b] \in {"idle", "agree"},
         at' = [at EXCEPT ![b] = w], modal' = (IF w = "agree" THEN b ELSE None), ~agreed,
         packs' \in [Library!Flow -> SUBSET Library!Packs], \A g \in Library!Flow \ {b} : packs'[g] = packs[g],
         UNCHANGED <<agreed, batchBusy, on, job, claimed, made>>
  PROVE  FlowInv'
<1>0. FlowTypes /\ Gate /\ FollowsJobs /\ OneWorks /\ JobIsMade /\ Library!DoneIsDone
  BY DEF FlowInv
<1>1. b \in Library!Flow /\ w \in Stages
  BY Names DEF Stages
<1>2. /\ at' \in [Library!Flow -> Stages] /\ at'[b] = w
      /\ \A g \in Library!Flow \ {b} : at'[g] = at[g] /\ (Working(g)' <=> Working(g))
  BY <1>0, <1>1, OneGoes
<1>3. ~Working(b) /\ ~Working(b)'
  BY <1>2 DEF Working
<1>4. FlowTypes'
  BY <1>0, <1>2 DEF FlowTypes
<1>5. Gate'
  BY <1>0, <1>2 DEF Gate
<1>6. FollowsJobs'
  BY <1>0, <1>2, <1>3 DEF FollowsJobs, MayFollow
<1>7. OneWorks'
  BY <1>0, <1>2, <1>3, Names DEF OneWorks
<1>8. JobIsMade'
  BY <1>0, <1>2, Names DEF JobIsMade
<1> QED
  BY <1>0, <1>4, <1>5, <1>6, <1>7, <1>8 DEF FlowInv, Library!DoneIsDone

(* The server ends the job of the flow that follows it.                    *)
LEMMA JobEnding ==
  ASSUME FlowInv, NEW j \in Library!Jobs, Library!JobEnds(j), have \subseteq Library!Packs
  PROVE  FlowInv' /\ have' \subseteq Library!Packs
<1>0. FlowTypes /\ Gate /\ FollowsJobs /\ OneWorks /\ JobIsMade /\ Library!DoneIsDone
  BY DEF FlowInv
<1> DEFINE o == Library!Owner(j)
<1>1. o \in Library!Flow /\ on[o] = j
  BY DEF Library!JobEnds, Library!Owner
<1>2. /\ UNCHANGED <<agreed, modal, batchBusy, at, on, packs, claimed>>
      /\ \/ /\ job' = [job EXCEPT ![j] = "done"] /\ made' = (IF j = "remove" THEN made ELSE made \cup packs[o])
            /\ have' = (IF j = "remove" THEN have \ packs[o] ELSE have \cup packs[o])
         \/ /\ job' = [job EXCEPT ![j] = "error"] /\ UNCHANGED made
            /\ \E got \in SUBSET packs[o] : have' = have \cup got
  BY DEF Library!JobEnds, Library!Becomes, Library!gate, Library!busyFlags, Library!flows
<1> HIDE DEF o
<1>3. packs[o] \subseteq Library!Packs /\ Working(o) /\ j \in MayFollow(o)
  BY <1>0, <1>1, Names DEF FlowTypes, FollowsJobs
<1>4. have' \subseteq Library!Packs
  BY <1>2, <1>3
<1>5. FlowTypes'
  BY <1>0, <1>2, <1>3 DEF FlowTypes
<1>6. JobIsMade'
  <2> SUFFICES ASSUME NEW b \in Clicks, at[b] \in {"stream", "poll"}, job'[on[b]] = "done"
               PROVE  packs[b] \subseteq made'
    BY <1>2 DEF JobIsMade
  <2>1. Working(b) /\ on[b] \in {"bundle", "percell"} /\ on[b] \in Library!Jobs
    BY <1>0, Names DEF FollowsJobs, MayFollow, Working
  <2>2. CASE on[b] = j
    <3>1. o \in Clicks
      BY <1>3, <2>1, <2>2 DEF MayFollow
    <3>2. o = b
      BY <1>0, <1>3, <2>1, <3>1 DEF OneWorks
    <3>3. job'[j] = "done" /\ j # "remove"
      BY <2>1, <2>2
    <3>4. job' # [job EXCEPT ![j] = "error"]
      BY <1>0, <3>3 DEF FlowTypes
    <3> QED
      BY <1>2, <3>2, <3>3, <3>4
  <2>3. CASE on[b] # j
    <3>1. job[on[b]] = "done" /\ made \subseteq made'
      BY <1>0, <1>2, <2>1, <2>3 DEF FlowTypes
    <3> QED
      BY <1>0, <3>1 DEF JobIsMade
  <2> QED
    BY <2>2, <2>3
<1>7. Gate' /\ FollowsJobs' /\ OneWorks'
  BY <1>0, <1>2 DEF Gate, FollowsJobs, OneWorks, Working
<1>8. Library!DoneIsDone'
  BY <1>0, <1>2 DEF Library!DoneIsDone
<1> QED
  BY <1>4, <1>5, <1>6, <1>7, <1>8 DEF FlowInv

-----------------------------------------------------------------------------
(* The chart library: what is chosen and what is on the screen.            *)

Chosen ==
  prov \in {None, "noaa", "user"} /\ sel \in Library!Packs \cup {None} /\ ticked \subseteq Noaa

LEMMA Ending ==
  ASSUME FlowInv, Chosen, NEW f \in Library!Flow, Working(f), JobLeft(f), UNCHANGED <<agreed, modal, packs, made>>,
         \/ Library!Ended(f, TRUE) /\ (f \in Clicks => packs[f] \subseteq made)
         \/ Library!Ended(f, FALSE)
  PROVE  FlowInv' /\ Chosen' /\ UNCHANGED uninstalling /\ at'[f] = "ask"
<1>1. f \in Clicks \/ f = "remove" \/ f = "import"
  BY DEF FlowInv, FollowsJobs, MayFollow
<1>2. /\ at' = [at EXCEPT ![f] = "ask"] /\ on' = [on EXCEPT ![f] = None]
      /\ batchBusy' = (IF f \in Clicks THEN FALSE ELSE batchBusy) /\ UNCHANGED uninstalling
      /\ claimed' = claimed \/ (claimed' = claimed \cup packs[f] /\ packs[f] \subseteq made)
  <2>1. CASE f \in Clicks
    BY <2>1 DEF Library!Ended, Library!EndBatch, Library!Go
  <2>2. CASE f = "remove"
    BY <2>2, Names DEF Library!Ended, Library!EndRemove, Library!Go, Library!busyFlags
  <2>3. CASE f = "import"
    BY <2>3, Names DEF Library!Ended, Library!EndImport, Library!Go, Library!busyFlags
  <2> QED
    BY <1>1, <2>1, <2>2, <2>3
<1>3. Chosen'
  <2>1. CASE f \in Clicks
    BY <2>1 DEF Library!Ended, Library!EndBatch, Chosen
  <2>2. CASE f = "remove"
    BY <2>2, Names DEF Library!Ended, Library!EndRemove, Library!choice, Chosen
  <2>3. CASE f = "import"
    BY <2>3, Names DEF Library!Ended, Library!EndImport, Chosen, Library!Packs
  <2> QED
    BY <1>1, <2>1, <2>2, <2>3
<1>4. at'[f] = "ask"
  BY <1>2 DEF FlowInv, FlowTypes
<1> QED
  BY <1>2, <1>3, <1>4, FlowEnds

LEMMA Failing ==
  ASSUME FlowInv, Chosen, NEW f \in Library!Flow, Working(f), JobLeft(f), UNCHANGED <<agreed, modal, packs, made>>,
         Library!Failed(f)
  PROVE  FlowInv' /\ Chosen' /\ UNCHANGED uninstalling /\ at'[f] \in {"ask", "post"}
<1>1. CASE on[f] = "bundle"
  <2>1. /\ at' = [at EXCEPT ![f] = "post"] /\ on' = [on EXCEPT ![f] = "percell"]
        /\ UNCHANGED <<prov, sel, ticked, batchBusy, uninstalling, claimed>>
    BY <1>1 DEF Library!Failed, Library!Go, Library!choice, Library!busyFlags
  <2>2. at'[f] = "post" /\ Chosen'
    BY <2>1 DEF FlowInv, FlowTypes, Chosen
  <2> QED
    BY <1>1, <2>1, <2>2, FlowRetries
<1>2. CASE on[f] # "bundle"
  <2>1. Library!Ended(f, FALSE)
    BY <1>2 DEF Library!Failed
  <2> QED
    BY <2>1, Ending
<1> QED
  BY <1>1, <1>2

(* Pane 2 as a record, and what a new one shows.                           *)
ColumnIs == column = [rows |-> column.rows, ticked |-> column.ticked, banner |-> column.banner]
ColumnTyped == ColumnIs /\ column.ticked \subseteq Noaa
DetailTypedSel == detail.sel \in Library!Packs \cup {None}
Counted == ops \in 0 .. MaxOps /\ faults \in 0 .. MaxFaults
Registered ==
  /\ have \subseteq Library!Packs /\ off \subseteq {"noaa", "user"}
  /\ snap \in Library!Registry /\ reply \in [Library!Flow -> Library!Registry]

LibraryInv ==
  /\ FlowInv /\ Chosen /\ uninstalling \in BOOLEAN
  /\ Registered /\ ColumnTyped /\ DetailTypedSel /\ Counted /\ Library!PanelAtRest

ColRows == [k \in Library!Rows(prov) |-> Library!Badge(k)]
LEMMA Columns ==
  ASSUME NEW r, NEW t, NEW u, NEW b
  PROVE  LET c == [rows |-> r, ticked |-> t, banner |-> b]
         IN /\ c.ticked = t /\ c = [rows |-> c.rows, ticked |-> c.ticked, banner |-> c.banner]
            /\ [c EXCEPT !.ticked = u] = [rows |-> r, ticked |-> u, banner |-> b]
OBVIOUS
LEMMA PacksColIs == Library!PacksCol = [rows |-> ColRows, ticked |-> ticked, banner |-> batchBusy]
BY DEF Library!PacksCol, ColRows
RenderedCol == column = Library!PacksCol => ColumnIs /\ column.ticked = ticked
LEMMA RendersCol == RenderedCol
<1>1. Library!PacksCol.ticked = ticked
      /\ Library!PacksCol = [rows |-> Library!PacksCol.rows, ticked |-> Library!PacksCol.ticked,
                            banner |-> Library!PacksCol.banner]
  BY PacksColIs, Columns, Zenon
<1> QED
  BY <1>1, Zenon DEF RenderedCol, ColumnIs
LEMMA RendersColNext == RenderedCol'
BY RendersCol, PTL

(* Pane 3 as a record; only its Select button may be behind.               *)
Details(s, k, i, o, y, t, c, d) ==
  [sel |-> s, known |-> k, inst |-> i, off |-> o, busy |-> y, tick |-> t, cells |-> c, drop |-> d]
LEMMA DetailFields ==
  ASSUME NEW s, NEW k, NEW i, NEW o, NEW y, NEW t, NEW c, NEW d, NEW u
  PROVE  /\ Details(s, k, i, o, y, t, c, d).sel = s /\ Details(s, k, i, o, y, t, c, d).tick = t
         /\ [Details(s, k, i, o, y, t, c, d) EXCEPT !.tick = u] = Details(s, k, i, o, y, u, c, d)
BY DEF Details
LEMMA DetailColIs ==
  Library!DetailCol = Details(sel, Library!Selected(sel), sel \in snap.have, Library!Provider(sel) \in snap.off,
                              Library!Busy /\ sel \in snap.have, sel \in ticked /\ sel \notin snap.have,
                              Library!Cells(sel), sel = None /\ prov = "user")
BY Zenon DEF Library!DetailCol, Details
DetailWith(t) ==
  Details(sel, Library!Selected(sel), sel \in snap.have, Library!Provider(sel) \in snap.off,
          Library!Busy /\ sel \in snap.have, t, Library!Cells(sel), sel = None /\ prov = "user")
DetailTick == sel \in ticked /\ sel \notin snap.have
DetailBut == [Library!DetailCol EXCEPT !.tick = 0] = DetailWith(0) /\ Library!DetailCol.tick = DetailTick
LEMMA DetailsBut == DetailBut
<1>1. Library!DetailCol = DetailWith(DetailTick)
  BY Zenon DEF Library!DetailCol, DetailWith, DetailTick, Details
<1>2. DetailWith(DetailTick).tick = DetailTick /\ [DetailWith(DetailTick) EXCEPT !.tick = 0] = DetailWith(0)
  BY DEF DetailWith, Details
<1> QED
  BY <1>1, <1>2, Zenon DEF DetailBut
LEMMA DetailsButNext == DetailBut'
BY DetailsBut, PTL
LEMMA SameDetailBut ==
  ASSUME UNCHANGED <<prov, sel, snap, batchBusy, uninstalling>>
  PROVE  DetailWith(0)' = DetailWith(0)
BY Zenon DEF DetailWith, Library!Selected, Library!Busy, Library!Cells, Library!Provider
RenderedDetail == detail = Library!DetailCol => detail.sel = sel
LEMMA RendersDetail == RenderedDetail
<1>1. Library!DetailCol.sel = sel
  BY DEF Library!DetailCol
<1> QED
  BY <1>1, Zenon DEF RenderedDetail
LEMMA RendersDetailNext == RenderedDetail'
BY RendersDetail, PTL

LEMMA RendersPacks ==
  ASSUME Library!RenderPacks, Chosen' PROVE ColumnTyped'
<1>1. column' = Library!PacksCol'
  BY DEF Library!RenderPacks
<1>2. ColumnIs' /\ column.ticked' = ticked'
  BY <1>1, RendersColNext DEF RenderedCol
<1> QED
  BY <1>2 DEF ColumnTyped, Chosen

LEMMA RendersPane ==
  ASSUME Library!RenderDetail, Chosen' PROVE DetailTypedSel'
<1>1. detail' = Library!DetailCol'
  BY DEF Library!RenderDetail
<1>2. detail.sel' = sel'
  BY <1>1, RendersDetailNext DEF RenderedDetail
<1> QED
  BY <1>2 DEF DetailTypedSel, Chosen

LEMMA RendersBoth ==
  ASSUME Library!Render, Chosen' PROVE ColumnTyped' /\ DetailTypedSel' /\ Library!PanelAtRest'
<1>1. Library!RenderPacks /\ Library!RenderDetail
  BY DEF Library!Render
<1>2. column' = Library!PacksCol' /\ detail' = Library!DetailCol'
  BY <1>1 DEF Library!RenderPacks, Library!RenderDetail
<1>3. Library!PanelAtRest'
  BY <1>2, Zenon DEF Library!PanelAtRest
<1> QED
  BY <1>1, <1>3, RendersPacks, RendersPane

(* While some flow is under way nothing is said of the panes.              *)
LEMMA UnderWay ==
  ASSUME NEW f \in Library!Flow, at'[f] \notin {"idle", "agree"} PROVE Library!PanelAtRest'
BY DEF Library!PanelAtRest, Library!Rest

(* What the panes are made of.                                             *)
LEMMA SamePacks ==
  ASSUME UNCHANGED <<prov, snap, ticked, batchBusy>>
  PROVE  Library!PacksCol' = Library!PacksCol
BY Zenon DEF Library!PacksCol, Library!Rows, Library!Badge, Library!Provider
LEMMA SameDetail ==
  ASSUME UNCHANGED <<prov, sel, snap, ticked, batchBusy, uninstalling>>
  PROVE  Library!DetailCol' = Library!DetailCol
BY Zenon DEF Library!DetailCol, Library!Selected, Library!Busy, Library!Cells, Library!Provider

LEMMA RestStill ==
  ASSUME Library!PanelAtRest, Library!Rest' => Library!Rest,
         UNCHANGED <<prov, sel, snap, ticked, batchBusy, uninstalling, column, detail, boxed>>
  PROVE  Library!PanelAtRest'
<1>1. Library!PacksCol' = Library!PacksCol /\ Library!DetailCol' = Library!DetailCol
  BY SamePacks, SameDetail
<1>2. column' = column /\ detail' = detail /\ boxed' = boxed
  OBVIOUS
<1>3. ASSUME Library!Rest'
      PROVE  /\ column' = Library!PacksCol'
             /\ [detail EXCEPT !.tick = 0]' = [Library!DetailCol EXCEPT !.tick = 0]'
             /\ (boxed \/ detail.tick = Library!DetailCol.tick)'
  <2>1. /\ column = Library!PacksCol
        /\ [detail EXCEPT !.tick = 0] = [Library!DetailCol EXCEPT !.tick = 0]
        /\ boxed \/ detail.tick = Library!DetailCol.tick
    BY <1>3, Zenon DEF Library!PanelAtRest
  <2>2. column' = Library!PacksCol'
    BY <1>1, <1>2, <2>1, Zenon
  <2>3. [detail EXCEPT !.tick = 0]' = [Library!DetailCol EXCEPT !.tick = 0]'
    BY <1>1, <1>2, <2>1, Zenon
  <2>4. (boxed \/ detail.tick = Library!DetailCol.tick)'
    <3>1. CASE boxed
      BY <1>2, <3>1
    <3>2. CASE detail.tick = Library!DetailCol.tick
      <4>1. detail.tick' = Library!DetailCol.tick'
        BY <1>1, <1>2, <3>2, Zenon
      <4> QED
        BY <4>1
    <3> QED
      BY <2>1, <3>1, <3>2
  <2> QED
    BY <2>2, <2>3, <2>4
<1> QED
  BY <1>3, Zenon DEF Library!PanelAtRest

(* A box ticked in pane 2 is counted there, and not in pane 3.             *)
LEMMA Ticking ==
  ASSUME LibraryInv, NEW k \in Noaa, Library!TickBox(k)
  PROVE  ColumnTyped' /\ Library!PanelAtRest'
<1>1. /\ UNCHANGED <<prov, sel, snap, batchBusy, uninstalling, detail, at>>
      /\ column' = [column EXCEPT !.ticked = ticked'] /\ boxed' = (boxed \/ k = sel)
      /\ ticked' = IF k \in ticked THEN ticked \ {k} ELSE ticked \cup {k}
  BY DEF Library!TickBox, Library!Flip, Library!busyFlags, Library!flows
<1>2. ColumnIs /\ column.ticked \subseteq Noaa /\ ticked' \subseteq Noaa /\ Library!PanelAtRest
  BY <1>1 DEF LibraryInv, ColumnTyped, Chosen
<1>3. column' = [rows |-> column.rows, ticked |-> ticked', banner |-> column.banner]
  BY <1>1, <1>2, Columns, Zenon DEF ColumnIs
<1>4. ColumnIs' /\ column'.ticked = ticked'
  BY <1>3, Columns, Zenon DEF ColumnIs
<1>5. ASSUME Library!Rest'
      PROVE  /\ column' = Library!PacksCol'
             /\ [detail EXCEPT !.tick = 0]' = [Library!DetailCol EXCEPT !.tick = 0]'
             /\ (boxed \/ detail.tick = Library!DetailCol.tick)'
  <2>1. Library!Rest
    BY <1>1, <1>5 DEF Library!Rest
  <2>2. /\ column = Library!PacksCol
        /\ [detail EXCEPT !.tick = 0] = [Library!DetailCol EXCEPT !.tick = 0]
        /\ boxed \/ detail.tick = Library!DetailCol.tick
    BY <1>2, <2>1, Zenon DEF Library!PanelAtRest
  <2>3. ColRows' = ColRows
    BY <1>1, Zenon DEF ColRows, Library!Rows, Library!Badge, Library!Provider
  <2>4. Library!PacksCol' = [rows |-> ColRows', ticked |-> ticked', banner |-> batchBusy']
    BY Zenon DEF Library!PacksCol, ColRows
  <2>5. column.rows = ColRows /\ column.banner = batchBusy
    BY <2>2, PacksColIs
  <2>6. column' = Library!PacksCol'
    BY <1>1, <1>3, <2>3, <2>4, <2>5, Zenon
  <2>7. [detail EXCEPT !.tick = 0]' = [Library!DetailCol EXCEPT !.tick = 0]'
    <3>1. DetailWith(0)' = DetailWith(0) /\ detail' = detail
      BY <1>1, SameDetailBut
    <3>2. [Library!DetailCol EXCEPT !.tick = 0] = DetailWith(0)
      BY DetailsBut, Zenon DEF DetailBut
    <3>3. [Library!DetailCol EXCEPT !.tick = 0]' = DetailWith(0)'
      BY DetailsButNext, Zenon DEF DetailBut
    <3> QED
      BY <2>2, <3>1, <3>2, <3>3, Zenon
  <2>8. (boxed \/ detail.tick = Library!DetailCol.tick)'
    <3>1. CASE k = sel
      BY <1>1, <3>1
    <3>2. CASE k # sel
      <4>1. DetailTick' = DetailTick
        BY <1>1, <3>2 DEF DetailTick
      <4>2. Library!DetailCol.tick = DetailTick
        BY DetailsBut, Zenon DEF DetailBut
      <4>3. Library!DetailCol'.tick = DetailTick'
        BY DetailsButNext, Zenon DEF DetailBut
      <4>4. detail' = detail /\ (boxed => boxed')
        BY <1>1
      <4> QED
        BY <2>2, <4>1, <4>2, <4>3, <4>4, Zenon
    <3> QED
      BY <3>1, <3>2
  <2> QED
    BY <2>6, <2>7, <2>8
<1> QED
  BY <1>2, <1>4, <1>5, Zenon DEF ColumnTyped, Library!PanelAtRest

-----------------------------------------------------------------------------
(* The chart library: every step.                                          *)

LEMMA Registries ==
  ASSUME have \subseteq Library!Packs, off \subseteq {"noaa", "user"}
  PROVE  Library!Now \in Library!Registry /\ Library!Nothing \in Library!Registry
<1>1. ASSUME NEW h \in SUBSET Library!Packs, NEW o \in SUBSET {"noaa", "user"}, NEW b \in BOOLEAN
      PROVE  [have |-> h, off |-> o, ok |-> b] \in Library!Registry
  BY DEF Library!Registry
<1>2. have \in SUBSET Library!Packs /\ off \in SUBSET {"noaa", "user"} /\ TRUE \in BOOLEAN /\ FALSE \in BOOLEAN
      /\ {} \in SUBSET Library!Packs /\ {} \in SUBSET {"noaa", "user"}
  OBVIOUS
<1> QED
  BY <1>1, <1>2, Zenon DEF Library!Now, Library!Nothing

LEMMA LibraryInit == Library!Init => LibraryInv
<1> SUFFICES ASSUME Library!Init PROVE LibraryInv
  OBVIOUS
<1>1. /\ have \subseteq Library!Packs /\ off = {} /\ job = [j \in Library!Jobs |-> "none"] /\ snap = Library!Now
      /\ prov = None /\ sel = None /\ ticked = {} /\ agreed = FALSE /\ modal = None /\ batchBusy = FALSE
      /\ uninstalling = FALSE /\ at = [f \in Library!Flow |-> "idle"] /\ on = [f \in Library!Flow |-> None]
      /\ packs = [f \in Library!Flow |-> {}] /\ reply = [f \in Library!Flow |-> Library!Nothing]
      /\ column = Library!PacksCol /\ detail = Library!DetailCol
      /\ claimed = {} /\ made = {} /\ ops = 0 /\ faults = 0
  BY DEF Library!Init
<1>2. FlowTypes
  BY <1>1 DEF FlowTypes, Stages
<1>3. \A f \in Library!Flow : ~Working(f) /\ on[f] = None
  BY <1>1 DEF Working
<1>4. FlowInv
  BY <1>1, <1>2, <1>3, Names DEF FlowInv, Gate, FollowsJobs, OneWorks, JobIsMade, Library!DoneIsDone, Working
<1>5. Chosen /\ uninstalling \in BOOLEAN
  BY <1>1 DEF Chosen
<1>6. Library!Now \in Library!Registry /\ Library!Nothing \in Library!Registry
  BY <1>1, Registries
<1>7. Registered
  BY <1>1, <1>6 DEF Registered
<1>8. ColumnTyped
  BY <1>1, RendersCol DEF RenderedCol, ColumnTyped
<1>9. DetailTypedSel
  BY <1>1, RendersDetail DEF RenderedDetail, DetailTypedSel
<1>10. Counted
  BY <1>1, ConstantsAssumption DEF Counted, Library!LibraryConstants
<1>11. Library!PanelAtRest
  BY <1>1, Zenon DEF Library!PanelAtRest
<1> QED
  BY <1>4, <1>5, <1>7, <1>8, <1>9, <1>10, <1>11 DEF LibraryInv

(* The packs of a flow change by themselves.                               *)
LEMMA PacksOf ==
  ASSUME FlowTypes, NEW f \in Library!Flow, NEW s \in SUBSET Library!Packs, packs' = [packs EXCEPT ![f] = s]
  PROVE  packs' \in [Library!Flow -> SUBSET Library!Packs] /\ \A g \in Library!Flow \ {f} : packs'[g] = packs[g]
BY DEF FlowTypes

LEMMA Counts ==
  ASSUME Counted, Library!Begin \/ UNCHANGED ops, Library!Fault \/ UNCHANGED faults
  PROVE  Counted'
BY ConstantsAssumption DEF Counted, Library!Begin, Library!Fault, Library!LibraryConstants

(* A step of a flow that is still under way afterwards.                    *)
LEMMA FlowSteps ==
  ASSUME LibraryInv, NEW f \in Library!Flow, at'[f] \notin {"idle", "agree"}, FlowInv', Chosen', Registered',
         UNCHANGED <<uninstalling, column, detail>>, Library!Begin \/ UNCHANGED ops, Library!Fault \/ UNCHANGED faults
  PROVE  LibraryInv'
<1>1. Library!PanelAtRest'
  BY UnderWay
<1>2. Counted'
  BY Counts DEF LibraryInv
<1> QED
  BY <1>1, <1>2 DEF LibraryInv, ColumnTyped, ColumnIs, DetailTypedSel

LEMMA ChoiceNext ==
  ASSUME LibraryInv,
         \/ \E p \in {"noaa", "user"} : Library!SelectProvider(p)
         \/ \E k \in Library!Packs : Library!SelectPack(k) \/ Library!TickBox(k)
         \/ Library!TickDetail
  PROVE  LibraryInv'
<1>0. /\ FlowInv /\ Chosen /\ uninstalling \in BOOLEAN
      /\ Registered /\ ColumnTyped /\ DetailTypedSel /\ Counted /\ Library!PanelAtRest
  BY DEF LibraryInv
<1> USE DEF Library!registry, Library!gate, Library!busyFlags, Library!flows, Library!history
<1>1. ASSUME NEW p \in {"noaa", "user"}, Library!SelectProvider(p) PROVE LibraryInv'
  <2>1. /\ UNCHANGED <<have, off, job, snap, agreed, modal, batchBusy, uninstalling, at, on, packs, reply,
                       claimed, made, ops, faults>>
        /\ prov' = p /\ sel' = None /\ ticked' = {} /\ Library!Render
    BY <1>1 DEF Library!SelectProvider
  <2>2. Chosen' /\ FlowInv' /\ Registered' /\ Counted'
    BY <1>0, <2>1, FlowsStay DEF Chosen, Registered, Counted
  <2> QED
    BY <1>0, <2>1, <2>2, RendersBoth DEF LibraryInv
<1>2. ASSUME NEW k \in Library!Packs, Library!SelectPack(k) PROVE LibraryInv'
  <2>1. /\ UNCHANGED <<have, off, job, snap, prov, ticked, agreed, modal, batchBusy, uninstalling, at, on, packs, reply,
                       column, claimed, made, ops, faults>>
        /\ sel' = k /\ Library!RenderDetail
    BY <1>2 DEF Library!SelectPack
  <2>2. Chosen' /\ FlowInv' /\ Registered' /\ Counted' /\ ColumnTyped'
    BY <1>0, <2>1, FlowsStay DEF Chosen, Registered, Counted, ColumnTyped, ColumnIs
  <2>3. DetailTypedSel'
    BY <2>1, <2>2, RendersPane
  <2>4. Library!PacksCol' = Library!PacksCol /\ detail' = Library!DetailCol' /\ column' = column
    BY <2>1, SamePacks DEF Library!RenderDetail
  <2>5. Library!Rest' => column = Library!PacksCol
    BY <1>0, <2>1 DEF Library!Rest, Library!PanelAtRest
  <2>6. Library!PanelAtRest'
    BY <2>4, <2>5, Zenon DEF Library!PanelAtRest
  <2> QED
    BY <1>0, <2>1, <2>2, <2>3, <2>6 DEF LibraryInv
<1>3. ASSUME NEW k \in Library!Packs, Library!TickBox(k) PROVE LibraryInv'
  <2>1. /\ UNCHANGED <<have, off, job, snap, prov, sel, agreed, modal, batchBusy, uninstalling, at, on, packs, reply,
                       detail, claimed, made, ops, faults>>
        /\ k \in Noaa /\ ticked' = IF k \in ticked THEN ticked \ {k} ELSE ticked \cup {k}
    BY <1>3 DEF Library!TickBox, Library!Flip
  <2>2. Chosen' /\ FlowInv' /\ Registered' /\ Counted' /\ DetailTypedSel'
    BY <1>0, <2>1, FlowsStay DEF Chosen, Registered, Counted, DetailTypedSel
  <2>3. ColumnTyped' /\ Library!PanelAtRest'
    BY <1>3, <2>1, Ticking
  <2> QED
    BY <1>0, <2>1, <2>2, <2>3 DEF LibraryInv
<1>4. CASE Library!TickDetail
  <2>1. /\ UNCHANGED <<have, off, job, snap, prov, sel, agreed, modal, batchBusy, uninstalling, at, on, packs, reply,
                       claimed, made, ops, faults>>
        /\ ticked' \subseteq ticked \cup {detail.sel} /\ detail.sel \in Noaa /\ Library!Render
    BY <1>4 DEF Library!TickDetail, Library!Flip
  <2>2. Chosen' /\ FlowInv' /\ Registered' /\ Counted'
    BY <1>0, <2>1, FlowsStay DEF Chosen, Registered, Counted
  <2> QED
    BY <1>0, <2>1, <2>2, RendersBoth DEF LibraryInv
<1> QED
  BY <1>1, <1>2, <1>3, <1>4

(* Downloads up to their first request, and the modal before it.           *)
LEMMA DownloadNext ==
  ASSUME LibraryInv,
         \/ \E b \in Clicks : Library!Download(b)
         \/ Library!Accept \/ Library!Decline
  PROVE  LibraryInv'
<1>0. /\ FlowInv /\ Chosen /\ uninstalling \in BOOLEAN /\ FlowTypes /\ Gate
      /\ Registered /\ ColumnTyped /\ DetailTypedSel /\ Counted /\ Library!PanelAtRest
  BY DEF LibraryInv, FlowInv
<1> USE DEF Library!registry, Library!gate, Library!busyFlags, Library!flows, Library!history, Library!choice,
            Library!screen
<1>1. ASSUME NEW b \in Clicks, ~batchBusy, at[b] \in {"idle", "agree"}, Library!Start({b}), agreed',
             modal' = None \/ UNCHANGED <<modal, agreed>>,
             packs' \in [Library!Flow -> SUBSET Library!Packs], \A g \in Library!Flow \ {b} : packs'[g] = packs[g],
             Library!Begin \/ UNCHANGED ops
      PROVE  LibraryInv'
  <2>1. FlowInv'
    BY <1>0, <1>1, FlowStarts
  <2>2. /\ UNCHANGED <<have, off, job, snap, prov, sel, ticked, uninstalling, reply, detail, faults>>
        /\ Library!RenderPacks /\ at' = [f \in Library!Flow |-> IF f \in {b} THEN "post" ELSE at[f]]
    BY <1>1 DEF Library!Start
  <2>3. Chosen' /\ Registered' /\ DetailTypedSel'
    BY <1>0, <2>2 DEF Chosen, Registered, DetailTypedSel
  <2>4. ColumnTyped'
    BY <2>2, <2>3, RendersPacks
  <2>5. Library!PanelAtRest'
    BY <2>2, UnderWay, Names
  <2>6. Counted'
    BY <1>0, <1>1, <2>2, Counts
  <2> QED
    BY <1>0, <2>1, <2>2, <2>3, <2>4, <2>5, <2>6 DEF LibraryInv
<1>2. ASSUME NEW b \in Clicks, NEW w \in {"idle", "agree"}, at[b] \in {"idle", "agree"},
             at' = [at EXCEPT ![b] = w], modal' = (IF w = "agree" THEN b ELSE None), ~agreed,
             packs' \in [Library!Flow -> SUBSET Library!Packs], \A g \in Library!Flow \ {b} : packs'[g] = packs[g],
             UNCHANGED <<have, off, job, snap, prov, sel, ticked, agreed, batchBusy, uninstalling, on, reply, column,
                         detail, boxed, claimed, made, faults>>, Library!Begin \/ UNCHANGED ops
      PROVE  LibraryInv'
  <2>1. FlowInv'
    BY <1>0, <1>2, ClickAsks
  <2>2. Library!Rest' => Library!Rest
    BY <1>0, <1>2, Names DEF Library!Rest, FlowTypes
  <2>3. Library!PanelAtRest'
    BY <1>0, <1>2, <2>2, RestStill
  <2>4. Chosen' /\ Registered' /\ ColumnTyped' /\ DetailTypedSel'
    BY <1>0, <1>2 DEF Chosen, Registered, ColumnTyped, ColumnIs, DetailTypedSel
  <2>5. Counted'
    BY <1>0, <1>2, Counts
  <2> QED
    BY <1>0, <1>2, <2>1, <2>3, <2>4, <2>5 DEF LibraryInv
<1>3. ASSUME NEW b \in Clicks, Library!Download(b) PROVE LibraryInv'
  <2>1. at[b] = "idle" /\ ~batchBusy /\ Library!Begin /\ packs' = [packs EXCEPT ![b] = Library!Picked]
    BY <1>3 DEF Library!Download
  <2>2. Library!Picked \in SUBSET Library!Packs
    BY <1>0 DEF Library!Picked, Chosen, Library!Packs
  <2>3. packs' \in [Library!Flow -> SUBSET Library!Packs] /\ \A g \in Library!Flow \ {b} : packs'[g] = packs[g]
    BY <1>0, <2>1, <2>2, PacksOf, Names
  <2>4. CASE agreed
    <3>1. Library!Start({b}) /\ UNCHANGED <<agreed, modal>>
      BY <1>3, <2>4 DEF Library!Download
    <3> QED
      BY <1>1, <2>1, <2>3, <2>4, <3>1
  <2>5. CASE ~agreed
    <3>1. /\ modal' = b /\ at' = [at EXCEPT ![b] = "agree"]
          /\ UNCHANGED <<have, off, job, snap, prov, sel, ticked, agreed, batchBusy, uninstalling, on, reply, column,
                         detail, boxed, claimed, made, faults>>
      BY <1>3, <2>5 DEF Library!Download, Library!Go
    <3> QED
      BY <1>2, <2>1, <2>3, <2>5, <3>1
  <2> QED
    BY <2>4, <2>5
<1>4. CASE Library!Accept
  <2>1. modal # None /\ agreed' = TRUE /\ modal' = None /\ Library!Start({modal}) /\ UNCHANGED <<packs, ops>>
    BY <1>4 DEF Library!Accept, Library!Settles
  <2>2. modal \in Clicks /\ at[modal] = "agree" /\ ~batchBusy
    BY <1>0, <2>1 DEF Gate, FlowTypes
  <2> QED
    BY <1>0, <1>1, <2>1, <2>2 DEF FlowTypes
<1>5. CASE Library!Decline
  <2>1. /\ modal # None /\ modal' = None /\ at' = [at EXCEPT ![modal] = "idle"]
        /\ UNCHANGED <<have, off, job, snap, prov, sel, ticked, agreed, batchBusy, uninstalling, on, packs, reply, column,
                       detail, boxed, claimed, made, ops, faults>>
    BY <1>5 DEF Library!Decline, Library!Go
  <2>2. modal \in Clicks /\ at[modal] = "agree" /\ ~agreed
    BY <1>0, <2>1 DEF Gate, FlowTypes
  <2> QED
    BY <1>0, <1>2, <2>1, <2>2 DEF FlowTypes
<1> QED
  BY <1>3, <1>4, <1>5

(* Flows at work: their requests, their jobs, and how they end.            *)
LEMMA JobbedNext ==
  ASSUME LibraryInv, NEW f \in Library!Flow, Library!Jobbed(f) \/ (f = "remove" /\ Library!PostGone)
  PROVE  LibraryInv'
<1>0. /\ FlowInv /\ Chosen /\ FlowTypes /\ JobIsMade
      /\ Registered /\ Library!PanelAtRest
  BY DEF LibraryInv, FlowInv
<1> USE DEF Library!registry, Library!gate, Library!busyFlags, Library!flows, Library!history, Library!choice,
            Library!screen
<1>1. CASE Library!Post(f)
  <2>1. /\ at[f] = "post" /\ job[on[f]] = "none" /\ job' = [job EXCEPT ![on[f]] = "running"]
        /\ at' = [at EXCEPT ![f] = "stream"]
        /\ UNCHANGED <<have, off, snap, prov, sel, ticked, agreed, modal, batchBusy, uninstalling, on, packs, reply, column,
                       detail, boxed, claimed, made, ops, faults>>
    BY <1>1 DEF Library!Post, Library!Go
  <2>2. FlowInv'
    BY <1>0, <2>1, FlowWatches DEF Working
  <2>3. at'[f] = "stream" /\ Chosen' /\ Registered'
    BY <1>0, <2>1 DEF FlowTypes, Chosen, Registered
  <2> QED
    BY <2>1, <2>2, <2>3, FlowSteps
<1>2. CASE Library!PostFails(f)
  <2>1. /\ at[f] = "post" /\ Library!Fault /\ Library!Failed(f)
        /\ UNCHANGED <<have, off, job, snap, agreed, modal, packs, reply, column, detail, boxed, made, ops>>
    BY <1>2 DEF Library!PostFails
  <2>2. FlowInv' /\ Chosen' /\ UNCHANGED uninstalling /\ at'[f] \in {"ask", "post"}
    BY <1>0, <2>1, Failing DEF Working, JobLeft
  <2>3. Registered'
    BY <1>0, <2>1 DEF Registered
  <2> QED
    BY <2>1, <2>2, <2>3, FlowSteps
<1>3. CASE Library!Hear(f)
  <2>1. /\ at[f] \in {"stream", "poll"} /\ Working(f)
        /\ UNCHANGED <<have, off, snap, agreed, modal, packs, reply, column, detail, boxed, made, ops, faults>>
    BY <1>3 DEF Library!Hear, Working
  <2>2. Registered'
    BY <1>0, <2>1 DEF Registered
  <2>3. CASE job[on[f]] = "done"
    <3>1. Library!Ended(f, TRUE) /\ job' = [job EXCEPT ![on[f]] = "none"]
      BY <1>3, <2>3 DEF Library!Hear
    <3>2. f \in Clicks => packs[f] \subseteq made
      BY <1>0, <2>1, <2>3 DEF JobIsMade
    <3>3. FlowInv' /\ Chosen' /\ UNCHANGED uninstalling /\ at'[f] = "ask"
      BY <1>0, <2>1, <3>1, <3>2, Ending DEF JobLeft
    <3> QED
      BY <2>1, <2>2, <3>3, FlowSteps
  <2>4. CASE job[on[f]] # "done" /\ at[f] = "stream"
    <3>1. at' = [at EXCEPT ![f] = "poll"] /\ UNCHANGED <<job, prov, sel, ticked, batchBusy, uninstalling, on, claimed>>
      BY <1>3, <2>4 DEF Library!Hear, Library!Go
    <3>2. FlowInv'
      BY <1>0, <2>1, <3>1, FlowWatches
    <3>3. at'[f] = "poll" /\ Chosen'
      BY <1>0, <3>1 DEF FlowTypes, Chosen
    <3> QED
      BY <2>1, <2>2, <3>1, <3>2, <3>3, FlowSteps
  <2>5. CASE job[on[f]] # "done" /\ at[f] # "stream"
    <3>1. Library!Failed(f) /\ job' = [job EXCEPT ![on[f]] = "none"]
      BY <1>3, <2>5 DEF Library!Hear
    <3>2. FlowInv' /\ Chosen' /\ UNCHANGED uninstalling /\ at'[f] \in {"ask", "post"}
      BY <1>0, <2>1, <3>1, Failing DEF JobLeft
    <3> QED
      BY <2>1, <2>2, <3>2, FlowSteps
  <2> QED
    BY <2>3, <2>4, <2>5
<1>4. CASE Library!StreamCloses(f)
  <2>1. /\ at[f] = "stream" /\ Library!Fault /\ at' = [at EXCEPT ![f] = "poll"]
        /\ UNCHANGED <<have, off, job, snap, prov, sel, ticked, agreed, modal, batchBusy, uninstalling, on, packs, reply,
                       column, detail, boxed, claimed, made, ops>>
    BY <1>4 DEF Library!StreamCloses, Library!Go
  <2>2. FlowInv'
    BY <1>0, <2>1, FlowWatches DEF Working
  <2>3. at'[f] = "poll" /\ Chosen' /\ Registered'
    BY <1>0, <2>1 DEF FlowTypes, Chosen, Registered
  <2> QED
    BY <2>1, <2>2, <2>3, FlowSteps
<1>5. CASE Library!PollFails(f)
  <2>1. /\ at[f] = "poll" /\ Library!Fault /\ Library!Failed(f)
        /\ UNCHANGED <<have, off, job, snap, agreed, modal, packs, reply, column, detail, boxed, made, ops>>
    BY <1>5 DEF Library!PollFails
  <2>2. FlowInv' /\ Chosen' /\ UNCHANGED uninstalling /\ at'[f] \in {"ask", "post"}
    BY <1>0, <2>1, Failing DEF Working, JobLeft
  <2>3. Registered'
    BY <1>0, <2>1 DEF Registered
  <2> QED
    BY <2>1, <2>2, <2>3, FlowSteps
<1>6. CASE f = "remove" /\ Library!PostGone
  <2>1. /\ at[f] = "post" /\ Library!EndRemove
        /\ UNCHANGED <<have, off, job, snap, agreed, modal, packs, reply, column, detail, boxed, made, ops, faults>>
    BY <1>6 DEF Library!PostGone
  <2>2. Library!Ended(f, FALSE)
    BY <1>6, <2>1, Names DEF Library!Ended
  <2>3. FlowInv' /\ Chosen' /\ UNCHANGED uninstalling /\ at'[f] = "ask"
    BY <1>0, <2>1, <2>2, Ending DEF Working, JobLeft
  <2>4. Registered'
    BY <1>0, <2>1 DEF Registered
  <2> QED
    BY <2>1, <2>3, <2>4, FlowSteps
<1> QED
  BY <1>1, <1>2, <1>3, <1>4, <1>5, <1>6 DEF Library!Jobbed

(* What follows a job, and a refresh: the registry is read again.          *)
LEMMA SyncedNext ==
  ASSUME LibraryInv, NEW f \in Library!Flow, Library!Synced(f)
  PROVE  LibraryInv'
<1>0. /\ FlowInv /\ Chosen /\ FlowTypes /\ uninstalling \in BOOLEAN /\ Counted
      /\ Registered /\ Library!PanelAtRest
  BY DEF LibraryInv, FlowInv
<1> USE DEF Library!registry, Library!gate, Library!busyFlags, Library!flows, Library!history, Library!choice,
            Library!screen
<1>1. CASE Library!Read(f)
  <2>1. /\ at[f] = "ask" /\ at' = [at EXCEPT ![f] = "answer"] /\ (Library!Fault \/ UNCHANGED faults)
        /\ reply' = [reply EXCEPT ![f] = Library!Now] \/ reply' = [reply EXCEPT ![f] = Library!Nothing]
        /\ UNCHANGED <<have, off, job, snap, prov, sel, ticked, agreed, modal, batchBusy, uninstalling, on, packs, column,
                       detail, boxed, claimed, made, ops>>
    BY <1>1 DEF Library!Read, Library!Go
  <2>2. FlowInv'
    BY <1>0, <2>1, FlowMoves DEF FlowTypes
  <2>3. Library!Now \in Library!Registry /\ Library!Nothing \in Library!Registry
    BY <1>0, Registries DEF Registered
  <2>4. at'[f] = "answer" /\ Chosen' /\ Registered'
    BY <1>0, <2>1, <2>3 DEF FlowTypes, Chosen, Registered
  <2> QED
    BY <2>1, <2>2, <2>4, FlowSteps
<1>2. CASE Library!Apply(f)
  <2>1. /\ at[f] = "answer" /\ at' = [at EXCEPT ![f] = "cells"] /\ snap' = reply[f]
        /\ reply' = [reply EXCEPT ![f] = Library!Nothing]
        /\ UNCHANGED <<have, off, job, prov, sel, ticked, agreed, modal, batchBusy, uninstalling, on, packs, column,
                       detail, boxed, claimed, made, ops, faults>>
    BY <1>2 DEF Library!Apply, Library!Go
  <2>2. FlowInv'
    BY <1>0, <2>1, FlowMoves DEF FlowTypes
  <2>3. Library!Nothing \in Library!Registry
    BY <1>0, Registries DEF Registered
  <2>4. at'[f] = "cells" /\ Chosen' /\ Registered'
    BY <1>0, <2>1, <2>3 DEF FlowTypes, Chosen, Registered
  <2> QED
    BY <2>1, <2>2, <2>4, FlowSteps
<1>3. CASE Library!Finish(f)
  <2>1. /\ at[f] = "cells" /\ at' = [at EXCEPT ![f] = "idle"] /\ packs' = [packs EXCEPT ![f] = {}]
        /\ uninstalling' = (uninstalling /\ f # "remove") /\ Library!Render
        /\ UNCHANGED <<have, off, job, snap, prov, sel, ticked, agreed, modal, batchBusy, on, reply, claimed, made, ops, faults>>
    BY <1>3 DEF Library!Finish, Library!Go
  <2>2. packs' \in [Library!Flow -> SUBSET Library!Packs] /\ \A g \in Library!Flow \ {f} : packs'[g] = packs[g]
    BY <1>0, <2>1, PacksOf
  <2>3. FlowInv'
    BY <1>0, <2>1, <2>2, FlowMoves
  <2>4. uninstalling' \in BOOLEAN /\ Chosen' /\ Registered' /\ Counted'
    BY <1>0, <2>1 DEF Chosen, Registered, Counted
  <2> QED
    BY <2>1, <2>3, <2>4, RendersBoth DEF LibraryInv
<1> QED
  BY <1>1, <1>2, <1>3 DEF Library!Synced

(* Remove, Enable and Disable, an import and a refresh begin.              *)
LEMMA ButtonsNext ==
  ASSUME LibraryInv, Library!Uninstall \/ Library!Switch \/ Library!OpenFiles \/ Library!Refresh
  PROVE  LibraryInv'
<1>0. /\ FlowInv /\ Chosen /\ FlowTypes /\ uninstalling \in BOOLEAN /\ Counted
      /\ Registered /\ Library!PanelAtRest /\ DetailTypedSel
  BY DEF LibraryInv, FlowInv
<1> USE DEF Library!registry, Library!gate, Library!busyFlags, Library!flows, Library!history, Library!choice,
            Library!screen
<1>1. CASE Library!Uninstall
  <2>1. /\ at["remove"] = "idle" /\ at' = [at EXCEPT !["remove"] = "post"] /\ on' = [on EXCEPT !["remove"] = "remove"]
        /\ packs' = [packs EXCEPT !["remove"] = {detail.sel}] /\ detail.sel # None
        /\ uninstalling' = TRUE /\ Library!Begin /\ Library!Render
        /\ UNCHANGED <<have, off, job, snap, prov, sel, ticked, agreed, modal, batchBusy, reply, claimed, made, faults>>
    BY <1>1 DEF Library!Uninstall, Library!Go
  <2>2. {detail.sel} \in SUBSET Library!Packs /\ "remove" \in Library!Flow
    BY <1>0, <2>1, Names DEF DetailTypedSel
  <2>3. packs' \in [Library!Flow -> SUBSET Library!Packs]
        /\ \A g \in Library!Flow \ {"remove"} : packs'[g] = packs[g]
    BY <1>0, <2>1, <2>2, PacksOf
  <2>4. FlowInv'
    BY <1>0, <2>1, <2>3, FlowBegins
  <2>5. uninstalling' \in BOOLEAN /\ Chosen' /\ Registered' /\ Counted'
    BY <1>0, <2>1, Counts DEF Chosen, Registered
  <2> QED
    BY <2>1, <2>4, <2>5, RendersBoth DEF LibraryInv
<1>2. CASE Library!Switch
  <2>1. /\ at["switch"] = "idle" /\ at' = [at EXCEPT !["switch"] = "ask"] /\ Library!Begin
        /\ (Library!Fault \/ UNCHANGED faults)
        /\ off' \in {off, off \ {Library!Provider(detail.sel)}, off \cup {Library!Provider(detail.sel)}}
        /\ UNCHANGED <<have, job, snap, prov, sel, ticked, agreed, modal, batchBusy, uninstalling, on, packs, reply, column,
                       detail, boxed, claimed, made>>
    BY <1>2 DEF Library!Switch, Library!Go
  <2>2. "switch" \in Library!Flow
    BY Names
  <2>3. FlowInv'
    BY <1>0, <2>1, <2>2, FlowMoves DEF FlowTypes
  <2>4. off' \subseteq {"noaa", "user"}
    BY <1>0, <2>1 DEF Registered, Library!Provider
  <2>5. at'["switch"] = "ask" /\ Chosen' /\ Registered'
    BY <1>0, <2>1, <2>2, <2>4 DEF FlowTypes, Chosen, Registered
  <2> QED
    BY <2>1, <2>2, <2>3, <2>5, FlowSteps
<1>3. CASE Library!OpenFiles
  <2>1. /\ at["import"] = "idle" /\ at' = [at EXCEPT !["import"] = "post"] /\ on' = [on EXCEPT !["import"] = "import"]
        /\ packs' = [packs EXCEPT !["import"] = {User}] /\ Library!Begin
        /\ UNCHANGED <<have, off, job, snap, prov, sel, ticked, agreed, modal, batchBusy, uninstalling, reply, column,
                       detail, boxed, claimed, made, faults>>
    BY <1>3 DEF Library!OpenFiles, Library!Go
  <2>2. {User} \in SUBSET Library!Packs /\ "import" \in Library!Flow
    BY Names DEF Library!Packs
  <2>3. packs' \in [Library!Flow -> SUBSET Library!Packs]
        /\ \A g \in Library!Flow \ {"import"} : packs'[g] = packs[g]
    BY <1>0, <2>1, <2>2, PacksOf
  <2>4. FlowInv'
    BY <1>0, <2>1, <2>3, FlowBegins
  <2>5. at'["import"] = "post" /\ Chosen' /\ Registered'
    BY <1>0, <2>1, <2>2 DEF FlowTypes, Chosen, Registered
  <2> QED
    BY <2>1, <2>2, <2>4, <2>5, FlowSteps
<1>4. CASE Library!Refresh
  <2>1. /\ at["refresh"] = "idle" /\ at' = [at EXCEPT !["refresh"] = "ask"] /\ Library!Begin /\ Library!Render
        /\ UNCHANGED <<have, off, job, snap, prov, sel, ticked, agreed, modal, batchBusy, uninstalling, on, packs, reply,
                       claimed, made, faults>>
    BY <1>4 DEF Library!Refresh, Library!Go
  <2>2. "refresh" \in Library!Flow
    BY Names
  <2>3. FlowInv'
    BY <1>0, <2>1, <2>2, FlowMoves DEF FlowTypes
  <2>4. uninstalling' \in BOOLEAN /\ Chosen' /\ Registered' /\ Counted'
    BY <1>0, <2>1, Counts DEF Chosen, Registered
  <2> QED
    BY <2>1, <2>3, <2>4, RendersBoth DEF LibraryInv
<1> QED
  BY <1>1, <1>2, <1>3, <1>4

LEMMA JobsNext ==
  ASSUME LibraryInv, NEW j \in Library!Jobs, Library!JobEnds(j)
  PROVE  LibraryInv'
<1>0. /\ FlowInv /\ Chosen /\ uninstalling \in BOOLEAN /\ Counted
      /\ Registered /\ ColumnTyped /\ Library!PanelAtRest /\ DetailTypedSel
  BY DEF LibraryInv
<1>1. /\ UNCHANGED <<off, snap, prov, sel, ticked, batchBusy, uninstalling, at, reply, column, detail, boxed, ops>>
      /\ (Library!Fault \/ UNCHANGED faults)
  BY DEF Library!JobEnds, Library!flows, Library!busyFlags, Library!choice, Library!screen
<1>2. FlowInv' /\ have' \subseteq Library!Packs
  BY <1>0, JobEnding DEF Registered
<1>3. Chosen' /\ Registered' /\ ColumnTyped' /\ DetailTypedSel'
  BY <1>0, <1>1, <1>2 DEF Chosen, Registered, ColumnTyped, ColumnIs, DetailTypedSel
<1>4. Counted'
  BY <1>0, <1>1, Counts
<1>5. Library!PanelAtRest'
  <2>1. Library!Rest' => Library!Rest
    BY <1>1 DEF Library!Rest
  <2> QED
    BY <1>0, <1>1, <2>1, RestStill
<1> QED
  BY <1>0, <1>1, <1>2, <1>3, <1>4, <1>5 DEF LibraryInv

LEMMA LibraryNext == LibraryInv /\ [Library!Next]_(Library!vars) => LibraryInv'
<1> SUFFICES ASSUME LibraryInv, [Library!Next]_(Library!vars) PROVE LibraryInv'
  OBVIOUS
<1>1. CASE UNCHANGED Library!vars
  <2>1. UNCHANGED <<have, off, job, snap, prov, sel, ticked, agreed, modal, batchBusy, uninstalling, at, on, packs, reply,
                    column, detail, boxed, claimed, made, ops, faults>>
    BY <1>1 DEF Library!vars, Library!registry, Library!choice, Library!gate, Library!busyFlags, Library!flows,
                Library!screen, Library!history
  <2>2. FlowInv'
    BY <2>1, FlowsStay DEF LibraryInv
  <2>3. Chosen' /\ Registered' /\ ColumnTyped' /\ DetailTypedSel' /\ Counted' /\ uninstalling' \in BOOLEAN
    BY <2>1 DEF LibraryInv, Chosen, Registered, ColumnTyped, ColumnIs, DetailTypedSel, Counted
  <2>4. Library!PanelAtRest'
    <3>1. Library!Rest' => Library!Rest
      BY <2>1 DEF Library!Rest
    <3> QED
      BY <2>1, <3>1, RestStill DEF LibraryInv
  <2> QED
    BY <2>2, <2>3, <2>4 DEF LibraryInv
<1>2. CASE Library!PostGone
  BY <1>2, JobbedNext, Names
<1> QED
  BY <1>1, <1>2, ChoiceNext, DownloadNext, JobbedNext, SyncedNext, ButtonsNext, JobsNext DEF Library!Next

(* The library's Cardinality is that of the finite sets.                   *)
LEMMA SameCardinality == ASSUME NEW S PROVE Library!Cardinality(S) = Cardinality(S)
BY Zenon DEF Library!Cardinality, Cardinality

LEMMA LibrarySafe ==
  LibraryInv => Library!TypeOK /\ Library!OneBatch /\ Library!DoneIsDone /\ Library!PanelAtRest
<1> SUFFICES ASSUME LibraryInv
             PROVE  Library!TypeOK /\ Library!OneBatch /\ Library!DoneIsDone /\ Library!PanelAtRest
  OBVIOUS
<1>0. FlowTypes /\ Gate /\ FollowsJobs /\ OneWorks /\ Library!DoneIsDone /\ Library!PanelAtRest
  BY DEF LibraryInv, FlowInv
<1>1. Library!TypeOK
  BY <1>0 DEF LibraryInv, FlowTypes, Stages, Chosen, Registered, ColumnTyped, DetailTypedSel, Counted, Library!TypeOK
<1>2. Library!OneBatch
  <2> DEFINE W == {b \in Clicks : Library!Working(b)}
  <2>1. \A b \in Clicks : b \in W <=> Working(b)
    BY DEF Working, Library!Working
  <2>2. CASE batchBusy
    <3>1. PICK b \in Clicks : Working(b)
      BY <1>0, <2>2 DEF OneWorks
    <3>2. W = {b}
      BY <1>0, <2>1, <3>1 DEF OneWorks
    <3> HIDE DEF W
    <3>3. Cardinality(W) = 1
      BY <3>2, FS_Singleton
    <3>4. agreed
      BY <1>0, <2>2 DEF Gate
    <3>5. Cardinality(W) = IF batchBusy THEN 1 ELSE 0
      BY <2>2, <3>3
    <3> QED
      BY <3>4, <3>5, SameCardinality, Zenon DEF W, Library!OneBatch
  <2>3. CASE ~batchBusy
    <3>1. W = {}
      BY <1>0, <2>1, <2>3 DEF OneWorks
    <3> HIDE DEF W
    <3>2. Cardinality(W) = 0
      BY <3>1, FS_EmptySet
    <3>3. ~ \E b \in Clicks : Library!Working(b)
      BY <3>1 DEF W
    <3>4. Cardinality(W) = IF batchBusy THEN 1 ELSE 0
      BY <2>3, <3>2
    <3> QED
      BY <3>3, <3>4, SameCardinality, Zenon DEF W, Library!OneBatch
  <2> QED
    BY <2>2, <2>3
<1> QED
  BY <1>0, <1>1, <1>2

-----------------------------------------------------------------------------
(* The search: only its types; what it finds is the score's, a recursion   *)
(* over the text.                                                          *)

LEMMA SearchInit == Search!Init => Search!TypeOK
BY DEF Search!Init, Search!TypeOK, MCInputs

LEMMA SearchNext == Search!TypeOK /\ [Search!Next]_(Search!vars) => Search!TypeOK'
<1> SUFFICES ASSUME Search!TypeOK, [Search!Next]_(Search!vars) PROVE Search!TypeOK'
  OBVIOUS
<1>0. /\ catalog \in MCCatalogs /\ input \in MCInputs /\ feats \in MCLoaded \cup {<<>>}
      /\ open \in BOOLEAN /\ fresh \in BOOLEAN
  BY DEF Search!TypeOK
<1>00. <<>> \in MCInputs
  BY DEF MCInputs
<1>1. CASE Search!Open
  <2>1. UNCHANGED <<catalog, feats, input>> /\ open' = TRUE /\ fresh' = TRUE
    BY <1>1 DEF Search!Open, Search!DoSearch
  <2> QED
    BY <1>0, <2>1 DEF Search!TypeOK
<1>2. CASE Search!Close
  BY <1>0, <1>00, <1>2 DEF Search!Close, Search!TypeOK
<1>3. ASSUME NEW q \in MCInputs, Search!Type(q) PROVE Search!TypeOK'
  <2>1. UNCHANGED <<catalog, feats, open>> /\ input' = q /\ fresh' = TRUE
    BY <1>3 DEF Search!Type, Search!DoSearch
  <2> QED
    BY <1>0, <2>1 DEF Search!TypeOK
<1>4. ASSUME NEW i \in DOMAIN hits, Search!GotoHit(i) PROVE Search!TypeOK'
  <2>1. UNCHANGED <<catalog, feats, input, fresh>> /\ open' = FALSE
    BY <1>4 DEF Search!GotoHit
  <2> QED
    BY <1>0, <2>1 DEF Search!TypeOK
<1>5. ASSUME NEW c \in MCCatalogs, Search!Installed(c) PROVE Search!TypeOK'
  BY <1>0, <1>5 DEF Search!Installed, Search!TypeOK
<1>6. ASSUME NEW v \in Views, Search!Move(v) PROVE Search!TypeOK'
  BY <1>0, <1>6 DEF Search!Move, Search!TypeOK
<1>7. CASE UNCHANGED Search!vars
  BY <1>0, <1>7 DEF Search!vars, Search!TypeOK
<1> QED
  BY <1>1, <1>2, <1>3, <1>4, <1>5, <1>6, <1>7 DEF Search!Next

-----------------------------------------------------------------------------
(* The shell.                                                              *)

ShellInv ==
  /\ part = "library" => LibraryInv
  /\ part = "detail" => DetailInv
  /\ part = "panels" => PanelsInv
  /\ part = "search" => Search!TypeOK

LEMMA ShellInit == Init => ShellInv
BY LibraryInit, DetailInit, PanelsInit, SearchInit DEF Init, ShellInv

LEMMA ShellNext == ShellInv /\ [Next]_vars => ShellInv'
<1> SUFFICES ASSUME ShellInv, [Next]_vars PROVE ShellInv'
  OBVIOUS
<1>1. part' = part
  BY DEF Next, vars
<1>2. CASE part = "library"
  <2>1. [Library!Next]_(Library!vars)
    BY <1>2 DEF Next, vars, Library!vars, Library!registry, Library!choice, Library!gate, Library!busyFlags,
                Library!flows, Library!screen, Library!history
  <2> QED
    BY <1>1, <1>2, <2>1, LibraryNext DEF ShellInv
<1>3. CASE part = "detail"
  <2>1. [Detail!Next]_(Detail!vars)
    BY <1>3 DEF Next, vars, Detail!vars, Detail!preview, Detail!list
  <2> QED
    BY <1>1, <1>3, <2>1, DetailNext DEF ShellInv
<1>4. CASE part = "panels"
  <2>1. [Panels!Next]_(Panels!vars)
    BY <1>4 DEF Next, vars, Panels!vars, Panels!chrome, Panels!pickVars, Panels!inspVars, Panels!partVars, Panels!drag
  <2> QED
    BY <1>1, <1>4, <2>1, PanelsNext DEF ShellInv
<1>5. CASE part = "search"
  <2>1. [Search!Next]_(Search!vars)
    BY <1>5 DEF Next, vars, Search!vars
  <2> QED
    BY <1>1, <1>5, <2>1, SearchNext DEF ShellInv
<1> QED
  BY <1>1, <1>2, <1>3, <1>4, <1>5 DEF ShellInv

LEMMA ShellSafe == ShellInv => TypeOK /\ LibraryIsTrue /\ ToolsLetGo
BY LibrarySafe, PanelsSafe DEF ShellInv, DetailInv, TypeOK, LibraryIsTrue, ToolsLetGo

LEMMA ShellHolds == Spec => []ShellInv
<1> HIDE DEF ShellInv, Init, Next, vars
<1> QED
  BY ShellInit, ShellNext, PTL DEF Spec

(* The state of each component is typed, for any packs, clicks, features   *)
(* and bounds: chart-library.mjs with its detail pane, the panels of       *)
(* chartplotter.mjs, pick-report.mjs and the inspector, search-box.mjs.    *)
THEOREM ShellIsTyped == Spec => []TypeOK
<1> HIDE DEF ShellInv, TypeOK
<1> QED
  BY ShellHolds, ShellSafe, PTL

(* At most one download batch runs, whatever the clicks and the modal, and *)
(* only once the agreement is accepted; what it reports done the server    *)
(* did; the panes at rest show what the panel holds; and the detail shows  *)
(* the selected pack's picture and cells: chart-library.mjs.               *)
THEOREM LibraryStaysTrue == Spec => []LibraryIsTrue
<1> HIDE DEF ShellInv, LibraryIsTrue
<1> QED
  BY ShellHolds, ShellSafe, PTL

(* A tool that ends gives the map back, the highlight is that of the       *)
(* report that shows, whatever is read late, and no overlay outlives its   *)
(* switch: the tools and panels of chartplotter.mjs.                       *)
THEOREM ToolsAlwaysLetGo == Spec => []ToolsLetGo
<1> HIDE DEF ShellInv, ToolsLetGo
<1> QED
  BY ShellHolds, ShellSafe, PTL

=============================================================================
