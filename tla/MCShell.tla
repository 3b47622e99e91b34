------------------------------- MODULE MCShell --------------------------------
(* The shell around the chart: the library dialog and its detail pane, the    *)
(* tools on the map with their panels, and the search.                        *)
EXTENDS Integers, Sequences, FiniteSets

CONSTANTS Noaa, User, Clicks, None, MaxOps, MaxFaults, Cell, MaxShots, MaxCloses, DetailPack,
          Features, BrowseLimit, CellLimit, FeatLimit, Views

VARIABLES part, \* the component this behaviour is one of; the variables of the others rest
          have, off, job, snap, prov, sel, ticked, agreed, modal, batchBusy, uninstalling, at,
          on, packs, reply, column, detail, claimed, made, unheard, abandoned, boxed, ops,
          faults, open, want, img, cache, shots, slot, light, fetched, hidden, boxes, blank,
          closes, drawer, advanced, search, agreement, stack, idx, fills, text, pickHi,
          inspecting, locked, selectingArea, insp, multi, inspHi, box, dragPan, boxZoom,
          free, turning, partOn, partLayer, style, catalog, feats, view, input, hits, fresh

(* What is typed and searched: short texts, and the same past the ninth character, *)
(* where an early match no longer counts.                                          *)
Words(chars, n) == UNION {[1 .. k -> chars] : k \in 1 .. n}
Pad == [i \in 1 .. 9 |-> "x"]
MCTexts == Words({"a", "b", " "}, 4) \cup {Pad \o t : t \in Words({"a", "b", " "}, 3)}
MCInputs == {<<>>, <<"a">>, <<"a", "b", "a">>, <<"a", "b", "b">>} \cup [1 .. 2 -> {"a", "b"}]
MCCoordOf == [q \in MCInputs |-> IF q = <<"a", "a">> THEN 2 ELSE -1]
Chart(l, n, s) == [l |-> l, n |-> n, s |-> s, at |-> s]
Ab  == Chart(<<"a", "b">>, <<"b", "1">>, 0)
BaB == Chart(<<"b", "a", " ", "b">>, <<"a", "2">>, 1)
A_B == Chart(<<"a", " ", "b">>, <<"b", "3">>, 2)
MCCatalogs == {<<>>, <<Ab, BaB, A_B>>, <<A_B, Ab>>}
Named == [name |-> <<"a", "b">>, type |-> <<"b", "b">>, more |-> <<>>, at |-> 1]
Unnamed == [name |-> <<>>, type |-> <<"b", "b">>, more |-> <<<<"b", "a">>, <<"a", "b">>>>, at |-> 2]
MCLoaded == {<<Named, Unnamed, Named>>, <<Unnamed>>}

Library == INSTANCE ChartLibrary
Detail == INSTANCE PackDetail WITH Pack <- DetailPack
Panels == INSTANCE ShellPanels
Search == INSTANCE SearchBox WITH Inputs <- MCInputs, Catalogs <- MCCatalogs,
          Loaded <- MCLoaded, CoordOf <- MCCoordOf, Texts <- MCTexts

ASSUME ConstantsAssumption ==
  Library!LibraryConstants /\ Detail!DetailConstants /\ Panels!PanelConstants

vars == <<part, have, off, job, snap, prov, sel, ticked, agreed, modal, batchBusy, uninstalling,
           at, on, packs, reply, column, detail, claimed, made, unheard, abandoned, boxed, ops,
           faults, open, want, img, cache, shots, slot, light, fetched, hidden, boxes, blank,
           closes, drawer, advanced, search, agreement, stack, idx, fills, text, pickHi,
           inspecting, locked, selectingArea, insp, multi, inspHi, box, dragPan, boxZoom,
           free, turning, partOn, partLayer, style, catalog, feats, view, input, hits, fresh>>
NotLibrary == <<open, want, img, cache, shots, slot, light, fetched, hidden, boxes, blank,
                closes, drawer, advanced, search, agreement, stack, idx, fills, text, pickHi,
                inspecting, locked, selectingArea, insp, multi, inspHi, box, dragPan, boxZoom,
                free, turning, partOn, partLayer, style, catalog, feats, view, input, hits, fresh>>
NotDetail == <<have, off, job, snap, prov, ticked, agreed, modal, batchBusy, uninstalling, at,
               on, packs, reply, column, detail, claimed, made, unheard, abandoned, boxed, ops,
               faults, drawer, advanced, search, agreement, stack, idx, fills, text, pickHi,
               inspecting, locked, selectingArea, insp, multi, inspHi, box, dragPan, boxZoom,
               free, turning, partOn, partLayer, style, catalog, feats, view, input, hits, fresh>>
NotPanels == <<have, off, job, snap, prov, sel, ticked, agreed, modal, batchBusy, uninstalling,
               at, on, packs, reply, column, detail, claimed, made, unheard, abandoned, boxed,
               ops, faults, open, want, img, cache, shots, slot, light, fetched, hidden, boxes,
               blank, closes, catalog, feats, view, input, hits, fresh>>
NotSearch == <<have, off, job, snap, prov, sel, ticked, agreed, modal, batchBusy, uninstalling,
               at, on, packs, reply, column, detail, claimed, made, unheard, abandoned, boxed,
               ops, faults, want, img, cache, shots, slot, light, fetched, hidden, boxes, blank,
               closes, drawer, advanced, search, agreement, stack, idx, fills, text, pickHi,
               inspecting, locked, selectingArea, insp, multi, inspHi, box, dragPan, boxZoom,
               free, turning, partOn, partLayer, style>>

Init ==
  \/ /\ part = "library" /\ Library!Init
     /\ open = 0 /\ want = 0 /\ img = 0 /\ cache = 0 /\ shots = 0 /\ slot = 0 /\ light = 0
     /\ fetched = 0 /\ hidden = 0 /\ boxes = 0 /\ blank = 0 /\ closes = 0 /\ drawer = 0
     /\ advanced = 0 /\ search = 0 /\ agreement = 0 /\ stack = 0 /\ idx = 0 /\ fills = 0
     /\ text = 0 /\ pickHi = 0 /\ inspecting = 0 /\ locked = 0 /\ selectingArea = 0 /\ insp = 0
     /\ multi = 0 /\ inspHi = 0 /\ box = 0 /\ dragPan = 0 /\ boxZoom = 0 /\ free = 0 /\ turning = 0 /\ partOn = 0
     /\ partLayer = 0 /\ style = 0 /\ catalog = 0 /\ feats = 0 /\ view = 0 /\ input = 0
     /\ hits = 0 /\ fresh = 0
  \/ /\ part = "detail" /\ Detail!Init
     /\ have = 0 /\ off = 0 /\ job = 0 /\ snap = 0 /\ prov = 0 /\ ticked = 0 /\ agreed = 0
     /\ modal = 0 /\ batchBusy = 0 /\ uninstalling = 0 /\ at = 0 /\ on = 0 /\ packs = 0
     /\ reply = 0 /\ column = 0 /\ detail = 0 /\ claimed = 0 /\ made = 0 /\ unheard = 0
     /\ abandoned = 0 /\ boxed = 0 /\ ops = 0 /\ faults = 0 /\ drawer = 0 /\ advanced = 0
     /\ search = 0 /\ agreement = 0 /\ stack = 0 /\ idx = 0 /\ fills = 0 /\ text = 0
     /\ pickHi = 0 /\ inspecting = 0 /\ locked = 0 /\ selectingArea = 0 /\ insp = 0
     /\ multi = 0 /\ inspHi = 0 /\ box = 0 /\ dragPan = 0 /\ boxZoom = 0 /\ free = 0 /\ turning = 0 /\ partOn = 0
     /\ partLayer = 0 /\ style = 0 /\ catalog = 0 /\ feats = 0 /\ view = 0 /\ input = 0
     /\ hits = 0 /\ fresh = 0
  \/ /\ part = "panels" /\ Panels!Init
     /\ have = 0 /\ off = 0 /\ job = 0 /\ snap = 0 /\ prov = 0 /\ sel = 0 /\ ticked = 0
     /\ agreed = 0 /\ modal = 0 /\ batchBusy = 0 /\ uninstalling = 0 /\ at = 0 /\ on = 0
     /\ packs = 0 /\ reply = 0 /\ column = 0 /\ detail = 0 /\ claimed = 0 /\ made = 0
     /\ unheard = 0 /\ abandoned = 0 /\ boxed = 0 /\ ops = 0 /\ faults = 0 /\ open = 0
     /\ want = 0 /\ img = 0 /\ cache = 0 /\ shots = 0 /\ slot = 0 /\ light = 0 /\ fetched = 0
     /\ hidden = 0 /\ boxes = 0 /\ blank = 0 /\ closes = 0 /\ catalog = 0 /\ feats = 0
     /\ view = 0 /\ input = 0 /\ hits = 0 /\ fresh = 0
  \/ /\ part = "search" /\ Search!Init
     /\ have = 0 /\ off = 0 /\ job = 0 /\ snap = 0 /\ prov = 0 /\ sel = 0 /\ ticked = 0
     /\ agreed = 0 /\ modal = 0 /\ batchBusy = 0 /\ uninstalling = 0 /\ at = 0 /\ on = 0
     /\ packs = 0 /\ reply = 0 /\ column = 0 /\ detail = 0 /\ claimed = 0 /\ made = 0
     /\ unheard = 0 /\ abandoned = 0 /\ boxed = 0 /\ ops = 0 /\ faults = 0 /\ want = 0
     /\ img = 0 /\ cache = 0 /\ shots = 0 /\ slot = 0 /\ light = 0 /\ fetched = 0 /\ hidden = 0
     /\ boxes = 0 /\ blank = 0 /\ closes = 0 /\ drawer = 0 /\ advanced = 0 /\ search = 0
     /\ agreement = 0 /\ stack = 0 /\ idx = 0 /\ fills = 0 /\ text = 0 /\ pickHi = 0
     /\ inspecting = 0 /\ locked = 0 /\ selectingArea = 0 /\ insp = 0 /\ multi = 0
     /\ inspHi = 0 /\ box = 0 /\ dragPan = 0 /\ boxZoom = 0 /\ free = 0 /\ turning = 0 /\ partOn = 0 /\ partLayer = 0
     /\ style = 0
Next ==
  \/ part = "library" /\ Library!Next /\ UNCHANGED <<part, NotLibrary>>
  \/ part = "detail" /\ Detail!Next /\ UNCHANGED <<part, NotDetail>>
  \/ part = "panels" /\ Panels!Next /\ UNCHANGED <<part, NotPanels>>
  \/ part = "search" /\ Search!Next /\ UNCHANGED <<part, NotSearch>>
Spec == Init /\ [][Next]_vars

(* Each component under the fairness its own module states.                     *)
LibraryStep(A) == part = "library" /\ A /\ UNCHANGED <<part, NotLibrary>>
DetailStep(A) == part = "detail" /\ A /\ UNCHANGED <<part, NotDetail>>
Fairness ==
  /\ \A f \in Library!Flow : WF_vars(LibraryStep(Library!Post(f) \/ Library!Hear(f)))
  /\ \A f \in Library!Flow : WF_vars(LibraryStep(Library!Synced(f)))
  /\ WF_vars(LibraryStep(Library!PostGone))
  /\ \A j \in Library!Jobs : WF_vars(LibraryStep(Library!JobEnds(j)))
  /\ \A s \in Detail!Shot : WF_vars(DetailStep(Detail!Coast(s)))
  /\ \A s \in Detail!Shot : WF_vars(DetailStep(Detail!Finish(s)))
LiveSpec == Spec /\ Fairness
-----------------------------------------------------------------------------
(* The state of each component is typed.                                      *)
TypeOK ==
  /\ part = "library" => Library!TypeOK
  /\ part = "detail" => Detail!TypeOK
  /\ part = "panels" => Panels!TypeOK
  /\ part = "search" => Search!TypeOK

(* At most one batch runs, and with an agreement; what it reports done the    *)
(* server did; the columns and the detail at rest are the state's, and the    *)
(* detail's picture and cells the selected pack's.                            *)
LibraryIsTrue ==
  /\ part = "library" => Library!OneBatch /\ Library!DoneIsDone /\ Library!PanelAtRest
  /\ part = "detail" => Detail!DetailIsSelected

(* A tool that ends gives the map back, the highlight is that of the report   *)
(* that shows, whatever is read late, and no overlay outlives its switch.     *)
ToolsLetGo == part = "panels" => Panels!MapIsHandedBack /\ Panels!ReportIsOne /\ Panels!OverlaySwitched

(* A text matches exactly when it has the characters typed in their order, and*)
(* one that begins with them or holds them at once ranks first; the rows are  *)
(* for what the field holds, and no chart left out matches better.            *)
SearchAnswers == part = "search" => Search!ScoreRanks /\ Search!RowsAnswer

(* The shell hears of every change a flow made, failures included, unless a   *)
(* flow gave up on its job; and the detail's placeholder gives way to a       *)
(* picture while the dialog stays open.                                       *)
ShellCatchesUp == []<>((part = "library" => Library!Heard) /\ (part = "detail" => Detail!Pictured))
=============================================================================
