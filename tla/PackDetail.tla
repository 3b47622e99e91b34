----------------------------- MODULE PackDetail -----------------------------
(* The detail pane of the chart library (plugins/chart-library.mjs): the       *)
(* picture of a pack's coverage, taken once with a map off the screen, and the *)
(* list of its cells with a box each, which for an imported pack waits for     *)
(* GET /api/pack/<name>.                                                       *)
EXTENDS Naturals, FiniteSets

CONSTANTS Pack,     \* catalogue packs, whose coverage is drawn
          User,     \* an imported pack, without a picture
          Cell,     \* the cells of a pack
          None,
          MaxShots, \* bound: pictures being taken at a time, per pack
          MaxCloses \* bound: times the drawer is closed

DetailConstants ==
  User \notin Pack /\ {None, "wait"} \cap Pack = {} /\ None \notin {User, "wait"} /\ {MaxShots, MaxCloses} \subseteq Nat

VARIABLES
  open,     \* the drawer shows the library
  sel,      \* _selPack
  want,     \* _previewKey
  img,      \* what #preview-map holds: None, "wait" or a pack
  cache,    \* _previewCache: packs with a picture
  shots,    \* pictures being taken: [pack, at: "coast" or "map", cut], a bag
  slot,     \* the pack of _snapMap
  light,    \* _lightbox
  fetched,  \* the imported pack's cell list: "none", "asked" or "have"
  hidden,   \* _hiddenCells
  boxes,    \* the boxes of the pane: per cell "on" or "off", none without a list
  blank,    \* history: packs whose picture was of a map already removed
  closes

preview == <<want, img, cache, shots, slot, light, blank>>
list == <<fetched, hidden, boxes>>
vars == <<open, sel, preview, list, closes>>

Shot == [pack : Pack, at : {"coast", "map"}, cut : BOOLEAN]
Total(k) == LET n(s) == shots[s] IN n([pack |-> k, at |-> "coast", cut |-> FALSE])
            + n([pack |-> k, at |-> "map", cut |-> FALSE]) + n([pack |-> k, at |-> "map", cut |-> TRUE])
Add(b, s) == [b EXCEPT ![s] = @ + 1]
Move(b, s, t) == [b EXCEPT ![s] = @ - 1, ![t] = @ + 1]

TypeOK == /\ open \in BOOLEAN /\ sel \in Pack \cup {User, None} /\ want \in Pack \cup {None}
          /\ img \in Pack \cup {None, "wait"} /\ cache \subseteq Pack /\ blank \subseteq Pack
          /\ shots \in [Shot -> 0 .. MaxShots] /\ slot \in Pack \cup {None} /\ light \in Pack \cup {None}
          /\ fetched \in {"none", "asked", "have"} /\ hidden \subseteq Cell
          /\ boxes \in [Cell -> {"on", "off"}] \cup {<<>>} /\ closes \in 0 .. MaxCloses

Init == /\ open = TRUE /\ sel = None /\ want = None /\ img = None /\ cache = {}
        /\ shots = [s \in Shot |-> 0] /\ slot = None /\ light = None
        /\ fetched = "none" /\ hidden \in SUBSET Cell /\ boxes = <<>> /\ blank = {} /\ closes = 0
-----------------------------------------------------------------------------
(* _renderPreview: the kept picture, or a placeholder and a new picture.       *)
Picture(k) ==
  IF k \in Pack
  THEN /\ want' = k
       /\ IF k \in cache THEN img' = k /\ UNCHANGED shots
          ELSE /\ img' = "wait" /\ Total(k) < MaxShots
               /\ shots' = Add(shots, [pack |-> k, at |-> "coast", cut |-> FALSE])
  ELSE want' = None /\ img' = None /\ UNCHANGED shots

(* _packCellItems: a box per installed cell of the pack.                       *)
Listed(k, h, f) == IF k = None \/ (k = User /\ f # "have") THEN <<>>
                   ELSE [c \in Cell |-> IF c \in h THEN "off" ELSE "on"]

(* _updateDetail and render: both build the pane anew.                         *)
Rebuild(k, h, f) == boxes' = Listed(k, h, f) /\ Picture(k)

(* _selectPack; an imported pack's cells are asked for once.                   *)
Select(k) == /\ open /\ k # sel /\ sel' = k
             /\ fetched' = IF k = User /\ fetched = "none" THEN "asked" ELSE fetched
             /\ Rebuild(k, hidden, fetched)
             /\ UNCHANGED <<open, cache, slot, light, blank, hidden, closes>>
(* refresh: what ends a download, a switch or a sync.                          *)
Render == /\ open /\ Rebuild(sel, hidden, fetched)
          /\ UNCHANGED <<open, sel, cache, slot, light, blank, fetched, hidden, closes>>
(* _ensurePackDetail's answer: only a pane that still shows the pack is built. *)
Answer == /\ fetched = "asked" /\ fetched' = "have"
          /\ IF sel = User THEN Rebuild(User, hidden, "have") ELSE UNCHANGED <<boxes, want, img, shots>>
          /\ UNCHANGED <<open, sel, cache, slot, light, blank, hidden, closes>>
NoAnswer == /\ fetched = "asked" /\ fetched' = "none"
            /\ UNCHANGED <<open, sel, preview, hidden, boxes, closes>>
-----------------------------------------------------------------------------
(* _snapshotPreview, once the coastline is there: the map is made and its      *)
(* picture taken when it is idle, after 2.5 s at the latest.                   *)
Coast(s) == /\ s.at = "coast" /\ shots[s] > 0
            /\ shots' = Move(shots, s, [s EXCEPT !.at = "map"]) /\ slot' = s.pack
            /\ UNCHANGED <<open, sel, want, img, cache, light, blank, list, closes>>

Paint(k) == img' = IF want = k THEN k ELSE img

(* Mutant: the timeout finishes a picture once more.                           *)
AnyShot(s) == TRUE
Unfinished(s) == shots[s] > 0
(* finish: the slot is let go when it is this shot's (two of one pack are not  *)
(* told apart); a map that was removed before gives no picture, or an   *)
(* empty one.                                                                  *)
Finish(s) ==
  /\ s.at = "map" /\ Unfinished(s) /\ shots' = [shots EXCEPT ![s] = @ - 1]
  /\ \/ slot = s.pack /\ ~s.cut /\ slot' = None
     \/ (slot # s.pack \/ s.cut \/ shots[s] > 1) /\ UNCHANGED slot
  /\ \/ /\ cache' = cache \cup {s.pack} /\ Paint(s.pack)
        /\ blank' = IF s.cut THEN blank \cup {s.pack} ELSE blank
     \/ s.cut /\ UNCHANGED <<cache, img, blank>>
  /\ UNCHANGED <<open, sel, want, light, list, closes>>
-----------------------------------------------------------------------------
Enlarge == /\ open /\ img \in Pack /\ light = None /\ light' = img
           /\ UNCHANGED <<open, sel, want, img, cache, shots, slot, blank, list, closes>>
Shrink == /\ light # None /\ light' = None
          /\ UNCHANGED <<open, sel, want, img, cache, shots, slot, blank, list, closes>>

(* teardownPreview: the map in the slot is removed, others are not.            *)
Cut(k) == LET s == [pack |-> k, at |-> "map", cut |-> FALSE]
          IN IF shots[s] > 0 THEN Move(shots, s, [s EXCEPT !.cut = TRUE]) ELSE shots
Close == /\ open /\ closes < MaxCloses /\ closes' = closes + 1 /\ open' = FALSE /\ light' = None
         /\ slot' = None /\ shots' = IF slot = None THEN shots ELSE Cut(slot)
         /\ UNCHANGED <<sel, want, img, cache, blank, list>>
(* show() keeps the selection when it is given no provider.                    *)
Open == /\ ~open /\ open' = TRUE /\ Rebuild(sel, hidden, fetched)
        /\ UNCHANGED <<sel, cache, slot, light, blank, fetched, hidden, closes>>

(* One box; all boxes, in place so that the list keeps its scroll position.    *)
SetCell(c, on) ==
  /\ open /\ boxes # <<>>
  /\ hidden' = IF on THEN hidden \ {c} ELSE hidden \cup {c}
  /\ boxes' = [boxes EXCEPT ![c] = IF on THEN "on" ELSE "off"]
  /\ UNCHANGED <<open, sel, preview, fetched, closes>>
SetAll(on) ==
  /\ open /\ boxes # <<>>
  /\ hidden' = IF on THEN hidden \ Cell ELSE hidden \cup Cell
  /\ boxes' = [c \in Cell |-> IF on THEN "on" ELSE "off"]
  /\ UNCHANGED <<open, sel, preview, fetched, closes>>

Next == \/ \E k \in Pack \cup {User} : Select(k)
        \/ Render \/ Answer \/ NoAnswer \/ Enlarge \/ Shrink \/ Close \/ Open
        \/ \E s \in Shot : Coast(s) \/ Finish(s)
        \/ \E c \in Cell, on \in BOOLEAN : SetCell(c, on)
        \/ \E on \in BOOLEAN : SetAll(on)
Spec == Init /\ [][Next]_vars
Fairness == \A s \in Shot : WF_vars(Coast(s)) /\ WF_vars(Finish(s))
LiveSpec == Spec /\ Fairness
-----------------------------------------------------------------------------
(* The pane shows the selected pack's own picture and boxes, however slow the  *)
(* pictures and the cell list are and whatever is selected meanwhile; and a    *)
(* map kept in the slot is one still at work.                                  *)
DetailIsSelected ==
  /\ img \in Pack => img = sel
  /\ slot # None => shots[[pack |-> slot, at |-> "map", cut |-> FALSE]] > 0
  /\ open => boxes = Listed(sel, hidden, fetched)

(* The placeholder gives way to a picture while the drawer stays open.         *)
Pictured == ~open \/ img # "wait"
=============================================================================
