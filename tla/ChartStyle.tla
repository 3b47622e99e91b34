----------------------------- MODULE ChartStyle -----------------------------
(* The style <chart-canvas> builds itself when no engine does                  *)
(* (chart-style.mjs, _buildStyleJS): its layers and the order they are drawn   *)
(* in; and the updaters that change it in place (setMariner, setScheme,        *)
(* applyFeatureFilters, setBaseFilter, setBandVisible).                        *)
(* A layer's paint, layout and filter are expressions over the display         *)
(* settings; what matters here is which settings they were computed from and   *)
(* when, so an attribute is the values its settings had at that moment.        *)
EXTENDS Integers

CONSTANTS Sets,       \* the server tile sets the shell may ask for
          MaxChanges, \* bound: changes of a setting, a band or the hidden cells
          MaxRebuilds \* bound: rebuilds of the style
VARIABLES
  now,      \* this._mariner and this._active: per setting, one of two values
  cells,    \* this._hiddenCells is not empty
  off,      \* this._bandsHidden
  sets,     \* the active sets, coarse to fine
  basemap,  \* the basemap attribute
  live,     \* the layers on the map
  loading,  \* the style was just set: the map has no layers to update yet
  late,     \* history: a change was made while it loaded ("load"); the style was built
            \* with a band off, or one was switched under it ("band")
  changes, rebuilds
vars == <<now, cells, off, sets, basemap, live, loading, late, changes, rebuilds>>

(* The settings, those every updater treats alike as one: shades for           *)
(* shallowContour, deepContour and fourShadeWater; text for textNames and      *)
(* textOther; category for what applyFeatureFilters alone reacts to.           *)
Setting == {"scheme", "shades", "safetyContour", "safetyDepth", "depthUnit", "shallowPattern",
            "showContourLabels", "showNoData", "showScaleBoundaries", "showOverscale", "showSoundings",
            "showLightDescriptions", "text", "category", "showMetaBounds"}
Band == {"general", "harbor", "all"}
StyleConstants == /\ {"general", "harbor"} \subseteq Sets /\ Sets \subseteq Band
                  /\ {MaxChanges, MaxRebuilds} \subseteq Nat
Rank(b) == CASE b = "general" -> 1 [] b = "harbor" -> 4 [] b = "all" -> 6  \* BAND_RANK
BandMax(b) == CASE b = "general" -> 9 [] b = "harbor" -> 16 [] b = "all" -> 18
Floor(s) == CASE s = "general" -> 7 [] s = "harbor" -> 13 [] s = "all" -> 0 \* the set's minzoom
(* The SCAMIN values of a set, as the zooms they are first shown at.           *)
Scamin(s) == CASE s = "general" -> {5, 12} [] s = "harbor" -> {12, 15} [] s = "all" -> {}
-----------------------------------------------------------------------------
(* The templates, by source layer, and the settings their parts are made of.   *)
ComplexLines == {"complex-lines"}                                 \* complexLineLayers
Under == {"areas", "area_patterns", "shallow-pattern", "lines", "sector-lines", "danger-boundary",
          "safety-contour", "scale-boundaries", "meta-boundary"}  \* buildLayers' fills and lines
Over == {"point_symbols", "point_symbols-north", "soundings", "contour-labels", "drgare-labels", "light-text"}
TextLayers == {"text", "placed-text"} \* the collidable labels, and those a producer placed
Templates == Under \cup ComplexLines \cup Over \cup TextLayers
Raw == {"meta-boundary"} \* _rawFilter: neither combined nor bucketed
SourceLayer(id) ==
  CASE id \in {"areas", "shallow-pattern", "safety-contour", "drgare-labels"} -> "areas"
    [] id \in {"lines", "danger-boundary", "meta-boundary", "contour-labels"} -> "lines"
    [] id \in {"light-text", "text", "placed-text"} -> "text"
    [] id = "area_patterns" -> "area_patterns" [] id = "sector-lines" -> "sector_lines"
    [] id = "scale-boundaries" -> "scale_boundaries" [] id = "complex-lines" -> "complex_lines"
    [] id \in {"point_symbols", "point_symbols-north"} -> "point_symbols" [] id = "soundings" -> "soundings"

Paint(id) == CASE id = "areas" -> {"scheme", "shades", "safetyContour"}
               [] id \in {"area_patterns", "shallow-pattern", "point_symbols", "point_symbols-north", "soundings", "nodata", "overscale"} -> {}
               [] OTHER -> {"scheme"}
Layout(id) == CASE id \in {"point_symbols", "point_symbols-north"} -> {"safetyContour"}
                [] id = "soundings" -> {"safetyDepth", "depthUnit"}
                [] id \in {"contour-labels", "drgare-labels"} -> {"depthUnit"}
                [] OTHER -> {}
Base(id) == CASE id \in {"shallow-pattern", "danger-boundary", "safety-contour"} -> {"safetyContour"}
              [] id \in TextLayers -> {"text", "showLightDescriptions"}
              [] OTHER -> {}
Switch(id) == CASE id = "shallow-pattern" -> "shallowPattern" [] id = "scale-boundaries" -> "showScaleBoundaries"
                [] id = "meta-boundary" -> "showMetaBounds" [] id = "soundings" -> "showSoundings"
                [] id = "contour-labels" -> "showContourLabels" [] id = "light-text" -> "showLightDescriptions"
                [] id = "nodata" -> "showNoData" [] id = "overscale" -> "showOverscale"
                [] OTHER -> "always"
-----------------------------------------------------------------------------
(* The layers over the sets. A template that reads one of these is followed by *)
(* a clone over the SCAMIN half of its source layer (half 2): a group. The     *)
(* true-north symbols join the group of the symbols before them.               *)
ScaminSrc == {"areas", "area_patterns", "lines", "complex_lines", "point_symbols", "text"}
Halves(t) == IF SourceLayer(t) \in ScaminSrc THEN {1, 2} ELSE {1}
With(t) == IF t = "point_symbols" THEN {t, "point_symbols-north"} ELSE {t}
Bucketed(t, h) == t \notin Raw /\ (h = 2 \/ SourceLayer(t) \in {"point_symbols", "soundings", "text", "sector_lines"})
(* One variant per value above the set's floor, and one for the rest.          *)
High(s) == {z \in Scamin(s) : z > Floor(s)}
Buckets(t, h, s) == IF Bucketed(t, h) /\ Scamin(s) # {} THEN {0} \cup High(s) ELSE {0}

(* _pushOverscale: the hatch where a coarse set shows through a finer one.     *)
FinerPresent(s, on) == \E r \in on : r # "all" /\ Rank(r) > Rank(s)
Overscale(s, on) == s # "all" /\ BandMax(s) < 18 /\ FinerPresent(s, on)
Hatch(t, s, on) == IF t = "areas" /\ Overscale(s, on) THEN {[group |-> t, id |-> "overscale", set |-> s, half |-> 1, zoom |-> 99]} ELSE {}

Variants(t, s) == {[group |-> t, id |-> t, set |-> s, half |-> h, zoom |-> z] : h \in Halves(t), z \in {0} \cup Scamin(s)}
Members(t, s, on) == {l \in Variants(t, s) : l.zoom \in Buckets(t, l.half, s)} \cup Hatch(t, s, on)
Group(t, on) == UNION {Members(u, s, on) : u \in With(t), s \in on}
(* Mutant: a template and its clone expand one after the other.                *)
BelowApart(a, b) == \/ a.half < b.half
                    \/ a.half = b.half /\ (Rank(a.set) < Rank(b.set) \/ (a.set = b.set /\ a.zoom < b.zoom))
(* Within a group, drawn after the one before: set coarse to fine, then the    *)
(* members, the hatch right above the set's own fill.                          *)
Below(a, b) == \/ Rank(a.set) < Rank(b.set)
               \/ a.set = b.set /\ (a.half < b.half \/ (a.half = b.half /\ a.zoom < b.zoom))

(* The element's own layers: sea, basemap, no-data hatch.                      *)
Own(base) == {<<id, "own", "whole">> : id \in {"bg", base, "nodata"}}
(* What the updaters address: the id a layer and its clone and variants were   *)
(* registered under (_variants), their set, and whether the layer's own id ends*)
(* in its SCAMIN bucket. The true-north symbols go by the plain ones' id, their*)
(* clone by its own.                                                           *)
Address(l) ==
  <<IF l.id = "point_symbols-north" /\ l.half = 1 THEN "point_symbols" ELSE l.id, l.set,
    IF Bucketed(l.group, l.half) /\ Scamin(l.set) # {} THEN "bucket" ELSE "whole">>
Family(on) == {Address(l) : l \in UNION {Group(t, on) : t \in Templates}}
-----------------------------------------------------------------------------
Of(n, deps) == [k \in deps |-> n[k]]
(* _inVis: every switch is off at value 1 (of showMetaBounds: on hides).       *)
Wanted(id, n, base) == /\ Switch(id) # "always" => n[Switch(id)] = 0
                       /\ id = "nodata" => base = "coastline"
(* _bandOfLayerId reads the band behind the last "@" of a layer's id: behind a *)
(* bucket's "#no" or "#sm<value>" it finds none, and says "all".                *)
BandOf(l) == IF l[3] = "bucket" THEN "all" ELSE l[2]
(* _setVis *)
Shown(l, w, o) == w /\ BandOf(l) \notin o

(* buildChartLayers' variant: base filter, combined filter, and the visibility *)
(* of _variantLayout, which is told the band of its set.                       *)
Fresh(l, n, o, base) ==
  [paint |-> Of(n, Paint(l[1])), ink |-> l[1], layout |-> Of(n, Layout(l[1])), base |-> Of(n, Base(l[1])),
   filter |-> Of(n, {"category", "showMetaBounds"}), cells |-> FALSE,
   want |-> Wanted(l[1], n, base), vis |-> Wanted(l[1], n, base) /\ l[2] \notin o]
(* _buildStyleJS *)
Build(n, o, on, base) == [l \in Family(on) \cup Own(base) |-> Fresh(l, n, o, base)]

Init == /\ now = [k \in Setting |-> 0] /\ cells = FALSE /\ off = {} /\ sets \in {{"general"}, {"general", "harbor"}}
        /\ basemap = "coastline" /\ live = Build(now, {}, sets, "coastline")
        /\ loading = FALSE /\ late = {} /\ changes = 0 /\ rebuilds = 0
TypeOK == /\ now \in [Setting -> 0 .. 1] /\ cells \in BOOLEAN /\ off \subseteq Band /\ sets \subseteq Sets
          /\ basemap \in {"coastline", "osm", "osmvec"}
          /\ \A l \in DOMAIN live : live[l].vis \in BOOLEAN
          /\ loading \in BOOLEAN /\ late \subseteq {"load", "band"}
          /\ changes \in 0 .. MaxChanges /\ rebuilds \in 0 .. MaxRebuilds
-----------------------------------------------------------------------------
Is(l, ids) == l[1] \in ids
(* combineFilters: the settings of every filter, and the hidden cells.         *)
Combine(r, n, c) == [r EXCEPT !.filter = Of(n, {"category", "showMetaBounds"}), !.cells = c]
Filtered(l) == l[2] # "own" /\ ~Is(l, Raw \cup {"overscale"}) \* _layerBase

(* setBaseFilter writes one base to every variant of a layer.                  *)
SetBase(r, l, n, c) == Combine([r EXCEPT !.base = Of(n, Base(l[1]))], n, c)

(* setMariner, one settings at a time, in its own order of tests.              *)
Paints(k) == IF k \in {"shades", "safetyContour"} THEN {"areas"} ELSE {}
(* Mutant: the labels of dredged areas keep their unit.                        *)
LayoutsButDredged(k) == CASE k = "safetyDepth" -> {"soundings"}
                          [] k = "depthUnit" -> {"soundings", "contour-labels"}
                          [] k = "safetyContour" -> {"point_symbols"}
                          [] OTHER -> {}
Layouts(k) == CASE k = "safetyDepth" -> {"soundings"}
                [] k = "depthUnit" -> {"soundings", "contour-labels", "drgare-labels"}
                [] k = "safetyContour" -> {"point_symbols"}
                [] OTHER -> {}
Bases(k) == CASE k = "safetyContour" -> {"shallow-pattern", "safety-contour", "danger-boundary"}
              [] k \in {"text", "showLightDescriptions"} -> {"text"}
              [] OTHER -> {}
Shows(k) == CASE k = "shallowPattern" -> {"shallow-pattern"} [] k = "showContourLabels" -> {"contour-labels"}
              [] k = "showNoData" -> {"nodata"} [] k = "showScaleBoundaries" -> {"scale-boundaries"}
              [] k = "showOverscale" -> {"overscale"} [] k = "showSoundings" -> {"soundings"}
              [] k = "showLightDescriptions" -> {"light-text"} [] OTHER -> {}
Reapplies(k) == k \in {"category", "showMetaBounds"}

Updated(r, l, k, n) ==
  LET p == IF Is(l, Paints(k)) THEN [r EXCEPT !.paint = Of(n, Paint(l[1]))] ELSE r
      q == IF Is(l, Layouts(k)) THEN [p EXCEPT !.layout = Of(n, Layout(l[1]))] ELSE p
      b == IF Is(l, Bases(k)) THEN SetBase(q, l, n, cells) ELSE q
      v == IF Is(l, Shows(k)) THEN [b EXCEPT !.want = (n[k] = 0), !.vis = Shown(l, n[k] = 0, off)] ELSE b
  IN IF Reapplies(k) /\ Filtered(l) THEN Combine(v, n, cells) ELSE v

(* setScheme: the ids it names; drgare-labels get the colour of other labels.  *)
Recoloured == {"areas", "lines", "safety-contour", "danger-boundary", "contour-labels", "drgare-labels",
               "complex-lines", "text", "light-text", "bg", "coastline", "osm"}
Recolour(r, l, n) == IF ~Is(l, Recoloured) THEN r
                     ELSE [r EXCEPT !.paint = Of(n, Paint(l[1])), !.ink = IF Is(l, {"drgare-labels"}) THEN "text" ELSE @]

(* In-place changes reach only a style that has loaded.                        *)
Touch(new) == /\ changes < MaxChanges /\ changes' = changes + 1
              /\ late' = late \cup {w \in {"load"} : loading} \cup {w \in {"band"} : off' # off}
              /\ live' = IF loading THEN live ELSE new
              /\ UNCHANGED <<sets, basemap, loading, rebuilds>>
SetMariner(k) ==
  /\ k # "scheme" /\ now' = [now EXCEPT ![k] = 1 - @] /\ UNCHANGED <<cells, off>>
  /\ Touch([l \in DOMAIN live |-> Updated(live[l], l, k, now')])
SetScheme ==
  /\ now' = [now EXCEPT !["scheme"] = 1 - @] /\ UNCHANGED <<cells, off>>
  /\ Touch([l \in DOMAIN live |-> Recolour(live[l], l, now')])
SetHiddenCells ==
  /\ cells' = ~cells /\ UNCHANGED <<now, off>>
  /\ Touch([l \in DOMAIN live |-> IF Filtered(l) THEN Combine(live[l], now, cells') ELSE live[l]])
(* setBandVisible restores what the settings want of each layer of the band;   *)
(* the shell switches the usage bands, never "all" (DEV_BANDS).                *)
SetBandVisible(b) ==
  /\ off' = IF b \in off THEN off \ {b} ELSE off \cup {b}
  /\ Touch([l \in DOMAIN live |-> IF BandOf(l) = b THEN [live[l] EXCEPT !.vis = Shown(l, live[l].want, off')] ELSE live[l]])
  /\ UNCHANGED <<now, cells>>

(* setServerSets, setBasemap and setPxPitch: a style built anew.               *)
Rebuild(on, base) ==
  /\ rebuilds < MaxRebuilds /\ rebuilds' = rebuilds + 1
  /\ live' = Build(now, off, on, base) /\ loading' = TRUE /\ late' = {w \in {"band"} : off # {}}
  /\ UNCHANGED <<now, cells, off, changes>>
SetServerSets(on) == on # sets /\ sets' = on /\ Rebuild(on, basemap) /\ UNCHANGED basemap
SetBasemap(m) == m # basemap /\ basemap' = m /\ Rebuild(sets, m) /\ UNCHANGED sets
SetPxPitch == Rebuild(sets, basemap) /\ UNCHANGED <<sets, basemap>>
Loaded == loading /\ loading' = FALSE /\ UNCHANGED <<now, cells, off, sets, basemap, live, late, changes, rebuilds>>

Next == \/ \E k \in Setting : SetMariner(k)
        \/ SetScheme \/ SetHiddenCells \/ SetPxPitch \/ Loaded
        \/ \E b \in Band \ {"all"} : SetBandVisible(b)
        \/ \E on \in SUBSET Sets : SetServerSets(on)
        \/ \E m \in {"coastline", "osm", "osmvec"} : SetBasemap(m)
Spec == Init /\ [][Next]_vars
-----------------------------------------------------------------------------
(* What the updaters are known to leave behind until the next rebuild.         *)
Unpainted(l) == Is(l, {"sector-lines", "scale-boundaries", "meta-boundary", "placed-text", "osmvec", "drgare-labels"})
Unfiltered(l) == Is(l, {"placed-text", "overscale"}) \/ l[2] = "own" \/ Is(l, Raw)
Unlaid(l) == Is(l, {"point_symbols-north"})
Unswitched(l) == Is(l, {"meta-boundary"}) \/ (Is(l, {"nodata"}) /\ basemap # "coastline")

(* A style changed in place, by any changes in any order and across rebuilds,  *)
(* shows what a style built from the current settings would: each layer's      *)
(* colours, images, filters and visibility, a band that is off included: but   *)
(* SCAMIN buckets do not follow their band, so once a band has been off all    *)
(* that is said of them is that none is shown against its own switch.          *)
UpdatersMatchRebuild ==
  "load" \notin late => \A l \in DOMAIN live : LET r == live[l] f == Fresh(l, now, off, basemap) IN
    /\ ~Unpainted(l) => r.paint = f.paint
    /\ ~Unlaid(l) => r.layout = f.layout
    /\ ~Unfiltered(l) => r.base = f.base /\ r.filter = f.filter
    /\ ~Unswitched(l) =>
         IF l[3] = "bucket" /\ "band" \in late THEN r.vis => Wanted(l[1], now, basemap)
         ELSE r.vis = (Wanted(l[1], now, basemap) /\ l[2] \notin off)

(* In drawing order a finer set's fills are over every coarser set's, its      *)
(* SCAMIN half included, so coarse land never hides fine water; and the        *)
(* overscale hatch is there exactly where a finer set may leave a hole,        *)
(* beneath that set's fill.  The map's layers are of the sets asked for.       *)
FinerOnTop ==
  LET over == Group("areas", sets)
      fills == {l \in over : l.id = "areas"} hatched == over \ fills
  IN /\ \A l \in DOMAIN live : l[2] \in sets \cup {"own"}
     /\ \A a \in over, b \in fills : Rank(a.set) < Rank(b.set) => Below(a, b)
     /\ \A a \in hatched, b \in fills : a.set = b.set /\ b.half = 1 => Below(b, a)
     /\ {a.set : a \in hatched} = {s \in sets \ {"all"} : \E r \in sets \ {"all"} : Rank(r) > Rank(s)}
=============================================================================
