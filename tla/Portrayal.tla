----------------------------- MODULE Portrayal ------------------------------
(* The display filters and expressions of s52-style.mjs: which features of a   *)
(* tile the mariner's settings show, and how.  A filter is the predicate the   *)
(* map evaluates on a feature; a property the baker left out is "no".          *)
EXTENDS Integers, FiniteSets

CONSTANTS Depth, \* depths of contours, areas and dangers, naturals
          Day    \* month-days of the date periods, naturals
PortrayalConstants == /\ Depth \subseteq Nat /\ {1, 2, 3} \subseteq Depth
                      /\ Day \subseteq 0 .. 9 /\ 1 \in Day
VARIABLES
  feature, \* the feature being drawn
  mariner  \* this._mariner
vars == <<feature, mariner>>

No == -1 \* a property a feature does not have
Has(v) == v # No
Coalesce(v, d) == IF Has(v) THEN v ELSE d
(* Features: a depth area, a danger, a sounding, a dated object, a text.       *)
Area == [kind : {"area"}, drval1 : Depth \cup {No}, drval2 : Depth \cup {No}]
Danger == [kind : {"danger"}, depth : Depth \cup {No}]
Period == [kind : {"dated"}, recurring : {No, 0, 1}, start : Day \cup {No}, end : Day \cup {No}]
Text == [kind : {"text"}, class : {"LIGHTS", "NEWOBJ", "other"}, tgrp : {No, 11, 21, 23, 25}]
Object == {o \in [kind : {"object"}, cat : 0 .. 2, class : {"M_QUAL", "M_COVR", "other"},
                  symbol : {"ISODGR01", "INFORM01", "CHDATD01", "other"},
                  vg : {No, 1}, bnd : {No, 0, 1}, pts : {No, 0, 1}, sleg : {No, 0, 1}] :
             /\ o.class = "other" \/ o.symbol = "other"
             /\ Cardinality({k \in {"vg", "bnd", "pts", "sleg"} : Has(o[k])}) <= 1} \* one tag at a time
Switch == {"displayBase", "displayStandard", "displayOther", "dataQuality", "textNames", "textOther",
           "showLightDescriptions", "showMetaBounds", "showInformCallouts", "highlightDateDependent"}
Choice == {"boundaryStyle", "simplifiedPoints", "showFullSectorLines", "showIsolatedDangersShallow",
           "fourShadeWater", "feet", "dateDependent", "viewingGroupOff"}
-----------------------------------------------------------------------------
(* SEABED01 as a case over the area's bounds (seabedTokenExpr).                *)
Token(a) ==
  LET d1 == Coalesce(a.drval1, -1) d2 == Coalesce(a.drval2, 0)
      Reaches(x) == d1 >= x /\ d2 > x
  IN IF ~mariner.on["fourShadeWater"]
     THEN IF Reaches(mariner.safety) THEN "DEPDW" ELSE IF Reaches(0) THEN "DEPVS" ELSE "DEPIT"
     ELSE IF Reaches(mariner.deep) THEN "DEPDW" ELSE IF Reaches(mariner.safety) THEN "DEPMD"
     ELSE IF Reaches(mariner.shallow) THEN "DEPMS" ELSE IF Reaches(0) THEN "DEPVS" ELSE "DEPIT"
(* Mutant: an area that only touches the contour counts as safe.               *)
ShallowPatternLoose(a) == Has(a.drval1) /\ ~(a.drval1 >= mariner.safety /\ Coalesce(a.drval2, a.drval1) >= mariner.safety)
ShallowPattern(a) == Has(a.drval1) /\ ~(a.drval1 >= mariner.safety /\ Coalesce(a.drval2, a.drval1) > mariner.safety)
SafetyContour(a) == Has(a.drval1) /\ a.drval1 < mariner.safety /\ Coalesce(a.drval2, a.drval1) >= mariner.safety
(* pointSymbolImage, dangerBoundaryFilter, soundingsIconImage.                 *)
DeepSymbol(d) == Coalesce(d.depth, 0) > mariner.safety
DangerBoundary(d) == Has(d.depth) /\ d.depth <= mariner.safety
Bold(d) == IF mariner.on["feet"] THEN Coalesce(d.depth, 0) <= mariner.safetyDepth
           ELSE IF Coalesce(d.depth, 0) <= mariner.safetyDepth THEN TRUE ELSE FALSE
-----------------------------------------------------------------------------
(* A day of the year, or with its year, as the period compares.                *)
Today(p) == IF p.recurring = 1 THEN mariner.day ELSE 10 * mariner.year + mariner.day
Bound(p, d) == IF p.recurring = 1 THEN d ELSE 10 + d
Within(p, hasS, hasE) ==
  LET t == Today(p) s == Bound(p, p.start) e == Bound(p, p.end)
  IN IF hasS /\ hasE THEN IF s <= e THEN t >= s /\ t <= e ELSE t >= s \/ t <= e
     ELSE IF hasS THEN t >= s ELSE IF hasE THEN t <= e ELSE TRUE
DateFilter(p) == ~Has(p.recurring) \/ Within(p, Has(p.start), Has(p.end))

(* categoryFilter: quality features follow their own toggle alone, isolated    *)
(* dangers the category chosen for them.                                       *)
Category(o) ==
  LET en == {c \in 0 .. 2 : mariner.on[CASE c = 0 -> "displayBase" [] c = 1 -> "displayStandard" [] c = 2 -> "displayOther"]}
      cat == IF o.symbol = "ISODGR01" THEN IF mariner.on["showIsolatedDangersShallow"] THEN 1 ELSE 0 ELSE o.cat
      qual == o.class = "M_QUAL"
  IN (mariner.on["dataQuality"] /\ qual) \/ (cat \in en /\ ~qual)
Boundary(o) == Coalesce(o.bnd, 2) \in {2, IF mariner.on["boundaryStyle"] THEN 0 ELSE 1}
PointStyle(o) == Coalesce(o.pts, 2) \in {2, IF mariner.on["simplifiedPoints"] THEN 1 ELSE 0}
SectorLeg(o) == Coalesce(o.sleg, 2) \in {2, IF mariner.on["showFullSectorLines"] THEN 1 ELSE 0}
ViewingGroup(o) == ~Has(o.vg) \/ ~mariner.on["viewingGroupOff"]
(* combineFilters, for an undated feature.                                     *)
Combine(o) ==
  /\ Category(o) /\ Boundary(o) /\ PointStyle(o) /\ SectorLeg(o) /\ ViewingGroup(o)
  /\ ~mariner.on["highlightDateDependent"] => o.symbol # "CHDATD01"
  /\ ~mariner.on["showInformCallouts"] => o.symbol # "INFORM01"
  /\ ~mariner.on["showMetaBounds"] => o.class # "M_COVR"

(* textGroupFilter, and the layers that draw a text.                           *)
TextGroup(t) ==
  \/ t.tgrp = 11
  \/ mariner.on["textNames"] /\ t.tgrp = 21
  \/ mariner.on["showLightDescriptions"] /\ t.tgrp = 23
  \/ mariner.on["textOther"] /\ t.tgrp \notin {11, 21, 23}
DrawnBy(t) == {l \in {"text", "placed-text", "light-text"} :
  CASE l = "text" -> t.class \notin {"LIGHTS", "NEWOBJ"} /\ TextGroup(t)
    [] l = "placed-text" -> t.class = "NEWOBJ" /\ TextGroup(t)
    [] l = "light-text" -> t.class = "LIGHTS" /\ mariner.on["showLightDescriptions"]}
-----------------------------------------------------------------------------
Feature == Area \cup Danger \cup Period \cup Text \cup Object
Mariner(on) == [on |-> on, shallow |-> 1, safety |-> 2, deep |-> 3, safetyDepth |-> 2, day |-> 1, year |-> 1]
Init == /\ feature \in Feature
        /\ mariner = Mariner([k \in Switch \cup Choice |-> k \in {"displayBase", "displayStandard", "textNames", "textOther",
               "showLightDescriptions", "fourShadeWater", "dateDependent"}])
TypeOK == /\ feature \in Feature /\ DOMAIN mariner.on = Switch \cup Choice
          /\ {mariner.shallow, mariner.safety, mariner.deep, mariner.safetyDepth} \subseteq Depth /\ mariner.day \in Day /\ mariner.year \in 0 .. 2
(* What a feature depends on is all that is varied for it.                     *)
TextSwitch == {"textNames", "textOther", "showLightDescriptions"}
Relevant == CASE feature.kind = "area" -> {"fourShadeWater"}
              [] feature.kind = "danger" -> {"feet"}
              [] feature.kind = "dated" -> {"dateDependent"}
              [] feature.kind = "text" -> TextSwitch
              [] feature.kind = "object" -> (Switch \ TextSwitch) \cup {"showIsolatedDangersShallow"}
                   \cup {k \in {"boundaryStyle", "simplifiedPoints", "showFullSectorLines", "viewingGroupOff"} :
                          Has(feature[CASE k = "boundaryStyle" -> "bnd" [] k = "simplifiedPoints" -> "pts"
                                  [] k = "showFullSectorLines" -> "sleg" [] k = "viewingGroupOff" -> "vg"])}
Toggle(k) == k \in Relevant /\ mariner' = [mariner EXCEPT !.on[k] = ~@] /\ UNCHANGED feature
SetContours(a, b, c) == feature.kind \in {"area", "danger"} /\ a <= b /\ b <= c
                        /\ mariner' = [mariner EXCEPT !.shallow = a, !.safety = b, !.deep = c] /\ UNCHANGED feature
SetSafetyDepth(d) == feature.kind = "danger" /\ mariner' = [mariner EXCEPT !.safetyDepth = d] /\ UNCHANGED feature
ViewDate(y, d) == feature.kind = "dated" /\ mariner' = [mariner EXCEPT !.year = y, !.day = d] /\ UNCHANGED feature
Next == \/ \E k \in Switch \cup Choice : Toggle(k)
        \/ \E a, b, c \in Depth : SetContours(a, b, c)
        \/ \E d \in Depth : SetSafetyDepth(d)
        \/ \E y \in 0 .. 2, d \in Day : ViewDate(y, d)
Spec == Init /\ [][Next]_vars
-----------------------------------------------------------------------------
(* The four ways the chart says "shallower than the safety contour" agree:     *)
(* the shade, the pattern, the contour line and the danger symbols; bold       *)
(* soundings are the same in both units.                                       *)
SafetyAgrees ==
  /\ feature.kind = "area" /\ Has(feature.drval1) /\ Has(feature.drval2) =>
       /\ ShallowPattern(feature) <=> Token(feature) \notin (IF mariner.on["fourShadeWater"] THEN {"DEPDW", "DEPMD"} ELSE {"DEPDW"})
       /\ SafetyContour(feature) => ShallowPattern(feature)
  /\ feature.kind = "danger" /\ Has(feature.depth) => (DangerBoundary(feature) <=> ~DeepSymbol(feature)) /\ (Bold(feature) <=> feature.depth <= mariner.safetyDepth)

(* _inDatePeriod, the reference s52-style.mjs keeps beside its expression: a   *)
(* feature is shown on the days of its period, which may pass New Year.        *)
InDatePeriod(p) ==
  LET Days == IF p.recurring = 1 THEN {d \in Day : IF Has(p.start) /\ Has(p.end) /\ p.start > p.end
                                         THEN d >= p.start \/ d <= p.end
                                         ELSE (Has(p.start) => d >= p.start) /\ (Has(p.end) => d <= p.end)}
              ELSE {}
      After(y, d, s) == y > 1 \/ (y = 1 /\ d >= s)
      Before(y, d, e) == y < 1 \/ (y = 1 /\ d <= e)
  IN CASE p.recurring = No -> TRUE
       [] p.recurring = 1 -> mariner.day \in Days
       [] p.recurring = 0 ->
            IF Has(p.start) /\ Has(p.end) /\ p.start > p.end THEN After(mariner.year, mariner.day, p.start) \/ Before(mariner.year, mariner.day, p.end)
            ELSE (Has(p.start) => After(mariner.year, mariner.day, p.start)) /\ (Has(p.end) => Before(mariner.year, mariner.day, p.end))
DatesAsReference == feature.kind = "dated" /\ mariner.on["dateDependent"] => (DateFilter(feature) <=> InDatePeriod(feature))

(* Text the mariner has not turned off is drawn by exactly one layer, text     *)
(* that is important (group 11) always.                                        *)
LabelsOnce == feature.kind = "text" =>
  /\ Cardinality(DrawnBy(feature)) <= 1
  /\ feature.tgrp = 11 /\ feature.class # "LIGHTS" => DrawnBy(feature) # {}
  /\ (\A k \in TextSwitch : mariner.on[k]) => DrawnBy(feature) # {}

(* Turning a display item on never hides a feature.                            *)
AddsOnly == \A k \in Switch : ~mariner.on[k] /\ mariner'.on[k] =>
  /\ feature.kind = "object" => (Combine(feature) => Combine(feature)')
  /\ feature.kind = "text" => DrawnBy(feature) \subseteq DrawnBy(feature)'
(* Data quality is shown when its own toggle says so, whatever Other says.     *)
QualityIsItsOwn == feature.kind = "object" /\ feature.class = "M_QUAL" /\ ~mariner.on["dataQuality"] => ~Combine(feature)
=============================================================================
