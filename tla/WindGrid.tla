------------------------------ MODULE WindGrid ------------------------------
(* What the wind overlay shows of its documents: the grids interpolated for    *)
(* the scrubbed time, and samples of them and of the raw planes. Two pieces of *)
(* code interpolate: the chart's readout from the grids (_setStep, _sample),   *)
(* the forecast strip from the planes (_docSample, _sampleAt). One row of a    *)
(* grid stands for all: latitude is treated as longitude is, except that it    *)
(* never wraps. Times are quarters of an hour, places half columns, positions  *)
(* between steps quarters; NaN is -1 and a wind a multiple of 32, so that      *)
(* every interpolation is exact.                                               *)
EXTENDS Integers, Sequences, FiniteSets

CONSTANTS None,
          Wind,  \* the winds of a plane
          Shifts \* times of the base document's cycle; the fine one's is at 4
GridConstants ==
  /\ \A w \in Wind : w \in Nat /\ w % 32 = 0
  /\ Shifts \subseteq Nat /\ None \notin [lo : {0}, u : [{0, 1} -> Int]]

VARIABLES
  base, \* _doc
  fine, \* _hi, None, or a document
  frac, \* _frac
  pos   \* the place read out
vars == <<base, fine, frac, pos>>

NaN == -1
Finite(x) == x # NaN
Mix(a, b, n, d) == IF a = NaN \/ b = NaN THEN NaN ELSE (a * (d - n) + b * n) \div d
Least(a, b) == IF a <= b THEN a ELSE b
Most(a, b) == IF a <= b THEN b ELSE a
Clamp(x, lo, hi) == Most(lo, Least(hi, x))
Turn == 8 \* the half columns of 360 degrees
-----------------------------------------------------------------------------
(* A document: its cycle's time, the place of its first column, and its steps. *)
Cols(doc) == Cardinality(DOMAIN doc.steps[1].u)
Global(doc) == 2 * Cols(doc) >= Turn
(* parseWindBin: a plane whose ends are both NaN counts as absent.             *)
Absent == [x \in {} |-> 0]
Parsed(plane) == LET n == Cardinality(DOMAIN plane)
                 IN IF plane[0] = NaN /\ plane[n - 1] = NaN THEN Absent ELSE plane

(* _sampleGrid: bilinear, wrapping when the grid spans the planet; between x   *)
(* and its right neighbour one NaN spoils it, even at weight 0.                *)
SampleGrid(g, p) ==
  LET n == Cardinality(DOMAIN g.u)
      glob == 2 * n >= Turn
      f == IF glob THEN (p - g.lo) % (2 * n) ELSE p - g.lo
      x == f \div 2
      y == IF glob THEN (x + 1) % n ELSE Least(x + 1, n - 1)
  IN IF ~glob /\ (f < 0 \/ f > 2 * (n - 1)) THEN NaN ELSE Mix(g.u[x], g.u[y], f % 2, 2)
(* _docArr: likewise, without the wrap.                                        *)
DocArr(doc, plane, p) ==
  LET n == Cols(doc) f == p - doc.lo x == f \div 2
  IN IF plane = Absent \/ f < 0 \/ f > 2 * (n - 1) THEN NaN ELSE Mix(plane[x], plane[Least(x + 1, n - 1)], f % 2, 2)

(* The steps around a lead time, and how far it is between them.               *)
Hours(doc) == [i \in 1 .. Len(doc.steps) |-> doc.steps[i].hour]
Within(doc, lead) == lead >= Hours(doc)[1] - 3 /\ lead <= Hours(doc)[Len(doc.steps)] + 3
Bracket(doc, lead) ==
  LET h == Hours(doc) n == Len(h)
      i == CHOOSE i \in 1 .. Most(n - 1, 1) : (i >= n - 1 \/ lead <= h[i + 1]) /\ \A j \in 1 .. i - 1 : lead > h[j + 1]
      j == Least(i + 1, n)
  IN [i |-> i, j |-> j, at |-> Clamp(lead - h[i], 0, h[j] - h[i]), span |-> Most(h[j] - h[i], 1)]

(* _setStep: the base grid at a position between steps, and its lead time.     *)
Low(f) == f \div 4 + 1
High(f) == Least(Low(f) + 1, Len(base.steps))
BaseGrid == [lo |-> base.lo, u |-> [x \in DOMAIN base.steps[1].u |-> Mix(base.steps[Low(frac)].u[x], base.steps[High(frac)].u[x], frac % 4, 4)]]
Hour(f) == (Hours(base)[Low(f)] * (4 - (f % 4)) + Hours(base)[High(f)] * (f % 4)) \div 4
(* _buildDocGrid: the fine layer for the same valid time.                      *)
FineGrid ==
  LET lead == base.ref + Hour(frac) - fine.ref
      b == Bracket(fine, lead)
  IN IF fine = None THEN None ELSE IF ~Within(fine, lead) THEN None
     ELSE [lo |-> fine.lo, u |-> [x \in DOMAIN fine.steps[1].u |-> Mix(fine.steps[b.i].u[x], fine.steps[b.j].u[x], b.at, b.span)]]
(* _sample: the best source with a number.                                     *)
Readout == IF FineGrid # None /\ Finite(SampleGrid(FineGrid, pos)) THEN SampleGrid(FineGrid, pos) ELSE SampleGrid(BaseGrid, pos)

(* _docSample: a layer's raw planes at a valid time; one NaN of two is left    *)
(* out.                                                                        *)
Either(a, b, n, d) == IF a = NaN THEN b ELSE IF b = NaN THEN a ELSE Mix(a, b, n, d)
DocSample(doc, valid) ==
  IF doc = None THEN NaN
  ELSE LET lead == valid - doc.ref b == Bracket(doc, lead)
       IN IF ~Within(doc, lead) THEN NaN
          ELSE Either(DocArr(doc, doc.steps[b.i].u, pos), DocArr(doc, doc.steps[b.j].u, pos), b.at, b.span)
(* A cell of the strip (_updateDetails), and a tile at the scrubbed time       *)
(* (_sampleAt).                                                                *)
StripCell(i) == LET h == DocSample(fine, base.ref + Hours(base)[i])
                IN IF Finite(h) THEN h ELSE DocArr(base, base.steps[i].u, pos)
Tile == LET h == DocSample(fine, base.ref + Hour(frac))
        IN IF Finite(h) THEN h
           ELSE Either(DocArr(base, base.steps[Low(frac)].u, pos), DocArr(base, base.steps[High(frac)].u, pos), frac % 4, 4)
(* _fracForHour, for the slider's first position.                              *)
FracForHour(h) ==
  LET s == Hours(base) n == Len(s)
  IN IF h <= s[1] THEN 0 ELSE IF h > s[n] THEN 4 * (n - 1)
     ELSE LET i == CHOOSE i \in 1 .. n - 1 : h <= s[i + 1] /\ \A j \in 1 .. i - 1 : h > s[j + 1]
          IN 4 * (i - 1) + (4 * (h - s[i])) \div (s[i + 1] - s[i])
-----------------------------------------------------------------------------
Planes(n) == [0 .. n - 1 -> Wind]
BaseDoc(n, lo, r, a, b) == [ref |-> r, lo |-> lo, steps |-> <<[hour |-> 0, u |-> a], [hour |-> 8, u |-> b]>>]
FineDoc(a, b, c) == [ref |-> 4, lo |-> 0, steps |-> <<[hour |-> 0, u |-> a], [hour |-> 2, u |-> b], [hour |-> 4, u |-> c]>>]
(* A base document of a region, or of the planet from longitude 0 east; with   *)
(* a fine document, whose domain may end inside its window, or without.        *)
Init == /\ \E r \in Shifts :
             \/ \E a, b \in Planes(2) : base = BaseDoc(2, 0, r, a, b)
             \/ \E a \in Planes(4) : base = BaseDoc(4, 0, r, a, a)
        /\ \/ fine = None
           \/ \E a, b \in Planes(2), nan \in {{}, {0}, {0, 1}} : \E c \in {a, b} :
                LET N(p) == Parsed([x \in 0 .. 1 |-> IF x \in nan THEN NaN ELSE p[x]])
                IN N(a) # Absent /\ fine = FineDoc(N(a), N(b), N(c))
        /\ frac = 0 /\ pos = 0
TypeOK == frac \in 0 .. 4 * (Len(base.steps) - 1) /\ pos \in -4 .. 4
(* The slider and the strip's cells set the position, a tap or a fix the place.*)
Slide(f) == frac' = f /\ UNCHANGED <<base, fine, pos>>
Cell(i) == frac' = 4 * (i - 1) /\ UNCHANGED <<base, fine, pos>>
At(p) == pos' = p /\ UNCHANGED <<base, fine, frac>>
Next == \/ \E f \in 0 .. 4 * (Len(base.steps) - 1) : Slide(f)
        \/ \E i \in 1 .. Len(base.steps) : Cell(i)
        \/ \E p \in {-1, 0, 1, 2} : At(p)
Spec == Init /\ [][Next]_vars
-----------------------------------------------------------------------------
(* The chart's readout, the tiles and the strip say the same wind for the same *)
(* time and place, though each interpolates on its own, wherever the planes    *)
(* they read have numbers and the base does not wrap there.                    *)
Plain == /\ ~(Global(base) /\ (pos < base.lo \/ pos > base.lo + 2 * (Cols(base) - 1)))
         /\ fine = None \/ \A s \in 1 .. Len(fine.steps) : fine.steps[s].u # Absent /\ \A x \in DOMAIN fine.steps[s].u : Finite(fine.steps[s].u[x])
SameWindEverywhere == Plain => /\ Readout = Tile
                               /\ frac % 4 = 0 => Readout = StripCell(Low(frac))

(* At a step's own time a layer shows that step's own wind, and the slider     *)
(* placed at an hour shows that hour, or the nearest one there is.             *)
StepsAreExact ==
  /\ \A h \in -4 .. 12 : h % 2 = 0 => Hour(FracForHour(h)) = Clamp(h, Hours(base)[1], Hours(base)[Len(base.steps)])
  /\ fine # None => \A i \in 1 .. Len(fine.steps) : base.ref + Hour(frac) = fine.ref + Hours(fine)[i] => FineGrid # None /\ FineGrid.u = fine.steps[i].u

=============================================================================
