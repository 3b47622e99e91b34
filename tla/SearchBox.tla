----------------------------- MODULE SearchBox -----------------------------
(* The offline search (plugins/search-box.mjs): the fuzzy match of what is    *)
(* typed against the charts installed and the features of the tiles that are  *)
(* loaded, the ranked list, and the flight to a hit.  A text is a sequence of *)
(* characters, a place a number on a line.                                    *)
EXTENDS Integers, SequencesExt

CONSTANTS Inputs,       \* what can be typed, <<>> among it
          Catalogs,     \* the lists of installed charts: [l: title, n: name, s: scale, at: place]
          Loaded,       \* the features of the loaded tiles, in order: [name, type, more: texts, at]
          CoordOf,      \* the place an input parses to (parseLatLon), -1 when it is no coordinate
          BrowseLimit, CellLimit, FeatLimit,   \* 40, 5 and 8 rows
          Texts,        \* further texts to score
          Views         \* where the chart can be

VARIABLES catalog, feats, \* _activeCells; what querySourceFeatures finds
          view,           \* the chart's centre
          input, open,    \* the text field and its flyout
          hits,           \* _hits, the rows
          fresh           \* nothing but the text has changed since the rows were made
vars == <<catalog, feats, view, input, open, hits, fresh>>
-----------------------------------------------------------------------------
WordStart(t, i) == i = 1 \/ t[i - 1] \in {" ", "-", "/", ",", "."}
Holds(q, t) == \E i \in 0 .. Len(t) - Len(q) : SubSeq(t, i + 1, i + Len(q)) = q

(* fuzzyScore: one pass that takes each character of q at its first place      *)
(* after the one before; -1 when not all of them are found.                    *)
Take(q, t, m, i) ==
  IF m.n = Len(q) \/ t[i] # q[m.n + 1] THEN m
  ELSE LET run == IF m.prev = i - 1 THEN m.run + 1 ELSE 0
       IN [n |-> m.n + 1, prev |-> i, run |-> run,
           score |-> m.score + 1 + 5 * run + (IF WordStart(t, i) THEN 10 ELSE 0)
                       + (IF m.n = 0 /\ i < 9 THEN 9 - i ELSE 0)]
TakeOnRun(q, t, m, i) == \* mutant: a gap does not end the run
  IF m.n = Len(q) \/ t[i] # q[m.n + 1] THEN m
  ELSE [n |-> m.n + 1, prev |-> i, run |-> m.run + 1,
        score |-> m.score + 1 + 5 * m.run + (IF WordStart(t, i) THEN 10 ELSE 0)
                    + (IF m.n = 0 /\ i < 9 THEN 9 - i ELSE 0)]
Boost(q, t) == IF Holds(q, t) THEN 25 + (IF IsPrefix(q, t) THEN 15 ELSE 0) ELSE 0
FuzzyScore(q, t) ==
  LET scan[i \in 0 .. Len(t)] ==
        IF i = 0 THEN [n |-> 0, prev |-> -1, run |-> 0, score |-> 0] ELSE Take(q, t, scan[i - 1], i)
      m == scan[Len(t)]
  IN IF q = <<>> THEN 0 ELSE IF m.n < Len(q) THEN -1 ELSE m.score + Boost(q, t)

Larger(a, b) == IF a < b THEN b ELSE a
CellScore(q, c) == Larger(FuzzyScore(q, c.l), FuzzyScore(q, c.n))
(* Name and type count in full; else the first other attribute that matches,   *)
(* and no further one, six points lower.                                       *)
FeatScore(q, f) ==
  LET named == Larger(FuzzyScore(q, f.name), FuzzyScore(q, f.type))
      hit   == {k \in DOMAIN f.more : FuzzyScore(q, f.more[k]) >= 0}
      first == CHOOSE k \in hit : \A j \in hit : k <= j
  IN IF named >= 0 \/ hit = {} THEN named ELSE Larger(-1, FuzzyScore(q, f.more[first]) - 6)
Key(f) == <<f.name, f.type, f.at>>

(* The positions of s that satisfy P, in the order of Before, stable.           *)
Sorted(s, P(_), Before(_, _)) ==
  SetToSortSeq({i \in DOMAIN s : P(s[i])},
               LAMBDA i, j : Before(s[i], s[j]) \/ (~Before(s[j], s[i]) /\ i < j))
FirstOf(s, n) == SubSeq(s, 1, IF Len(s) < n THEN Len(s) ELSE n)

Browse(q) == Len(q) < 2
Away(c) == (c.at - view) * (c.at - view)
CellsFor(q) ==
  FirstOf(IF Browse(q)
          THEN Sorted(catalog, LAMBDA c : TRUE, LAMBDA c, d : Away(c) < Away(d))
          ELSE Sorted(catalog, LAMBDA c : CellScore(q, c) >= 0,
                 LAMBDA c, d : \/ CellScore(q, c) > CellScore(q, d)
                               \/ CellScore(q, c) = CellScore(q, d) /\ c.s > d.s),
          IF Browse(q) THEN BrowseLimit ELSE CellLimit)
(* _searchFeatures: matches of one key are one hit, the first met.             *)
FeatsFor(q) ==
  LET once == SelectSeq([i \in DOMAIN feats |-> [f |-> feats[i], dup |-> \E j \in 1 .. i - 1 :
                             Key(feats[j]) = Key(feats[i]) /\ FeatScore(q, feats[j]) >= 0]],
                        LAMBDA r : ~r.dup)
      fs == [i \in DOMAIN once |-> once[i].f]
      by == Sorted(fs, LAMBDA f : FeatScore(q, f) >= 0, LAMBDA f, g : FeatScore(q, f) > FeatScore(q, g))
  IN [i \in DOMAIN FirstOf(by, FeatLimit) |-> fs[by[i]]]
Hit(type, of) == [type |-> type, of |-> of]
(* doSearch: a coordinate, then charts, then features.                          *)
DoSearch(q) ==
  /\ hits' = (IF Browse(q) \/ CoordOf[q] = -1 THEN <<>> ELSE <<Hit("coord", CoordOf[q])>>)
             \o [i \in DOMAIN CellsFor(q) |-> Hit("cell", catalog[CellsFor(q)[i]])]
             \o (IF Browse(q) THEN <<>> ELSE [i \in DOMAIN FeatsFor(q) |-> Hit("feat", FeatsFor(q)[i])])
  /\ fresh' = TRUE
-----------------------------------------------------------------------------
Init == /\ catalog \in Catalogs /\ feats = <<>> /\ view \in Views
        /\ input = <<>> /\ open = FALSE /\ hits = <<>> /\ fresh = FALSE
OpenStale == \* mutant: the flyout opens on the rows it closed with
  /\ ~open /\ open' = TRUE /\ fresh' = TRUE /\ UNCHANGED <<hits, catalog, feats, view, input>>
(* The rail's tab: the list is made for the text still in the field.           *)
Open == /\ ~open /\ open' = TRUE /\ DoSearch(input) /\ UNCHANGED <<catalog, feats, view, input>>
Type(q) == /\ open /\ input' = q /\ DoSearch(q) /\ UNCHANGED <<catalog, feats, view, open>>
(* Escape empties the field; the tab, a tap elsewhere and a hit keep it.       *)
Close == /\ open /\ open' = FALSE /\ input' \in {input, <<>>}
         /\ UNCHANGED <<catalog, feats, view, hits, fresh>>
Place(h) == IF h.type = "coord" THEN h.of ELSE h.of.at
(* A click on a row; Enter takes the first.                                    *)
GotoHit(i) ==
  /\ open /\ open' = FALSE /\ view' = Place(hits[i])
  /\ UNCHANGED <<catalog, feats, input, hits, fresh>>
(* Packs come and go, the chart moves and loads tiles; none renews the list.   *)
Installed(c) == /\ catalog' = c /\ fresh' = FALSE /\ UNCHANGED <<feats, view, input, open, hits>>
Move(v) == /\ view' = v /\ feats' \in Loaded /\ fresh' = FALSE /\ UNCHANGED <<catalog, input, open, hits>>
Next == \/ Open \/ Close \/ (\E q \in Inputs : Type(q)) \/ (\E i \in DOMAIN hits : GotoHit(i))
        \/ (\E c \in Catalogs : Installed(c)) \/ (\E v \in Views : Move(v))
Spec == Init /\ [][Next]_vars
-----------------------------------------------------------------------------
TypeOK == /\ catalog \in Catalogs /\ input \in Inputs /\ {open, fresh} \subseteq BOOLEAN
          /\ feats \in Loaded \cup {<<>>}

(* The score against its definition: a text matches exactly when it has the     *)
(* characters typed, in their order; what begins with them outranks everything  *)
(* that does not, and what holds them at the first of its places for them       *)
(* outranks what has them only scattered.                                       *)
InOrder(q, t) == \E p \in [DOMAIN q -> DOMAIN t] :
                   \A i \in DOMAIN q : t[p[i]] = q[i] /\ (i > 1 => p[i - 1] < p[i])
Clean(q, t) == \E i \in 0 .. Len(t) - Len(q) : /\ SubSeq(t, i + 1, i + Len(q)) = q
                                              /\ \A j \in 1 .. i : t[j] # q[1]
Scores(P(_)) == {FuzzyScore(input, t) : t \in {u \in Texts : P(u)}}
Above(A, B) == \A b \in B : \A a \in A : a > b
ScoreRanks ==
  open /\ fresh /\ input # <<>> =>
    /\ \A t \in Texts : (FuzzyScore(input, t) >= 0) = InOrder(input, t)
    /\ Above(Scores(LAMBDA t : IsPrefix(input, t)), Scores(LAMBDA t : ~IsPrefix(input, t)))
    /\ Above(Scores(LAMBDA t : Clean(input, t)), Scores(LAMBDA t : ~Holds(input, t)))

(* The rows answer the field: charts near the view while nothing is searched    *)
(* for, else what matches; and what is left out matches no better than a row.   *)
Rows(type) == {hits[i].of : i \in {j \in DOMAIN hits : hits[j].type = type}}
RowsAnswer ==
  open /\ fresh =>
    /\ \A i \in DOMAIN hits : hits[i].type \in {"coord", "cell", "feat"}
    /\ \A c \in ToSet(catalog), d \in Rows("cell") : c \notin Rows("cell") =>
         IF Browse(input) THEN Away(d) <= Away(c) ELSE CellScore(input, d) >= CellScore(input, c)
    /\ \A d \in Rows("cell") : d \in ToSet(catalog) /\ (Browse(input) \/ CellScore(input, d) >= 0)
    /\ Rows("cell") = {} => catalog = <<>> \/ (~Browse(input) /\ \A c \in ToSet(catalog) : CellScore(input, c) < 0)
    /\ \A f \in Rows("feat") : f \in ToSet(feats) /\ ~Browse(input) /\ FeatScore(input, f) >= 0
    /\ \A i, j \in DOMAIN hits : i # j => hits[i] # hits[j]
=============================================================================
