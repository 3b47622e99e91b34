---------------------------- MODULE TileArchive -----------------------------
(* Reading PMTiles archives (chart-canvas/pmtiles-source.mjs): tile ids, the   *)
(* directory look-up through leaves, what is remembered of misses and leaves,  *)
(* the set of archives behind one source, and what the tile protocol answers.  *)
(* A tile is <<z, x, y>>; only which tiles an archive holds matters here.      *)
EXTENDS Integers, FiniteSets, Sequences

CONSTANTS Held,      \* the sets of tile ids an archive may hold
          MaxMisses, \* the bound of _misses (8192 in the code)
          MaxLeaves, \* the bound of _leafCache (64 in the code)
          MaxRequests \* bound: requests asked
VARIABLES
  held,   \* per archive of the set, the ids it holds
  dir,    \* its directory: the root, and the leaves it points to
  misses, \* _misses, as ids
  leaves, \* _leafCache: the leaves read, oldest first
  last    \* the last request, its answer, whether a read failed, and its number
vars == <<held, dir, misses, leaves, last>>

Archive == {1, 2}
-----------------------------------------------------------------------------
(* Tile ids: the tiles <<z, x, y>> of the lower zooms, then the place on the   *)
(* Hilbert curve of the zoom.                                                  *)
Pow4(z) == 4 ^ z
(* zxyToTileId: the tiles of lower zooms, then the Hilbert index.              *)
Before(z) == (Pow4(z) - 1) \div 3
TileId(z, x, y) ==
  LET step[s \in Nat, xx \in Int, yy \in Int] ==
        IF s = 0 THEN 0 ELSE
        LET rx == (xx \div s) % 2 ry == (yy \div s) % 2 side == 2 ^ z
            quad == CASE rx = 0 /\ ry = 0 -> 0 [] rx = 0 /\ ry = 1 -> 1 [] rx = 1 /\ ry = 1 -> 2 [] rx = 1 /\ ry = 0 -> 3
            fx == IF ry = 0 /\ rx = 1 THEN side - 1 - xx ELSE xx
            fy == IF ry = 0 /\ rx = 1 THEN side - 1 - yy ELSE yy
        IN s * s * quad + (IF ry = 0 THEN step[s \div 2, fy, fx] ELSE step[s \div 2, fx, fy])
  IN Before(z) + (IF z = 0 THEN 0 ELSE step[2 ^ (z - 1), x, y])
(* tileIdToZxy *)
Zoom(id) == CHOOSE z \in 0 .. 4 : Before(z) <= id /\ id < Before(z + 1)
Zxy(id) ==
  LET z == Zoom(id) side == 2 ^ z
      back[s \in Nat, t \in Nat, x \in Int, y \in Int] ==
        IF s >= side THEN <<z, x, y>> ELSE
        LET rx == (t \div 2) % 2 ry == ((t % 2) + rx) % 2
            fx == IF ry = 0 /\ rx = 1 THEN s - 1 - x ELSE x
            fy == IF ry = 0 /\ rx = 1 THEN s - 1 - y ELSE y
            gx == IF ry = 0 THEN fy ELSE fx
            gy == IF ry = 0 THEN fx ELSE fy
        IN back[2 * s, t \div 4, gx + s * rx, gy + s * ry]
  IN back[1, id - Before(z), 0, 0]
Tiles(z) == {<<z, x, y>> : x, y \in 0 .. 2 ^ z - 1}
Id(t) == TileId(t[1], t[2], t[3])
-----------------------------------------------------------------------------
(* The directory of an archive: entries by id, each a run of tiles; with       *)
(* leaves, the root holds pointers (run 0) to halves of the entries.           *)
Ascending(S) == LET n == Cardinality(S)
                IN [i \in 1 .. n |-> CHOOSE v \in S : Cardinality({w \in S : w < v}) = i - 1]
Starts(S) == {v \in S : v - 1 \notin S}
RunFrom(S, v) == CHOOSE n \in 1 .. Cardinality(S) : v + n \notin S /\ \A k \in 0 .. n - 1 : v + k \in S
(* The three ways a directory is written: tiles, runs, and tiles in leaves.    *)
Entries(S, runs) == LET ids == Ascending(IF runs THEN Starts(S) ELSE S)
                    IN [i \in 1 .. Len(ids) |-> [id |-> ids[i], run |-> IF runs THEN RunFrom(S, ids[i]) ELSE 1]]
Flat(S, runs) == [root |-> Entries(S, runs), leaf |-> <<>>]
Sharded(S) == LET e == Entries(S, FALSE) h == Len(e) \div 2
                  leaf == <<SubSeq(e, 1, h), SubSeq(e, h + 1, Len(e))>>
              IN IF Len(e) < 2 THEN Flat(S, FALSE)
                 ELSE [root |-> [i \in 1 .. 2 |-> [id |-> leaf[i][1].id, run |-> 0, leaf |-> i]], leaf |-> leaf]
Directories(S) == {Flat(S, FALSE), Flat(S, TRUE), Sharded(S)}

None == [id |-> -1, run |-> 0]
(* floorEntry: the entry with the largest id not above the wanted one.         *)
FloorEntry(e, id) ==
  LET find[lo \in Int, hi \in Int, best \in 0 .. Len(e)] ==
        IF lo > hi THEN best
        ELSE LET mid == (lo + hi) \div 2
             IN IF e[mid].id <= id THEN find[mid + 1, hi, mid] ELSE find[lo, mid - 1, best]
      i == find[1, Len(e), 0]
  IN IF i = 0 THEN None ELSE e[i]

(* hasTile: root, leaf, run.                                                   *)
Pointed(a, id) == LET e == FloorEntry(dir[a].root, id) IN e # None /\ e.run = 0
Holds(a, id) ==
  LET e == FloorEntry(dir[a].root, id)
      l == IF e # None /\ e.run = 0 THEN FloorEntry(dir[a].leaf[e.leaf], id) ELSE e
  IN l # None /\ id < l.id + l.run
Has(a, id) == id \notin misses[a] /\ Holds(a, id)

(* boundsCoverTile: an archive's box is west of the middle, or east of it; a   *)
(* tile on the edge is covered by both.                                        *)
Covers(a, t) == LET half == 2 ^ t[1] IN IF a = 1 THEN 2 * t[2] <= half ELSE 2 * (t[2] + 1) >= half
Within(a, id) == Covers(a, Zxy(id))
-----------------------------------------------------------------------------
Init == /\ held \in {h \in [Archive -> Held] : \A a \in Archive : \A id \in h[a] : Within(a, id)}
        /\ dir \in {d \in [Archive -> UNION {Directories(S) : S \in Held}] : \A a \in Archive : d[a] \in Directories(held[a])}
        /\ misses = [a \in Archive |-> {}] /\ leaves = [a \in Archive |-> <<>>]
        /\ last = [t |-> <<0, 0, 0>>, answer |-> "none", failed |-> FALSE, n |-> 0]
TypeOK == /\ \A a \in Archive : /\ held[a] \in Held
                                /\ Cardinality(misses[a]) <= MaxMisses /\ Len(leaves[a]) <= MaxLeaves
          /\ last.answer \in {"none", "bytes", "blank", "stretch"} /\ last.n \in 0 .. MaxRequests

(* getTile's misses: dropped together when there are too many.                 *)
Miss(S, id) == IF id \in S THEN S ELSE (IF Cardinality(S) >= MaxMisses THEN {} ELSE S) \cup {id}
(* Mutant: every leaf is kept.                                                 *)
KeepAll(q, l) == IF \E i \in 1 .. Len(q) : q[i] = l THEN q ELSE Append(q, l)
(* _leaf: the oldest leaf gives way.                                           *)
Keep(q, l) == IF \E i \in 1 .. Len(q) : q[i] = l THEN q
              ELSE Append(IF Len(q) >= MaxLeaves THEN Tail(q) ELSE q, l)
LeafOf(a, id) == FloorEntry(dir[a].root, id).leaf
Read(a, id) == IF id \notin misses[a] /\ Pointed(a, id) THEN Keep(leaves[a], LeafOf(a, id)) ELSE leaves[a]

Asked(t) == {a \in Archive : Covers(a, t)}
(* MultiArchive.getTile asks the archives that may cover the tile in turn.     *)
Tried(t) == LET id == Id(t)
                has == {a \in Asked(t) : Has(a, id)}
            IN IF has = {} THEN Asked(t) ELSE {a \in Asked(t) : a <= (CHOOSE b \in has : \A c \in has : b <= c)}
Ancestors(t) == {<<z, t[2] \div 2 ^ (t[1] - z), t[3] \div 2 ^ (t[1] - z)>> : z \in 0 .. t[1] - 1}
AnyHas(t) == \E a \in Asked(t) : Has(a, Id(t))

(* Mutant: a tile the archives lack is always blank.                           *)
AnswerBlank(t) == IF AnyHas(t) THEN "bytes" ELSE "blank"
Answer(t) == IF AnyHas(t) THEN "bytes" ELSE IF \E u \in Ancestors(t) : AnyHas(u) THEN "stretch" ELSE "blank"

(* A request of the tile protocol.                                             *)
Tile(t) ==
  LET id == Id(t) tried == Tried(t)
  IN /\ last' = [t |-> t, answer |-> Answer(t), failed |-> FALSE, n |-> last.n + 1]
     /\ misses' = [a \in Archive |-> IF a \in tried /\ ~Has(a, id) THEN Miss(misses[a], id) ELSE misses[a]]
     /\ leaves' = [a \in Archive |-> IF a \in tried THEN Read(a, id) ELSE leaves[a]]
     /\ UNCHANGED <<held, dir>>
(* Its first read fails: a blank tile, and nothing is remembered.              *)
TileFails(t) == /\ Asked(t) # {} /\ last' = [t |-> t, answer |-> "blank", failed |-> TRUE, n |-> last.n + 1]
                /\ UNCHANGED <<held, dir, misses, leaves>>
Next == last.n < MaxRequests /\ \E z \in 0 .. 2 : \E t \in Tiles(z) : Tile(t) \/ TileFails(t)
Spec == Init /\ [][Next]_vars

(* dataMaxZoomAt: the deepest zoom with a tile over a point (a tile of zoom 2). *)
Depth(t) == LET at == {u \in Ancestors(t) \cup {t} : AnyHas(u)}
            IN IF at = {} THEN -1 ELSE CHOOSE z \in 0 .. 2 : (\E u \in at : u[1] = z) /\ \A u \in at : u[1] <= z
-----------------------------------------------------------------------------
(* A request is answered by what the archives hold, whatever their directory's *)
(* layout and whatever was asked before: the tile's bytes; an error that lets  *)
(* the map stretch an ancestor when there is one; a blank tile only where      *)
(* there is no chart.                                                          *)
HeldBy(t) == \E a \in Archive : Id(t) \in held[a]
AnswersAreTrue ==
  last.answer # "none" /\ ~last.failed =>
    CASE HeldBy(last.t) -> last.answer = "bytes"
      [] ~HeldBy(last.t) /\ (\E u \in Ancestors(last.t) : HeldBy(u)) -> last.answer = "stretch"
      [] OTHER -> last.answer = "blank"

(* The camera's cap is the deepest zoom that holds a tile there.               *)
DepthIsTrue == last.t[1] = 2 =>
  Depth(last.t) = LET at == {u \in Ancestors(last.t) \cup {last.t} : HeldBy(u)}
                  IN IF at = {} THEN -1 ELSE CHOOSE z \in {u[1] : u \in at} : \A u \in at : u[1] <= z

(* Ids number the tiles of a zoom without gaps, neighbours next to each other. *)
IdsNumberTiles == last.answer = "none" => \A z \in 0 .. 3 :
  /\ {TileId(t[1], t[2], t[3]) : t \in Tiles(z)} = Before(z) .. Before(z + 1) - 1
  /\ \A t \in Tiles(z) : Zxy(TileId(t[1], t[2], t[3])) = t
  /\ \A id \in Before(z) .. Before(z + 1) - 2 : LET a == Zxy(id) b == Zxy(id + 1) IN
       (a[2] = b[2] /\ (a[3] - b[3]) \in {-1, 1}) \/ (a[3] = b[3] /\ (a[2] - b[2]) \in {-1, 1})
=============================================================================
