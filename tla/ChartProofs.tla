----------------------------- MODULE ChartProofs -----------------------------
(***************************************************************************)
(* Proofs about the chart canvas: its style in server mode, the SCAMIN     *)
(* gate and what its expressions draw, for any settings, packs, bands,     *)
(* depths and bounds.                                                      *)
(***************************************************************************)
EXTENDS MCChart, FiniteSetTheorems, TLAPS

-----------------------------------------------------------------------------
(* The style in server mode: its state is typed.                           *)

LEMMA SameCount == \A S : Canvas!Cardinality(S) = Cardinality(S)
BY DEF Canvas!Cardinality, Cardinality

(* A request gets an id of its own while there is room for one more.       *)
LEMMA FreshId ==
  ASSUME NEW rest, IsFiniteSet(rest), MaxCalls \in Nat, Cardinality(rest) < MaxCalls
  PROVE  Canvas!Fresh(rest) \in 1 .. MaxCalls /\ \A c \in rest : c.id # Canvas!Fresh(rest)
<1> DEFINE ids == {c.id : c \in rest}
<1>1. IsFiniteSet(ids) /\ Cardinality(ids) <= Cardinality(rest)
  <2> DEFINE f == [c \in rest |-> c.id]
  <2>1. f \in Surjection(rest, ids)
    BY DEF Surjection
  <2> HIDE DEF f, ids
  <2> QED
    BY <2>1, FS_Surjection
<1>2. IsFiniteSet(1 .. MaxCalls) /\ Cardinality(1 .. MaxCalls) = MaxCalls
  BY FS_Interval
<1>3. Cardinality(rest) \in Nat /\ Cardinality(ids) \in Nat
  BY <1>1, FS_CardinalityType
<1>4. ~(1 .. MaxCalls \subseteq ids)
  <2> SUFFICES ASSUME 1 .. MaxCalls \subseteq ids
               PROVE  FALSE
    OBVIOUS
  <2>1. Cardinality(1 .. MaxCalls) <= Cardinality(ids)
    BY <1>1, FS_Subset
  <2> HIDE DEF ids
  <2> QED
    BY <1>1, <1>2, <1>3, <2>1
<1>5. \E i \in 1 .. MaxCalls : \A c \in rest : c.id # i
  BY <1>4
<1> QED
  BY <1>5 DEF Canvas!Fresh

Room == IsFiniteSet(calls) /\ Cardinality(calls) <= MaxCalls
CanvasTyped == Canvas!TypeOK /\ Room /\ gen + left.bake = MaxBakes

LEMMA CanvasInit ==
  ASSUME Canvas!CanvasConstants, Canvas!Init
  PROVE  CanvasTyped
<1>1. Room
  BY FS_EmptySet DEF Canvas!Init, Canvas!CanvasConstants, Room
<1>2. mariner \in Canvas!Settings /\ live.m \in Canvas!Settings
  BY DEF Canvas!Init, Canvas!Settings
<1>3. MaxBakes \in Nat /\ 0 \in Canvas!Gens /\ {} \in PackList /\ "none" \in Canvas!Basemap
  BY DEF Canvas!CanvasConstants, Canvas!Gens, Canvas!Basemap
<1>4. left \in [change : 0 .. CanvasChanges, sets : 0 .. MaxSetCalls, bake : 0 .. MaxBakes, fail : 0 .. MaxFails]
  BY DEF Canvas!Init, Canvas!CanvasConstants
<1>5. live \in [engine : BOOLEAN, set : PackList, m : Canvas!Settings, gen : [Pack -> Canvas!Gens], chrome : BOOLEAN,
                base : Canvas!Basemap, kept : BOOLEAN]
  BY <1>2, <1>3 DEF Canvas!Init
<1>6. Canvas!TypeOK
  BY <1>2, <1>3, <1>4, <1>5 DEF Canvas!Init, Canvas!TypeOK
<1> QED
  BY <1>1, <1>6 DEF CanvasTyped, Canvas!Init, Canvas!CanvasConstants

(* A request is taken off the list, one is put on it, or one replaced by   *)
(* its successor.                                                          *)
LEMMA Removed ==
  ASSUME CanvasTyped, NEW c \in calls, Canvas!CanvasConstants
  PROVE  /\ IsFiniteSet(calls \ {c}) /\ Cardinality(calls \ {c}) = Cardinality(calls) - 1
         /\ Cardinality(calls) \in Nat
         /\ Canvas!Fresh(calls \ {c}) \in 1 .. MaxCalls
<1>1. IsFiniteSet(calls) /\ Cardinality(calls) <= MaxCalls /\ MaxCalls \in Nat
  BY DEF CanvasTyped, Room, Canvas!CanvasConstants
<1>2. IsFiniteSet(calls \ {c}) /\ Cardinality(calls \ {c}) = Cardinality(calls) - 1 /\ Cardinality(calls) \in Nat
  BY <1>1, FS_RemoveElement, FS_CardinalityType
<1>3. Cardinality(calls \ {c}) < MaxCalls
  BY <1>1, <1>2
<1> QED
  BY <1>1, <1>2, <1>3, FreshId

LEMMA RoomLeft ==
  ASSUME CanvasTyped, NEW c \in calls, Canvas!CanvasConstants, NEW d,
         calls' = calls \ {c} \/ calls' = (calls \ {c}) \cup {d}
  PROVE  Room'
<1>1. IsFiniteSet(calls \ {c}) /\ Cardinality(calls \ {c}) = Cardinality(calls) - 1 /\ Cardinality(calls) \in Nat
  BY Removed
<1>2. IsFiniteSet((calls \ {c}) \cup {d}) /\ Cardinality((calls \ {c}) \cup {d}) <= Cardinality(calls \ {c}) + 1
  <2>1. \/ d \in calls \ {c} /\ (calls \ {c}) \cup {d} = calls \ {c}
        \/ d \notin calls \ {c}
    OBVIOUS
  <2> QED
    BY <1>1, <2>1, FS_AddElement
<1>3. Cardinality((calls \ {c}) \cup {d}) \in Nat
  BY <1>2, FS_CardinalityType
<1> QED
  <2>1. MaxCalls \in Nat /\ Cardinality(calls) <= MaxCalls
    BY DEF CanvasTyped, Room, Canvas!CanvasConstants
  <2>2. \A S : S = calls' => IsFiniteSet(S) /\ Cardinality(S) <= MaxCalls
    BY <1>1, <1>2, <1>3, <2>1
  <2> QED
    BY <2>2 DEF Room

LEMMA Added ==
  ASSUME CanvasTyped, Canvas!CanvasConstants, Canvas!Cardinality(calls) < MaxCalls, NEW d
  PROVE  /\ Canvas!Fresh(calls) \in 1 .. MaxCalls
         /\ IsFiniteSet(calls \cup {d}) /\ Cardinality(calls \cup {d}) <= MaxCalls
<1>1. Cardinality(calls) < MaxCalls /\ IsFiniteSet(calls) /\ Cardinality(calls) \in Nat /\ MaxCalls \in Nat
  BY SameCount, FS_CardinalityType DEF CanvasTyped, Room, Canvas!CanvasConstants
<1>2. IsFiniteSet(calls \cup {d}) /\ Cardinality(calls \cup {d}) <= Cardinality(calls) + 1
  <2>1. \/ d \in calls /\ calls \cup {d} = calls
        \/ d \notin calls
    OBVIOUS
  <2> QED
    BY <1>1, <2>1, FS_AddElement
<1>3. Cardinality(calls \cup {d}) \in Nat
  BY <1>2, FS_CardinalityType
<1> QED
  BY <1>1, <1>2, <1>3, FreshId

Live == [engine : BOOLEAN, set : PackList, m : Canvas!Settings, gen : [Pack -> Canvas!Gens], chrome : BOOLEAN,
         base : Canvas!Basemap, kept : BOOLEAN]
Left == [change : 0 .. CanvasChanges, sets : 0 .. MaxSetCalls, bake : 0 .. MaxBakes, fail : 0 .. MaxFails]
Server == [names : PackList, gen : Canvas!Gens]

LEMMA BuildsAStyle ==
  ASSUME NEW cs \in Canvas!Style \cup {None}, NEW mode \in BOOLEAN, NEW srv \in Server,
         NEW base \in Canvas!Basemap, mariner \in Canvas!Settings, Canvas!CanvasConstants
  PROVE  /\ Canvas!BuildStyle(cs, mode, srv, base) \in Live
         /\ Canvas!BuildStyle(cs, mode, srv, base).base = base
         /\ Canvas!BuildStyle(cs, mode, srv, base).kept = FALSE
<1>0. mariner[Scheme] \in BOOLEAN
  BY DEF Canvas!CanvasConstants, Canvas!Settings
<1>1. CASE mode /\ cs # None
  <2>1. cs \in Canvas!Style
    BY <1>1
  <2> QED
    BY <1>0, <1>1, <2>1 DEF Canvas!BuildStyle, Live, Canvas!Style
<1>2. CASE ~(mode /\ cs # None)
  BY <1>0, <1>2 DEF Canvas!BuildStyle, Live, Server
<1> QED
  BY <1>1, <1>2

(* What the bounds leave only shrinks, and by one at a time.               *)
LEMMA Spent ==
  ASSUME left \in Left, Canvas!CanvasConstants
  PROVE  /\ left.change > 0 /\ left' = [left EXCEPT !.change = @ - 1] => left' \in Left /\ left'.bake = left.bake
         /\ left.sets > 0 /\ left' = [left EXCEPT !.sets = @ - 1] => left' \in Left /\ left'.bake = left.bake
         /\ left.fail > 0 /\ left' = [left EXCEPT !.fail = @ - 1] => left' \in Left /\ left'.bake = left.bake
         /\ left.bake > 0 /\ left' = [left EXCEPT !.bake = @ - 1] => left' \in Left /\ left'.bake = left.bake - 1
<1>1. left.change \in Nat /\ left.sets \in Nat /\ left.bake \in Nat /\ left.fail \in Nat
  BY DEF Left
<1>2. {CanvasChanges, MaxSetCalls, MaxBakes, MaxFails} \subseteq Nat
  BY DEF Canvas!CanvasConstants
<1> QED
  BY <1>1, <1>2 DEF Left

LEMMA Typed ==
  Canvas!TypeOK <=>
    /\ mariner \in Canvas!Settings /\ engineMode \in BOOLEAN
    /\ cached \in Canvas!Style \cup {None}
    /\ lastMariner \in Canvas!QuerySet \cup {None}
    /\ engineSet \in PackList /\ serverSets \in Server
    /\ basemap \in Canvas!Basemap /\ coastline \in BOOLEAN
    /\ live \in Live /\ gen \in Canvas!Gens /\ told \in BOOLEAN
    /\ loaded \in BOOLEAN /\ timer \in BOOLEAN
    /\ waiting \subseteq {"restyle", "install"} /\ calls \subseteq Canvas!Call
    /\ left \in Left /\ overlapped \in BOOLEAN /\ failed \in BOOLEAN
BY DEF Canvas!TypeOK, Live, Left, Server

(* The requests there can be.                                              *)
LEMMA Requests ==
  ASSUME NEW i \in 1 .. MaxCalls
  PROVE  /\ \A q, r \in Canvas!QuerySet : [id |-> i, op |-> "diff", from |-> q, to |-> r] \in Canvas!Call
         /\ \A q \in Canvas!QuerySet : [id |-> i, op |-> "rebuild", q |-> q] \in Canvas!Call
         /\ \A q \in Canvas!QuerySet : [id |-> i, op |-> "probe", q |-> q] \in Canvas!Call
         /\ \A n \in PackList : [id |-> i, op |-> "scamin", names |-> n] \in Canvas!Call
         /\ \A n, p \in PackList : [id |-> i, op |-> "metas", names |-> n, prev |-> p] \in Canvas!Call
         /\ \A n \in PackList : [id |-> i, op |-> "flush", names |-> n] \in Canvas!Call
         /\ [id |-> i, op |-> "coast"] \in Canvas!Call
BY DEF Canvas!Call

(* and what each carries.                                                  *)
LEMMA Carried ==
  ASSUME NEW c \in Canvas!Call
  PROVE  /\ c.op \in {"diff", "rebuild", "probe", "scamin", "metas", "flush", "coast"}
         /\ c.op = "diff" => c.from \in Canvas!QuerySet /\ c.to \in Canvas!QuerySet
         /\ c.op \in {"rebuild", "probe"} => c.q \in Canvas!QuerySet
         /\ c.op \in {"scamin", "metas", "flush"} => c.names \in PackList
         /\ c.op = "metas" => c.prev \in PackList
BY DEF Canvas!Call

LEMMA Queries ==
  /\ \A s \in PackList, m \in Canvas!Settings : [set |-> s, m |-> m] \in Canvas!QuerySet
  /\ \A q \in Canvas!QuerySet : q.set \in PackList /\ q.m \in Canvas!Settings
  /\ \A q \in Canvas!QuerySet, g \in Canvas!Gens : [set |-> q.set, m |-> q.m, gen |-> g] \in Canvas!Style
  /\ \A s \in Canvas!Style : s.set \in PackList /\ s.m \in Canvas!Settings /\ s.gen \in Canvas!Gens
  /\ {} \in PackList /\ "coastline" \in Canvas!Basemap
BY ConstantsAssumption DEF ChartConstants, Canvas!CanvasConstants, Canvas!QuerySet, Canvas!Style, Canvas!Basemap

LEMMA Patches ==
  ASSUME NEW c \in Canvas!Call, c.op = "diff"
  PROVE  /\ \A m \in Canvas!Settings : Canvas!ApplyOps(m, c) \in Canvas!Settings
         /\ \A st \in Live : Canvas!Patched(st, c) \in Live /\ Canvas!Patched(st, c).base = st.base
         /\ \A st \in Canvas!Style : Canvas!Patched(st, c) \in Canvas!Style
<1>1. \A m \in Canvas!Settings : Canvas!ApplyOps(m, c) \in Canvas!Settings
  <2>1. c.to.m \in Canvas!Settings
    BY Carried, Queries
  <2> QED
    BY <2>1 DEF Canvas!ApplyOps, Canvas!Settings
<1>2. \A st \in Live : Canvas!Patched(st, c) \in Live /\ Canvas!Patched(st, c).base = st.base
  BY <1>1 DEF Canvas!Patched, Live
<1>3. \A st \in Canvas!Style : Canvas!Patched(st, c) \in Canvas!Style
  BY <1>1 DEF Canvas!Patched, Canvas!Style
<1> QED
  BY <1>1, <1>2, <1>3

(* Every step of the canvas keeps its state typed and its requests counted. *)
LEMMA ChangeTyped ==
  ASSUME CanvasTyped, Canvas!CanvasConstants, NEW s \in CanvasSetting, Canvas!Change(s)
  PROVE  mariner' \in Canvas!Settings /\ left' \in Left /\ left'.bake = left.bake /\ overlapped' \in BOOLEAN
<1>1. mariner' \in Canvas!Settings
  BY DEF CanvasTyped, Canvas!TypeOK, Canvas!Change, Canvas!Settings
<1>2. left' \in Left /\ left'.bake = left.bake
  BY Spent, Typed DEF CanvasTyped, Canvas!Change
<1>3. overlapped' \in BOOLEAN
  BY DEF Canvas!Change, Canvas!Busy
<1> QED
  BY <1>1, <1>2, <1>3

LEMMA UserTyped ==
  ASSUME CanvasTyped, Canvas!CanvasConstants, Canvas!User
  PROVE  CanvasTyped'
<1> USE Typed
<1>0. Canvas!Cardinality(calls) < MaxCalls
  BY DEF Canvas!User
<1>1. ASSUME NEW s \in CanvasSetting, Canvas!Change(s), Canvas!Restyle(live.chrome) \/ Canvas!Restyle(mariner'[Scheme])
      PROVE  CanvasTyped'
  <2>1. mariner' \in Canvas!Settings /\ left' \in Left /\ left'.bake = left.bake /\ overlapped' \in BOOLEAN
    BY <1>1, ChangeTyped
  <2>2. live' \in Live /\ timer' \in BOOLEAN /\ loaded' = loaded
    <3>1. mariner'[Scheme] \in BOOLEAN /\ live.chrome \in BOOLEAN
      BY <2>1 DEF Canvas!CanvasConstants, Canvas!Settings, CanvasTyped, Live
    <3> QED
      BY <1>1, <2>1, <3>1 DEF Canvas!Restyle, Canvas!InPlace, CanvasTyped, Live
  <2>3. /\ UNCHANGED <<engineMode, engineSet, serverSets, basemap, coastline, waiting, calls>>
        /\ UNCHANGED <<cached, lastMariner, gen, failed, told>>
    BY <1>1 DEF Canvas!Change
  <2> QED
    BY <2>1, <2>2, <2>3 DEF CanvasTyped, Canvas!TypeOK, Live, Left, Server, Room
<1>2. ASSUME Canvas!SetPxPitch
      PROVE  CanvasTyped'
  <2>0. Pitch \in CanvasSetting /\ Canvas!Change(Pitch)
    BY <1>2 DEF Canvas!SetPxPitch, Canvas!CanvasConstants
  <2>1. mariner' \in Canvas!Settings /\ left' \in Left /\ left'.bake = left.bake /\ overlapped' \in BOOLEAN
    BY <2>0, ChangeTyped
  <2>2. Canvas!BuildStyle(cached, FALSE, serverSets, basemap) \in Live
    BY BuildsAStyle DEF CanvasTyped
  <2>3. live' \in Live /\ timer' \in BOOLEAN /\ loaded' \in BOOLEAN
    BY <1>2, <2>1, <2>2 DEF Canvas!SetPxPitch, CanvasTyped, Live
  <2>4. /\ UNCHANGED <<engineMode, engineSet, serverSets, basemap, coastline, waiting, calls>>
        /\ UNCHANGED <<cached, lastMariner, gen, failed, told>>
    BY <2>0 DEF Canvas!Change
  <2> QED
    BY <2>1, <2>3, <2>4 DEF CanvasTyped, Canvas!TypeOK, Live, Left, Server, Room
<1>3. ASSUME NEW names \in PackList, Canvas!SetServerSets(names)
      PROVE  CanvasTyped'
  <2> DEFINE d == IF names = {} THEN [id |-> Canvas!Fresh(calls), op |-> "metas", names |-> names, prev |-> serverSets.names]
                  ELSE [id |-> Canvas!Fresh(calls), op |-> "probe", q |-> [set |-> names, m |-> mariner]]
  <2>1. calls' = calls \cup {d}
    BY <1>3 DEF Canvas!SetServerSets, Canvas!Send
  <2>2. d \in Canvas!Call
    <3>1. serverSets.names \in PackList /\ [set |-> names, m |-> mariner] \in Canvas!QuerySet
      BY Queries DEF CanvasTyped, Server
    <3> QED
      BY <1>0, <3>1, Added, Requests
  <2>3. Room' /\ calls' \subseteq Canvas!Call
    <3> HIDE DEF d
    <3> QED
      BY <1>0, <2>1, <2>2, Added DEF Room, CanvasTyped
  <2>4. left' \in Left /\ left'.bake = left.bake
    BY <1>3, Spent DEF CanvasTyped, Canvas!SetServerSets
  <2>5. overlapped' \in BOOLEAN /\ told' = TRUE /\ engineMode' = FALSE /\ cached' = None /\ engineSet' = names
    BY <1>3 DEF Canvas!SetServerSets
  <2>6. UNCHANGED <<mariner, serverSets, basemap, coastline, timer, waiting, lastMariner, live, loaded, gen, failed>>
    BY <1>3 DEF Canvas!SetServerSets
  <2> QED
    BY <2>3, <2>4, <2>5, <2>6 DEF CanvasTyped, Canvas!TypeOK, Live, Left, Server
<1>4. ASSUME NEW b \in Canvas!Basemap, Canvas!SetBasemap(b)
      PROVE  CanvasTyped'
  <2> DEFINE d == [id |-> Canvas!Fresh(calls), op |-> "coast"]
  <2>1. Room' /\ calls' \subseteq Canvas!Call
    <3>1. d \in Canvas!Call
      BY <1>0, Added, Requests
    <3>2. calls' = calls \/ calls' = calls \cup {d}
      BY <1>4 DEF Canvas!SetBasemap, Canvas!Send
    <3> HIDE DEF d
    <3> QED
      BY <1>0, <3>1, <3>2, Added DEF Room, CanvasTyped
  <2>2. live' \in Live /\ loaded' \in BOOLEAN /\ basemap' \in Canvas!Basemap
    <3>1. Canvas!BuildStyle(cached, engineMode, serverSets, b) \in Live
      BY BuildsAStyle DEF CanvasTyped
    <3> QED
      BY <1>4, <3>1 DEF Canvas!SetBasemap, Canvas!SetStyle, CanvasTyped
  <2>4. left' \in Left /\ left'.bake = left.bake
    BY <1>4, Spent DEF CanvasTyped, Canvas!SetBasemap
  <2>5. overlapped' \in BOOLEAN
    BY <1>4 DEF Canvas!SetBasemap, Canvas!Busy
  <2>6. UNCHANGED <<mariner, engineMode, engineSet, serverSets, coastline, timer, waiting, cached, lastMariner, gen, failed, told>>
    BY <1>4 DEF Canvas!SetBasemap
  <2> QED
    BY <2>1, <2>2, <2>4, <2>5, <2>6 DEF CanvasTyped, Canvas!TypeOK, Live, Left, Server
<1>5. ASSUME Canvas!FlushTiles
      PROVE  CanvasTyped'
  <2> DEFINE d == [id |-> Canvas!Fresh(calls), op |-> "flush", names |-> serverSets.names]
  <2>1. calls' = calls \cup {d}
    BY <1>5 DEF Canvas!FlushTiles, Canvas!Send
  <2>2. d \in Canvas!Call
    <3>1. serverSets.names \in PackList
      BY DEF CanvasTyped, Server
    <3> QED
      BY <1>0, <3>1, Added, Requests
  <2>3. Room' /\ calls' \subseteq Canvas!Call
    <3> HIDE DEF d
    <3> QED
      BY <1>0, <2>1, <2>2, Added DEF Room, CanvasTyped
  <2>4. left' \in Left /\ left'.bake = left.bake
    BY <1>5, Spent DEF CanvasTyped, Canvas!FlushTiles
  <2>5. overlapped' \in BOOLEAN
    BY <1>5 DEF Canvas!FlushTiles, Canvas!Busy
  <2>6. /\ UNCHANGED <<mariner, engineMode, engineSet, serverSets, basemap, coastline, timer, waiting>>
        /\ UNCHANGED <<cached, lastMariner, live, loaded, gen, failed, told>>
    BY <1>5 DEF Canvas!FlushTiles, Canvas!style
  <2> QED
    BY <2>3, <2>4, <2>5, <2>6 DEF CanvasTyped, Canvas!TypeOK, Live, Left, Server
<1> QED
  <2>1. Scheme \in CanvasSetting
    BY DEF Canvas!CanvasConstants
  <2> QED
    BY <1>1, <1>2, <1>3, <1>4, <1>5, <2>1 DEF Canvas!User, Canvas!SetMariner, Canvas!SetScheme

(* An answered request is gone, or its successor is in its place.          *)
LEMMA Followed ==
  ASSUME CanvasTyped, Canvas!CanvasConstants, NEW c \in calls, NEW d,
         d \in Canvas!Call,
         calls' = calls \ {c} \/ calls' = (calls \ {c}) \cup {d}
  PROVE  Room' /\ calls' \subseteq Canvas!Call
<1>1. Room'
  BY RoomLeft
<1>2. calls \subseteq Canvas!Call
  BY Typed DEF CanvasTyped
<1> QED
  BY <1>1, <1>2

LEMMA AnswerTyped ==
  ASSUME CanvasTyped, Canvas!CanvasConstants, Canvas!Answer
  PROVE  CanvasTyped'
<1> USE Typed
<1>0. Canvas!MarinerQuery \in Canvas!QuerySet
  BY Queries DEF Canvas!MarinerQuery, CanvasTyped
<1> DEFINE i(c) == Canvas!Fresh(calls \ {c})
           rebuild(c) == [id |-> i(c), op |-> "rebuild", q |-> Canvas!MarinerQuery]
           scamin(c) == [id |-> i(c), op |-> "scamin", names |-> c.q.set]
           metas(c, n) == [id |-> i(c), op |-> "metas", names |-> n, prev |-> serverSets.names]
<1>a. ASSUME NEW c \in calls
      PROVE  c \in Canvas!Call /\ rebuild(c) \in Canvas!Call
  BY <1>0, Removed, Requests DEF CanvasTyped
<1>b. ASSUME NEW c \in calls, c.op = "probe"
      PROVE  scamin(c) \in Canvas!Call /\ metas(c, c.q.set) \in Canvas!Call /\ c.q \in Canvas!QuerySet
  <2>1. c.q \in Canvas!QuerySet /\ c.q.set \in PackList /\ serverSets.names \in PackList
    BY <1>a, <1>b, Carried, Queries DEF CanvasTyped, Server
  <2> QED
    BY <2>1, Removed, Requests DEF CanvasTyped
<1>c. ASSUME NEW c \in calls, c.op = "scamin"
      PROVE  metas(c, c.names) \in Canvas!Call
  <2>1. c.names \in PackList /\ serverSets.names \in PackList
    BY <1>a, <1>c, Carried, Queries DEF CanvasTyped, Server
  <2> QED
    BY <2>1, Removed, Requests DEF CanvasTyped
<1>d. \A q \in Canvas!QuerySet : Canvas!Styled(q) \in Canvas!Style
  BY Queries DEF Canvas!Styled, CanvasTyped
<1> HIDE DEF rebuild, scamin, metas, i
<1>e. ASSUME NEW c \in calls, calls' = calls \ {c}
      PROVE  Room' /\ calls' \subseteq Canvas!Call
  BY <1>a, <1>e, Followed
<1>1. ASSUME NEW c \in calls, Canvas!DiffAnswer(c)
      PROVE  CanvasTyped'
  <2>0. c \in Canvas!Call /\ c.op = "diff"
    BY <1>1, <1>a DEF Canvas!DiffAnswer
  <2>1. live' \in Live /\ loaded' = FALSE
    BY <1>1, <2>0, Patches DEF Canvas!DiffAnswer, CanvasTyped
  <2>2. cached' \in Canvas!Style \cup {None} /\ lastMariner' \in Canvas!QuerySet \cup {None}
    BY <1>1, <2>0, Patches, Carried DEF Canvas!DiffAnswer, CanvasTyped
  <2>3. calls' = calls \ {c} \/ calls' = (calls \ {c}) \cup {rebuild(c)}
    BY <1>1 DEF Canvas!DiffAnswer, Canvas!Send, rebuild, i
  <2>4. Room' /\ calls' \subseteq Canvas!Call
    BY <2>3, <1>a, Followed
  <2>5. /\ UNCHANGED <<mariner, engineMode, engineSet, serverSets, basemap, coastline, timer, waiting>>
        /\ UNCHANGED <<gen, left, overlapped, failed, told>>
    BY <1>1 DEF Canvas!DiffAnswer, Canvas!env, Canvas!hist
  <2> QED
    BY <2>1, <2>2, <2>4, <2>5 DEF CanvasTyped, Canvas!TypeOK, Live, Left, Server
<1>2. ASSUME NEW c \in calls, Canvas!DiffRefused(c)
      PROVE  CanvasTyped'
  <2>3. calls' = (calls \ {c}) \cup {rebuild(c)}
    BY <1>2 DEF Canvas!DiffRefused, Canvas!Send, rebuild, i
  <2>4. Room' /\ calls' \subseteq Canvas!Call
    BY <2>3, <1>a, Followed
  <2>5. /\ UNCHANGED <<mariner, engineMode, engineSet, serverSets, basemap, coastline, timer, waiting>>
        /\ UNCHANGED <<cached, lastMariner, live, loaded, gen, overlapped, failed, told>>
    BY <1>2 DEF Canvas!DiffRefused, Canvas!style, Canvas!hist
  <2>6. left' \in Left /\ left'.bake = left.bake
    BY <1>2, Spent DEF CanvasTyped, Canvas!DiffRefused, Canvas!Fails
  <2> QED
    BY <2>4, <2>5, <2>6 DEF CanvasTyped, Canvas!TypeOK, Live, Left, Server
<1>3. ASSUME NEW c \in calls, Canvas!RebuildAnswer(c)
      PROVE  CanvasTyped'
  <2>1. cached' \in Canvas!Style
    <3>1. c.q \in Canvas!QuerySet
      BY <1>3, <1>a, Carried DEF Canvas!RebuildAnswer
    <3> QED
      BY <1>3, <1>d, <3>1 DEF Canvas!RebuildAnswer
  <2>2. Canvas!BuildStyle(cached', engineMode, serverSets, basemap) \in Live
    BY <2>1, BuildsAStyle DEF CanvasTyped
  <2>3. /\ live' \in Live /\ loaded' \in BOOLEAN /\ lastMariner' \in Canvas!QuerySet \cup {None}
        /\ waiting' \subseteq {"restyle", "install"}
    BY <1>3, <1>0, <2>2 DEF Canvas!RebuildAnswer, Canvas!SetStyle, CanvasTyped
  <2>4. Room' /\ calls' \subseteq Canvas!Call
    BY <1>3, <1>e DEF Canvas!RebuildAnswer
  <2>5. /\ UNCHANGED <<mariner, engineMode, engineSet, serverSets, basemap, coastline, timer>>
        /\ UNCHANGED <<gen, left, overlapped, failed, told>>
    BY <1>3 DEF Canvas!RebuildAnswer, Canvas!env, Canvas!hist
  <2> QED
    BY <2>1, <2>3, <2>4, <2>5 DEF CanvasTyped, Canvas!TypeOK, Live, Left, Server
<1>4. ASSUME NEW c \in calls, Canvas!RebuildFailed(c)
      PROVE  CanvasTyped'
  <2>4. Room' /\ calls' \subseteq Canvas!Call
    BY <1>4, <1>e DEF Canvas!RebuildFailed
  <2>5. /\ UNCHANGED <<mariner, engineMode, engineSet, serverSets, basemap, coastline, timer, waiting>>
        /\ UNCHANGED <<cached, lastMariner, live, loaded, gen, overlapped, told>> /\ failed' = TRUE
    BY <1>4 DEF Canvas!RebuildFailed, Canvas!style
  <2>6. left' \in Left /\ left'.bake = left.bake
    BY <1>4, Spent DEF CanvasTyped, Canvas!RebuildFailed, Canvas!Fails
  <2> QED
    BY <2>4, <2>5, <2>6 DEF CanvasTyped, Canvas!TypeOK, Live, Left, Server
<1>5. ASSUME NEW c \in calls, Canvas!ProbeAnswer(c)
      PROVE  CanvasTyped'
  <2>0. c.op = "probe"
    BY <1>5 DEF Canvas!ProbeAnswer
  <2>1. cached' \in Canvas!Style /\ lastMariner' \in Canvas!QuerySet /\ engineMode' = TRUE
    BY <1>5, <1>0, <1>b, <1>d, <2>0 DEF Canvas!ProbeAnswer
  <2>3. calls' = (calls \ {c}) \cup {scamin(c)}
    BY <1>5 DEF Canvas!ProbeAnswer, Canvas!Send, scamin, i
  <2>4. Room' /\ calls' \subseteq Canvas!Call
    BY <2>0, <2>3, <1>b, Followed
  <2>5. /\ UNCHANGED <<mariner, engineSet, serverSets, basemap, coastline, timer, waiting, live, loaded>>
        /\ UNCHANGED <<gen, left, overlapped, failed, told>>
    BY <1>5 DEF Canvas!ProbeAnswer, Canvas!env, Canvas!hist
  <2> QED
    BY <2>1, <2>4, <2>5 DEF CanvasTyped, Canvas!TypeOK, Live, Left, Server
<1>6. ASSUME NEW c \in calls, Canvas!ProbeFailed(c)
      PROVE  CanvasTyped'
  <2>0. c.op = "probe"
    BY <1>6 DEF Canvas!ProbeFailed
  <2>3. calls' = (calls \ {c}) \cup {metas(c, c.q.set)}
    BY <1>6 DEF Canvas!ProbeFailed, Canvas!Send, metas, i
  <2>4. Room' /\ calls' \subseteq Canvas!Call
    BY <2>0, <2>3, <1>b, Followed
  <2>5. /\ UNCHANGED <<mariner, engineMode, engineSet, serverSets, basemap, coastline, timer, waiting>>
        /\ UNCHANGED <<cached, lastMariner, live, loaded, gen, overlapped, told>> /\ failed' = TRUE
    BY <1>6 DEF Canvas!ProbeFailed, Canvas!style
  <2>6. left' \in Left /\ left'.bake = left.bake
    BY <1>6, Spent DEF CanvasTyped, Canvas!ProbeFailed, Canvas!Fails
  <2> QED
    BY <2>4, <2>5, <2>6 DEF CanvasTyped, Canvas!TypeOK, Live, Left, Server
<1>7. ASSUME NEW c \in calls, Canvas!ScaminAnswer(c)
      PROVE  CanvasTyped'
  <2>3. c.op = "scamin" /\ calls' = (calls \ {c}) \cup {metas(c, c.names)}
    BY <1>7 DEF Canvas!ScaminAnswer, Canvas!Send, metas, i
  <2>4. Room' /\ calls' \subseteq Canvas!Call
    BY <2>3, <1>c, Followed
  <2>5. /\ UNCHANGED <<mariner, engineMode, engineSet, serverSets, basemap, coastline, timer, waiting>>
        /\ UNCHANGED <<cached, lastMariner, live, loaded, gen, left, overlapped, failed, told>>
    BY <1>7 DEF Canvas!ScaminAnswer, Canvas!style, Canvas!env, Canvas!hist
  <2> QED
    BY <2>4, <2>5 DEF CanvasTyped, Canvas!TypeOK, Live, Left, Server
<1>8. ASSUME NEW c \in calls, Canvas!MetasAnswer(c)
      PROVE  CanvasTyped'
  <2>0. c.op = "metas" /\ c.names \in PackList
    BY <1>8, <1>a, Carried DEF Canvas!MetasAnswer
  <2>1. serverSets' \in Server
    BY <1>8, <2>0 DEF Canvas!MetasAnswer, CanvasTyped, Server
  <2>2. Canvas!BuildStyle(cached, engineMode, serverSets', basemap) \in Live
    BY <2>1, BuildsAStyle DEF CanvasTyped
  <2>3. live' \in Live /\ loaded' \in BOOLEAN
    <3>1. live \in Live /\ gen \in Canvas!Gens /\ loaded \in BOOLEAN /\ failed \in BOOLEAN
      BY DEF CanvasTyped
    <3>2. Canvas!Reloaded(c.names) \in Live
      BY <3>1 DEF Canvas!Reloaded, Live
    <3>3. [Canvas!Reloaded(c.names) EXCEPT !.kept = failed] \in Live
      BY <3>1, <3>2 DEF Live
    <3> QED
      BY <1>8, <2>2, <3>1, <3>3 DEF Canvas!MetasAnswer, Canvas!SetStyle
  <2>4. Room' /\ calls' \subseteq Canvas!Call
    BY <1>8, <1>e DEF Canvas!MetasAnswer
  <2>5. /\ UNCHANGED <<mariner, engineMode, engineSet, basemap, coastline, timer, waiting, cached, lastMariner>>
        /\ UNCHANGED <<gen, left, overlapped, failed, told>>
    BY <1>8 DEF Canvas!MetasAnswer, Canvas!env, Canvas!hist
  <2> QED
    BY <2>1, <2>3, <2>4, <2>5 DEF CanvasTyped, Canvas!TypeOK, Live, Left, Server
<1>9. ASSUME NEW c \in calls, Canvas!CoastAnswer(c)
      PROVE  CanvasTyped'
  <2>2. Canvas!BuildStyle(cached, engineMode, serverSets, "coastline") \in Live
    BY BuildsAStyle, Queries DEF CanvasTyped
  <2>3. live' \in Live /\ loaded' = FALSE /\ coastline' = TRUE /\ basemap' = "coastline"
    BY <1>9, <2>2 DEF Canvas!CoastAnswer, Canvas!SetStyle
  <2>4. Room' /\ calls' \subseteq Canvas!Call
    BY <1>9, <1>e DEF Canvas!CoastAnswer
  <2>5. /\ UNCHANGED <<mariner, engineMode, engineSet, serverSets, timer, waiting, cached, lastMariner>>
        /\ UNCHANGED <<gen, left, overlapped, failed, told>>
    BY <1>9 DEF Canvas!CoastAnswer, Canvas!env, Canvas!hist
  <2> QED
    BY <2>3, <2>4, <2>5, Queries DEF CanvasTyped, Canvas!TypeOK, Live, Left, Server
<1>10. ASSUME NEW c \in calls, Canvas!FlushAnswer(c)
      PROVE  CanvasTyped'
  <2>0. c.op = "flush" /\ c.names \in PackList
    BY <1>10, <1>a, Carried DEF Canvas!FlushAnswer
  <2>1. serverSets' \in Server /\ live' \in Live
    BY <1>10, <2>0 DEF Canvas!FlushAnswer, Canvas!Reloaded, CanvasTyped, Server, Live
  <2>4. Room' /\ calls' \subseteq Canvas!Call
    BY <1>10, <1>e DEF Canvas!FlushAnswer
  <2>5. /\ UNCHANGED <<mariner, engineMode, engineSet, basemap, coastline, timer, waiting, cached, lastMariner, loaded>>
        /\ UNCHANGED <<gen, left, overlapped, failed, told>>
    BY <1>10 DEF Canvas!FlushAnswer, Canvas!env, Canvas!hist
  <2> QED
    BY <2>1, <2>4, <2>5 DEF CanvasTyped, Canvas!TypeOK, Live, Left, Server
<1> QED
  BY <1>1, <1>2, <1>3, <1>4, <1>5, <1>6, <1>7, <1>8, <1>9, <1>10 DEF Canvas!Answer

LEMMA CanvasTypes ==
  ASSUME CanvasTyped, Canvas!CanvasConstants, Canvas!Next
  PROVE  CanvasTyped'
<1> USE Typed
<1>0. Canvas!MarinerQuery \in Canvas!QuerySet
  BY Queries DEF Canvas!MarinerQuery, CanvasTyped
<1>1. ASSUME Canvas!EngineRestyle
      PROVE  CanvasTyped'
  <2> DEFINE from == IF lastMariner = None THEN Canvas!MarinerQuery ELSE lastMariner
             d == [id |-> Canvas!Fresh(calls), op |-> "diff", from |-> from, to |-> Canvas!MarinerQuery]
  <2>1. from \in Canvas!QuerySet
    BY <1>0 DEF CanvasTyped
  <2>2. Canvas!Cardinality(calls) < MaxCalls
    BY <1>1 DEF Canvas!EngineRestyle
  <2>3. d \in Canvas!Call
    BY <1>0, <2>1, <2>2, Added, Requests
  <2>4. calls' = calls \/ calls' = calls \cup {d}
    BY <1>1 DEF Canvas!EngineRestyle, Canvas!Send
  <2> HIDE DEF d
  <2>5. Room' /\ calls' \subseteq Canvas!Call
    BY <2>2, <2>3, <2>4, Added DEF Room, CanvasTyped
  <2>6. waiting' \subseteq {"restyle", "install"} /\ lastMariner' \in Canvas!QuerySet \cup {None} /\ timer' = FALSE
    BY <1>0, <1>1 DEF Canvas!EngineRestyle, CanvasTyped
  <2>7. /\ UNCHANGED <<mariner, engineMode, engineSet, serverSets, basemap, coastline, cached, live, loaded>>
        /\ UNCHANGED <<gen, left, overlapped, failed, told>>
    BY <1>1 DEF Canvas!EngineRestyle, Canvas!env, Canvas!hist
  <2> QED
    BY <2>5, <2>6, <2>7 DEF CanvasTyped, Canvas!TypeOK, Live, Left, Server
<1>2. ASSUME Canvas!Idle
      PROVE  CanvasTyped'
  <2>1. Canvas!BuildStyle(cached, engineMode, serverSets, basemap) \in Live
    BY BuildsAStyle DEF CanvasTyped
  <2>2. live' \in Live /\ loaded' \in BOOLEAN /\ lastMariner' \in Canvas!QuerySet \cup {None}
    BY <1>0, <1>2, <2>1 DEF Canvas!Idle, Canvas!SetStyle, CanvasTyped
  <2>3. timer' \in BOOLEAN /\ waiting' = {}
    BY <1>2 DEF Canvas!Idle
  <2>4. /\ UNCHANGED <<mariner, engineMode, engineSet, serverSets, basemap, coastline, calls, cached>>
        /\ UNCHANGED <<gen, left, overlapped, failed, told>>
    BY <1>2 DEF Canvas!Idle, Canvas!env, Canvas!hist
  <2> QED
    BY <2>2, <2>3, <2>4 DEF CanvasTyped, Canvas!TypeOK, Live, Left, Server, Room
<1>3. ASSUME Canvas!Bake
      PROVE  CanvasTyped'
  <2>1. left' \in Left /\ left'.bake = left.bake - 1
    BY <1>3, Spent DEF CanvasTyped, Canvas!Bake
  <2>2. gen' \in Canvas!Gens /\ gen' + left'.bake = MaxBakes
    BY <1>3, <2>1 DEF CanvasTyped, Canvas!Bake, Canvas!Gens, Left, Canvas!CanvasConstants
  <2>3. /\ UNCHANGED <<mariner, engineMode, engineSet, serverSets, basemap, coastline, timer, waiting, calls>>
        /\ UNCHANGED <<cached, lastMariner, live, loaded, overlapped, failed>> /\ told' = FALSE
    BY <1>3 DEF Canvas!Bake, Canvas!style
  <2> QED
    BY <2>1, <2>2, <2>3 DEF CanvasTyped, Canvas!TypeOK, Live, Left, Server, Room
<1>4. ASSUME Canvas!Done
      PROVE  CanvasTyped'
  BY <1>4 DEF Canvas!Done, Canvas!vars, Canvas!style, Canvas!env, Canvas!hist, CanvasTyped, Canvas!TypeOK, Live, Left, Server, Room
<1> QED
  BY <1>1, <1>2, <1>3, <1>4, UserTyped, AnswerTyped DEF Canvas!Next

-----------------------------------------------------------------------------
(* What the style shows.  A set call is under way until its packs are on   *)
(* the map, a restyle until its style is; while changes come one at a time *)
(* no two of them are, and each carries what is current.                   *)
SetCall(c) == c.op \in {"probe", "scamin", "metas"}
Restyle(c) == c.op \in {"diff", "rebuild"}
Probing == \E c \in calls : SetCall(c)
Restyling == "install" \in waiting \/ \E c \in calls : Restyle(c)

InTurn ==
  /\ \A c \in calls : SetCall(c) => calls = {c} /\ ~timer /\ waiting = {}
  /\ \A c, d \in calls : Restyle(c) /\ Restyle(d) => c = d
  /\ Restyling => engineMode /\ ~timer /\ "restyle" \notin waiting
  /\ "install" \in waiting => \A c \in calls : ~Restyle(c)
  /\ ~engineMode => ~timer /\ waiting = {}
CarriesCurrent(c) ==
  /\ c.op = "flush" => c.names = serverSets.names
  /\ c.op = "diff" => c.from = lastMariner /\ c.to = Canvas!MarinerQuery
  /\ c.op \in {"rebuild", "probe"} => c.q = Canvas!MarinerQuery
  /\ c.op = "probe" => ~engineMode /\ c.q.set # {}
  /\ c.op = "scamin" => engineMode /\ c.names # {}
  /\ c.op \in {"scamin", "metas"} => c.names = engineSet
  /\ c.op = "metas" => c.prev = serverSets.names

(* The cached style and _lastMariner go together, and so does the map      *)
(* except between a set call's answer and its packs.                       *)
Synced ==
  /\ engineMode <=> cached # None
  /\ engineMode => cached.set = engineSet /\ lastMariner # None
  /\ engineMode /\ "install" \notin waiting =>
       /\ lastMariner = [set |-> cached.set, m |-> cached.m]
       /\ ~Probing /\ live.engine /\ ~live.kept => live.set = cached.set /\ live.m = cached.m
  /\ "install" \in waiting => cached.m = mariner
  /\ engineMode /\ Probing => cached.m = mariner

(* The packs' tiles are those of the last bake; without packs the chrome is *)
(* in the scheme chosen.                                                   *)
Fetched == ~Canvas!Alone(live) => \A p \in live.set : live.gen[p] = gen
ChromeShown == live.set = {} => (live.chrome <=> mariner[Scheme])

(* As long as no full style fetch failed the map shows the packs it was    *)
(* given, and the settings but for a restyle on its way.                   *)
Faithful ==
  /\ engineSet # {} => engineMode \/ \E c \in calls : c.op = "probe"
  /\ engineMode => engineSet # {}
  /\ live.engine <=> live.set # {}
  /\ live.set = serverSets.names
  /\ ~Probing => engineSet = serverSets.names /\ ~live.kept
  /\ Probing \/ ~engineMode => live.m = mariner
  /\ engineMode /\ ~timer /\ "restyle" \notin waiting /\ ~Restyling => cached.m = mariner
  /\ told => /\ cached # None => cached.gen = gen
             /\ ~Probing => serverSets.gen = gen /\ Fetched
  /\ ChromeShown
Painted == live.base = basemap /\ (waiting # {} => ~loaded)

StyleInv == /\ CanvasTyped /\ Painted
            /\ ~overlapped => InTurn /\ (\A c \in calls : CarriesCurrent(c)) /\ Synced
            /\ ~overlapped /\ ~failed => Faithful

LEMMA StyleInit ==
  ASSUME Canvas!CanvasConstants, Canvas!Init
  PROVE  StyleInv
<1>1. CanvasTyped
  BY CanvasInit
<1>2. Painted
  BY DEF Canvas!Init, Painted
<1>3. InTurn /\ (\A c \in calls : CarriesCurrent(c)) /\ Synced /\ Faithful
  <2>1. calls = {} /\ ~Probing /\ ~Restyling /\ live.set = {} /\ ~live.engine /\ ~live.kept
    BY DEF Canvas!Init, Probing, Restyling
  <2>2. Fetched /\ ChromeShown
    BY <2>1 DEF Canvas!Init, Fetched, ChromeShown, Canvas!CanvasConstants
  <2> QED
    BY <2>1, <2>2 DEF Canvas!Init, InTurn, CarriesCurrent, Synced, Faithful
<1> QED
  BY <1>1, <1>2, <1>3 DEF StyleInv

(* Nothing is in flight.                                                   *)
LEMMA Idling ==
  ASSUME StyleInv, ~overlapped, calls = {}, "install" \notin waiting
  PROVE  /\ ~Probing /\ ~Restyling /\ ~Canvas!Busy /\ Synced /\ (~failed => Faithful)
         /\ (~engineMode => ~timer /\ waiting = {})
BY DEF StyleInv, Probing, Restyling, Canvas!Busy, InTurn

(* What a style built of the cache shows.                                  *)
LEMMA BuiltOf ==
  ASSUME NEW cs \in Canvas!Style \cup {None}, NEW srv \in Server, NEW b, NEW l,
         NEW mode \in BOOLEAN, l = Canvas!BuildStyle(cs, mode, srv, b)
  PROVE  /\ l.base = b /\ ~l.kept /\ l.chrome = mariner[Scheme]
         /\ mode /\ cs # None => /\ l.engine /\ l.set = cs.set /\ l.m = cs.m
                                 /\ \A p \in l.set : l.gen[p] = cs.gen
         /\ ~(mode /\ cs # None) => /\ ~l.engine /\ l.set = srv.names /\ l.m = mariner
                                    /\ \A p \in l.set : l.gen[p] = srv.gen
<1>0. \A n \in PackList : n \subseteq Pack
  BY ConstantsAssumption DEF ChartConstants, Canvas!CanvasConstants
<1>1. CASE mode /\ cs # None
  <2>1. cs.set \subseteq Pack
    BY <1>0, <1>1 DEF Canvas!Style
  <2> QED
    BY <1>1, <2>1 DEF Canvas!BuildStyle
<1>2. CASE ~(mode /\ cs # None)
  <2>1. srv.names \subseteq Pack
    BY <1>0 DEF Server
  <2> QED
    BY <1>2, <2>1 DEF Canvas!BuildStyle
<1> QED
  BY <1>1, <1>2

(* An in-place change brings the settings to a style of the client's own,  *)
(* and keeps the chrome in the scheme if it was.                           *)
Adjusted == /\ live'.base = live.base /\ live'.set = live.set /\ live'.gen = live.gen
            /\ (live'.engine <=> live.engine) /\ (live'.kept <=> live.kept)
            /\ ~live.engine => live'.m = mariner'
            /\ (live.chrome <=> mariner[Scheme]) => (live'.chrome <=> mariner'[Scheme])

LEMMA InPlaceAdjusts ==
  ASSUME live \in Live, mariner \in Canvas!Settings, Canvas!CanvasConstants, NEW s \in CanvasSetting, Canvas!Change(s),
         NEW h, live' = Canvas!InPlace(mariner', h), (h = live.chrome /\ s # Scheme) \/ h = mariner'[Scheme]
  PROVE  Adjusted
<1>1. PICK m : m = mariner'
  OBVIOUS
<1>2. live' = [live EXCEPT !.m = IF live.engine THEN live.m ELSE m, !.chrome = h]
  BY <1>1 DEF Canvas!InPlace
<1>3. /\ live'.base = live.base /\ live'.set = live.set /\ live'.gen = live.gen /\ live'.engine = live.engine
      /\ live'.kept = live.kept /\ (~live.engine => live'.m = m) /\ live'.chrome = h
  BY <1>2 DEF Live
<1>4. s # Scheme => mariner'[Scheme] = mariner[Scheme]
  BY DEF Canvas!Change, Canvas!Settings, Canvas!CanvasConstants
<1> QED
  BY <1>1, <1>3, <1>4 DEF Adjusted

LEMMA ChangeStyle ==
  ASSUME StyleInv, Canvas!CanvasConstants, NEW s \in CanvasSetting, Canvas!Change(s),
         (Canvas!Restyle(live.chrome) /\ s # Scheme) \/ Canvas!Restyle(mariner'[Scheme]) \/ Canvas!SetPxPitch,
         CanvasTyped'
  PROVE  StyleInv'
<1> USE Typed
<1>1. /\ UNCHANGED <<engineMode, engineSet, serverSets, basemap, coastline, waiting, calls>>
      /\ UNCHANGED <<cached, lastMariner, gen, failed, told>>
      /\ overlapped' <=> overlapped \/ Canvas!Busy
  BY DEF Canvas!Change
<1>2. live \in Live /\ Canvas!BuildStyle(cached, FALSE, serverSets, basemap) \in Live
  BY BuildsAStyle DEF StyleInv, CanvasTyped
<1>3. \/ engineMode /\ timer' /\ live' = live /\ loaded' = loaded
      \/ ~engineMode /\ (timer' <=> timer) /\ Adjusted /\ loaded' = loaded
      \/ /\ ~engineMode /\ (timer' <=> timer) /\ ~loaded'
         /\ live' = [Canvas!BuildStyle(cached, FALSE, serverSets, basemap) EXCEPT !.m = mariner'] /\ s = Pitch
  <2>0. mariner \in Canvas!Settings
    BY DEF StyleInv, CanvasTyped
  <2>1. CASE Canvas!Restyle(live.chrome) /\ s # Scheme
    <3>1. PICK h : h = live.chrome
      OBVIOUS
    <3>2. CASE engineMode
      BY <2>1, <3>2 DEF Canvas!Restyle
    <3>3. CASE ~engineMode
      <4>1. live' = Canvas!InPlace(mariner', h) /\ (timer' <=> timer) /\ loaded' = loaded
        BY <2>1, <3>1, <3>3 DEF Canvas!Restyle
      <4>2. Adjusted
        BY <1>2, <2>0, <2>1, <3>1, <4>1, InPlaceAdjusts
      <4> QED
        BY <3>3, <4>1, <4>2
    <3> QED
      BY <3>2, <3>3
  <2>2. CASE Canvas!Restyle(mariner'[Scheme])
    <3>1. PICK h : h = mariner'[Scheme]
      OBVIOUS
    <3>2. CASE engineMode
      BY <2>2, <3>2 DEF Canvas!Restyle
    <3>3. CASE ~engineMode
      <4>1. live' = Canvas!InPlace(mariner', h) /\ (timer' <=> timer) /\ loaded' = loaded
        BY <2>2, <3>1, <3>3 DEF Canvas!Restyle
      <4>2. Adjusted
        BY <1>2, <2>0, <3>1, <4>1, InPlaceAdjusts
      <4> QED
        BY <3>3, <4>1, <4>2
    <3> QED
      BY <3>2, <3>3
  <2>3. CASE Canvas!SetPxPitch
    <3>1. mariner'[Pitch] # mariner[Pitch] /\ mariner'[s] # mariner[s] /\ (s # Pitch => mariner'[Pitch] = mariner[Pitch])
      BY <2>0, <2>3 DEF Canvas!Change, Canvas!SetPxPitch, Canvas!Settings, Canvas!CanvasConstants
    <3> QED
      BY <2>3, <3>1 DEF Canvas!SetPxPitch
  <2> QED
    BY <2>1, <2>2, <2>3
<1>4. Painted'
  <2>0. Painted /\ Canvas!BuildStyle(cached, FALSE, serverSets, basemap).base = basemap
    BY BuildsAStyle DEF StyleInv, CanvasTyped
  <2>1. live'.base = basemap
    <3> HIDE DEF Live
    <3>1. CASE live' = live
      BY <2>0, <3>1 DEF Painted
    <3>2. CASE Adjusted
      BY <2>0, <3>2 DEF Painted, Adjusted
    <3>3. CASE live' = [Canvas!BuildStyle(cached, FALSE, serverSets, basemap) EXCEPT !.m = mariner']
      BY <1>2, <2>0, <3>3 DEF Live
    <3> QED
      BY <1>3, <3>1, <3>2, <3>3
  <2>2. loaded' => loaded
    BY <1>3, Zenon
  <2> QED
    BY <1>1, <2>0, <2>1, <2>2 DEF Painted
<1>5. ASSUME ~overlapped'
      PROVE  InTurn' /\ (\A c \in calls' : CarriesCurrent(c)') /\ Synced' /\ (~failed' => Faithful')
  <2>1. ~overlapped /\ calls = {} /\ "install" \notin waiting
    BY <1>1, <1>5 DEF Canvas!Busy
  <2>2. Synced /\ (~failed => Faithful) /\ ~Probing /\ ~Restyling /\ (~engineMode => ~timer /\ waiting = {})
    BY <2>1, Idling
  <2>3. calls' = {} /\ "install" \notin waiting' /\ ~Probing' /\ ~Restyling'
    BY <1>1, <2>1 DEF Probing, Restyling
  <2>4. InTurn' /\ (\A c \in calls' : CarriesCurrent(c)')
    BY <1>1, <1>3, <2>2, <2>3 DEF InTurn
  <2>5. Synced'
    BY <1>1, <1>3, <2>2, <2>3 DEF Synced
  <2>6. ASSUME ~failed
        PROVE  Faithful'
    <3>1. Faithful
      BY <2>2, <2>6
    <3>2. CASE engineMode
      BY <1>1, <1>3, <2>3, <2>2, <3>1, <3>2 DEF Faithful, Fetched, ChromeShown
    <3>3. CASE ~engineMode /\ Adjusted
      <4>1. /\ live'.m = mariner' /\ live'.set = live.set /\ live'.gen = live.gen
            /\ (live'.engine <=> live.engine) /\ ~live'.kept /\ (Canvas!Alone(live') <=> Canvas!Alone(live))
        BY <1>2, <2>2, <3>1, <3>3, <2>1 DEF Faithful, Adjusted, Live, Canvas!Alone
      <4>2. ChromeShown'
        BY <3>1, <3>3, <4>1 DEF Faithful, ChromeShown, Adjusted
      <4> QED
        BY <1>1, <2>3, <2>2, <2>1, <3>1, <3>3, <4>1, <4>2 DEF Faithful, Fetched
    <3>4. CASE ~engineMode /\ live' = [Canvas!BuildStyle(cached, FALSE, serverSets, basemap) EXCEPT !.m = mariner'] /\ s = Pitch
      <4>0. PICK l : l = Canvas!BuildStyle(cached, FALSE, serverSets, basemap)
        OBVIOUS
      <4>1. /\ live'.m = mariner' /\ live'.set = serverSets.names /\ (\A p \in live'.set : live'.gen[p] = serverSets.gen)
            /\ ~live'.engine /\ ~live'.kept /\ (live'.chrome <=> mariner'[Scheme])
        <5>1. /\ l \in Live /\ ~l.engine /\ ~l.kept /\ l.set = serverSets.names /\ l.chrome = mariner[Scheme]
              /\ \A p \in l.set : l.gen[p] = serverSets.gen
          <6>1. PICK mo : mo = FALSE
            OBVIOUS
          <6>2. mo \in BOOLEAN /\ ~(mo /\ cached # None) /\ l = Canvas!BuildStyle(cached, mo, serverSets, basemap)
            BY <4>0, <6>1
          <6>3. cached \in Canvas!Style \cup {None} /\ serverSets \in Server /\ l \in Live
            BY <1>2, <4>0 DEF StyleInv, CanvasTyped
          <6>4. /\ ~l.kept /\ l.chrome = mariner[Scheme] /\ ~l.engine /\ l.set = serverSets.names
                /\ \A p \in l.set : l.gen[p] = serverSets.gen
            BY <6>2, <6>3, BuiltOf
          <6> QED
            BY <6>3, <6>4
        <5>2. mariner'[Scheme] = mariner[Scheme]
          BY <3>4 DEF Canvas!Change, Canvas!CanvasConstants, StyleInv, CanvasTyped, Canvas!Settings
        <5>3. live' = [l EXCEPT !.m = mariner']
          BY <3>4, <4>0
        <5>4. /\ live'.m = mariner' /\ live'.set = l.set /\ live'.gen = l.gen /\ live'.engine = l.engine
              /\ live'.kept = l.kept /\ live'.chrome = l.chrome
          BY <5>1, <5>3 DEF Live
        <5> QED
          BY <5>1, <5>2, <5>4
      <4> QED
        BY <1>1, <2>3, <2>2, <2>1, <3>1, <3>4, <4>1 DEF Faithful, Fetched, ChromeShown
    <3> QED
      BY <1>3, <3>2, <3>3, <3>4
  <2> QED
    BY <1>1, <2>4, <2>5, <2>6
<1> QED
  BY <1>4, <1>5 DEF StyleInv

LEMMA SetServerSetsStyle ==
  ASSUME StyleInv, NEW names \in PackList, Canvas!SetServerSets(names), CanvasTyped'
  PROVE  StyleInv'
<1>1. /\ UNCHANGED <<mariner, serverSets, basemap, coastline, timer, waiting, lastMariner, live, loaded, gen, failed>>
      /\ engineMode' = FALSE /\ cached' = None /\ engineSet' = names
      /\ overlapped' <=> (overlapped \/ Canvas!Busy \/ timer \/ waiting # {})
  BY DEF Canvas!SetServerSets
<1>2. PICK d : /\ calls' = calls \cup {d}
               /\ d = IF names = {} THEN [id |-> Canvas!Fresh(calls), op |-> "metas", names |-> names, prev |-> serverSets.names]
                      ELSE [id |-> Canvas!Fresh(calls), op |-> "probe", q |-> [set |-> names, m |-> mariner]]
  BY DEF Canvas!SetServerSets, Canvas!Send
<1>3. /\ d.op = "probe" => names # {} /\ d.q = [set |-> names, m |-> mariner]
      /\ d.op = "metas" => names = {} /\ d.names = names /\ d.prev = serverSets.names
      /\ d.op \in {"probe", "metas"} /\ (names # {} => d.op = "probe")
  BY <1>2
<1>4. Painted'
  <2>1. loaded' => loaded
    BY <1>1, Zenon
  <2> QED
    BY <1>1, <2>1 DEF StyleInv, Painted
<1>5. ASSUME ~overlapped'
      PROVE  InTurn' /\ (\A c \in calls' : CarriesCurrent(c)') /\ Synced' /\ (~failed' => Faithful')
  <2>1. ~overlapped /\ calls = {} /\ waiting = {} /\ ~timer
    BY <1>1, <1>5 DEF Canvas!Busy
  <2>2. Synced /\ (~failed => Faithful) /\ ~Probing /\ ~Restyling
    BY <2>1, Idling
  <2>3. calls' = {d} /\ waiting' = {} /\ ~timer' /\ ~engineMode' /\ cached' = None
    BY <1>1, <1>2, <2>1
  <2>4. Probing' /\ ~Restyling'
    BY <1>3, <2>3 DEF Probing, Restyling, SetCall, Restyle
  <2>5. InTurn'
    BY <2>3, <2>4 DEF InTurn
  <2>6. CarriesCurrent(d)'
    BY <1>1, <1>3, <2>3 DEF CarriesCurrent, Canvas!MarinerQuery
  <2>7. Synced'
    BY <2>3 DEF Synced
  <2>8. ASSUME ~failed
        PROVE  Faithful'
    <3>1. Faithful
      BY <2>2, <2>8
    <3>2. live.m = mariner
      BY <2>1, <2>2, <3>1 DEF Faithful, Synced, Fetched, ChromeShown
    <3>3. engineSet' # {} => \E c \in calls' : c.op = "probe"
      BY <1>1, <1>3, <2>3
    <3> QED
      BY <1>1, <2>3, <2>4, <3>1, <3>2, <3>3 DEF Faithful, Fetched, ChromeShown
  <2> QED
    BY <1>1, <2>3, <2>5, <2>6, <2>7, <2>8
<1> QED
  BY <1>4, <1>5 DEF StyleInv

LEMMA SetBasemapStyle ==
  ASSUME StyleInv, NEW b \in Canvas!Basemap, Canvas!SetBasemap(b), CanvasTyped'
  PROVE  StyleInv'
<1> USE Typed
<1> DEFINE d == [id |-> Canvas!Fresh(calls), op |-> "coast"]
<1>1. /\ UNCHANGED <<mariner, engineMode, engineSet, serverSets, timer, waiting, cached, lastMariner, gen, failed, told>>
      /\ overlapped' <=> overlapped \/ Canvas!Busy
  BY DEF Canvas!SetBasemap
<1>2. \/ calls' = calls \cup {d} /\ UNCHANGED <<basemap, live, loaded>>
      \/ /\ calls' = calls /\ basemap' = b /\ ~loaded'
         /\ live' = Canvas!BuildStyle(cached, engineMode, serverSets, b)
  BY DEF Canvas!SetBasemap, Canvas!Send, Canvas!SetStyle
<1>3. cached \in Canvas!Style \cup {None} /\ serverSets \in Server /\ engineMode \in BOOLEAN
  BY DEF StyleInv, CanvasTyped
<1>4. Painted'
  <2>1. live'.base = basemap'
    BY <1>2, <1>3, BuiltOf DEF StyleInv, Painted
  <2>2. loaded' => loaded
    BY <1>2, Zenon
  <2> QED
    BY <1>1, <2>1, <2>2 DEF StyleInv, Painted
<1>5. ASSUME ~overlapped'
      PROVE  InTurn' /\ (\A c \in calls' : CarriesCurrent(c)') /\ Synced' /\ (~failed' => Faithful')
  <2>1. ~overlapped /\ calls = {} /\ "install" \notin waiting
    BY <1>1, <1>5 DEF Canvas!Busy
  <2>2. Synced /\ (~failed => Faithful) /\ ~Probing /\ ~Restyling /\ (~engineMode => ~timer /\ waiting = {})
    BY <2>1, Idling
  <2>3. \A c \in calls' : c.op = "coast"
    BY <1>2, <2>1
  <2>4. ~Probing' /\ ~Restyling' /\ \A c \in calls' : ~SetCall(c) /\ ~Restyle(c)
    BY <1>1, <2>1, <2>3 DEF Probing, Restyling, SetCall, Restyle
  <2>5. InTurn' /\ \A c \in calls' : CarriesCurrent(c)'
    BY <1>1, <2>2, <2>3, <2>4 DEF InTurn, CarriesCurrent
  <2>6. CASE live' = live
    <3>1. Synced'
      BY <1>1, <2>2, <2>4, <2>6 DEF Synced
    <3>2. ~failed => Faithful'
      BY <1>1, <2>1, <2>2, <2>4, <2>6 DEF Faithful, Fetched, ChromeShown
    <3> QED
      BY <1>1, <2>5, <3>1, <3>2
  <2>7. CASE live' = Canvas!BuildStyle(cached, engineMode, serverSets, b)
    <3>1. /\ ~live'.kept
          /\ engineMode => live'.engine /\ live'.set = cached.set /\ live'.m = cached.m /\ (\A p \in live'.set : live'.gen[p] = cached.gen)
          /\ ~engineMode => ~live'.engine /\ live'.set = serverSets.names /\ live'.m = mariner /\ (\A p \in live'.set : live'.gen[p] = serverSets.gen)
      BY <1>3, <2>2, <2>7, BuiltOf DEF Synced
    <3>2. Synced'
      BY <1>1, <2>2, <2>4, <3>1 DEF Synced
    <3>4. live'.chrome = mariner[Scheme]
      BY <1>3, <2>7, BuiltOf
    <3>5. ~failed => (told => Fetched') /\ ChromeShown'
      BY <1>1, <2>2, <3>1, <3>4 DEF Synced, Faithful, Fetched, ChromeShown
    <3>3. ~failed => Faithful'
      BY <1>1, <2>1, <2>2, <2>4, <3>1, <3>5 DEF Synced, Faithful
    <3> QED
      BY <1>1, <2>5, <3>2, <3>3
  <2> QED
    BY <1>2, <2>6, <2>7
<1> QED
  BY <1>4, <1>5 DEF StyleInv

LEMMA FlushTilesStyle ==
  ASSUME StyleInv, Canvas!FlushTiles, CanvasTyped'
  PROVE  StyleInv'
<1> DEFINE d == [id |-> Canvas!Fresh(calls), op |-> "flush", names |-> serverSets.names]
<1>1. /\ UNCHANGED <<mariner, engineMode, engineSet, serverSets, basemap, coastline, timer, waiting>>
      /\ UNCHANGED <<cached, lastMariner, live, loaded, gen, failed, told>>
      /\ overlapped' <=> overlapped \/ Canvas!Busy
  BY DEF Canvas!FlushTiles, Canvas!style
<1>2. calls' = calls \cup {d} /\ d.op = "flush" /\ d.names = serverSets.names
  BY DEF Canvas!FlushTiles, Canvas!Send
<1> HIDE DEF d
<1>4. Painted'
  BY <1>1 DEF StyleInv, Painted
<1>5. ASSUME ~overlapped'
      PROVE  InTurn' /\ (\A c \in calls' : CarriesCurrent(c)') /\ Synced' /\ (~failed' => Faithful')
  <2>1. ~overlapped /\ calls = {} /\ "install" \notin waiting
    BY <1>1, <1>5 DEF Canvas!Busy
  <2>2. Synced /\ (~failed => Faithful) /\ ~Probing /\ ~Restyling /\ (~engineMode => ~timer /\ waiting = {})
    BY <2>1, Idling
  <2>3. calls' = {d}
    BY <1>2, <2>1
  <2>4. ~Probing' /\ ~Restyling' /\ \A c \in calls' : ~SetCall(c) /\ ~Restyle(c)
    BY <1>1, <1>2, <2>1, <2>3 DEF Probing, Restyling, SetCall, Restyle
  <2>5. InTurn' /\ \A c \in calls' : CarriesCurrent(c)'
    BY <1>1, <1>2, <2>2, <2>3, <2>4 DEF InTurn, CarriesCurrent
  <2>6. Synced'
    BY <1>1, <2>2, <2>4 DEF Synced
  <2>7. ~failed => Faithful'
    BY <1>1, <2>1, <2>2, <2>4 DEF Faithful, Fetched, ChromeShown
  <2> QED
    BY <1>1, <2>5, <2>6, <2>7
<1> QED
  BY <1>4, <1>5 DEF StyleInv

LEMMA BakeStyle ==
  ASSUME StyleInv, Canvas!Bake, CanvasTyped'
  PROVE  StyleInv'
<1>1. /\ UNCHANGED <<mariner, engineMode, engineSet, serverSets, basemap, coastline, timer, waiting, calls>>
      /\ UNCHANGED <<cached, lastMariner, live, loaded, overlapped, failed>> /\ told' = FALSE
  BY DEF Canvas!Bake, Canvas!style
<1>2. Painted'
  BY <1>1 DEF StyleInv, Painted
<1>3. ASSUME ~overlapped'
      PROVE  InTurn' /\ (\A c \in calls' : CarriesCurrent(c)') /\ Synced' /\ (~failed' => Faithful')
  <2>1. InTurn /\ (\A c \in calls : CarriesCurrent(c)) /\ Synced /\ (~failed => Faithful)
    BY <1>1, <1>3 DEF StyleInv
  <2>2. (Probing' <=> Probing) /\ (Restyling' <=> Restyling)
    BY <1>1 DEF Probing, Restyling
  <2>3. InTurn'
    BY <1>1, <2>1, <2>2 DEF InTurn
  <2>4. \A c \in calls' : CarriesCurrent(c)'
    BY <1>1, <2>1 DEF CarriesCurrent, Canvas!MarinerQuery
  <2>5. Synced'
    BY <1>1, <2>1, <2>2 DEF Synced
  <2>6. ~failed' => Faithful'
    BY <1>1, <2>1, <2>2 DEF Faithful, Fetched, ChromeShown
  <2> QED
    BY <2>3, <2>4, <2>5, <2>6
<1> QED
  BY <1>2, <1>3 DEF StyleInv

LEMMA IdleStyle ==
  ASSUME StyleInv, Canvas!CanvasConstants, Canvas!Idle, CanvasTyped'
  PROVE  StyleInv'
<1> USE Typed
<1>1. /\ UNCHANGED <<mariner, engineMode, engineSet, serverSets, basemap, coastline, calls, cached>>
      /\ UNCHANGED <<gen, left, overlapped, failed, told>>
      /\ waiting' = {} /\ (timer' <=> timer \/ ("restyle" \in waiting /\ engineMode))
  BY DEF Canvas!Idle, Canvas!env, Canvas!hist
<1>2. \/ /\ "install" \in waiting /\ live' = Canvas!BuildStyle(cached, engineMode, serverSets, basemap)
         /\ lastMariner' = Canvas!MarinerQuery
      \/ "install" \notin waiting /\ UNCHANGED <<live, lastMariner>>
  BY DEF Canvas!Idle, Canvas!SetStyle
<1>3. cached \in Canvas!Style \cup {None} /\ serverSets \in Server /\ engineMode \in BOOLEAN
  BY DEF StyleInv, CanvasTyped
<1>4. Painted'
  BY <1>1, <1>2, <1>3, BuiltOf DEF StyleInv, Painted
<1>5. ASSUME ~overlapped'
      PROVE  InTurn' /\ (\A c \in calls' : CarriesCurrent(c)') /\ Synced' /\ (~failed' => Faithful')
  <2>1. InTurn /\ (\A c \in calls : CarriesCurrent(c)) /\ Synced /\ (~failed => Faithful)
    BY <1>1, <1>5 DEF StyleInv
  <2>2. Probing' <=> Probing
    BY <1>1 DEF Probing
  <2>3. Restyling' => Restyling
    BY <1>1 DEF Restyling
  <2>4. InTurn'
    BY <1>1, <2>1, <2>3 DEF InTurn
  <2>5. CASE "install" \notin waiting
    <3>0. Restyling' <=> Restyling
      BY <1>1, <2>5 DEF Restyling
    <3>1. \A c \in calls' : CarriesCurrent(c)'
      BY <1>1, <1>2, <2>1, <2>5 DEF CarriesCurrent, Canvas!MarinerQuery
    <3>2. Synced'
      BY <1>1, <1>2, <2>1, <2>2, <2>5 DEF Synced
    <3>3. ~failed' => Faithful'
      BY <1>1, <1>2, <2>1, <2>2, <3>0, <2>5 DEF Faithful, Fetched, ChromeShown
    <3> QED
      BY <2>4, <3>1, <3>2, <3>3
  <2>6. CASE "install" \in waiting
    <3>1. engineMode /\ ~Probing /\ (\A c \in calls : ~Restyle(c)) /\ cached # None
      BY <2>1, <2>6 DEF InTurn, Restyling, Probing, Synced
    <3>2. \A c \in calls' : CarriesCurrent(c)'
      BY <1>1, <2>1, <3>1 DEF CarriesCurrent, Restyle, Canvas!MarinerQuery
    <3>3. live'.engine /\ live'.set = cached.set /\ live'.m = cached.m /\ (\A p \in live'.set : live'.gen[p] = cached.gen) /\ ~live'.kept
      <4>1. live' = Canvas!BuildStyle(cached, engineMode, serverSets, basemap)
        BY <1>2, <2>6
      <4>2. /\ ~live'.kept
            /\ engineMode /\ cached # None => live'.engine /\ live'.set = cached.set /\ live'.m = cached.m /\ (\A p \in live'.set : live'.gen[p] = cached.gen)
        BY <1>3, <4>1, BuiltOf
      <4> QED
        BY <3>1, <4>2
    <3>6. /\ lastMariner' = [set |-> engineSet, m |-> mariner] /\ engineMode' /\ ~Probing' /\ waiting' = {}
          /\ cached.m = mariner /\ cached.set = engineSet
      BY <1>1, <1>2, <2>1, <2>2, <2>6, <3>1 DEF Synced, Canvas!MarinerQuery
    <3>7. lastMariner' # None
      <4>1. lastMariner' \in Canvas!QuerySet
        BY <3>6, Queries DEF StyleInv, CanvasTyped
      <4> QED
        BY <4>1 DEF Canvas!CanvasConstants
    <3>4. Synced'
      BY <1>1, <3>1, <3>3, <3>6, <3>7 DEF Synced
    <3>5. ~failed' => Faithful'
      BY <1>1, <2>1, <2>2, <2>6, <3>1, <3>3 DEF Faithful, Synced, Fetched, ChromeShown
    <3> QED
      BY <2>4, <3>2, <3>4, <3>5
  <2> QED
    BY <2>5, <2>6
<1> QED
  BY <1>4, <1>5 DEF StyleInv

LEMMA EngineRestyleStyle ==
  ASSUME StyleInv, Canvas!EngineRestyle, CanvasTyped'
  PROVE  StyleInv'
<1>1. /\ UNCHANGED <<mariner, engineMode, engineSet, serverSets, basemap, coastline, cached, live, loaded>>
      /\ UNCHANGED <<gen, left, overlapped, failed, told>> /\ timer /\ ~timer'
  BY DEF Canvas!EngineRestyle, Canvas!env, Canvas!hist
<1>2. PICK from : from = IF lastMariner = None THEN Canvas!MarinerQuery ELSE lastMariner
  OBVIOUS
<1>3. PICK d : d = [id |-> Canvas!Fresh(calls), op |-> "diff", from |-> from, to |-> Canvas!MarinerQuery]
  OBVIOUS
<1>4. \/ ~engineMode /\ UNCHANGED <<waiting, calls, lastMariner>>
      \/ engineMode /\ ~loaded /\ waiting' = waiting \cup {"restyle"} /\ UNCHANGED <<calls, lastMariner>>
      \/ engineMode /\ from = Canvas!MarinerQuery /\ lastMariner' = Canvas!MarinerQuery /\ UNCHANGED <<waiting, calls>>
      \/ engineMode /\ loaded /\ calls' = calls \cup {d} /\ UNCHANGED <<waiting, lastMariner>>
  BY <1>2, <1>3 DEF Canvas!EngineRestyle, Canvas!Send
<1>5. Painted'
  <2>1. (waiting' = waiting \/ ~loaded) /\ (loaded' => loaded)
    <3>1. loaded' => loaded
      BY <1>1, Zenon
    <3> QED
      BY <1>4, <3>1
  <2> QED
    BY <1>1, <2>1 DEF StyleInv, Painted
<1>6. ASSUME ~overlapped'
      PROVE  InTurn' /\ (\A c \in calls' : CarriesCurrent(c)') /\ Synced' /\ (~failed' => Faithful')
  <2>1. InTurn /\ (\A c \in calls : CarriesCurrent(c)) /\ Synced /\ (~failed => Faithful)
    BY <1>1, <1>6 DEF StyleInv
  <2>2. engineMode /\ "install" \notin waiting /\ (\A c \in calls : ~SetCall(c) /\ ~Restyle(c)) /\ ~Restyling /\ ~Probing
    BY <1>1, <2>1 DEF InTurn, Restyling, Probing
  <2>3. lastMariner # None /\ from = lastMariner
    BY <1>2, <2>1, <2>2 DEF Synced
  <2>4. CASE ~loaded /\ waiting' = waiting \cup {"restyle"} /\ UNCHANGED <<calls, lastMariner>>
    <3>1. ~Probing' /\ ~Restyling'
      BY <2>2, <2>4 DEF Probing, Restyling
    <3>2. InTurn' /\ \A c \in calls' : CarriesCurrent(c)'
      BY <1>1, <2>1, <2>2, <2>4, <3>1 DEF InTurn, CarriesCurrent, Restyle, SetCall
    <3>3. Synced'
      BY <1>1, <2>1, <2>2, <2>4, <3>1 DEF Synced
    <3>4. ~failed' => Faithful'
      BY <1>1, <2>1, <2>2, <2>4, <3>1 DEF Faithful, Fetched, ChromeShown
    <3> QED
      BY <3>2, <3>3, <3>4
  <2>5. CASE from = Canvas!MarinerQuery /\ lastMariner' = Canvas!MarinerQuery /\ UNCHANGED <<waiting, calls>>
    <3>1. ~Probing' /\ ~Restyling' /\ lastMariner' = lastMariner
      BY <2>2, <2>3, <2>5 DEF Probing, Restyling
    <3>2. InTurn' /\ \A c \in calls' : CarriesCurrent(c)'
      BY <1>1, <2>1, <2>2, <2>5, <3>1 DEF InTurn, CarriesCurrent, Restyle, SetCall
    <3>3. Synced'
      BY <1>1, <2>1, <2>2, <2>5, <3>1 DEF Synced
    <3>5. cached.m = mariner
      BY <2>1, <2>2, <2>3, <2>5 DEF Synced, Canvas!MarinerQuery
    <3>4. ~failed' => Faithful'
      BY <1>1, <2>1, <2>2, <2>5, <3>1, <3>5 DEF Faithful, Fetched, ChromeShown
    <3> QED
      BY <3>2, <3>3, <3>4
  <2>6. CASE loaded /\ calls' = calls \cup {d} /\ UNCHANGED <<waiting, lastMariner>>
    <3>0. d.op = "diff" /\ d.from = lastMariner /\ d.to = Canvas!MarinerQuery
      BY <1>3, <2>3
    <3>1. ~Probing' /\ Restyling' /\ \A c \in calls' : ~SetCall(c) /\ (Restyle(c) <=> c = d)
      BY <2>2, <2>6, <3>0 DEF Probing, Restyling, SetCall, Restyle
    <3>5. waiting' = {}
      BY <2>6 DEF StyleInv, Painted
    <3>2. InTurn'
      BY <1>1, <2>2, <3>1, <3>5 DEF InTurn
    <3>6. CarriesCurrent(d)' /\ \A c \in calls : CarriesCurrent(c)'
      BY <1>1, <2>1, <2>6, <3>0 DEF CarriesCurrent, Canvas!MarinerQuery
    <3>3. Synced'
      BY <1>1, <2>1, <2>2, <2>6, <3>1 DEF Synced
    <3>4. ~failed' => Faithful'
      BY <1>1, <2>1, <2>2, <2>6, <3>1 DEF Faithful, Fetched, ChromeShown
    <3> QED
      BY <2>6, <3>2, <3>3, <3>4, <3>6
  <2> QED
    BY <1>4, <2>2, <2>4, <2>5, <2>6
<1> QED
  BY <1>5, <1>6 DEF StyleInv

(* The other requests when one is answered.                                *)
LEMMA Others ==
  ASSUME InTurn, NEW c \in calls
  PROVE  /\ SetCall(c) => calls = {c} /\ ~timer /\ waiting = {} /\ ~Restyling
         /\ ~SetCall(c) => ~Probing /\ \A e \in calls : ~SetCall(e)
         /\ Restyle(c) => engineMode /\ ~timer /\ "restyle" \notin waiting /\ "install" \notin waiting /\ Restyling
         /\ Restyle(c) => \A e \in calls \ {c} : ~Restyle(e)
         /\ ~(SetCall(c) /\ Restyle(c))
<1>1. ~(SetCall(c) /\ Restyle(c))
  BY DEF SetCall, Restyle
<1>2. ~SetCall(c) => \A e \in calls : ~SetCall(e)
  BY DEF InTurn
<1>3. Restyle(c) => Restyling
  BY DEF Restyling
<1> QED
  BY <1>1, <1>2, <1>3 DEF InTurn, Probing, Restyling

LEMMA OneLess ==
  ASSUME InTurn, NEW c \in calls, calls' = calls \ {c}, UNCHANGED <<engineMode, timer, waiting>>
  PROVE  /\ InTurn' /\ ~Probing'
         /\ ~Restyle(c) => (Restyling' <=> Restyling)
         /\ Restyle(c) => ~Restyling'
<1>1. \A e \in calls' : ~SetCall(e)
  <2> SUFFICES ASSUME NEW e \in calls', SetCall(e) PROVE FALSE
    OBVIOUS
  <2>1. calls = {e}
    BY DEF InTurn
  <2> QED
    BY <2>1
<1>2. Restyling' => Restyling
  BY DEF Restyling
<1>3. InTurn'
  BY <1>1, <1>2 DEF InTurn
<1>4. ~Restyle(c) => (Restyling' <=> Restyling)
  BY DEF Restyling
<1>5. Restyle(c) => ~Restyling'
  BY Others DEF Restyling
<1> QED
  BY <1>1, <1>3, <1>4, <1>5 DEF Probing

LEMMA OneForAnother ==
  ASSUME InTurn, NEW c \in calls, NEW d, calls' = (calls \ {c}) \cup {d},
         (SetCall(c) /\ SetCall(d)) \/ (Restyle(c) /\ Restyle(d)),
         UNCHANGED <<timer, waiting>>, (engineMode' <=> engineMode) \/ SetCall(c)
  PROVE  /\ InTurn' /\ (Probing' <=> Probing) /\ (Restyling' <=> Restyling)
         /\ SetCall(c) => calls' = {d} /\ Probing
<1>1. CASE SetCall(c) /\ SetCall(d)
  <2>1. calls = {c} /\ ~timer /\ waiting = {} /\ ~Restyling /\ Probing
    BY <1>1, Others DEF Probing
  <2>2. calls' = {d} /\ ~Restyle(d)
    BY <1>1, <2>1 DEF SetCall, Restyle
  <2>3. Probing' /\ ~Restyling'
    BY <1>1, <2>1, <2>2 DEF Probing, Restyling
  <2> QED
    BY <1>1, <2>1, <2>2, <2>3 DEF InTurn
<1>2. CASE Restyle(c) /\ Restyle(d)
  <2>1. engineMode /\ ~timer /\ waiting \cap {"restyle", "install"} = {} /\ Restyling
    BY <1>2, Others
  <2>2. ~SetCall(c) /\ ~SetCall(d)
    BY <1>2 DEF SetCall, Restyle
  <2>3. ~Probing /\ (\A e \in calls : ~SetCall(e)) /\ \A e \in calls \ {c} : ~Restyle(e)
    BY <1>2, <2>2, Others
  <2>4. Restyling' /\ ~Probing' /\ \A e \in calls' : ~SetCall(e) /\ (Restyle(e) <=> e = d)
    BY <1>2, <2>2, <2>3 DEF Probing, Restyling
  <2>5. engineMode'
    BY <2>1, <2>2
  <2> QED
    BY <2>1, <2>2, <2>3, <2>4, <2>5 DEF InTurn
<1> QED
  BY <1>1, <1>2

(* The operations of a difference bring what it started from to its end.   *)
LEMMA OpsReach ==
  ASSUME NEW c \in Canvas!Call, c.op = "diff"
  PROVE  Canvas!ApplyOps(c.from.m, c) = c.to.m
<1>1. c.to.m \in [CanvasSetting -> BOOLEAN]
  BY Carried, Queries DEF Canvas!Settings
<1> QED
  BY <1>1 DEF Canvas!ApplyOps

LEMMA PatchedStyle ==
  ASSUME NEW c \in Canvas!Call, c.op = "diff"
  PROVE  /\ \A st \in Live : /\ Canvas!Patched(st, c).set = st.set /\ Canvas!Patched(st, c).gen = st.gen
                             /\ (Canvas!Patched(st, c).engine <=> st.engine) /\ (Canvas!Patched(st, c).kept <=> st.kept)
                             /\ Canvas!Patched(st, c).chrome = st.chrome
                             /\ st.set = c.from.set /\ st.m = c.from.m => Canvas!Patched(st, c).m = c.to.m
         /\ \A st \in Canvas!Style : /\ Canvas!Patched(st, c).set = st.set /\ Canvas!Patched(st, c).gen = st.gen
                                     /\ st.set = c.from.set /\ st.m = c.from.m => Canvas!Patched(st, c).m = c.to.m
<1>1. ASSUME NEW st \in Live
      PROVE  /\ Canvas!Patched(st, c).set = st.set /\ Canvas!Patched(st, c).gen = st.gen
             /\ (Canvas!Patched(st, c).engine <=> st.engine) /\ (Canvas!Patched(st, c).kept <=> st.kept)
             /\ Canvas!Patched(st, c).chrome = st.chrome
             /\ st.set = c.from.set /\ st.m = c.from.m => Canvas!Patched(st, c).m = c.to.m
  BY OpsReach DEF Canvas!Patched, Live
<1>2. ASSUME NEW st \in Canvas!Style
      PROVE  /\ Canvas!Patched(st, c).set = st.set /\ Canvas!Patched(st, c).gen = st.gen
             /\ st.set = c.from.set /\ st.m = c.from.m => Canvas!Patched(st, c).m = c.to.m
  BY OpsReach DEF Canvas!Patched, Canvas!Style
<1> QED
  BY <1>1, <1>2

LEMMA DiffAnswerStyle ==
  ASSUME StyleInv, Canvas!CanvasConstants, NEW c \in calls, Canvas!DiffAnswer(c), CanvasTyped'
  PROVE  StyleInv'
<1> USE Typed
<1>0. c \in Canvas!Call /\ c.op = "diff" /\ Restyle(c) /\ ~SetCall(c)
  BY DEF Canvas!DiffAnswer, StyleInv, CanvasTyped, Restyle, SetCall
<1>1. /\ UNCHANGED <<mariner, engineMode, engineSet, serverSets, basemap, coastline, timer, waiting>>
      /\ UNCHANGED <<gen, left, overlapped, failed, told>> /\ ~loaded'
      /\ live' = IF live.engine THEN Canvas!Patched(live, c) ELSE live
  BY DEF Canvas!DiffAnswer, Canvas!env, Canvas!hist
<1>2. Painted'
  BY <1>0, <1>1, Patches DEF StyleInv, CanvasTyped, Painted
<1>3. ASSUME ~overlapped'
      PROVE  InTurn' /\ (\A e \in calls' : CarriesCurrent(e)') /\ Synced' /\ (~failed' => Faithful')
  <2>1. InTurn /\ (\A e \in calls : CarriesCurrent(e)) /\ Synced /\ (~failed => Faithful)
    BY <1>1, <1>3 DEF StyleInv
  <2>2. /\ engineMode /\ ~timer /\ "restyle" \notin waiting /\ "install" \notin waiting /\ ~Probing
        /\ \A e \in calls \ {c} : ~Restyle(e)
    BY <1>0, <2>1, Others
  <2>3. cached # None /\ cached \in Canvas!Style
    BY <2>1, <2>2 DEF Synced, StyleInv, CanvasTyped
  <2>4. cached' = Canvas!Patched(cached, c) /\ lastMariner' = c.to /\ calls' = calls \ {c}
    BY <2>3 DEF Canvas!DiffAnswer
  <2>5. InTurn' /\ ~Probing' /\ ~Restyling'
    BY <1>0, <1>1, <2>1, <2>4, OneLess
  <2>6. c.from = lastMariner /\ c.to = Canvas!MarinerQuery /\ lastMariner = [set |-> cached.set, m |-> cached.m] /\ cached.set = engineSet
    BY <1>0, <2>1, <2>2 DEF CarriesCurrent, Synced
  <2>7. c.from.set = cached.set /\ c.from.m = cached.m /\ c.to.m = mariner /\ c.to = [set |-> engineSet, m |-> mariner]
    BY <2>6 DEF Canvas!MarinerQuery
  <2>8. cached'.set = cached.set /\ cached'.m = mariner /\ cached'.gen = cached.gen
    BY <1>0, <2>3, <2>4, <2>7, PatchedStyle
  <2>9. /\ live'.set = live.set /\ live'.gen = live.gen /\ (live'.engine <=> live.engine) /\ (live'.kept <=> live.kept)
        /\ live'.chrome = live.chrome
        /\ live.engine /\ live.set = cached.set /\ live.m = cached.m => live'.m = mariner
    <3>1. live \in Live
      BY DEF StyleInv, CanvasTyped
    <3> QED
      BY <1>0, <1>1, <2>7, <3>1, PatchedStyle
  <2>10. cached' # None /\ lastMariner' # None
    <3>1. cached' \in Canvas!Style /\ c.to \in Canvas!QuerySet
      BY <1>0, <2>3, <2>4, Patches, Carried
    <3> QED
      BY <2>4, <3>1 DEF Canvas!CanvasConstants
  <2>11. \A e \in calls' : CarriesCurrent(e)'
    BY <1>1, <2>1, <2>2, <2>4 DEF CarriesCurrent, Restyle, Canvas!MarinerQuery
  <2>12. Synced'
    BY <1>1, <2>1, <2>2, <2>4, <2>5, <2>7, <2>8, <2>9, <2>10 DEF Synced
  <2>14. (Fetched' <=> Fetched) /\ (ChromeShown' <=> ChromeShown)
    <3>1. Canvas!Alone(live') <=> Canvas!Alone(live)
      BY <2>9 DEF Canvas!Alone
    <3> QED
      BY <1>1, <2>9, <3>1 DEF Fetched, ChromeShown
  <2>13. ~failed' => Faithful'
    BY <1>1, <2>1, <2>2, <2>5, <2>8, <2>9, <2>3, <2>10, <2>14 DEF Faithful
  <2> QED
    BY <2>5, <2>11, <2>12, <2>13
<1> QED
  BY <1>2, <1>3 DEF StyleInv

LEMMA DiffRefusedStyle ==
  ASSUME StyleInv, NEW c \in calls, Canvas!DiffRefused(c), CanvasTyped'
  PROVE  StyleInv'
<1>1. /\ UNCHANGED <<mariner, engineMode, engineSet, serverSets, basemap, coastline, timer, waiting>>
      /\ UNCHANGED <<cached, lastMariner, live, loaded, gen, overlapped, failed, told>> /\ c.op = "diff"
  BY DEF Canvas!DiffRefused, Canvas!style, Canvas!hist
<1>2. PICK d : d = [id |-> Canvas!Fresh(calls \ {c}), op |-> "rebuild", q |-> Canvas!MarinerQuery]
  OBVIOUS
<1>3. calls' = (calls \ {c}) \cup {d} /\ d.op = "rebuild" /\ d.q = Canvas!MarinerQuery
  BY <1>2 DEF Canvas!DiffRefused, Canvas!Send
<1>4. Painted'
  BY <1>1 DEF StyleInv, Painted
<1>5. ASSUME ~overlapped'
      PROVE  InTurn' /\ (\A e \in calls' : CarriesCurrent(e)') /\ Synced' /\ (~failed' => Faithful')
  <2>1. InTurn /\ (\A e \in calls : CarriesCurrent(e)) /\ Synced /\ (~failed => Faithful)
    BY <1>1, <1>5 DEF StyleInv
  <2>2. Restyle(c) /\ Restyle(d) /\ ~SetCall(c)
    BY <1>1, <1>3 DEF Restyle, SetCall
  <2>3. InTurn' /\ (Probing' <=> Probing) /\ (Restyling' <=> Restyling)
    BY <1>1, <1>3, <2>1, <2>2, OneForAnother
  <2>4. \A e \in calls' : CarriesCurrent(e)'
    BY <1>1, <1>3, <2>1 DEF CarriesCurrent, Canvas!MarinerQuery
  <2>5. Synced'
    BY <1>1, <2>1, <2>3 DEF Synced
  <2>6. ~failed' => Faithful'
    <3>1. ~Probing /\ engineMode
      BY <2>1, <2>2, Others
    <3> QED
      BY <1>1, <2>1, <2>3, <3>1 DEF Faithful, Fetched, ChromeShown
  <2> QED
    BY <2>3, <2>4, <2>5, <2>6
<1> QED
  BY <1>4, <1>5 DEF StyleInv

LEMMA RebuildAnswerStyle ==
  ASSUME StyleInv, Canvas!CanvasConstants, NEW c \in calls, Canvas!RebuildAnswer(c), CanvasTyped'
  PROVE  StyleInv'
<1> USE Typed
<1>0. c \in Canvas!Call /\ c.op = "rebuild" /\ Restyle(c) /\ ~SetCall(c)
  BY DEF Canvas!RebuildAnswer, StyleInv, CanvasTyped, Restyle, SetCall
<1>1. /\ UNCHANGED <<mariner, engineMode, engineSet, serverSets, basemap, coastline, timer>>
      /\ UNCHANGED <<gen, left, overlapped, failed, told>>
      /\ calls' = calls \ {c} /\ cached' = Canvas!Styled(c.q)
  BY DEF Canvas!RebuildAnswer, Canvas!env, Canvas!hist
<1>2. \/ /\ loaded /\ ~loaded' /\ live' = Canvas!BuildStyle(cached', engineMode, serverSets, basemap)
         /\ lastMariner' = Canvas!MarinerQuery /\ waiting' = waiting
      \/ ~loaded /\ waiting' = waiting \cup {"install"} /\ UNCHANGED <<live, loaded, lastMariner>>
  BY DEF Canvas!RebuildAnswer, Canvas!SetStyle
<1>3. cached' \in Canvas!Style /\ serverSets \in Server /\ engineMode \in BOOLEAN
  <2>1. c.q \in Canvas!QuerySet
    BY <1>0, Carried
  <2> QED
    BY <1>1, <2>1, Queries DEF Canvas!Styled, StyleInv, CanvasTyped
<1>4. Painted'
  <2>1. CASE loaded /\ ~loaded' /\ live' = Canvas!BuildStyle(cached', engineMode, serverSets, basemap)
    BY <1>1, <1>3, <2>1, BuiltOf DEF Painted
  <2>2. CASE ~loaded /\ UNCHANGED <<live, loaded, lastMariner>>
    BY <1>1, <2>2 DEF StyleInv, Painted
  <2> QED
    BY <1>2, <2>1, <2>2
<1>5. ASSUME ~overlapped'
      PROVE  InTurn' /\ (\A e \in calls' : CarriesCurrent(e)') /\ Synced' /\ (~failed' => Faithful')
  <2>1. InTurn /\ (\A e \in calls : CarriesCurrent(e)) /\ Synced /\ (~failed => Faithful)
    BY <1>1, <1>5 DEF StyleInv
  <2>2. /\ engineMode /\ ~timer /\ "restyle" \notin waiting /\ "install" \notin waiting /\ ~Probing /\ Restyling
        /\ \A e \in calls' : ~Restyle(e) /\ ~SetCall(e)
    BY <1>0, <1>1, <2>1, Others
  <2>3. ~Probing' /\ (Restyling' <=> "install" \in waiting')
    BY <2>2 DEF Probing, Restyling
  <2>4. \A e \in calls' : CarriesCurrent(e)'
    BY <1>1, <2>1, <2>2 DEF CarriesCurrent, Restyle, Canvas!MarinerQuery
  <2>5. cached' # None /\ cached'.set = engineSet /\ cached'.m = mariner /\ cached'.gen = gen
    <3>1. c.q = Canvas!MarinerQuery
      BY <1>0, <2>1 DEF CarriesCurrent
    <3>2. cached' # None
      BY <1>3 DEF Canvas!CanvasConstants
    <3> QED
      BY <1>1, <3>1, <3>2 DEF Canvas!Styled, Canvas!MarinerQuery
  <2>6. InTurn'
    BY <1>1, <1>2, <2>2, <2>3 DEF InTurn
  <2>7. CASE /\ live' = Canvas!BuildStyle(cached', engineMode, serverSets, basemap)
             /\ lastMariner' = Canvas!MarinerQuery /\ waiting' = waiting
    <3>1. /\ ~live'.kept
          /\ engineMode /\ cached' # None => live'.engine /\ live'.set = cached'.set /\ live'.m = cached'.m /\ (\A p \in live'.set : live'.gen[p] = cached'.gen)
      BY <1>3, <2>7, BuiltOf
    <3>2. lastMariner' = [set |-> engineSet, m |-> mariner]
      BY <2>7 DEF Canvas!MarinerQuery
    <3>3. lastMariner' # None
      <4>1. lastMariner' \in Canvas!QuerySet
        BY <3>2, Queries DEF StyleInv, CanvasTyped
      <4> QED
        BY <4>1 DEF Canvas!CanvasConstants
    <3>4. Synced'
      BY <1>1, <2>2, <2>3, <2>5, <2>7, <3>1, <3>2, <3>3 DEF Synced
    <3>5. ~failed' => Faithful'
      BY <1>1, <2>1, <2>2, <2>3, <2>5, <2>7, <3>1 DEF Faithful, Fetched, ChromeShown
    <3> QED
      BY <2>4, <2>6, <3>4, <3>5
  <2>8. CASE waiting' = waiting \cup {"install"} /\ UNCHANGED <<live, loaded, lastMariner>>
    <3>1. Synced'
      BY <1>1, <2>1, <2>2, <2>3, <2>5, <2>8 DEF Synced
    <3>2. ~failed' => Faithful'
      BY <1>1, <2>1, <2>2, <2>3, <2>5, <2>8 DEF Faithful, Fetched, ChromeShown
    <3> QED
      BY <2>4, <2>6, <3>1, <3>2
  <2> QED
    BY <1>2, <2>7, <2>8
<1> QED
  BY <1>4, <1>5 DEF StyleInv

LEMMA RebuildFailedStyle ==
  ASSUME StyleInv, NEW c \in calls, Canvas!RebuildFailed(c), CanvasTyped'
  PROVE  StyleInv'
<1>1. /\ UNCHANGED <<mariner, engineMode, engineSet, serverSets, basemap, coastline, timer, waiting>>
      /\ UNCHANGED <<cached, lastMariner, live, loaded, gen, overlapped, told>> /\ failed' = TRUE
      /\ c.op = "rebuild" /\ calls' = calls \ {c}
  BY DEF Canvas!RebuildFailed, Canvas!style
<1>4. Painted'
  BY <1>1 DEF StyleInv, Painted
<1>5. ASSUME ~overlapped'
      PROVE  InTurn' /\ (\A e \in calls' : CarriesCurrent(e)') /\ Synced'
  <2>1. InTurn /\ (\A e \in calls : CarriesCurrent(e)) /\ Synced
    BY <1>1, <1>5 DEF StyleInv
  <2>2. ~SetCall(c)
    BY <1>1 DEF SetCall
  <2>3. InTurn' /\ ~Probing' /\ ~Probing
    BY <1>1, <2>1, <2>2, OneLess, Others
  <2>4. \A e \in calls' : CarriesCurrent(e)'
    BY <1>1, <2>1 DEF CarriesCurrent, Canvas!MarinerQuery
  <2>5. Synced'
    BY <1>1, <2>1, <2>3 DEF Synced
  <2> QED
    BY <2>3, <2>4, <2>5
<1> QED
  BY <1>1, <1>4, <1>5 DEF StyleInv

LEMMA ProbeAnswerStyle ==
  ASSUME StyleInv, Canvas!CanvasConstants, NEW c \in calls, Canvas!ProbeAnswer(c), CanvasTyped'
  PROVE  StyleInv'
<1> USE Typed
<1>0. c \in Canvas!Call /\ c.op = "probe" /\ SetCall(c)
  BY DEF Canvas!ProbeAnswer, StyleInv, CanvasTyped, SetCall
<1>1. /\ UNCHANGED <<mariner, engineSet, serverSets, basemap, coastline, timer, waiting, live, loaded>>
      /\ UNCHANGED <<gen, left, overlapped, failed, told>>
      /\ engineMode' = TRUE /\ cached' = Canvas!Styled(c.q) /\ lastMariner' = Canvas!MarinerQuery
  BY DEF Canvas!ProbeAnswer, Canvas!env, Canvas!hist
<1>2. PICK d : d = [id |-> Canvas!Fresh(calls \ {c}), op |-> "scamin", names |-> c.q.set]
  OBVIOUS
<1>3. calls' = (calls \ {c}) \cup {d} /\ d.op = "scamin" /\ d.names = c.q.set
  BY <1>2 DEF Canvas!ProbeAnswer, Canvas!Send
<1>4. Painted'
  BY <1>1 DEF StyleInv, Painted
<1>5. ASSUME ~overlapped'
      PROVE  InTurn' /\ (\A e \in calls' : CarriesCurrent(e)') /\ Synced' /\ (~failed' => Faithful')
  <2>1. InTurn /\ (\A e \in calls : CarriesCurrent(e)) /\ Synced /\ (~failed => Faithful)
    BY <1>1, <1>5 DEF StyleInv
  <2>2. calls = {c} /\ ~timer /\ waiting = {} /\ ~Restyling /\ Probing
    BY <1>0, <2>1, Others DEF Probing
  <2>3. InTurn' /\ Probing' /\ ~Restyling' /\ calls' = {d}
    <3>1. SetCall(d)
      BY <1>3 DEF SetCall
    <3> QED
      BY <1>0, <1>1, <1>3, <2>1, <2>2, <3>1, OneForAnother
  <2>4. c.q = Canvas!MarinerQuery /\ c.q.set # {} /\ c.q.set = engineSet /\ c.q.m = mariner
    BY <1>0, <2>1 DEF CarriesCurrent, Canvas!MarinerQuery
  <2>5. \A e \in calls' : CarriesCurrent(e)'
    BY <1>1, <1>3, <2>3, <2>4 DEF CarriesCurrent
  <2>6. /\ cached' # None /\ cached'.set = engineSet /\ cached'.m = mariner /\ cached'.gen = gen
        /\ lastMariner' # None /\ lastMariner' = [set |-> engineSet, m |-> mariner]
    <3>1. c.q \in Canvas!QuerySet
      BY <1>0, Carried
    <3>2. cached' \in Canvas!Style /\ lastMariner' \in Canvas!QuerySet
      BY <1>1, <2>4, <3>1, Queries DEF Canvas!Styled, StyleInv, CanvasTyped
    <3>3. cached' # None /\ lastMariner' # None
      BY <3>2 DEF Canvas!CanvasConstants
    <3> QED
      BY <1>1, <2>4, <3>3 DEF Canvas!Styled, Canvas!MarinerQuery
  <2>7. Synced'
    BY <1>1, <2>2, <2>3, <2>6 DEF Synced
  <2>8. ~failed' => Faithful'
    BY <1>1, <2>1, <2>2, <2>3, <2>4, <2>6 DEF Faithful, Fetched, ChromeShown
  <2> QED
    BY <2>3, <2>5, <2>7, <2>8
<1> QED
  BY <1>4, <1>5 DEF StyleInv

LEMMA ProbeFailedStyle ==
  ASSUME StyleInv, NEW c \in calls, Canvas!ProbeFailed(c), CanvasTyped'
  PROVE  StyleInv'
<1>1. /\ UNCHANGED <<mariner, engineMode, engineSet, serverSets, basemap, coastline, timer, waiting>>
      /\ UNCHANGED <<cached, lastMariner, live, loaded, gen, overlapped, told>> /\ failed' = TRUE /\ c.op = "probe"
  BY DEF Canvas!ProbeFailed, Canvas!style
<1>2. PICK d : d = [id |-> Canvas!Fresh(calls \ {c}), op |-> "metas", names |-> c.q.set, prev |-> serverSets.names]
  OBVIOUS
<1>3. calls' = (calls \ {c}) \cup {d} /\ d.op = "metas" /\ d.names = c.q.set /\ d.prev = serverSets.names
  BY <1>2 DEF Canvas!ProbeFailed, Canvas!Send
<1>4. Painted'
  BY <1>1 DEF StyleInv, Painted
<1>5. ASSUME ~overlapped'
      PROVE  InTurn' /\ (\A e \in calls' : CarriesCurrent(e)') /\ Synced'
  <2>1. InTurn /\ (\A e \in calls : CarriesCurrent(e)) /\ Synced
    BY <1>1, <1>5 DEF StyleInv
  <2>2. SetCall(c) /\ SetCall(d)
    BY <1>1, <1>3 DEF SetCall
  <2>3. InTurn' /\ Probing' /\ Probing /\ calls' = {d}
    BY <1>1, <1>3, <2>1, <2>2, OneForAnother
  <2>4. c.q = Canvas!MarinerQuery /\ c.q.set = engineSet /\ ~engineMode
    BY <1>1, <2>1 DEF CarriesCurrent, Canvas!MarinerQuery
  <2>5. \A e \in calls' : CarriesCurrent(e)'
    BY <1>1, <1>3, <2>3, <2>4 DEF CarriesCurrent
  <2>6. Synced'
    BY <1>1, <2>1, <2>3 DEF Synced
  <2> QED
    BY <2>3, <2>5, <2>6
<1> QED
  BY <1>1, <1>4, <1>5 DEF StyleInv

LEMMA ScaminAnswerStyle ==
  ASSUME StyleInv, NEW c \in calls, Canvas!ScaminAnswer(c), CanvasTyped'
  PROVE  StyleInv'
<1>1. /\ UNCHANGED <<mariner, engineMode, engineSet, serverSets, basemap, coastline, timer, waiting>>
      /\ UNCHANGED <<cached, lastMariner, live, loaded, gen, overlapped, failed, told>> /\ c.op = "scamin"
  BY DEF Canvas!ScaminAnswer, Canvas!style, Canvas!env, Canvas!hist
<1>2. PICK d : d = [id |-> Canvas!Fresh(calls \ {c}), op |-> "metas", names |-> c.names, prev |-> serverSets.names]
  OBVIOUS
<1>3. calls' = (calls \ {c}) \cup {d} /\ d.op = "metas" /\ d.names = c.names /\ d.prev = serverSets.names
  BY <1>2 DEF Canvas!ScaminAnswer, Canvas!Send
<1>4. Painted'
  BY <1>1 DEF StyleInv, Painted
<1>5. ASSUME ~overlapped'
      PROVE  InTurn' /\ (\A e \in calls' : CarriesCurrent(e)') /\ Synced' /\ (~failed' => Faithful')
  <2>1. InTurn /\ (\A e \in calls : CarriesCurrent(e)) /\ Synced /\ (~failed => Faithful)
    BY <1>1, <1>5 DEF StyleInv
  <2>2. SetCall(c) /\ SetCall(d)
    BY <1>1, <1>3 DEF SetCall
  <2>3. InTurn' /\ Probing' /\ Probing /\ calls' = {d} /\ (Restyling' <=> Restyling)
    BY <1>1, <1>3, <2>1, <2>2, OneForAnother
  <2>4. c.names = engineSet /\ engineMode
    BY <1>1, <2>1 DEF CarriesCurrent
  <2>5. \A e \in calls' : CarriesCurrent(e)'
    BY <1>1, <1>3, <2>3, <2>4 DEF CarriesCurrent
  <2>6. Synced'
    BY <1>1, <2>1, <2>3 DEF Synced
  <2>7. ~failed' => Faithful'
    BY <1>1, <2>1, <2>3, <2>4 DEF Faithful, Fetched, ChromeShown
  <2> QED
    BY <2>3, <2>5, <2>6, <2>7
<1> QED
  BY <1>4, <1>5 DEF StyleInv

(* What re-pointing the sources leaves of a style, and what it brings.      *)
LEMMA Repoints ==
  ASSUME live \in Live, gen \in Canvas!Gens, NEW names, NEW l, l = Canvas!Reloaded(names)
  PROVE  /\ l \in Live /\ l.base = live.base /\ l.set = live.set /\ l.m = live.m /\ l.engine = live.engine
         /\ l.kept = live.kept /\ l.chrome = live.chrome /\ (Canvas!Alone(l) <=> Canvas!Alone(live))
         /\ live.set = names /\ ~Canvas!Alone(l) => \A p \in l.set : l.gen[p] = gen
<1>1. PICK g : g = [p \in Pack |-> IF p \in names \cap live.set /\ ~Canvas!Alone(live) THEN gen ELSE live.gen[p]]
  OBVIOUS
<1>2. l = [live EXCEPT !.gen = g]
  BY <1>1 DEF Canvas!Reloaded
<1>3. g \in [Pack -> Canvas!Gens] /\ live.set \subseteq Pack
  BY <1>1, ConstantsAssumption DEF Live, ChartConstants, Canvas!CanvasConstants
<1>4. /\ l \in Live /\ l.base = live.base /\ l.set = live.set /\ l.m = live.m /\ l.engine = live.engine
      /\ l.kept = live.kept /\ l.chrome = live.chrome /\ l.gen = g
  BY <1>2, <1>3 DEF Live
<1>5. Canvas!Alone(l) <=> Canvas!Alone(live)
  BY <1>4 DEF Canvas!Alone
<1> QED
  BY <1>1, <1>3, <1>4, <1>5

LEMMA MetasAnswerStyle ==
  ASSUME StyleInv, NEW c \in calls, Canvas!MetasAnswer(c), CanvasTyped'
  PROVE  StyleInv'
<1> USE Typed
<1>0. c \in Canvas!Call /\ c.op = "metas" /\ SetCall(c)
  BY DEF Canvas!MetasAnswer, StyleInv, CanvasTyped, SetCall
<1>1. /\ UNCHANGED <<mariner, engineMode, engineSet, basemap, coastline, timer, waiting, cached, lastMariner>>
      /\ UNCHANGED <<gen, left, overlapped, failed, told>>
      /\ calls' = calls \ {c} /\ serverSets' = [names |-> c.names, gen |-> gen]
  BY DEF Canvas!MetasAnswer, Canvas!env, Canvas!hist
<1>2. \/ c.names # c.prev /\ live' = Canvas!BuildStyle(cached, engineMode, serverSets', basemap) /\ ~loaded'
      \/ c.names = c.prev /\ live' = [Canvas!Reloaded(c.names) EXCEPT !.kept = failed] /\ UNCHANGED loaded
  BY DEF Canvas!MetasAnswer, Canvas!SetStyle
<1>3. /\ cached \in Canvas!Style \cup {None} /\ serverSets' \in Server /\ engineMode \in BOOLEAN
      /\ serverSets'.names = c.names /\ serverSets'.gen = gen /\ live \in Live
  BY <1>0, <1>1, Carried DEF StyleInv, CanvasTyped, Server
<1>a. c.names = c.prev =>
        /\ live'.base = live.base /\ live'.set = live.set /\ live'.m = live.m /\ (live'.engine <=> live.engine)
        /\ (live'.kept <=> failed) /\ (live'.chrome <=> live.chrome)
        /\ live.set = c.names => Fetched'
  <2> SUFFICES ASSUME c.names = c.prev
               PROVE  /\ live'.base = live.base /\ live'.set = live.set /\ live'.m = live.m /\ (live'.engine <=> live.engine)
                      /\ (live'.kept <=> failed) /\ (live'.chrome <=> live.chrome)
                      /\ live.set = c.names => Fetched'
    OBVIOUS
  <2>1. PICK l : l = Canvas!Reloaded(c.names)
    OBVIOUS
  <2>2. /\ l \in Live /\ l.base = live.base /\ l.set = live.set /\ l.m = live.m /\ l.engine = live.engine
        /\ l.chrome = live.chrome /\ (live.set = c.names /\ ~Canvas!Alone(l) => \A p \in l.set : l.gen[p] = gen)
    BY <1>3, <2>1, Repoints DEF StyleInv, CanvasTyped
  <2>3. live' = [l EXCEPT !.kept = failed]
    BY <1>2, <2>1
  <2>4. /\ live'.base = l.base /\ live'.set = l.set /\ live'.m = l.m /\ live'.engine = l.engine
        /\ live'.kept = failed /\ live'.chrome = l.chrome /\ live'.gen = l.gen
    BY <2>2, <2>3 DEF Live
  <2>5. live.set = c.names => Fetched'
    <3>1. Canvas!Alone(live') <=> Canvas!Alone(l)
      BY <2>4 DEF Canvas!Alone
    <3> QED
      BY <1>1, <2>2, <2>4, <3>1 DEF Fetched
  <2> QED
    BY <2>2, <2>4, <2>5
<1>b. c.names # c.prev =>
        /\ live'.base = basemap /\ ~live'.kept
        /\ engineMode /\ cached # None => live'.engine /\ live'.set = cached.set /\ live'.m = cached.m /\ (\A p \in live'.set : live'.gen[p] = cached.gen)
        /\ ~(engineMode /\ cached # None) =>
             ~live'.engine /\ live'.set = c.names /\ live'.m = mariner /\ (\A p \in live'.set : live'.gen[p] = gen)
        /\ live'.chrome = mariner[Scheme]
  <2>1. c.names # c.prev => live' = Canvas!BuildStyle(cached, engineMode, serverSets', basemap)
    BY <1>2
  <2> QED
    BY <1>3, <2>1, BuiltOf
<1>4. Painted'
  <2>1. loaded' => loaded
    BY <1>2, Zenon
  <2> QED
    BY <1>1, <1>a, <1>b, <2>1 DEF StyleInv, Painted
<1>5. ASSUME ~overlapped'
      PROVE  InTurn' /\ (\A e \in calls' : CarriesCurrent(e)') /\ Synced' /\ (~failed' => Faithful')
  <2>1. InTurn /\ (\A e \in calls : CarriesCurrent(e)) /\ Synced /\ (~failed => Faithful)
    BY <1>1, <1>5 DEF StyleInv
  <2>2. calls = {c} /\ ~timer /\ waiting = {} /\ ~Restyling /\ Probing
    BY <1>0, <2>1, Others DEF Probing
  <2>3. calls' = {} /\ ~Probing' /\ ~Restyling'
    BY <1>1, <2>2 DEF Probing, Restyling
  <2>4. InTurn' /\ (\A e \in calls' : CarriesCurrent(e)')
    BY <1>1, <2>2, <2>3 DEF InTurn
  <2>5. c.names = engineSet /\ c.prev = serverSets.names
    BY <1>0, <2>1 DEF CarriesCurrent
  <2>6. ~failed /\ c.names = c.prev => live.m = mariner /\ live.set = engineSet
    BY <2>1, <2>2, <2>5 DEF Faithful, Fetched, ChromeShown
  <2>7. engineMode => cached # None /\ cached.m = mariner /\ cached.set = engineSet
    BY <2>1, <2>2 DEF Synced
  <2>8. Synced'
    BY <1>1, <2>1, <2>2, <2>3, <2>6, <2>7, <1>a, <1>b DEF Synced
  <2>9. ASSUME ~failed
        PROVE  Faithful'
    <3>1. Faithful
      BY <2>1, <2>9
    <3>2. engineSet # {} => engineMode
      BY <1>0, <2>2, <3>1 DEF Faithful, Fetched, ChromeShown
    <3>3. (engineMode => engineSet # {}) /\ (engineMode <=> cached # None)
      BY <3>1, <2>1 DEF Faithful, Synced, Fetched, ChromeShown
    <3>4. live'.set = engineSet /\ live'.m = mariner /\ ~live'.kept
      BY <1>a, <1>b, <2>5, <2>6, <2>7, <2>9, <3>2, <3>3
    <3>5. live'.engine <=> live'.set # {}
      BY <1>a, <1>b, <2>5, <2>7, <3>1, <3>2, <3>3, <3>4 DEF Faithful, Fetched, ChromeShown
    <3>6. told => Fetched' /\ (cached # None => cached.gen = gen)
      <4>1. c.names = c.prev => Fetched'
        BY <1>a, <2>6, <2>9, <2>5
      <4>2. c.names # c.prev /\ told => Fetched'
        BY <1>1, <1>b, <3>1, <3>3 DEF Faithful, Fetched
      <4> QED
        BY <3>1, <4>1, <4>2 DEF Faithful
    <3>7. ChromeShown'
      <4>1. c.names = c.prev => ChromeShown'
        BY <1>1, <1>a, <3>1 DEF Faithful, ChromeShown
      <4> QED
        BY <1>1, <1>b, <4>1 DEF ChromeShown
    <3> QED
      BY <1>1, <1>3, <2>3, <2>5, <2>7, <3>2, <3>3, <3>4, <3>5, <3>6, <3>7 DEF Faithful
  <2> QED
    BY <1>1, <2>4, <2>8, <2>9
<1> QED
  BY <1>4, <1>5 DEF StyleInv

LEMMA CoastAnswerStyle ==
  ASSUME StyleInv, NEW c \in calls, Canvas!CoastAnswer(c), CanvasTyped'
  PROVE  StyleInv'
<1> USE Typed
<1>1. /\ UNCHANGED <<mariner, engineMode, engineSet, serverSets, timer, waiting, cached, lastMariner>>
      /\ UNCHANGED <<gen, left, overlapped, failed, told>>
      /\ c.op = "coast" /\ calls' = calls \ {c} /\ basemap' = "coastline" /\ ~loaded'
      /\ live' = Canvas!BuildStyle(cached, engineMode, serverSets, "coastline")
  BY DEF Canvas!CoastAnswer, Canvas!SetStyle, Canvas!env, Canvas!hist
<1>2. cached \in Canvas!Style \cup {None} /\ serverSets \in Server /\ engineMode \in BOOLEAN
  BY DEF StyleInv, CanvasTyped
<1>3. /\ live'.base = "coastline" /\ ~live'.kept
      /\ engineMode /\ cached # None => live'.engine /\ live'.set = cached.set /\ live'.m = cached.m /\ (\A p \in live'.set : live'.gen[p] = cached.gen)
      /\ ~(engineMode /\ cached # None) => ~live'.engine /\ live'.set = serverSets.names /\ live'.m = mariner /\ (\A p \in live'.set : live'.gen[p] = serverSets.gen)
  <2>1. live' = Canvas!BuildStyle(cached, engineMode, serverSets, "coastline")
    BY <1>1
  <2> QED
    BY <1>2, <2>1, BuiltOf
<1>4. Painted'
  BY <1>1, <1>3 DEF Painted
<1>5. ASSUME ~overlapped'
      PROVE  InTurn' /\ (\A e \in calls' : CarriesCurrent(e)') /\ Synced' /\ (~failed' => Faithful')
  <2>1. InTurn /\ (\A e \in calls : CarriesCurrent(e)) /\ Synced /\ (~failed => Faithful)
    BY <1>1, <1>5 DEF StyleInv
  <2>2. ~SetCall(c) /\ ~Restyle(c)
    BY <1>1 DEF SetCall, Restyle
  <2>3. InTurn' /\ ~Probing' /\ ~Probing /\ (Restyling' <=> Restyling)
    BY <1>1, <2>1, <2>2, OneLess, Others
  <2>4. \A e \in calls' : CarriesCurrent(e)'
    BY <1>1, <2>1 DEF CarriesCurrent, Canvas!MarinerQuery
  <2>5. Synced'
    BY <1>1, <2>1, <2>3, <1>3 DEF Synced
  <2>6. ASSUME ~failed
        PROVE  Faithful'
    <3>1. Faithful
      BY <2>1, <2>6
    <3>2. (engineMode <=> cached # None) /\ (engineMode => cached.set = engineSet)
      BY <2>1 DEF Synced
    <3>3. (engineSet # {} <=> engineMode) /\ engineSet = serverSets.names
      <4>1. \A e \in calls : e.op # "probe"
        BY <2>3 DEF Probing, SetCall
      <4> QED
        BY <2>3, <3>1, <4>1 DEF Faithful, Fetched, ChromeShown
    <3>4. live'.chrome = mariner[Scheme]
      BY <1>1, <1>2, BuiltOf
    <3>5. (told => Fetched') /\ ChromeShown'
      BY <1>1, <1>3, <2>3, <3>1, <3>2, <3>3, <3>4 DEF Faithful, Fetched, ChromeShown
    <3> QED
      BY <1>1, <1>3, <2>3, <3>1, <3>2, <3>3, <3>5 DEF Faithful
  <2> QED
    BY <1>1, <2>3, <2>4, <2>5, <2>6
<1> QED
  BY <1>4, <1>5 DEF StyleInv

LEMMA FlushAnswerStyle ==
  ASSUME StyleInv, NEW c \in calls, Canvas!FlushAnswer(c), CanvasTyped'
  PROVE  StyleInv'
<1> USE Typed
<1>1. /\ UNCHANGED <<mariner, engineMode, engineSet, basemap, coastline, timer, waiting, cached, lastMariner, loaded>>
      /\ UNCHANGED <<gen, left, overlapped, failed, told>>
      /\ c.op = "flush" /\ calls' = calls \ {c} /\ serverSets' = [names |-> c.names, gen |-> gen]
      /\ live' = Canvas!Reloaded(c.names)
  BY DEF Canvas!FlushAnswer, Canvas!env, Canvas!hist
<1>2. /\ live'.base = live.base /\ live'.set = live.set /\ live'.m = live.m /\ (live'.engine <=> live.engine)
      /\ (live'.kept <=> live.kept) /\ (live'.chrome <=> live.chrome) /\ (live.set = c.names => Fetched')
  <2>1. PICK l : l = Canvas!Reloaded(c.names)
    OBVIOUS
  <2>2. live' = l
    BY <1>1, <2>1
  <2> QED
    BY <1>1, <2>1, <2>2, Repoints DEF StyleInv, CanvasTyped, Fetched
<1>4. Painted'
  BY <1>1, <1>2 DEF StyleInv, Painted
<1>5. ASSUME ~overlapped'
      PROVE  InTurn' /\ (\A e \in calls' : CarriesCurrent(e)') /\ Synced' /\ (~failed' => Faithful')
  <2>1. InTurn /\ (\A e \in calls : CarriesCurrent(e)) /\ Synced /\ (~failed => Faithful)
    BY <1>1, <1>5 DEF StyleInv
  <2>2. ~SetCall(c) /\ ~Restyle(c)
    BY <1>1 DEF SetCall, Restyle
  <2>3. InTurn' /\ ~Probing' /\ ~Probing /\ (Restyling' <=> Restyling)
    BY <1>1, <2>1, <2>2, OneLess, Others
  <2>4. c.names = serverSets.names /\ serverSets'.names = serverSets.names /\ serverSets'.gen = gen
    BY <1>1, <2>1 DEF CarriesCurrent
  <2>5. \A e \in calls' : CarriesCurrent(e)'
    BY <1>1, <2>1, <2>4 DEF CarriesCurrent, Canvas!MarinerQuery
  <2>6. Synced'
    BY <1>1, <1>2, <2>1, <2>3 DEF Synced
  <2>7. ASSUME ~failed
        PROVE  Faithful'
    <3>1. Faithful
      BY <2>1, <2>7
    <3>2. \A e \in calls : e.op # "probe"
      BY <2>3 DEF Probing, SetCall
    <3> QED
      BY <1>1, <1>2, <2>3, <2>4, <3>1, <3>2 DEF Faithful, ChromeShown
  <2> QED
    BY <1>1, <2>3, <2>5, <2>6, <2>7
<1> QED
  BY <1>4, <1>5 DEF StyleInv

LEMMA StyleStep ==
  ASSUME StyleInv, Canvas!CanvasConstants, Canvas!Next
  PROVE  StyleInv'
<1>1. CanvasTyped'
  BY CanvasTypes DEF StyleInv
<1>2. ASSUME Canvas!Answer
      PROVE  StyleInv'
  BY <1>1, <1>2, DiffAnswerStyle, DiffRefusedStyle, RebuildAnswerStyle, RebuildFailedStyle, ProbeAnswerStyle,
     ProbeFailedStyle, ScaminAnswerStyle, MetasAnswerStyle, CoastAnswerStyle, FlushAnswerStyle DEF Canvas!Answer
<1>3. ASSUME Canvas!User
      PROVE  StyleInv'
  <2>1. Scheme \in CanvasSetting /\ Pitch \in CanvasSetting /\ \A s \in CanvasSetting \ {Scheme, Pitch} : s # Scheme
    BY DEF Canvas!CanvasConstants
  <2> QED
    BY <1>1, <1>3, <2>1, ChangeStyle, SetServerSetsStyle, SetBasemapStyle, FlushTilesStyle
       DEF Canvas!User, Canvas!SetMariner, Canvas!SetScheme, Canvas!SetPxPitch
<1>4. ASSUME Canvas!Done
      PROVE  StyleInv'
  <2>1. UNCHANGED Canvas!vars
    BY <1>4 DEF Canvas!Done
  <2> QED
    BY <1>1, <2>1 DEF Canvas!vars, Canvas!style, Canvas!env, Canvas!hist, StyleInv, Painted, InTurn, CarriesCurrent,
       Synced, Faithful, Fetched, ChromeShown, Probing, Restyling, Canvas!MarinerQuery
<1> QED
  BY <1>1, <1>2, <1>3, <1>4, EngineRestyleStyle, IdleStyle, BakeStyle DEF Canvas!Next

(* The invariant says what the map at rest shows.                          *)
LEMMA StyleShows ==
  ASSUME StyleInv
  PROVE  Canvas!SerialChangesShow /\ Canvas!DiffBaseIsShown
<1>1. ASSUME Canvas!Quiescent, ~overlapped
      PROVE  Synced /\ (~failed => Faithful) /\ ~Probing /\ ~Restyling
  BY <1>1 DEF Canvas!Quiescent, StyleInv, Probing, Restyling
<1>2. Canvas!SerialChangesShow
  <2> SUFFICES ASSUME Canvas!Quiescent, ~overlapped, ~failed
               PROVE  /\ live.engine = engineMode /\ live.set = serverSets.names
                      /\ live.m = mariner /\ live.base = basemap
                      /\ engineMode => cached.set = live.set /\ cached.m = live.m /\ lastMariner = Canvas!MarinerQuery
                      /\ ~engineMode => live.chrome = mariner[Scheme]
                      /\ told => (engineMode => cached.gen = gen) /\ (~Canvas!Alone(live) => \A p \in live.set : live.gen[p] = gen)
    BY DEF Canvas!SerialChangesShow
  <2>1. Synced /\ Faithful /\ ~Probing /\ ~Restyling /\ calls = {} /\ waiting = {} /\ ~timer
    BY <1>1 DEF Canvas!Quiescent
  <2>2. live.engine <=> engineMode
    BY <2>1 DEF Faithful, Fetched, ChromeShown
  <2>3. live.engine \in BOOLEAN /\ engineMode \in BOOLEAN
    BY Typed DEF StyleInv, CanvasTyped, Live
  <2>4. live.engine = engineMode
    BY <2>2, <2>3
  <2>5. live.set = serverSets.names /\ live.base = basemap
    BY <2>1 DEF Faithful, StyleInv, Painted
  <2>8. told => (engineMode => cached.gen = gen) /\ (~Canvas!Alone(live) => \A p \in live.set : live.gen[p] = gen)
    BY <2>1 DEF Faithful, Synced, Fetched
  <2>9. ~engineMode => live.chrome = mariner[Scheme]
    <3>1. ~engineMode => live.set = {}
      BY <2>1 DEF Faithful, Probing, SetCall
    <3>2. live.chrome \in BOOLEAN /\ mariner[Scheme] \in BOOLEAN
      BY Typed, ConstantsAssumption DEF StyleInv, CanvasTyped, Live, ChartConstants, Canvas!CanvasConstants, Canvas!Settings
    <3> QED
      BY <2>1, <3>1, <3>2 DEF Faithful, ChromeShown
  <2>6. engineMode => cached.set = live.set /\ cached.m = live.m /\ lastMariner = Canvas!MarinerQuery /\ live.m = mariner
    BY <2>1, <2>2 DEF Faithful, Synced, Canvas!MarinerQuery
  <2>7. ~engineMode => live.m = mariner
    BY <2>1 DEF Faithful, Fetched, ChromeShown
  <2> QED
    BY <2>4, <2>5, <2>6, <2>7, <2>8, <2>9
<1>3. Canvas!DiffBaseIsShown
  BY <1>1 DEF Canvas!DiffBaseIsShown, Synced, Canvas!Quiescent
<1> QED
  BY <1>2, <1>3

-----------------------------------------------------------------------------
(* The SCAMIN gate: its state is typed.                                    *)
Cutoffs == Gate!Bands \cup {Gate!Baked}
GateShape == /\ band \in Gate!Bands /\ {filter, worker, last} \cup tiles \subseteq Cutoffs /\ tiles # {}
             /\ sweep \in {"no", "armed", "done"} /\ (timer => gesture = "rest")
GateFlags == {timer, engine, light, forcing, changed, reload, busy, internals, bare} \subseteq BOOLEAN

LEMMA GateParts == Gate!TypeOK <=> GateShape /\ GateFlags
BY DEF Gate!TypeOK, GateShape, GateFlags, Cutoffs

LEMMA UpdateTyped ==
  ASSUME GateShape, GateFlags, NEW b \in Gate!Bands, NEW force \in BOOLEAN, Gate!Update(force, b)
  PROVE  /\ {filter', worker', last'} \cup tiles' \subseteq Cutoffs /\ tiles' # {}
         /\ sweep' \in {"no", "armed", "done"}
         /\ {light', changed', reload', busy', bare'} \subseteq BOOLEAN
<1> DEFINE zooming == ~force /\ gesture = "zoom"
<1>1. CASE Gate!Apply(b, zooming)
  <2>1. /\ last' = b /\ worker' = worker /\ tiles' = tiles /\ filter' = b
    BY <1>1 DEF Gate!Apply, Gate!LightSetFilter, Gate!SetFilter
  <2>2. sweep' \in {"no", "armed", "done"}
    BY <1>1 DEF Gate!Apply, GateShape
  <2>3. {light', changed', reload', busy', bare'} \subseteq BOOLEAN
    BY <1>1, Zenon DEF Gate!Apply, Gate!LightSetFilter, Gate!SetFilter, GateFlags
  <2> QED
    BY <2>1, <2>2, <2>3 DEF GateShape, Cutoffs
<1>2. CASE UNCHANGED <<Gate!applied, Gate!style>>
  BY <1>2 DEF Gate!applied, Gate!style, GateShape, GateFlags
<1> QED
  BY <1>1, <1>2 DEF Gate!Update

LEMMA GateTypes ==
  ASSUME Gate!TypeOK, Gate!GateConstants, Gate!Next
  PROVE  Gate!TypeOK'
<1>0. GateShape /\ GateFlags
  BY GateParts
<1> USE <1>0
<1>u. ASSUME UNCHANGED <<Gate!applied, Gate!style>>
      PROVE  /\ {filter', worker', last'} \cup tiles' \subseteq Cutoffs /\ tiles' # {}
             /\ sweep' \in {"no", "armed", "done"}
             /\ {light', changed', reload', busy', bare'} \subseteq BOOLEAN
  BY <1>u DEF Gate!applied, Gate!style, GateShape, GateFlags
<1>n. Gate!Baked \in Cutoffs
  BY DEF Cutoffs
<1>1. ASSUME NEW k \in {"zoom", "pan"}, Gate!MoveStart(k)
      PROVE  Gate!TypeOK'
  <2>1. GateShape'
    BY <1>1, <1>u DEF Gate!MoveStart, GateShape, Cutoffs
  <2>2. GateFlags'
    BY <1>1, <1>u, Zenon DEF Gate!MoveStart, GateFlags
  <2> QED
    BY <2>1, <2>2 DEF Gate!TypeOK, GateShape, GateFlags, Cutoffs
<1>2. ASSUME NEW b \in Gate!Bands, NEW due \in BOOLEAN, Gate!Move(b, due)
      PROVE  Gate!TypeOK'
  <2>0. /\ {filter', worker', last'} \cup tiles' \subseteq Cutoffs /\ tiles' # {}
        /\ sweep' \in {"no", "armed", "done"}
        /\ {light', changed', reload', busy', bare'} \subseteq BOOLEAN
    BY <1>2, <1>u, UpdateTyped DEF Gate!Move
  <2>1. GateShape'
    BY <1>2, <2>0 DEF Gate!Move, GateShape, Cutoffs
  <2>2. GateFlags'
    BY <1>2, <2>0, Zenon DEF Gate!Move, GateFlags
  <2> QED
    BY <2>1, <2>2 DEF Gate!TypeOK, GateShape, GateFlags, Cutoffs
<1>3. ASSUME Gate!MoveEnd
      PROVE  Gate!TypeOK'
  <2>1. GateShape'
    BY <1>3, <1>u DEF Gate!MoveEnd, GateShape, Cutoffs
  <2>2. GateFlags'
    BY <1>3, <1>u, Zenon DEF Gate!MoveEnd, GateFlags
  <2> QED
    BY <2>1, <2>2 DEF Gate!TypeOK, GateShape, GateFlags, Cutoffs
<1>4. ASSUME Gate!ApplySettled
      PROVE  Gate!TypeOK'
  <2>0. /\ {filter', worker', last'} \cup tiles' \subseteq Cutoffs /\ tiles' # {}
        /\ sweep' \in {"no", "armed", "done"}
        /\ {light', changed', reload', busy', bare'} \subseteq BOOLEAN
    BY <1>4, UpdateTyped DEF Gate!ApplySettled, GateShape
  <2>1. GateShape'
    BY <1>4, <2>0 DEF Gate!ApplySettled, GateShape, Cutoffs
  <2>2. GateFlags'
    BY <1>4, <2>0, Zenon DEF Gate!ApplySettled, GateFlags
  <2> QED
    BY <2>1, <2>2 DEF Gate!TypeOK, GateShape, GateFlags, Cutoffs
<1>5. ASSUME Gate!Force
      PROVE  Gate!TypeOK'
  <2>0. /\ {filter', worker', last'} \cup tiles' \subseteq Cutoffs /\ tiles' # {}
        /\ sweep' \in {"no", "armed", "done"}
        /\ {light', changed', reload', busy', bare'} \subseteq BOOLEAN
    BY <1>5, UpdateTyped DEF Gate!Force, GateShape
  <2>1. GateShape'
    BY <1>5, <2>0 DEF Gate!Force, GateShape, Cutoffs
  <2>2. GateFlags'
    BY <1>5, <2>0, Zenon DEF Gate!Force, GateFlags
  <2> QED
    BY <2>1, <2>2 DEF Gate!TypeOK, GateShape, GateFlags, Cutoffs
<1>6. ASSUME Gate!Sweep
      PROVE  Gate!TypeOK'
  <2>1. GateShape'
    BY <1>6 DEF Gate!Sweep, GateShape, Cutoffs
  <2>2. GateFlags'
    BY <1>6, Zenon DEF Gate!Sweep, GateFlags
  <2> QED
    BY <2>1, <2>2 DEF Gate!TypeOK, GateShape, GateFlags, Cutoffs
<1>7. ASSUME Gate!Restyle
      PROVE  Gate!TypeOK'
  <2>1. GateShape'
    BY <1>7, <1>n DEF Gate!Restyle, Gate!SetFilter, Gate!applied, GateShape
  <2>2. GateFlags'
    BY <1>7, Zenon DEF Gate!Restyle, Gate!SetFilter, Gate!applied, GateFlags
  <2> QED
    BY <2>1, <2>2 DEF Gate!TypeOK, GateShape, GateFlags, Cutoffs
<1>8. ASSUME Gate!SetBasemap
      PROVE  Gate!TypeOK'
  <2>1. GateShape'
    BY <1>8, <1>n DEF Gate!SetBasemap, Gate!NewStyle, GateShape
  <2>2. GateFlags'
    BY <1>8, Zenon DEF Gate!SetBasemap, Gate!NewStyle, GateFlags
  <2> QED
    BY <2>1, <2>2 DEF Gate!TypeOK, GateShape, GateFlags, Cutoffs
<1>9. ASSUME Gate!SetServerSets
      PROVE  Gate!TypeOK'
  <2>1. GateShape'
    BY <1>9, <1>u DEF Gate!SetServerSets, GateShape, Cutoffs
  <2>2. GateFlags'
    BY <1>9, <1>u, Zenon DEF Gate!SetServerSets, GateFlags
  <2> QED
    BY <2>1, <2>2 DEF Gate!TypeOK, GateShape, GateFlags, Cutoffs
<1>10. ASSUME Gate!SetsLanded
      PROVE  Gate!TypeOK'
  <2>1. GateShape'
    BY <1>10, <1>n DEF Gate!SetsLanded, Gate!NewStyle, Gate!applied, GateShape
  <2>2. GateFlags'
    BY <1>10, Zenon DEF Gate!SetsLanded, Gate!NewStyle, Gate!applied, GateFlags
  <2> QED
    BY <2>1, <2>2 DEF Gate!TypeOK, GateShape, GateFlags, Cutoffs
<1>11. ASSUME Gate!Frame
      PROVE  Gate!TypeOK'
  <2>1. GateShape'
    BY <1>11 DEF Gate!Frame, Gate!applied, GateShape
  <2>2. GateFlags'
    BY <1>11, Zenon DEF Gate!Frame, Gate!applied, GateFlags
  <2> QED
    BY <2>1, <2>2 DEF Gate!TypeOK, GateShape, GateFlags, Cutoffs
<1>12. ASSUME Gate!Request
      PROVE  Gate!TypeOK'
  <2>1. GateShape'
    BY <1>12 DEF Gate!Request, Gate!applied, GateShape
  <2>2. GateFlags'
    BY <1>12, Zenon DEF Gate!Request, Gate!applied, GateFlags
  <2> QED
    BY <2>1, <2>2 DEF Gate!TypeOK, GateShape, GateFlags, Cutoffs
<1>13. ASSUME Gate!Parsed
      PROVE  Gate!TypeOK'
  <2>1. GateShape'
    BY <1>13 DEF Gate!Parsed, Gate!applied, GateShape
  <2>2. GateFlags'
    BY <1>13, Zenon DEF Gate!Parsed, Gate!applied, GateFlags
  <2> QED
    BY <2>1, <2>2 DEF Gate!TypeOK, GateShape, GateFlags, Cutoffs
<1> QED
  BY <1>1, <1>2, <1>3, <1>4, <1>5, <1>6, <1>7, <1>8, <1>9, <1>10, <1>11, <1>12, <1>13 DEF Gate!Next

(* A gesture under way sees no reload but of a style that brings the       *)
(* placeholders back.                                                      *)
LEMMA GateReloads ==
  ASSUME Gate!TypeOK, Gate!Next
  PROVE  Gate!ReloadsAtRest
<1> SUFFICES ASSUME gesture # "rest", ~reload, reload'
             PROVE  filter' = Gate!Baked \/ ~internals
  BY DEF Gate!ReloadsAtRest
<1>0. ~timer
  BY DEF Gate!TypeOK
<1>u. ~UNCHANGED Gate!style
  BY DEF Gate!style
<1>1. ASSUME NEW b, NEW due, Gate!Move(b, due)
      PROVE  ~internals
  <2>1. gesture = "zoom" /\ Gate!Update(FALSE, b)
    BY <1>1, <1>u DEF Gate!Move
  <2>2. Gate!Apply(b, TRUE)
    BY <2>1, <1>u DEF Gate!Update
  <2> QED
    BY <2>2 DEF Gate!Apply, Gate!LightSetFilter
<1>2. ASSUME Gate!Restyle \/ Gate!SetBasemap \/ Gate!SetsLanded
      PROVE  filter' = Gate!Baked
  BY <1>2 DEF Gate!Restyle, Gate!SetFilter, Gate!SetBasemap, Gate!SetsLanded, Gate!NewStyle
<1>3. ~Gate!ApplySettled /\ ~Gate!Force /\ ~Gate!Sweep
  BY <1>0 DEF Gate!ApplySettled, Gate!Force, Gate!Sweep
<1>4. (\A k : ~Gate!MoveStart(k)) /\ ~Gate!MoveEnd /\ ~Gate!SetServerSets /\ ~Gate!Frame /\ ~Gate!Request /\ ~Gate!Parsed
  BY <1>u DEF Gate!MoveStart, Gate!MoveEnd, Gate!SetServerSets, Gate!Frame, Gate!Request, Gate!Parsed, Gate!style
<1> QED
  BY <1>1, <1>2, <1>3, <1>4 DEF Gate!Next

-----------------------------------------------------------------------------
(* What the expressions draw: the mariner's settings stay settings.        *)
Mariners == [on : [Portrayal!Switch \cup Portrayal!Choice -> BOOLEAN], shallow : Depth, safety : Depth, deep : Depth,
             safetyDepth : Depth, day : Day, year : 0 .. 2]
PortrayalInv ==
  /\ feature \in Portrayal!Feature /\ mariner \in Mariners
  /\ mariner.shallow <= mariner.safety /\ mariner.safety <= mariner.deep

LEMMA PortrayalInit ==
  ASSUME Portrayal!PortrayalConstants, Portrayal!Init
  PROVE  PortrayalInv
<1>1. mariner \in Mariners
  BY DEF Portrayal!Init, Portrayal!Mariner, Portrayal!PortrayalConstants, Mariners
<1> QED
  BY <1>1 DEF Portrayal!Init, Portrayal!Mariner, PortrayalInv

LEMMA PortrayalStep ==
  ASSUME PortrayalInv, Portrayal!PortrayalConstants, Portrayal!Next
  PROVE  PortrayalInv'
<1>1. ASSUME NEW k \in Portrayal!Switch \cup Portrayal!Choice, Portrayal!Toggle(k)
      PROVE  PortrayalInv'
  <2>1. mariner' = [mariner EXCEPT !.on = [mariner.on EXCEPT ![k] = ~@]] /\ feature' = feature
    BY <1>1 DEF Portrayal!Toggle
  <2>2. [mariner.on EXCEPT ![k] = ~@] \in [Portrayal!Switch \cup Portrayal!Choice -> BOOLEAN]
    BY DEF PortrayalInv, Mariners
  <2> QED
    BY <2>1, <2>2 DEF PortrayalInv, Mariners
<1>2. ASSUME NEW a \in Depth, NEW b \in Depth, NEW c \in Depth, Portrayal!SetContours(a, b, c)
      PROVE  PortrayalInv'
  BY <1>2 DEF Portrayal!SetContours, PortrayalInv, Mariners
<1>3. ASSUME NEW d \in Depth, Portrayal!SetSafetyDepth(d)
      PROVE  PortrayalInv'
  BY <1>3 DEF Portrayal!SetSafetyDepth, PortrayalInv, Mariners
<1>4. ASSUME NEW y \in 0 .. 2, NEW d \in Day, Portrayal!ViewDate(y, d)
      PROVE  PortrayalInv'
  BY <1>4 DEF Portrayal!ViewDate, PortrayalInv, Mariners
<1> QED
  BY <1>1, <1>2, <1>3, <1>4 DEF Portrayal!Next

LEMMA PortrayalTyped ==
  ASSUME PortrayalInv
  PROVE  Portrayal!TypeOK
BY DEF PortrayalInv, Mariners, Portrayal!TypeOK

(* Shade, pattern, contour line and danger symbols draw one line between   *)
(* safe and unsafe water.                                                  *)
LEMMA DepthsAgree ==
  ASSUME PortrayalInv, Portrayal!PortrayalConstants
  PROVE  Portrayal!SafetyAgrees
<1>1. Depth \subseteq Nat /\ Portrayal!No = -1
  BY DEF Portrayal!PortrayalConstants, Portrayal!No
<1>2. /\ mariner.safety \in Nat /\ mariner.deep \in Nat /\ mariner.safetyDepth \in Nat
      /\ mariner.safety <= mariner.deep
  BY <1>1 DEF PortrayalInv, Mariners
<1>3. ASSUME feature.kind = "area", Portrayal!Has(feature.drval1), Portrayal!Has(feature.drval2)
      PROVE  /\ Portrayal!ShallowPattern(feature) <=>
                  Portrayal!Token(feature) \notin (IF mariner.on["fourShadeWater"] THEN {"DEPDW", "DEPMD"} ELSE {"DEPDW"})
             /\ Portrayal!SafetyContour(feature) => Portrayal!ShallowPattern(feature)
  <2>1. feature \in Portrayal!Area
    BY <1>3 DEF PortrayalInv, Portrayal!Feature, Portrayal!Danger, Portrayal!Period, Portrayal!Text, Portrayal!Object
  <2>2. feature.drval1 \in Nat /\ feature.drval2 \in Nat
    BY <1>1, <1>3, <2>1 DEF Portrayal!Area, Portrayal!Has
  <2>3. Portrayal!ShallowPattern(feature) <=> ~(feature.drval1 >= mariner.safety /\ feature.drval2 > mariner.safety)
    BY <1>3 DEF Portrayal!ShallowPattern, Portrayal!Coalesce
  <2>4. Portrayal!SafetyContour(feature) => feature.drval1 < mariner.safety
    BY DEF Portrayal!SafetyContour
  <2>5. CASE mariner.on["fourShadeWater"]
    BY <1>2, <1>3, <2>2, <2>3, <2>4, <2>5 DEF Portrayal!Token, Portrayal!Coalesce
  <2>6. CASE ~mariner.on["fourShadeWater"]
    BY <1>2, <1>3, <2>2, <2>3, <2>4, <2>6 DEF Portrayal!Token, Portrayal!Coalesce
  <2> QED
    BY <2>5, <2>6
<1>4. ASSUME feature.kind = "danger", Portrayal!Has(feature.depth)
      PROVE  /\ Portrayal!DangerBoundary(feature) <=> ~Portrayal!DeepSymbol(feature)
             /\ Portrayal!Bold(feature) <=> feature.depth <= mariner.safetyDepth
  <2>1. feature \in Portrayal!Danger
    BY <1>4 DEF PortrayalInv, Portrayal!Feature, Portrayal!Area, Portrayal!Period, Portrayal!Text, Portrayal!Object
  <2>2. feature.depth \in Nat
    BY <1>1, <1>4, <2>1 DEF Portrayal!Danger, Portrayal!Has
  <2>3. Portrayal!DangerBoundary(feature) <=> ~Portrayal!DeepSymbol(feature)
    BY <1>2, <1>4, <2>2 DEF Portrayal!DangerBoundary, Portrayal!DeepSymbol, Portrayal!Coalesce
  <2>4. Portrayal!Bold(feature) <=> feature.depth <= mariner.safetyDepth
    BY <1>2, <1>4, <2>2 DEF Portrayal!Bold, Portrayal!Coalesce
  <2> QED
    BY <2>3, <2>4
<1> QED
  BY <1>3, <1>4 DEF Portrayal!SafetyAgrees

(* The date expression is the reference, whose days are those of a year or *)
(* of the period's year.                                                   *)
LEMMA DatesAgree ==
  ASSUME PortrayalInv, Portrayal!PortrayalConstants
  PROVE  Portrayal!DatesAsReference
<1> DEFINE p == feature
<1> SUFFICES ASSUME feature.kind = "dated"
             PROVE  Portrayal!DateFilter(p) <=> Portrayal!InDatePeriod(p)
  BY DEF Portrayal!DatesAsReference
<1>1. p \in Portrayal!Period
  BY DEF PortrayalInv, Portrayal!Feature, Portrayal!Area, Portrayal!Danger, Portrayal!Text, Portrayal!Object
<1>2. mariner.day \in Day /\ mariner.day \in 0 .. 9 /\ mariner.year \in 0 .. 2 /\ Day \subseteq 0 .. 9
  BY DEF PortrayalInv, Mariners, Portrayal!PortrayalConstants
<1>3. Portrayal!No = -1
  BY DEF Portrayal!No
<1>4. /\ p.recurring \in {-1, 0, 1}
      /\ p.start \in 0 .. 9 \/ p.start = -1
      /\ p.end \in 0 .. 9 \/ p.end = -1
  BY <1>1, <1>2, <1>3 DEF Portrayal!Period
<1> HIDE DEF p
<1>5. CASE p.recurring = -1
  BY <1>3, <1>5 DEF Portrayal!DateFilter, Portrayal!InDatePeriod, Portrayal!Has
<1>6. CASE p.recurring = 1
  <2>1. Portrayal!DateFilter(p) <=> Portrayal!Within(p, Portrayal!Has(p.start), Portrayal!Has(p.end))
    BY <1>3, <1>6 DEF Portrayal!DateFilter, Portrayal!Has
  <2>2. Portrayal!InDatePeriod(p) <=>
          IF p.start # -1 /\ p.end # -1 /\ p.start > p.end THEN mariner.day >= p.start \/ mariner.day <= p.end
          ELSE (p.start # -1 => mariner.day >= p.start) /\ (p.end # -1 => mariner.day <= p.end)
    BY <1>2, <1>3, <1>6 DEF Portrayal!InDatePeriod, Portrayal!Has
  <2>3. Portrayal!Within(p, Portrayal!Has(p.start), Portrayal!Has(p.end)) <=>
          IF p.start # -1 /\ p.end # -1
          THEN IF p.start <= p.end THEN mariner.day >= p.start /\ mariner.day <= p.end ELSE mariner.day >= p.start \/ mariner.day <= p.end
          ELSE IF p.start # -1 THEN mariner.day >= p.start ELSE IF p.end # -1 THEN mariner.day <= p.end ELSE TRUE
    BY <1>3, <1>6 DEF Portrayal!Within, Portrayal!Today, Portrayal!Bound, Portrayal!Has
  <2> QED
    BY <1>2, <1>4, <2>1, <2>2, <2>3
<1>7. CASE p.recurring = 0
  <2>0. PICK t \in Int : t = 10 * mariner.year + mariner.day
    BY <1>2
  <2>1. Portrayal!DateFilter(p) <=> Portrayal!Within(p, Portrayal!Has(p.start), Portrayal!Has(p.end))
    BY <1>3, <1>7 DEF Portrayal!DateFilter, Portrayal!Has
  <2>2. \A s \in 0 .. 9 : /\ t >= 10 + s <=> mariner.year > 1 \/ (mariner.year = 1 /\ mariner.day >= s)
                          /\ t <= 10 + s <=> mariner.year < 1 \/ (mariner.year = 1 /\ mariner.day <= s)
    BY <1>2, <2>0
  <2>3. Portrayal!InDatePeriod(p) <=>
          IF p.start # -1 /\ p.end # -1 /\ p.start > p.end THEN t >= 10 + p.start \/ t <= 10 + p.end
          ELSE (p.start # -1 => t >= 10 + p.start) /\ (p.end # -1 => t <= 10 + p.end)
    BY <1>3, <1>4, <1>7, <2>2 DEF Portrayal!InDatePeriod, Portrayal!Has
  <2>4. Portrayal!Within(p, Portrayal!Has(p.start), Portrayal!Has(p.end)) <=>
          IF p.start # -1 /\ p.end # -1
          THEN IF 10 + p.start <= 10 + p.end THEN t >= 10 + p.start /\ t <= 10 + p.end ELSE t >= 10 + p.start \/ t <= 10 + p.end
          ELSE IF p.start # -1 THEN t >= 10 + p.start ELSE IF p.end # -1 THEN t <= 10 + p.end ELSE TRUE
    BY <1>3, <1>7, <2>0 DEF Portrayal!Within, Portrayal!Today, Portrayal!Bound, Portrayal!Has
  <2> QED
    BY <1>2, <1>4, <2>1, <2>3, <2>4
<1> QED
  BY <1>4, <1>5, <1>6, <1>7

(* A text is drawn by at most one layer, by its class.                     *)
LEMMA LabelsAgree ==
  ASSUME PortrayalInv
  PROVE  Portrayal!LabelsOnce
<1> SUFFICES ASSUME feature.kind = "text"
             PROVE  /\ Portrayal!Cardinality(Portrayal!DrawnBy(feature)) <= 1
                    /\ feature.tgrp = 11 /\ feature.class # "LIGHTS" => Portrayal!DrawnBy(feature) # {}
                    /\ (\A k \in Portrayal!TextSwitch : mariner.on[k]) => Portrayal!DrawnBy(feature) # {}
  BY DEF Portrayal!LabelsOnce
<1>1. feature \in Portrayal!Text
  BY DEF PortrayalInv, Portrayal!Feature, Portrayal!Area, Portrayal!Danger, Portrayal!Period, Portrayal!Object
<1>2. feature.class \in {"LIGHTS", "NEWOBJ", "other"} /\ feature.tgrp \in {-1, 11, 21, 23, 25}
  BY <1>1 DEF Portrayal!Text, Portrayal!No
<1>3. /\ "text" \in Portrayal!DrawnBy(feature) <=> feature.class = "other" /\ Portrayal!TextGroup(feature)
      /\ "placed-text" \in Portrayal!DrawnBy(feature) <=> feature.class = "NEWOBJ" /\ Portrayal!TextGroup(feature)
      /\ "light-text" \in Portrayal!DrawnBy(feature) <=> feature.class = "LIGHTS" /\ mariner.on["showLightDescriptions"]
      /\ Portrayal!DrawnBy(feature) \subseteq {"text", "placed-text", "light-text"}
  BY <1>2 DEF Portrayal!DrawnBy
<1>4. PICK l : Portrayal!DrawnBy(feature) \subseteq {l}
  <2>1. CASE feature.class = "other"
    <3>1. Portrayal!DrawnBy(feature) \subseteq {"text"}
      BY <1>3, <2>1
    <3> QED
      BY <3>1
  <2>2. CASE feature.class = "NEWOBJ"
    <3>1. Portrayal!DrawnBy(feature) \subseteq {"placed-text"}
      BY <1>3, <2>2
    <3> QED
      BY <3>1
  <2>3. CASE feature.class = "LIGHTS"
    <3>1. Portrayal!DrawnBy(feature) \subseteq {"light-text"}
      BY <1>3, <2>3
    <3> QED
      BY <3>1
  <2> QED
    BY <1>2, <2>1, <2>2, <2>3
<1>5. Portrayal!Cardinality(Portrayal!DrawnBy(feature)) <= 1
  <2>1. IsFiniteSet({l}) /\ Cardinality({l}) = 1
    BY FS_Singleton
  <2>2. Cardinality(Portrayal!DrawnBy(feature)) <= 1
    BY <1>4, <2>1, FS_Subset
  <2> QED
    BY <2>2 DEF Portrayal!Cardinality, Cardinality
<1>6. feature.tgrp = 11 => Portrayal!TextGroup(feature)
  BY DEF Portrayal!TextGroup
<1>7. (\A k \in Portrayal!TextSwitch : mariner.on[k]) => Portrayal!TextGroup(feature) /\ mariner.on["showLightDescriptions"]
  BY <1>2 DEF Portrayal!TextSwitch, Portrayal!TextGroup
<1> QED
  BY <1>2, <1>3, <1>5, <1>6, <1>7

LEMMA QualityAgrees == Portrayal!QualityIsItsOwn
BY DEF Portrayal!QualityIsItsOwn, Portrayal!Combine, Portrayal!Category

(* A display item turned on changes no other setting,                      *)
LEMMA OneSwitch ==
  ASSUME PortrayalInv, Portrayal!Next, NEW k \in Portrayal!Switch, ~mariner.on[k], mariner'.on[k]
  PROVE  /\ feature' = feature /\ \A j \in Portrayal!Switch \cup Portrayal!Choice : j # k => mariner'.on[j] = mariner.on[j]
<1>1. ASSUME NEW i \in Portrayal!Switch \cup Portrayal!Choice, Portrayal!Toggle(i)
      PROVE  feature' = feature /\ \A j \in Portrayal!Switch \cup Portrayal!Choice : j # k => mariner'.on[j] = mariner.on[j]
  <2>1. feature' = feature /\ mariner' = [mariner EXCEPT !.on = [mariner.on EXCEPT ![i] = ~@]]
    BY <1>1 DEF Portrayal!Toggle
  <2>2. mariner'.on = [mariner.on EXCEPT ![i] = ~@]
    BY <2>1 DEF PortrayalInv, Mariners
  <2>3. \A j \in Portrayal!Switch \cup Portrayal!Choice : j # i => mariner'.on[j] = mariner.on[j]
    BY <2>2 DEF PortrayalInv, Mariners
  <2>4. i = k
    <3>1. k \in Portrayal!Switch \cup Portrayal!Choice
      OBVIOUS
    <3> QED
      BY <2>3, <3>1
  <2> QED
    BY <2>1, <2>3, <2>4
<1>2. ASSUME \/ \E a, b, c \in Depth : Portrayal!SetContours(a, b, c)
             \/ \E d \in Depth : Portrayal!SetSafetyDepth(d)
             \/ \E y \in 0 .. 2, d \in Day : Portrayal!ViewDate(y, d)
      PROVE  FALSE
  <2>1. mariner'.on = mariner.on
    BY <1>2 DEF Portrayal!SetContours, Portrayal!SetSafetyDepth, Portrayal!ViewDate, PortrayalInv, Mariners
  <2> QED
    BY <2>1
<1> QED
  BY <1>1, <1>2 DEF Portrayal!Next

(* and hides nothing.                                                      *)
LEMMA SwitchAdds ==
  ASSUME PortrayalInv, Portrayal!Next
  PROVE  Portrayal!AddsOnly
<1> SUFFICES ASSUME NEW k \in Portrayal!Switch, ~mariner.on[k], mariner'.on[k]
             PROVE  /\ feature.kind = "object" => (Portrayal!Combine(feature) => Portrayal!Combine(feature)')
                    /\ feature.kind = "text" => Portrayal!DrawnBy(feature) \subseteq Portrayal!DrawnBy(feature)'
  BY DEF Portrayal!AddsOnly
<1>1. /\ feature' = feature
      /\ \A j \in Portrayal!Switch \cup Portrayal!Choice : j # k => mariner'.on[j] = mariner.on[j]
  BY OneSwitch
<1>2. \A j \in Portrayal!Switch : mariner.on[j] => mariner'.on[j]
  BY <1>1
<1>3. \A j \in Portrayal!Choice : mariner'.on[j] = mariner.on[j]
  BY <1>1 DEF Portrayal!Switch, Portrayal!Choice
<1>4. ASSUME Portrayal!Combine(feature)
      PROVE  Portrayal!Combine(feature)'
  <2>1. Portrayal!Category(feature)'
    <3>1. mariner'.on["showIsolatedDangersShallow"] = mariner.on["showIsolatedDangersShallow"]
      BY <1>3 DEF Portrayal!Choice
    <3>2. /\ mariner.on["displayBase"] => mariner'.on["displayBase"]
          /\ mariner.on["displayStandard"] => mariner'.on["displayStandard"]
          /\ mariner.on["displayOther"] => mariner'.on["displayOther"]
          /\ mariner.on["dataQuality"] => mariner'.on["dataQuality"]
      BY <1>2 DEF Portrayal!Switch
    <3>3. Portrayal!Category(feature)
      BY <1>4 DEF Portrayal!Combine
    <3> QED
      BY <1>1, <3>1, <3>2, <3>3 DEF Portrayal!Category
  <2>2. Portrayal!Boundary(feature)' /\ Portrayal!PointStyle(feature)' /\ Portrayal!SectorLeg(feature)' /\ Portrayal!ViewingGroup(feature)'
    <3>1. /\ mariner'.on["boundaryStyle"] = mariner.on["boundaryStyle"]
          /\ mariner'.on["simplifiedPoints"] = mariner.on["simplifiedPoints"]
          /\ mariner'.on["showFullSectorLines"] = mariner.on["showFullSectorLines"]
          /\ mariner'.on["viewingGroupOff"] = mariner.on["viewingGroupOff"]
      BY <1>3 DEF Portrayal!Choice
    <3>2. Portrayal!Boundary(feature) /\ Portrayal!PointStyle(feature) /\ Portrayal!SectorLeg(feature) /\ Portrayal!ViewingGroup(feature)
      BY <1>4 DEF Portrayal!Combine
    <3>3. Portrayal!Boundary(feature)' /\ Portrayal!PointStyle(feature)'
      BY <1>1, <3>1, <3>2 DEF Portrayal!Boundary, Portrayal!PointStyle
    <3>4. Portrayal!SectorLeg(feature)' /\ Portrayal!ViewingGroup(feature)'
      BY <1>1, <3>1, <3>2 DEF Portrayal!SectorLeg, Portrayal!ViewingGroup
    <3> QED
      BY <3>3, <3>4
  <2>3. /\ mariner.on["highlightDateDependent"] => mariner'.on["highlightDateDependent"]
        /\ mariner.on["showInformCallouts"] => mariner'.on["showInformCallouts"]
        /\ mariner.on["showMetaBounds"] => mariner'.on["showMetaBounds"]
    BY <1>2 DEF Portrayal!Switch
  <2> QED
    BY <1>1, <1>4, <2>1, <2>2, <2>3 DEF Portrayal!Combine
<1>5. Portrayal!DrawnBy(feature) \subseteq Portrayal!DrawnBy(feature)'
  <2>1. /\ mariner.on["textNames"] => mariner'.on["textNames"]
        /\ mariner.on["textOther"] => mariner'.on["textOther"]
        /\ mariner.on["showLightDescriptions"] => mariner'.on["showLightDescriptions"]
    BY <1>2 DEF Portrayal!Switch
  <2>2. Portrayal!TextGroup(feature) => Portrayal!TextGroup(feature)'
    BY <1>1, <2>1 DEF Portrayal!TextGroup
  <2> QED
    BY <1>1, <2>1, <2>2 DEF Portrayal!DrawnBy
<1> QED
  BY <1>4, <1>5

-----------------------------------------------------------------------------
(* The style the browser builds: its layers are layers.                    *)
LayerRecord(r) ==
  /\ DOMAIN r = {"paint", "ink", "layout", "base", "filter", "cells", "want", "vis"}
  /\ r.vis \in BOOLEAN
StyleTyped == Style!TypeOK /\ \A l \in DOMAIN live : LayerRecord(live[l])

LEMMA BuiltLayers ==
  ASSUME NEW n, NEW o, NEW on, NEW base, NEW b, b = Style!Build(n, o, on, base)
  PROVE  \A l \in DOMAIN b : LayerRecord(b[l])
<1>1. \A l : LayerRecord(Style!Fresh(l, n, o, base))
  BY DEF Style!Fresh, LayerRecord
<1> QED
  BY <1>1 DEF Style!Build

LEMMA UpdatedLayer ==
  ASSUME NEW r, LayerRecord(r), NEW l, NEW k, NEW n
  PROVE  LayerRecord(Style!Updated(r, l, k, n))
<1>1. \A q : LayerRecord(q) =>
        /\ \A x : LayerRecord([q EXCEPT !.paint = x]) /\ LayerRecord([q EXCEPT !.layout = x]) /\ LayerRecord([q EXCEPT !.base = x])
        /\ \A x, y : LayerRecord([q EXCEPT !.filter = x, !.cells = y])
        /\ \A x, y : y \in BOOLEAN => LayerRecord([q EXCEPT !.want = x, !.vis = y])
  BY DEF LayerRecord
<1>2. PICK p : p = IF Style!Is(l, Style!Paints(k)) THEN [r EXCEPT !.paint = Style!Of(n, Style!Paint(l[1]))] ELSE r
  OBVIOUS
<1>3. PICK q : q = IF Style!Is(l, Style!Layouts(k)) THEN [p EXCEPT !.layout = Style!Of(n, Style!Layout(l[1]))] ELSE p
  OBVIOUS
<1>4. PICK b : b = IF Style!Is(l, Style!Bases(k)) THEN Style!SetBase(q, l, n, cells) ELSE q
  OBVIOUS
<1>5. PICK v : v = IF Style!Is(l, Style!Shows(k)) THEN [b EXCEPT !.want = (n[k] = 0), !.vis = Style!Shown(l, n[k] = 0, off)] ELSE b
  OBVIOUS
<1>6. Style!Updated(r, l, k, n) = IF Style!Reapplies(k) /\ Style!Filtered(l) THEN Style!Combine(v, n, cells) ELSE v
  BY ONLY <1>2, <1>3, <1>4, <1>5, Zenon DEF Style!Updated
<1>7. LayerRecord(p)
  BY <1>1, <1>2
<1>8. LayerRecord(q)
  BY <1>1, <1>3, <1>7
<1>9. LayerRecord(b)
  BY <1>1, <1>4, <1>8 DEF Style!SetBase, Style!Combine
<1>10. LayerRecord(v)
  <2>1. Style!Shown(l, n[k] = 0, off) \in BOOLEAN
    BY DEF Style!Shown
  <2> QED
    BY <1>1, <1>5, <1>9, <2>1
<1>11. LayerRecord(Style!Combine(v, n, cells))
  BY <1>1, <1>10 DEF Style!Combine
<1> QED
  BY <1>6, <1>10, <1>11

LEMMA RecolouredLayer ==
  ASSUME NEW r, LayerRecord(r), NEW l, NEW n
  PROVE  LayerRecord(Style!Recolour(r, l, n))
<1>1. \A x, y : LayerRecord([r EXCEPT !.paint = x, !.ink = y])
  BY DEF LayerRecord
<1> QED
  BY <1>1 DEF Style!Recolour

LEMMA StyleTypedInit ==
  ASSUME Style!StyleConstants, Style!Init
  PROVE  StyleTyped
<1>1. \A l \in DOMAIN live : LayerRecord(live[l])
  BY BuiltLayers DEF Style!Init
<1>2. Style!TypeOK
  <2>1. \A l \in DOMAIN live : live[l].vis \in BOOLEAN
    BY <1>1 DEF LayerRecord
  <2>2. sets \subseteq Sets /\ now \in [Style!Setting -> 0 .. 1]
    BY DEF Style!Init, Style!StyleConstants
  <2>3. changes \in 0 .. MaxChanges /\ rebuilds \in 0 .. MaxRebuilds
    BY DEF Style!Init, Style!StyleConstants
  <2>4. basemap = "coastline" /\ off = {} /\ cells = FALSE /\ loading = FALSE /\ late = {}
    BY DEF Style!Init
  <2> QED
    BY <2>1, <2>2, <2>3, <2>4 DEF Style!TypeOK
<1> QED
  BY <1>1, <1>2 DEF StyleTyped

LEMMA StyleTypedStep ==
  ASSUME StyleTyped, Style!StyleConstants, Style!Next
  PROVE  StyleTyped'
<1>0. Style!TypeOK /\ \A l \in DOMAIN live : LayerRecord(live[l])
  BY DEF StyleTyped
<1>t. ASSUME NEW new, Style!Touch(new), \A l \in DOMAIN new : LayerRecord(new[l]),
             now' \in [Style!Setting -> 0 .. 1], cells' \in BOOLEAN, off' \subseteq Style!Band
      PROVE  StyleTyped'
  <2>1. \A l \in DOMAIN live' : LayerRecord(live'[l])
    BY <1>0, <1>t DEF Style!Touch
  <2>2. \A l \in DOMAIN live' : live'[l].vis \in BOOLEAN
    BY <2>1 DEF LayerRecord
  <2>3. changes' \in 0 .. MaxChanges
    BY <1>0, <1>t DEF Style!Touch, Style!TypeOK, Style!StyleConstants
  <2>4. late' \subseteq late \cup {"load", "band"} /\ UNCHANGED <<sets, basemap, loading, rebuilds>>
    BY <1>t DEF Style!Touch
  <2>5. Style!TypeOK'
    BY <1>0, <1>t, <2>2, <2>3, <2>4 DEF Style!TypeOK
  <2> QED
    BY <2>1, <2>5 DEF StyleTyped
<1>r. ASSUME NEW on, NEW base, Style!Rebuild(on, base),
             sets' \subseteq Sets, basemap' \in {"coastline", "osm", "osmvec"}
      PROVE  StyleTyped'
  <2>1. \A l \in DOMAIN live' : LayerRecord(live'[l])
    BY <1>r, BuiltLayers DEF Style!Rebuild
  <2>2. \A l \in DOMAIN live' : live'[l].vis \in BOOLEAN
    BY <2>1 DEF LayerRecord
  <2>3. rebuilds' \in 0 .. MaxRebuilds
    BY <1>0, <1>r DEF Style!Rebuild, Style!TypeOK, Style!StyleConstants
  <2>4. late' \subseteq {"load", "band"} /\ loading' = TRUE /\ UNCHANGED <<now, cells, off, changes>>
    BY <1>r DEF Style!Rebuild
  <2>5. Style!TypeOK'
    BY <1>0, <1>r, <2>2, <2>3, <2>4 DEF Style!TypeOK
  <2> QED
    BY <2>1, <2>5 DEF StyleTyped
<1>n. \A k \in Style!Setting : [now EXCEPT ![k] = 1 - @] \in [Style!Setting -> 0 .. 1]
  BY <1>0 DEF Style!TypeOK
<1>1. ASSUME NEW k \in Style!Setting, Style!SetMariner(k)
      PROVE  StyleTyped'
  <2> DEFINE new == [l \in DOMAIN live |-> Style!Updated(live[l], l, k, now')]
  <2>1. \A l \in DOMAIN new : LayerRecord(new[l])
    BY <1>0, UpdatedLayer
  <2>2. Style!Touch(new) /\ now' = [now EXCEPT ![k] = 1 - @] /\ UNCHANGED <<cells, off>>
    BY <1>1 DEF Style!SetMariner
  <2>3. now' \in [Style!Setting -> 0 .. 1] /\ cells' \in BOOLEAN /\ off' \subseteq Style!Band
    BY <1>0, <1>n, <2>2 DEF Style!TypeOK
  <2> HIDE DEF new
  <2> QED
    BY <1>t, <2>1, <2>2, <2>3
<1>2. ASSUME Style!SetScheme
      PROVE  StyleTyped'
  <2> DEFINE new == [l \in DOMAIN live |-> Style!Recolour(live[l], l, now')]
  <2>1. \A l \in DOMAIN new : LayerRecord(new[l])
    BY <1>0, RecolouredLayer
  <2>2. Style!Touch(new) /\ now' = [now EXCEPT !["scheme"] = 1 - @] /\ UNCHANGED <<cells, off>>
    BY <1>2 DEF Style!SetScheme
  <2>3. "scheme" \in Style!Setting
    BY DEF Style!Setting
  <2>4. now' \in [Style!Setting -> 0 .. 1] /\ cells' \in BOOLEAN /\ off' \subseteq Style!Band
    BY <1>0, <1>n, <2>2, <2>3 DEF Style!TypeOK
  <2> HIDE DEF new
  <2> QED
    BY <1>t, <2>1, <2>2, <2>4
<1>3. ASSUME Style!SetHiddenCells
      PROVE  StyleTyped'
  <2> DEFINE new == [l \in DOMAIN live |-> IF Style!Filtered(l) THEN Style!Combine(live[l], now, cells') ELSE live[l]]
  <2>0. \A r : LayerRecord(r) => LayerRecord(Style!Combine(r, now, cells'))
    BY DEF LayerRecord, Style!Combine
  <2>1. \A l \in DOMAIN new : LayerRecord(new[l])
    BY <1>0, <2>0
  <2>2. Style!Touch(new) /\ cells' = ~cells /\ UNCHANGED <<now, off>>
    BY <1>3 DEF Style!SetHiddenCells
  <2>3. now' \in [Style!Setting -> 0 .. 1] /\ cells' \in BOOLEAN /\ off' \subseteq Style!Band
    BY <1>0, <2>2 DEF Style!TypeOK
  <2> HIDE DEF new
  <2> QED
    BY <1>t, <2>1, <2>2, <2>3
<1>4. ASSUME NEW b \in Style!Band \ {"all"}, Style!SetBandVisible(b)
      PROVE  StyleTyped'
  <2> DEFINE new == [l \in DOMAIN live |-> IF Style!BandOf(l) = b THEN [live[l] EXCEPT !.vis = Style!Shown(l, live[l].want, off')] ELSE live[l]]
  <2>0. \A l \in DOMAIN live : LayerRecord([live[l] EXCEPT !.vis = Style!Shown(l, live[l].want, off')])
    BY <1>0 DEF LayerRecord, Style!Shown
  <2>1. \A l \in DOMAIN new : LayerRecord(new[l])
    BY <1>0, <2>0
  <2>2. Style!Touch(new) /\ off' = (IF b \in off THEN off \ {b} ELSE off \cup {b}) /\ UNCHANGED <<now, cells>>
    BY <1>4 DEF Style!SetBandVisible
  <2>3. now' \in [Style!Setting -> 0 .. 1] /\ cells' \in BOOLEAN /\ off' \subseteq Style!Band
    BY <1>0, <2>2 DEF Style!TypeOK
  <2> HIDE DEF new
  <2> QED
    BY <1>t, <2>1, <2>2, <2>3
<1>5. ASSUME NEW on \in SUBSET Sets, Style!SetServerSets(on)
      PROVE  StyleTyped'
  BY <1>0, <1>5, <1>r DEF Style!SetServerSets, Style!TypeOK
<1>6. ASSUME NEW m \in {"coastline", "osm", "osmvec"}, Style!SetBasemap(m)
      PROVE  StyleTyped'
  BY <1>0, <1>6, <1>r DEF Style!SetBasemap, Style!TypeOK
<1>7. ASSUME Style!SetPxPitch
      PROVE  StyleTyped'
  BY <1>0, <1>7, <1>r DEF Style!SetPxPitch, Style!TypeOK
<1>8. ASSUME Style!Loaded
      PROVE  StyleTyped'
  BY <1>0, <1>8 DEF Style!Loaded, Style!TypeOK, StyleTyped
<1> QED
  BY <1>1, <1>2, <1>3, <1>4, <1>5, <1>6, <1>7, <1>8 DEF Style!Next

-----------------------------------------------------------------------------
(* The updaters leave each layer with what a style built anew would give   *)
(* it, but for what they are known to leave alone.                         *)
Ids == Style!Templates \cup {"overscale", "bg", "coastline", "osm", "osmvec", "nodata"}
Common == {"category", "showMetaBounds"}
Coloured(l, r, n) == ~Style!Unpainted(l) => r.paint = Style!Of(n, Style!Paint(l[1]))
LaidOut(l, r, n) == ~Style!Unlaid(l) => r.layout = Style!Of(n, Style!Layout(l[1]))
Narrowed(l, r, n) ==
  ~Style!Unfiltered(l) => r.base = Style!Of(n, Style!Base(l[1])) /\ r.filter = Style!Of(n, Common)
(* What the settings want of a layer is kept too: a band that comes back   *)
(* is shown from it.                                                       *)
Fixed(l, base) == l[1] = "meta-boundary" \/ (l[1] = "nodata" /\ base # "coastline")
Switched(l, r, n, base) ==
  ~Fixed(l, base) => (r.want <=> Style!Wanted(l[1], n, base)) /\ r.want \in BOOLEAN
(* A SCAMIN bucket does not follow its band, so once one has been off (w)   *)
(* a bucket is only known not to be shown against its own switch.          *)
Visible(l, r, n, o, base, w) ==
  ~Fixed(l, base) =>
    IF l[3] = "bucket" /\ "band" \in w THEN r.vis => Style!Wanted(l[1], n, base)
    ELSE r.vis <=> Style!Wanted(l[1], n, base) /\ l[2] \notin o
Current(l, r, n, o, base, w) ==
  /\ Coloured(l, r, n) /\ LaidOut(l, r, n) /\ Narrowed(l, r, n)
  /\ Switched(l, r, n, base) /\ Visible(l, r, n, o, base, w)
BandsOff(o, w) == "all" \notin o /\ ("band" \notin w => o = {})
Placed == \A l \in DOMAIN live : l[1] \in Ids /\ l[2] \in sets \cup {"own"}
StyleDrawn ==
  /\ StyleTyped /\ Placed /\ BandsOff(off, late)
  /\ "load" \notin late => \A l \in DOMAIN live : Current(l, live[l], now, off, basemap, late)

(* The settings a part of a layer is made of, and the updater each has.    *)
LEMMA Dependencies ==
  ASSUME NEW id \in Ids
  PROVE  /\ Style!Paint(id) \subseteq Style!Setting /\ Style!Layout(id) \subseteq Style!Setting \ {"scheme"}
         /\ Style!Base(id) \subseteq Style!Setting \ {"scheme"}
         /\ Style!Switch(id) \in (Style!Setting \ {"scheme"}) \cup {"always"}
         /\ Common \subseteq Style!Setting \ {"scheme"}
BY DEF Ids, Style!Templates, Style!Under, Style!ComplexLines, Style!Over, Style!TextLayers, Style!Setting,
   Style!Paint, Style!Layout, Style!Base, Style!Switch, Common

LEMMA PaintHasUpdater ==
  ASSUME NEW l, l[1] \in Ids, ~Style!Unpainted(l)
  PROVE  /\ \A k \in Style!Paint(l[1]) : k # "scheme" => Style!Is(l, Style!Paints(k))
         /\ "scheme" \in Style!Paint(l[1]) => Style!Is(l, Style!Recoloured)
BY DEF Ids, Style!Templates, Style!Under, Style!ComplexLines, Style!Over, Style!TextLayers, Style!Unpainted, Style!Is,
   Style!Paint, Style!Paints, Style!Recoloured

LEMMA LayoutHasUpdater ==
  ASSUME NEW l, ~Style!Unlaid(l), NEW k \in Style!Layout(l[1])
  PROVE  Style!Is(l, Style!Layouts(k))
BY DEF Style!Is, Style!Layout, Style!Layouts, Style!Unlaid

LEMMA BaseHasUpdater ==
  ASSUME NEW l, ~Style!Unfiltered(l), NEW k \in Style!Base(l[1])
  PROVE  Style!Is(l, Style!Bases(k))
BY DEF Style!Is, Style!Base, Style!Bases, Style!Unfiltered, Style!TextLayers

LEMMA SwitchHasUpdater ==
  ASSUME NEW l, l[1] \in Ids, NEW base, ~Fixed(l, base), NEW k \in Style!Setting
  PROVE  Style!Is(l, Style!Shows(k)) <=> k = Style!Switch(l[1])
BY DEF Ids, Style!Templates, Style!Under, Style!ComplexLines, Style!Over, Style!TextLayers, Style!Setting,
   Style!Is, Style!Shows, Style!Switch, Fixed

(* A setting that a part is not made of does not change it.                *)
LEMMA Unaffected ==
  ASSUME now \in [Style!Setting -> 0 .. 1], NEW k \in Style!Setting, NEW n, n = [now EXCEPT ![k] = 1 - @],
         NEW deps \in SUBSET Style!Setting, k \notin deps
  PROVE  Style!Of(n, deps) = Style!Of(now, deps)
BY DEF Style!Of

(* A layer of a style just built is as the settings say.                   *)
LEMMA BuiltCurrent ==
  ASSUME NEW l, NEW n, NEW o, NEW base, NEW w, NEW r, r = Style!Fresh(l, n, o, base)
  PROVE  Current(l, r, n, o, base, w)
<1>1. /\ r.paint = Style!Of(n, Style!Paint(l[1])) /\ r.layout = Style!Of(n, Style!Layout(l[1]))
      /\ r.base = Style!Of(n, Style!Base(l[1])) /\ r.filter = Style!Of(n, Common)
  BY DEF Style!Fresh, Common
<1>2. /\ r.want = Style!Wanted(l[1], n, base)
      /\ r.vis <=> Style!Wanted(l[1], n, base) /\ l[2] \notin o
  BY DEF Style!Fresh
<1>3. Style!Wanted(l[1], n, base) \in BOOLEAN
  BY DEF Style!Wanted
<1> QED
  BY <1>1, <1>2, <1>3 DEF Current, Coloured, LaidOut, Narrowed, Switched, Visible

LEMMA BuiltPlaced ==
  ASSUME NEW n, NEW o, NEW on, NEW base \in {"coastline", "osm", "osmvec"}, NEW l \in DOMAIN Style!Build(n, o, on, base)
  PROVE  l[1] \in Ids /\ l[2] \in on \cup {"own"}
<1>1. CASE l \in Style!Own(base)
  BY <1>1 DEF Style!Own, Ids
<1>2. CASE l \in Style!Family(on)
  <2>0. PICK t \in Style!Templates : \E g \in Style!Group(t, on) : l = Style!Address(g)
    BY <1>2 DEF Style!Family
  <2>1. PICK g \in Style!Group(t, on) : l = Style!Address(g)
    BY <2>0
  <2>2. PICK u \in Style!With(t), s \in on : g \in Style!Members(u, s, on)
    BY <2>1 DEF Style!Group
  <2>3. g.set = s /\ g.id \in {u, "overscale"}
    BY <2>2 DEF Style!Members, Style!Variants, Style!Hatch
  <2>4. u \in Style!Templates /\ "point_symbols" \in Style!Templates
    BY <2>0, <2>2 DEF Style!With, Style!Templates, Style!Over
  <2>5. l[1] \in {"point_symbols", g.id} /\ l[2] = g.set
    BY <2>1 DEF Style!Address
  <2> QED
    BY <2>2, <2>3, <2>4, <2>5 DEF Ids
<1> QED
  BY <1>1, <1>2 DEF Style!Build

(* A layer's parts after a setting changed.                                *)
Parts(u, r, l, k, n) ==
  /\ u.paint = IF Style!Is(l, Style!Paints(k)) THEN Style!Of(n, Style!Paint(l[1])) ELSE r.paint
  /\ u.layout = IF Style!Is(l, Style!Layouts(k)) THEN Style!Of(n, Style!Layout(l[1])) ELSE r.layout
  /\ u.base = IF Style!Is(l, Style!Bases(k)) THEN Style!Of(n, Style!Base(l[1])) ELSE r.base
  /\ u.filter = IF Style!Is(l, Style!Bases(k)) \/ (Style!Reapplies(k) /\ Style!Filtered(l))
                  THEN Style!Of(n, Common) ELSE r.filter
  /\ Style!Is(l, Style!Shows(k)) => u.want = (n[k] = 0) /\ u.vis = Style!Shown(l, n[k] = 0, off)
  /\ ~Style!Is(l, Style!Shows(k)) => u.want = r.want /\ u.vis = r.vis

LEMMA UpdatedParts ==
  ASSUME NEW r, LayerRecord(r), NEW l, NEW k, NEW n, NEW u, u = Style!Updated(r, l, k, n)
  PROVE  Parts(u, r, l, k, n)
<1>1. \A q : LayerRecord(q) =>
        /\ \A x : /\ LayerRecord([q EXCEPT !.paint = x]) /\ [q EXCEPT !.paint = x].paint = x
                  /\ [q EXCEPT !.paint = x].layout = q.layout /\ [q EXCEPT !.paint = x].base = q.base
                  /\ [q EXCEPT !.paint = x].filter = q.filter /\ [q EXCEPT !.paint = x].want = q.want
                  /\ [q EXCEPT !.paint = x].vis = q.vis
        /\ \A x : /\ LayerRecord([q EXCEPT !.layout = x]) /\ [q EXCEPT !.layout = x].layout = x
                  /\ [q EXCEPT !.layout = x].paint = q.paint /\ [q EXCEPT !.layout = x].base = q.base
                  /\ [q EXCEPT !.layout = x].filter = q.filter /\ [q EXCEPT !.layout = x].want = q.want
                  /\ [q EXCEPT !.layout = x].vis = q.vis
  BY DEF LayerRecord
<1>2. \A q : LayerRecord(q) =>
        /\ LayerRecord(Style!Combine(q, n, cells)) /\ Style!Combine(q, n, cells).filter = Style!Of(n, Common)
        /\ Style!Combine(q, n, cells).paint = q.paint /\ Style!Combine(q, n, cells).layout = q.layout
        /\ Style!Combine(q, n, cells).base = q.base /\ Style!Combine(q, n, cells).want = q.want
        /\ Style!Combine(q, n, cells).vis = q.vis
  BY DEF LayerRecord, Style!Combine, Common
<1>3. \A q : LayerRecord(q) =>
        \A x : /\ LayerRecord([q EXCEPT !.base = x]) /\ [q EXCEPT !.base = x].base = x
               /\ [q EXCEPT !.base = x].paint = q.paint /\ [q EXCEPT !.base = x].layout = q.layout
               /\ [q EXCEPT !.base = x].want = q.want /\ [q EXCEPT !.base = x].vis = q.vis
  BY DEF LayerRecord
<1>5. PICK p : p = IF Style!Is(l, Style!Paints(k)) THEN [r EXCEPT !.paint = Style!Of(n, Style!Paint(l[1]))] ELSE r
  OBVIOUS
<1>6. PICK q : q = IF Style!Is(l, Style!Layouts(k)) THEN [p EXCEPT !.layout = Style!Of(n, Style!Layout(l[1]))] ELSE p
  OBVIOUS
<1>7. PICK b : b = IF Style!Is(l, Style!Bases(k)) THEN Style!SetBase(q, l, n, cells) ELSE q
  OBVIOUS
<1>8. PICK v : v = IF Style!Is(l, Style!Shows(k)) THEN [b EXCEPT !.want = (n[k] = 0), !.vis = Style!Shown(l, n[k] = 0, off)] ELSE b
  OBVIOUS
<1>9. u = IF Style!Reapplies(k) /\ Style!Filtered(l) THEN Style!Combine(v, n, cells) ELSE v
  BY ONLY <1>5, <1>6, <1>7, <1>8, u = Style!Updated(r, l, k, n), Zenon DEF Style!Updated
<1>10. /\ LayerRecord(p) /\ p.paint = IF Style!Is(l, Style!Paints(k)) THEN Style!Of(n, Style!Paint(l[1])) ELSE r.paint
       /\ p.layout = r.layout /\ p.base = r.base /\ p.filter = r.filter /\ p.want = r.want /\ p.vis = r.vis
  BY <1>1, <1>5
<1>11. /\ LayerRecord(q) /\ q.layout = IF Style!Is(l, Style!Layouts(k)) THEN Style!Of(n, Style!Layout(l[1])) ELSE p.layout
       /\ q.paint = p.paint /\ q.base = p.base /\ q.filter = p.filter /\ q.want = p.want /\ q.vis = p.vis
  BY <1>1, <1>6, <1>10
<1>12. /\ LayerRecord(b) /\ b.base = IF Style!Is(l, Style!Bases(k)) THEN Style!Of(n, Style!Base(l[1])) ELSE q.base
       /\ b.filter = IF Style!Is(l, Style!Bases(k)) THEN Style!Of(n, Common) ELSE q.filter
       /\ b.paint = q.paint /\ b.layout = q.layout /\ b.want = q.want /\ b.vis = q.vis
  <2>1. CASE Style!Is(l, Style!Bases(k))
    <3>1. PICK c : c = [q EXCEPT !.base = Style!Of(n, Style!Base(l[1]))]
      OBVIOUS
    <3>2. b = Style!Combine(c, n, cells)
      BY <1>7, <2>1, <3>1 DEF Style!SetBase
    <3>3. /\ LayerRecord(c) /\ c.base = Style!Of(n, Style!Base(l[1]))
          /\ c.paint = q.paint /\ c.layout = q.layout /\ c.want = q.want /\ c.vis = q.vis
      BY <1>3, <1>11, <3>1
    <3> QED
      BY <1>2, <2>1, <3>2, <3>3
  <2>2. CASE ~Style!Is(l, Style!Bases(k))
    BY <1>7, <1>11, <2>2
  <2> QED
    BY <2>1, <2>2
<1>13. Style!Shown(l, n[k] = 0, off) \in BOOLEAN
  BY DEF Style!Shown
<1>14. /\ LayerRecord(v)
       /\ Style!Is(l, Style!Shows(k)) => v.want = (n[k] = 0) /\ v.vis = Style!Shown(l, n[k] = 0, off)
       /\ ~Style!Is(l, Style!Shows(k)) => v.want = b.want /\ v.vis = b.vis
       /\ v.paint = b.paint /\ v.layout = b.layout /\ v.base = b.base /\ v.filter = b.filter
  <2>1. CASE Style!Is(l, Style!Shows(k))
    <3>0. PICK x, y : x = (n[k] = 0) /\ y = Style!Shown(l, n[k] = 0, off)
      OBVIOUS
    <3>1. v = [b EXCEPT !.want = x, !.vis = y] /\ y \in BOOLEAN
      BY <1>8, <1>13, <2>1, <3>0
    <3>2. LayerRecord(b)
      BY <1>12
    <3>3. /\ LayerRecord(v) /\ v.want = x /\ v.vis = y
          /\ v.paint = b.paint /\ v.layout = b.layout /\ v.base = b.base /\ v.filter = b.filter
      BY ONLY <3>1, <3>2 DEF LayerRecord
    <3>4. v.want = (n[k] = 0) /\ v.vis = Style!Shown(l, n[k] = 0, off)
      BY ONLY <3>0, <3>3, Zenon
    <3> QED
      BY <2>1, <3>3, <3>4, Zenon
  <2>2. CASE ~Style!Is(l, Style!Shows(k))
    BY <1>8, <1>12, <2>2, Zenon
  <2> QED
    BY <2>1, <2>2
<1>15. /\ u.filter = IF Style!Reapplies(k) /\ Style!Filtered(l) THEN Style!Of(n, Common) ELSE v.filter
       /\ u.paint = v.paint /\ u.layout = v.layout /\ u.base = v.base /\ u.want = v.want /\ u.vis = v.vis
  BY <1>2, <1>9, <1>14
<1>16. /\ Style!Is(l, Style!Shows(k)) => u.want = (n[k] = 0) /\ u.vis = Style!Shown(l, n[k] = 0, off)
       /\ ~Style!Is(l, Style!Shows(k)) => u.want = r.want /\ u.vis = r.vis
  BY <1>10, <1>11, <1>12, <1>14, <1>15, Zenon
<1>17. /\ u.paint = IF Style!Is(l, Style!Paints(k)) THEN Style!Of(n, Style!Paint(l[1])) ELSE r.paint
       /\ u.layout = IF Style!Is(l, Style!Layouts(k)) THEN Style!Of(n, Style!Layout(l[1])) ELSE r.layout
       /\ u.base = IF Style!Is(l, Style!Bases(k)) THEN Style!Of(n, Style!Base(l[1])) ELSE r.base
       /\ u.filter = IF Style!Is(l, Style!Bases(k)) \/ (Style!Reapplies(k) /\ Style!Filtered(l))
                       THEN Style!Of(n, Common) ELSE r.filter
  BY <1>10, <1>11, <1>12, <1>14, <1>15
<1> QED
  BY ONLY <1>16, <1>17, Zenon DEF Parts

(* One settings change: every part that was made of it has been rewritten. *)
LEMMA MarinerKeeps ==
  ASSUME now \in [Style!Setting -> 0 .. 1], NEW l, NEW base, l[1] \in Ids, NEW r, LayerRecord(r), NEW w, Current(l, r, now, off, base, w),
         NEW k \in Style!Setting, k # "scheme", NEW n, n = [now EXCEPT ![k] = 1 - @], BandsOff(off, w)
  PROVE  Current(l, Style!Updated(r, l, k, n), n, off, base, w)
<1>0. PICK u : u = Style!Updated(r, l, k, n)
  OBVIOUS
<1>p. Parts(u, r, l, k, n)
  BY <1>0, UpdatedParts
<1>d. /\ Style!Paint(l[1]) \in SUBSET Style!Setting /\ Style!Layout(l[1]) \in SUBSET Style!Setting
      /\ Style!Base(l[1]) \in SUBSET Style!Setting /\ Common \in SUBSET Style!Setting
      /\ Style!Switch(l[1]) \in Style!Setting \cup {"always"}
  BY Dependencies
<1>1. Coloured(l, u, n)
  <2> SUFFICES ASSUME ~Style!Unpainted(l), ~Style!Is(l, Style!Paints(k))
               PROVE  r.paint = Style!Of(n, Style!Paint(l[1]))
    BY <1>p DEF Parts, Coloured
  <2>1. k \notin Style!Paint(l[1])
    BY PaintHasUpdater
  <2> QED
    BY <1>d, <2>1, Unaffected DEF Current, Coloured
<1>2. LaidOut(l, u, n)
  <2> SUFFICES ASSUME ~Style!Unlaid(l), ~Style!Is(l, Style!Layouts(k))
               PROVE  r.layout = Style!Of(n, Style!Layout(l[1]))
    BY <1>p DEF Parts, LaidOut
  <2>1. k \notin Style!Layout(l[1])
    BY LayoutHasUpdater
  <2> QED
    BY <1>d, <2>1, Unaffected DEF Current, LaidOut
<1>3. Narrowed(l, u, n)
  <2> SUFFICES ASSUME ~Style!Unfiltered(l)
               PROVE  u.base = Style!Of(n, Style!Base(l[1])) /\ u.filter = Style!Of(n, Common)
    BY DEF Narrowed
  <2>0. r.base = Style!Of(now, Style!Base(l[1])) /\ r.filter = Style!Of(now, Common)
    BY DEF Current, Narrowed
  <2>1. u.base = Style!Of(n, Style!Base(l[1]))
    <3>1. CASE Style!Is(l, Style!Bases(k))
      BY <1>p, <3>1 DEF Parts
    <3>2. CASE ~Style!Is(l, Style!Bases(k))
      <4>1. k \notin Style!Base(l[1])
        BY <3>2, BaseHasUpdater
      <4> QED
        BY <1>p, <1>d, <2>0, <3>2, <4>1, Unaffected DEF Parts
    <3> QED
      BY <3>1, <3>2
  <2>2. u.filter = Style!Of(n, Common)
    <3>1. CASE k \in Common
      <4>1. Style!Reapplies(k) /\ Style!Filtered(l)
        BY <3>1 DEF Style!Reapplies, Style!Filtered, Style!Unfiltered, Common, Style!Is
      <4> QED
        BY <1>p, <4>1 DEF Parts
    <3>2. CASE k \notin Common
      <4>1. Style!Of(n, Common) = Style!Of(now, Common)
        BY <1>d, <3>2, Unaffected
      <4> QED
        BY <1>p, <2>0, <4>1 DEF Parts
    <3> QED
      BY <3>1, <3>2
  <2> QED
    BY <2>1, <2>2
<1>4. Switched(l, u, n, base) /\ Visible(l, u, n, off, base, w)
  <2> SUFFICES ASSUME ~Fixed(l, base)
               PROVE  /\ (u.want <=> Style!Wanted(l[1], n, base)) /\ u.want \in BOOLEAN
                      /\ IF l[3] = "bucket" /\ "band" \in w THEN u.vis => Style!Wanted(l[1], n, base)
                         ELSE u.vis <=> Style!Wanted(l[1], n, base) /\ l[2] \notin off
    BY DEF Switched, Visible
  <2>0. l[1] = "nodata" => base = "coastline"
    BY DEF Fixed
  <2>1. CASE Style!Is(l, Style!Shows(k))
    <3>1. k = Style!Switch(l[1]) /\ k # "always"
      BY <2>1, SwitchHasUpdater DEF Style!Setting
    <3>2. Style!Wanted(l[1], n, base) <=> n[k] = 0
      BY <2>0, <3>1 DEF Style!Wanted
    <3>3. u.want = (n[k] = 0) /\ u.vis = Style!Shown(l, n[k] = 0, off)
      BY <1>p, <2>1, Zenon DEF Parts
    <3>4. u.vis <=> n[k] = 0 /\ Style!BandOf(l) \notin off
      BY <3>3, Zenon DEF Style!Shown
    <3>5. CASE l[3] = "bucket"
      <4>1. Style!BandOf(l) \notin off /\ ("band" \notin w => l[2] \notin off)
        BY <3>5 DEF Style!BandOf, BandsOff
      <4> QED
        BY <3>2, <3>3, <3>4, <3>5, <4>1, Zenon
    <3>6. CASE l[3] # "bucket"
      <4>1. Style!BandOf(l) = l[2]
        BY <3>6 DEF Style!BandOf
      <4> QED
        BY <3>2, <3>3, <3>4, <3>6, <4>1, Zenon
    <3> QED
      BY <3>5, <3>6
  <2>2. CASE ~Style!Is(l, Style!Shows(k))
    <3>1. k # Style!Switch(l[1])
      BY <2>2, SwitchHasUpdater
    <3>2. Style!Wanted(l[1], n, base) <=> Style!Wanted(l[1], now, base)
      BY <1>d, <3>1 DEF Style!Wanted
    <3>3. u.want = r.want /\ u.vis = r.vis
      BY <1>p, <2>2, Zenon DEF Parts
    <3>4. /\ (r.want <=> Style!Wanted(l[1], now, base)) /\ r.want \in BOOLEAN
          /\ IF l[3] = "bucket" /\ "band" \in w THEN r.vis => Style!Wanted(l[1], now, base)
             ELSE r.vis <=> Style!Wanted(l[1], now, base) /\ l[2] \notin off
      BY DEF Current, Switched, Visible
    <3> QED
      BY <3>2, <3>3, <3>4, Zenon
  <2> QED
    BY <2>1, <2>2
<1> QED
  BY <1>0, <1>1, <1>2, <1>3, <1>4 DEF Current

(* A new colour scheme.                                                    *)
LEMMA SchemeKeeps ==
  ASSUME now \in [Style!Setting -> 0 .. 1], NEW l, NEW base, l[1] \in Ids, NEW r, LayerRecord(r), NEW w, Current(l, r, now, off, base, w),
         NEW n, n = [now EXCEPT !["scheme"] = 1 - @]
  PROVE  Current(l, Style!Recolour(r, l, n), n, off, base, w)
<1>0. PICK u : u = Style!Recolour(r, l, n)
  OBVIOUS
<1>p. /\ u.paint = IF Style!Is(l, Style!Recoloured) THEN Style!Of(n, Style!Paint(l[1])) ELSE r.paint
      /\ u.layout = r.layout /\ u.base = r.base /\ u.filter = r.filter /\ u.want = r.want /\ u.vis = r.vis
  BY <1>0 DEF Style!Recolour, LayerRecord
<1>s. "scheme" \in Style!Setting
  BY DEF Style!Setting
<1>d. /\ Style!Paint(l[1]) \in SUBSET Style!Setting
      /\ Style!Layout(l[1]) \in SUBSET (Style!Setting \ {"scheme"})
      /\ Style!Base(l[1]) \in SUBSET (Style!Setting \ {"scheme"}) /\ Common \in SUBSET (Style!Setting \ {"scheme"})
      /\ Style!Switch(l[1]) \in (Style!Setting \ {"scheme"}) \cup {"always"}
  BY Dependencies
<1>o. \A deps \in SUBSET Style!Setting : "scheme" \notin deps => Style!Of(n, deps) = Style!Of(now, deps)
  BY <1>s, Unaffected
<1>1. Coloured(l, u, n)
  <2> SUFFICES ASSUME ~Style!Unpainted(l), ~Style!Is(l, Style!Recoloured)
               PROVE  r.paint = Style!Of(n, Style!Paint(l[1]))
    BY <1>p DEF Coloured
  <2>1. "scheme" \notin Style!Paint(l[1])
    BY PaintHasUpdater
  <2> QED
    BY <1>d, <1>o, <2>1 DEF Current, Coloured
<1>2. LaidOut(l, u, n)
  BY <1>p, <1>d, <1>o DEF Current, LaidOut
<1>3. Narrowed(l, u, n)
  BY <1>p, <1>d, <1>o DEF Current, Narrowed
<1>4. Switched(l, u, n, base) /\ Visible(l, u, n, off, base, w)
  <2>1. Style!Wanted(l[1], n, base) <=> Style!Wanted(l[1], now, base)
    BY <1>d DEF Style!Wanted
  <2> QED
    BY <1>p, <2>1, Zenon DEF Current, Switched, Visible
<1> QED
  BY <1>0, <1>1, <1>2, <1>3, <1>4 DEF Current

(* Cells hidden or shown again; a band shown or hidden.                    *)
LEMMA CombineKeeps ==
  ASSUME NEW l, NEW base, NEW r, LayerRecord(r), NEW w, Current(l, r, now, off, base, w), NEW c
  PROVE  Current(l, Style!Combine(r, now, c), now, off, base, w)
<1>0. PICK u : u = Style!Combine(r, now, c)
  OBVIOUS
<1>1. /\ u.filter = Style!Of(now, Common)
      /\ u.paint = r.paint /\ u.layout = r.layout /\ u.base = r.base /\ u.want = r.want /\ u.vis = r.vis
  BY <1>0 DEF Style!Combine, LayerRecord, Common
<1>2. Coloured(l, u, now) /\ LaidOut(l, u, now) /\ Narrowed(l, u, now)
  BY <1>1 DEF Current, Coloured, LaidOut, Narrowed
<1>3. Switched(l, u, now, base) /\ Visible(l, u, now, off, base, w)
  BY <1>1, Zenon DEF Current, Switched, Visible
<1> QED
  BY <1>0, <1>2, <1>3 DEF Current

LEMMA BandKeeps ==
  ASSUME NEW l, NEW base, NEW r, LayerRecord(r), NEW w, Current(l, r, now, off, base, w), NEW b, b # "all", NEW o,
         o = IF b \in off THEN off \ {b} ELSE off \cup {b}, NEW v, "band" \in v
  PROVE  Current(l, IF Style!BandOf(l) = b THEN [r EXCEPT !.vis = Style!Shown(l, r.want, o)] ELSE r, now, o, base, v)
<1>0. Visible(l, r, now, off, base, w) /\ Switched(l, r, now, base)
  BY DEF Current
<1>1. CASE Style!BandOf(l) = b
  <2>0. PICK u : u = [r EXCEPT !.vis = Style!Shown(l, r.want, o)]
    OBVIOUS
  <2>1. /\ u.paint = r.paint /\ u.layout = r.layout /\ u.base = r.base /\ u.filter = r.filter
        /\ u.want = r.want
    BY <2>0 DEF LayerRecord
  <2>2. u.vis = Style!Shown(l, r.want, o)
    BY <2>0 DEF LayerRecord
  <2>3. Coloured(l, u, now) /\ LaidOut(l, u, now) /\ Narrowed(l, u, now)
    BY <2>1 DEF Current, Coloured, LaidOut, Narrowed
  <2>5. l[3] # "bucket" /\ Style!BandOf(l) = l[2]
    BY <1>1 DEF Style!BandOf
  <2>6. u.vis <=> r.want /\ l[2] \notin o
    BY <2>2, <2>5, Zenon DEF Style!Shown
  <2>4. Switched(l, u, now, base) /\ Visible(l, u, now, o, base, v)
    BY <1>0, <2>1, <2>5, <2>6, Zenon DEF Switched, Visible
  <2> QED
    BY <1>1, <2>0, <2>3, <2>4 DEF Current
<1>2. CASE Style!BandOf(l) # b
  <2>1. l[3] # "bucket" => (l[2] \in o <=> l[2] \in off)
    BY <1>2 DEF Style!BandOf
  <2>2. Visible(l, r, now, o, base, v)
    BY <1>0, <2>1, Zenon DEF Visible
  <2> QED
    BY <1>2, <2>2 DEF Current
<1> QED
  BY <1>1, <1>2

(* Only whether a band has been off matters of what came late.             *)
LEMMA SameLate ==
  ASSUME NEW l, NEW r, NEW n, NEW o, NEW base, NEW v, NEW w, Current(l, r, n, o, base, v), "band" \in v <=> "band" \in w
  PROVE  Current(l, r, n, o, base, w)
<1>1. Visible(l, r, n, o, base, w)
  BY Zenon DEF Current, Visible
<1> QED
  BY <1>1 DEF Current

LEMMA StyleDrawnInit ==
  ASSUME Style!StyleConstants, Style!Init
  PROVE  StyleDrawn
<1>1. live = Style!Build(now, off, sets, basemap) /\ basemap \in {"coastline", "osm", "osmvec"}
  BY DEF Style!Init
<1>2. Placed
  BY <1>1, BuiltPlaced DEF Placed
<1>3. \A l \in DOMAIN live : Current(l, live[l], now, off, basemap, late)
  BY <1>1, BuiltCurrent DEF Style!Build
<1>4. BandsOff(off, late)
  BY DEF BandsOff, Style!Init
<1> QED
  BY <1>2, <1>3, <1>4, StyleTypedInit DEF StyleDrawn

LEMMA StyleDrawnStep ==
  ASSUME StyleDrawn, Style!StyleConstants, Style!Next
  PROVE  StyleDrawn'
<1>0. /\ Style!TypeOK /\ \A l \in DOMAIN live : LayerRecord(live[l])
      /\ Placed /\ now \in [Style!Setting -> 0 .. 1] /\ BandsOff(off, late)
  BY DEF StyleDrawn, StyleTyped, Style!TypeOK
<1>t. StyleTyped'
  BY StyleTypedStep DEF StyleDrawn
(* A change in place: on a style that has loaded, no layer is left behind.  *)
<1>c. ASSUME NEW new, Style!Touch(new), DOMAIN new = DOMAIN live, BandsOff(off', late'),
             NEW v, "band" \in v <=> "band" \in late',
             \A l \in DOMAIN live : Current(l, live[l], now, off, basemap, late) => Current(l, new[l], now', off', basemap, v)
      PROVE  StyleDrawn'
  <2>1. UNCHANGED <<sets, basemap, loading>> /\ late \subseteq late' /\ (loading => "load" \in late')
    BY <1>c DEF Style!Touch
  <2>2. live' = (IF loading THEN live ELSE new)
    BY <1>c DEF Style!Touch
  <2>3. DOMAIN live' = DOMAIN live
    BY <1>c, <2>2
  <2>4. Placed'
    BY <1>0, <2>1, <2>3 DEF Placed
  <2>5. ASSUME "load" \notin late', NEW l \in DOMAIN live'
        PROVE  Current(l, live'[l], now', off', basemap', late')
    <3>1. "load" \notin late /\ ~loading
      BY <2>1, <2>5
    <3>2. live' = new
      BY <2>2, <3>1
    <3>3. Current(l, live[l], now, off, basemap, late)
      BY <2>3, <2>5, <3>1 DEF StyleDrawn
    <3>4. Current(l, new[l], now', off', basemap, v)
      BY <1>c, <2>3, <2>5, <3>3
    <3>5. PICK w : w = late'
      OBVIOUS
    <3>6. Current(l, new[l], now', off', basemap, w)
      <4>1. PICK n, o : n = now' /\ o = off'
        OBVIOUS
      <4> QED
        BY <1>c, <3>4, <3>5, <4>1, SameLate
    <3> QED
      BY <2>1, <3>2, <3>5, <3>6
  <2> QED
    BY <1>c, <1>t, <2>4, <2>5 DEF StyleDrawn
(* A rebuild: every layer is new.                                           *)
<1>r. ASSUME Style!Rebuild(sets', basemap'), basemap' \in {"coastline", "osm", "osmvec"}
      PROVE  StyleDrawn'
  <2>1. live' = Style!Build(now, off, sets', basemap') /\ UNCHANGED <<now, off>> /\ late' = {w \in {"band"} : off # {}}
    BY <1>r DEF Style!Rebuild
  <2>2. Placed'
    BY <1>r, <2>1, BuiltPlaced DEF Placed
  <2>3. \A l \in DOMAIN live' : Current(l, live'[l], now', off', basemap', late')
    BY <2>1, BuiltCurrent DEF Style!Build
  <2>4. BandsOff(off', late')
    BY <1>0, <2>1 DEF BandsOff
  <2> QED
    BY <1>t, <2>2, <2>3, <2>4 DEF StyleDrawn
<1>1. ASSUME NEW k \in Style!Setting, Style!SetMariner(k)
      PROVE  StyleDrawn'
  <2> DEFINE new == [l \in DOMAIN live |-> Style!Updated(live[l], l, k, now')]
  <2>1. Style!Touch(new) /\ k # "scheme" /\ now' = [now EXCEPT ![k] = 1 - @] /\ off' = off
    BY <1>1 DEF Style!SetMariner
  <2>2. \A l \in DOMAIN live : Current(l, live[l], now, off, basemap, late) => Current(l, new[l], now', off', basemap, late)
    BY <1>0, <2>1, MarinerKeeps DEF Placed
  <2>3. DOMAIN new = DOMAIN live
    OBVIOUS
  <2>4. ("band" \in late <=> "band" \in late') /\ BandsOff(off', late')
    BY <1>0, <2>1 DEF Style!Touch, BandsOff
  <2> HIDE DEF new
  <2> QED
    BY <1>c, <2>1, <2>2, <2>3, <2>4
<1>2. ASSUME Style!SetScheme
      PROVE  StyleDrawn'
  <2> DEFINE new == [l \in DOMAIN live |-> Style!Recolour(live[l], l, now')]
  <2>1. Style!Touch(new) /\ now' = [now EXCEPT !["scheme"] = 1 - @] /\ off' = off
    BY <1>2 DEF Style!SetScheme
  <2>2. \A l \in DOMAIN live : Current(l, live[l], now, off, basemap, late) => Current(l, new[l], now', off', basemap, late)
    BY <1>0, <2>1, SchemeKeeps DEF Placed
  <2>3. DOMAIN new = DOMAIN live
    OBVIOUS
  <2>4. ("band" \in late <=> "band" \in late') /\ BandsOff(off', late')
    BY <1>0, <2>1 DEF Style!Touch, BandsOff
  <2> HIDE DEF new
  <2> QED
    BY <1>c, <2>1, <2>2, <2>3, <2>4
<1>3. ASSUME Style!SetHiddenCells
      PROVE  StyleDrawn'
  <2> DEFINE new == [l \in DOMAIN live |-> IF Style!Filtered(l) THEN Style!Combine(live[l], now, cells') ELSE live[l]]
  <2>1. Style!Touch(new) /\ now' = now /\ off' = off
    BY <1>3 DEF Style!SetHiddenCells
  <2>2. \A l \in DOMAIN live : Current(l, live[l], now, off, basemap, late) => Current(l, new[l], now', off', basemap, late)
    BY <1>0, <2>1, CombineKeeps
  <2>3. DOMAIN new = DOMAIN live
    OBVIOUS
  <2>4. ("band" \in late <=> "band" \in late') /\ BandsOff(off', late')
    BY <1>0, <2>1 DEF Style!Touch, BandsOff
  <2> HIDE DEF new
  <2> QED
    BY <1>c, <2>1, <2>2, <2>3, <2>4
<1>4. ASSUME NEW b \in Style!Band \ {"all"}, Style!SetBandVisible(b)
      PROVE  StyleDrawn'
  <2> DEFINE new == [l \in DOMAIN live |-> IF Style!BandOf(l) = b THEN [live[l] EXCEPT !.vis = Style!Shown(l, live[l].want, off')] ELSE live[l]]
  <2>1. Style!Touch(new) /\ now' = now /\ off' = (IF b \in off THEN off \ {b} ELSE off \cup {b})
    BY <1>4 DEF Style!SetBandVisible
  <2>0. PICK v : v = {"band"}
    OBVIOUS
  <2>2. \A l \in DOMAIN live : Current(l, live[l], now, off, basemap, late) => Current(l, new[l], now', off', basemap, v)
    <3>1. PICK o : o = off'
      OBVIOUS
    <3>2. "band" \in v /\ b # "all"
      BY <1>4, <2>0
    <3>3. \A l \in DOMAIN live : Current(l, live[l], now, off, basemap, late) => Current(l, new[l], now, o, basemap, v)
      BY <1>0, <2>1, <3>1, <3>2, BandKeeps
    <3> QED
      BY <2>1, <3>1, <3>3
  <2>3. DOMAIN new = DOMAIN live
    OBVIOUS
  <2>4. "band" \in late' /\ BandsOff(off', late')
    <3>1. off' # off
      BY <2>1
    <3> QED
      BY <1>0, <1>4, <2>1, <3>1 DEF Style!Touch, BandsOff
  <2> HIDE DEF new
  <2> QED
    BY <1>c, <2>0, <2>1, <2>2, <2>3, <2>4
<1>5. ASSUME NEW on \in SUBSET Sets, Style!SetServerSets(on)
      PROVE  StyleDrawn'
  BY <1>0, <1>5, <1>r DEF Style!SetServerSets, Style!TypeOK
<1>6. ASSUME NEW m \in {"coastline", "osm", "osmvec"}, Style!SetBasemap(m)
      PROVE  StyleDrawn'
  BY <1>0, <1>6, <1>r DEF Style!SetBasemap, Style!TypeOK
<1>7. ASSUME Style!SetPxPitch
      PROVE  StyleDrawn'
  BY <1>0, <1>7, <1>r DEF Style!SetPxPitch, Style!TypeOK
<1>8. ASSUME Style!Loaded
      PROVE  StyleDrawn'
  <2>1. UNCHANGED <<live, late, now, off, basemap, sets>>
    BY <1>8 DEF Style!Loaded
  <2> QED
    BY <1>t, <2>1 DEF StyleDrawn, Placed
<1> QED
  BY <1>1, <1>2, <1>3, <1>4, <1>5, <1>6, <1>7, <1>8 DEF Style!Next

(* So the layers match a rebuild; and the expansion draws finer over       *)
(* coarser.                                                                *)
LEMMA StyleMatches ==
  ASSUME StyleDrawn
  PROVE  Style!UpdatersMatchRebuild
<1> SUFFICES ASSUME "load" \notin late, NEW l \in DOMAIN live, NEW r, r = live[l], NEW f, f = Style!Fresh(l, now, off, basemap)
             PROVE  /\ ~Style!Unpainted(l) => r.paint = f.paint
                    /\ ~Style!Unlaid(l) => r.layout = f.layout
                    /\ ~Style!Unfiltered(l) => r.base = f.base /\ r.filter = f.filter
                    /\ ~Style!Unswitched(l) =>
                         IF l[3] = "bucket" /\ "band" \in late THEN r.vis => Style!Wanted(l[1], now, basemap)
                         ELSE r.vis = (Style!Wanted(l[1], now, basemap) /\ l[2] \notin off)
  BY DEF Style!UpdatersMatchRebuild
<1>1. Current(l, r, now, off, basemap, late) /\ LayerRecord(r)
  BY DEF StyleDrawn, StyleTyped
<1>2. /\ f.paint = Style!Of(now, Style!Paint(l[1])) /\ f.layout = Style!Of(now, Style!Layout(l[1]))
      /\ f.base = Style!Of(now, Style!Base(l[1])) /\ f.filter = Style!Of(now, Common)
  BY DEF Style!Fresh, Common
<1>3. Style!Unswitched(l) <=> Fixed(l, basemap)
  BY DEF Style!Unswitched, Fixed, Style!Is
<1>4. r.vis \in BOOLEAN
  BY <1>1 DEF LayerRecord
<1>5. ~Style!Unswitched(l) =>
        IF l[3] = "bucket" /\ "band" \in late THEN r.vis => Style!Wanted(l[1], now, basemap)
        ELSE r.vis = (Style!Wanted(l[1], now, basemap) /\ l[2] \notin off)
  BY <1>1, <1>3, <1>4 DEF Current, Visible
<1> QED
  BY <1>1, <1>2, <1>5 DEF Current, Coloured, LaidOut, Narrowed

LEMMA StyleStacks ==
  ASSUME StyleDrawn, Style!StyleConstants
  PROVE  Style!FinerOnTop
<1> DEFINE over == Style!Group("areas", sets)
           fills == {l \in over : l.id = "areas"}
           hatched == over \ fills
<1>0. sets \subseteq Style!Band
  BY DEF StyleDrawn, StyleTyped, Style!TypeOK, Style!StyleConstants
<1>1. ASSUME NEW g \in over
      PROVE  \E s \in sets :
               \/ /\ g.id = "areas" /\ g.set = s /\ g.half \in {1, 2} /\ g.zoom \in {0} \cup Style!Scamin(s)
               \/ /\ g.id = "overscale" /\ g.set = s /\ g.half = 1 /\ g.zoom = 99 /\ Style!Overscale(s, sets)
  <2>1. PICK s \in sets : g \in Style!Members("areas", s, sets)
    BY <1>1 DEF Style!Group, Style!With
  <2>2. CASE g \in Style!Variants("areas", s)
    <3>1. g.id = "areas" /\ g.set = s /\ g.half \in Style!Halves("areas") /\ g.zoom \in {0} \cup Style!Scamin(s)
      BY <2>2 DEF Style!Variants
    <3>2. Style!Halves("areas") \subseteq {1, 2}
      BY DEF Style!Halves
    <3> QED
      BY <3>1, <3>2
  <2>3. CASE g \in Style!Hatch("areas", s, sets)
    BY <2>3 DEF Style!Hatch
  <2> QED
    BY <2>1, <2>2, <2>3 DEF Style!Members
<1>2. ASSUME NEW s \in sets, Style!Overscale(s, sets)
      PROVE  \E g \in hatched : g.set = s
  <2>0. PICK h : h = [group |-> "areas", id |-> "overscale", set |-> s, half |-> 1, zoom |-> 99]
    OBVIOUS
  <2>1. h \in Style!Hatch("areas", s, sets)
    BY <1>2, <2>0 DEF Style!Hatch
  <2>2. h \in Style!Members("areas", s, sets) /\ "areas" \in Style!With("areas")
    BY <2>1 DEF Style!Members, Style!With
  <2>3. h \in over
    BY <2>2 DEF Style!Group
  <2>4. h.id = "overscale" /\ h.set = s
    BY <2>0
  <2> QED
    BY <2>3, <2>4
<1>3. \A s \in Style!Band : Style!Rank(s) \in {1, 4, 6} /\ Style!Scamin(s) \subseteq 0 .. 98
  BY DEF Style!Band, Style!Rank, Style!Scamin
<1>4. \A s \in sets : Style!Overscale(s, sets) <=> s # "all" /\ \E r \in sets \ {"all"} : Style!Rank(r) > Style!Rank(s)
  BY <1>0 DEF Style!Overscale, Style!FinerPresent, Style!BandMax, Style!Band
<1>5. \A l \in DOMAIN live : l[2] \in sets \cup {"own"}
  BY DEF StyleDrawn, Placed
<1>6. \A a \in over, b \in fills : Style!Rank(a.set) < Style!Rank(b.set) => Style!Below(a, b)
  BY DEF Style!Below
<1>7. ASSUME NEW a \in hatched, NEW b \in fills, a.set = b.set, b.half = 1
      PROVE  Style!Below(b, a)
  <2>1. a.half = 1 /\ a.zoom = 99
    BY <1>1, <1>7
  <2>2. b.zoom \in 0 .. 98
    BY <1>0, <1>1, <1>3, <1>7
  <2> QED
    BY <1>7, <2>1, <2>2 DEF Style!Below
<1>8. {a.set : a \in hatched} = {s \in sets \ {"all"} : \E r \in sets \ {"all"} : Style!Rank(r) > Style!Rank(s)}
  BY <1>1, <1>2, <1>4
<1> QED
  BY <1>5, <1>6, <1>7, <1>8 DEF Style!FinerOnTop

-----------------------------------------------------------------------------
(* The composition: one component runs, and the others rest.               *)
ChartInv ==
  /\ part \in {"canvas", "gate", "style", "portrayal"}
  /\ part = "canvas" => StyleInv
  /\ part = "gate" => Gate!TypeOK
  /\ part = "style" => StyleDrawn
  /\ part = "portrayal" => PortrayalInv

LEMMA GateInit ==
  ASSUME Gate!GateConstants, Gate!Init
  PROVE  Gate!TypeOK
<1>1. GateShape
  BY DEF Gate!Init, GateShape, Cutoffs
<1>2. GateFlags
  BY Zenon DEF Gate!Init, GateFlags
<1> QED
  BY <1>1, <1>2, GateParts

LEMMA ChartStep ==
  ASSUME ChartInv, [Next]_vars
  PROVE  ChartInv'
<1> USE ConstantsAssumption DEF ChartConstants
<1>1. CASE part = "canvas" /\ Canvas!Next /\ UNCHANGED <<part, NotCanvas>>
  BY <1>1, StyleStep DEF ChartInv
<1>2. CASE part = "gate" /\ Gate!Next /\ UNCHANGED <<part, NotGate>>
  BY <1>2, GateTypes DEF ChartInv
<1>3. CASE part = "style" /\ Style!Next /\ UNCHANGED <<part, NotStyle>>
  BY <1>3, StyleDrawnStep DEF ChartInv
<1>4. CASE part = "portrayal" /\ Portrayal!Next /\ UNCHANGED <<part, NotPortrayal>>
  BY <1>4, PortrayalStep DEF ChartInv
<1>5. CASE UNCHANGED vars
  <2>1. part = "canvas" => StyleInv'
    BY <1>5 DEF vars, ChartInv, StyleInv, CanvasTyped, Canvas!TypeOK, Room, Painted, InTurn, CarriesCurrent, Synced,
       Faithful, Fetched, ChromeShown, Probing, Restyling, Canvas!MarinerQuery
  <2>2. part = "gate" => Gate!TypeOK'
    BY <1>5 DEF vars, ChartInv, Gate!TypeOK
  <2>3. part = "style" => StyleDrawn'
    BY <1>5 DEF vars, ChartInv, StyleDrawn, Placed, StyleTyped, Style!TypeOK
  <2>4. part = "portrayal" => PortrayalInv'
    BY <1>5 DEF vars, ChartInv, PortrayalInv
  <2> QED
    BY <1>5, <2>1, <2>2, <2>3, <2>4 DEF vars, ChartInv
<1> QED
  BY <1>1, <1>2, <1>3, <1>4, <1>5 DEF Next

LEMMA ChartAlways == Spec => []ChartInv
<1>1. Init => ChartInv
  BY ConstantsAssumption, StyleInit, GateInit, StyleDrawnInit, PortrayalInit DEF Init, ChartInv, ChartConstants
<1>2. ChartInv /\ [Next]_vars => ChartInv'
  BY ChartStep
<1> QED
  BY <1>1, <1>2, PTL DEF Spec

(* The state of the canvas, of its gate, of the style the browser builds   *)
(* and of the settings its expressions read is typed (chart-canvas.mjs,    *)
(* chart-style.mjs, s52-style.mjs).                                        *)
THEOREM ChartIsTyped == Spec => []TypeOK
<1>1. ChartInv => TypeOK
  BY PortrayalTyped DEF ChartInv, TypeOK, StyleInv, CanvasTyped, StyleDrawn, StyleTyped
<1> QED
  BY <1>1, ChartAlways, PTL

(* In whatever order restyles, fetches that fail, rebuilds and the answers *)
(* of the server come, for any number of settings, packs and requests, the *)
(* map at rest shows what was chosen one change at a time, and the next    *)
(* difference starts from what it shows (_engineRestyleNow,                *)
(* _engineRebuild, setServerSets, _initEngineStyle).                       *)
THEOREM StyleStaysCurrent == Spec => []StyleIsCurrent
<1>1. ChartInv => StyleIsCurrent
  BY StyleShows DEF ChartInv, StyleIsCurrent
<1> QED
  BY <1>1, ChartAlways, PTL

(* Whatever the order of settings, schemes, bands, hidden cells and        *)
(* rebuilds, every layer the browser styles shows what a style built anew  *)
(* would, and finer charts cover coarser ones; whatever the depths, the    *)
(* days and the settings, all that tells safe water from unsafe agrees,    *)
(* the date expression is its reference, a text has one layer and quality  *)
(* its own switch (setMariner, setScheme, setBaseFilter, buildChartLayers; *)
(* s52-style.mjs).                                                         *)
THEOREM MapIsDrawnRight == Spec => []DrawnRight
<1>1. ChartInv => (part = "style" => Style!UpdatersMatchRebuild /\ Style!FinerOnTop)
  BY ConstantsAssumption, StyleMatches, StyleStacks DEF ChartInv, ChartConstants
<1>2. ChartInv => (part = "portrayal" => Portrayal!SafetyAgrees /\ Portrayal!DatesAsReference
                                         /\ Portrayal!LabelsOnce /\ Portrayal!QualityIsItsOwn)
  BY ConstantsAssumption, DepthsAgree, DatesAgree, LabelsAgree, QualityAgrees DEF ChartInv, ChartConstants
<1>3. ChartInv => DrawnRight
  BY <1>1, <1>2 DEF DrawnRight
<1> QED
  BY <1>3, ChartAlways, PTL

(* The gate reloads no source under a gesture, on any ladder of scales     *)
(* (_scaminUpdate, the movestart handler).                                 *)
THEOREM GateWaitsForRest == Spec => [][part = "gate" => Gate!ReloadsAtRest]_vars
<1>1. ChartInv /\ [Next]_vars => [part = "gate" => Gate!ReloadsAtRest]_vars
  BY GateReloads DEF ChartInv, Next
<1> QED
  BY <1>1, ChartAlways, PTL DEF Spec

(* A display item turned on hides no object and no text                    *)
(* (combineFilters, textGroupFilter).                                      *)
THEOREM SwitchesOnlyAdd == Spec => [][part = "portrayal" => Portrayal!AddsOnly]_vars
<1>1. ChartInv /\ [Next]_vars => [part = "portrayal" => Portrayal!AddsOnly]_vars
  BY SwitchAdds DEF ChartInv, Next
<1> QED
  BY <1>1, ChartAlways, PTL DEF Spec
=============================================================================
