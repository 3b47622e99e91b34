---------------------------- MODULE ChartCanvas ----------------------------
(* The style of <chart-canvas> in server mode: the chart layers come from the  *)
(* server's engine (/api/style.json), a display setting is applied as a        *)
(* server-computed difference between the last applied and the current         *)
(* settings, and the tile sources follow the list of packs the shell gives     *)
(* (chart-canvas.mjs, chart-sources.mjs).  Every await is a point where        *)
(* another handler runs: a call in flight keeps what it captured before it.    *)
(* SCAMIN gating is the engine's own here (the default merged mode).           *)
EXTENDS Naturals, FiniteSets

CONSTANTS Setting,      \* the display settings, each with two values
          Scheme, Pitch, \* the two of them with setters of their own
          Pack,         \* the tile sets of the server
          PackList,     \* the lists of them the shell gives
          None,         \* no engine style, no last applied query
          MaxChanges,   \* changes of a setting and switches of the basemap
          MaxSetCalls,  \* calls of setServerSets
          MaxBakes,     \* re-bakes on the server
          MaxFails,     \* requests the server fails
          MaxCalls      \* requests in flight at once

VARIABLES
  mariner,     \* this._mariner and this._active
  engineMode,  \* this._engineMode
  cached,      \* this._engineStyle, as the query and the bake it was generated for
  lastMariner, \* this._lastMariner
  engineSet,   \* this._engineSet
  serverSets,  \* ChartSources._serverSets: the names and the bake their tile URLs carry
  basemap,     \* the basemap attribute
  coastline,   \* the offline coastline is loaded
  live,        \* the style on the map; history: set again after a failure, it was kept
  loaded,      \* map.isStyleLoaded()
  timer,       \* the debounce of _engineRestyle is armed
  waiting,     \* what runs at the next idle: "restyle", "install"
  calls,       \* the requests in flight
  gen,         \* the server's bake generation
  left,        \* what the bounds leave: changes, set calls, bakes, failures
  overlapped,  \* history: a change came while an earlier one was in flight
  failed,      \* history: a full style fetch failed
  told         \* history: the shell has been told of the last bake
style == <<cached, lastMariner, live, loaded>>
hist == <<overlapped, failed, told>>
env == <<gen, left, hist>>
vars == <<mariner, engineMode, engineSet, serverSets, basemap, coastline, timer, waiting, calls, style, env>>

Settings == [Setting -> BOOLEAN]
QuerySet == [set : PackList, m : Settings]
Gens == 0..MaxBakes
Basemap == {"none", "coastline", "osm"}
Call == [id : 1..MaxCalls, op : {"diff"}, from : QuerySet, to : QuerySet]
   \cup [id : 1..MaxCalls, op : {"rebuild"}, q : QuerySet]
   \cup [id : 1..MaxCalls, op : {"probe"}, q : QuerySet]
   \cup [id : 1..MaxCalls, op : {"scamin"}, names : PackList]
   \cup [id : 1..MaxCalls, op : {"metas"}, names : PackList, prev : PackList]
   \cup [id : 1..MaxCalls, op : {"flush"}, names : PackList]
   \cup [id : 1..MaxCalls, op : {"coast"}]
Style == [set : PackList, m : Settings, gen : Gens]
CanvasConstants == /\ {MaxChanges, MaxSetCalls, MaxBakes, MaxFails, MaxCalls} \subseteq Nat
                   /\ {Scheme, Pitch} \subseteq Setting /\ Scheme # Pitch /\ None \notin QuerySet \cup Style
                   /\ {} \in PackList /\ PackList \subseteq SUBSET Pack

TypeOK == /\ mariner \in Settings /\ engineMode \in BOOLEAN
          /\ cached \in Style \cup {None}
          /\ lastMariner \in QuerySet \cup {None}
          /\ engineSet \in PackList /\ serverSets \in [names : PackList, gen : Gens]
          /\ basemap \in Basemap /\ coastline \in BOOLEAN
          /\ live \in [engine : BOOLEAN, set : PackList, m : Settings, gen : [Pack -> Gens], chrome : BOOLEAN,
                       base : Basemap, kept : BOOLEAN]
          /\ gen \in Gens /\ told \in BOOLEAN
          /\ loaded \in BOOLEAN /\ timer \in BOOLEAN
          /\ waiting \subseteq {"restyle", "install"} /\ calls \subseteq Call
          /\ left \in [change : 0..MaxChanges, sets : 0..MaxSetCalls, bake : 0..MaxBakes, fail : 0..MaxFails]
          /\ overlapped \in BOOLEAN /\ failed \in BOOLEAN

(* _marinerQuery *)
MarinerQuery == [set |-> engineSet, m |-> mariner]

(* buildStyle and _engineStyleMerged: the cached engine layers and sources over *)
(* the client's chrome (sea, basemap), or the JS builder's style of the current *)
(* settings; the chrome is in the current scheme either way.                    *)
BuildStyle(cs, mode, srv, base) ==
  LET engine == mode /\ cs # None IN
  [engine |-> engine, set |-> IF engine THEN cs.set ELSE srv.names, m |-> IF engine THEN cs.m ELSE mariner,
   gen |-> [p \in Pack |-> IF engine THEN cs.gen ELSE srv.gen], chrome |-> mariner[Scheme], base |-> base, kept |-> FALSE]

SetStyle(cs, mode, srv, base) == live' = BuildStyle(cs, mode, srv, base) /\ loaded' = FALSE

Fresh(rest) == CHOOSE i \in 1..MaxCalls : \A c \in rest : c.id # i
Send(rest, c) == calls' = rest \cup {c}
Busy == calls # {} \/ "install" \in waiting
Styled(q) == [set |-> q.set, m |-> q.m, gen |-> gen]
Fails == left.fail > 0 /\ left' = [left EXCEPT !.fail = @ - 1]

(* boot: server mode, no pack yet, the client's chrome only. *)
Init == /\ mariner = [s \in Setting |-> FALSE] /\ engineMode = FALSE
        /\ cached = None /\ lastMariner = None
        /\ engineSet = {} /\ serverSets = [names |-> {}, gen |-> 0] /\ basemap = "none" /\ coastline = FALSE
        /\ live = [engine |-> FALSE, set |-> {}, m |-> [s \in Setting |-> FALSE], gen |-> [p \in Pack |-> 0],
                    chrome |-> FALSE, base |-> "none", kept |-> FALSE]
        /\ loaded = FALSE /\ timer = FALSE /\ waiting = {} /\ calls = {}
        /\ left = [change |-> MaxChanges, sets |-> MaxSetCalls, bake |-> MaxBakes, fail |-> MaxFails]
        /\ overlapped = FALSE /\ failed = FALSE /\ told = TRUE /\ gen = 0
-----------------------------------------------------------------------------
Change(s) ==
  /\ left.change > 0 /\ left' = [left EXCEPT !.change = @ - 1]
  /\ mariner' = [mariner EXCEPT ![s] = ~@]
  /\ overlapped' = (overlapped \/ Busy)
  /\ UNCHANGED <<engineMode, engineSet, serverSets, basemap, coastline, waiting, calls, cached, lastMariner, gen, failed, told>>

(* The in-place updaters of the JS path name layers only a JS-built style has; *)
(* the chrome of any style is the client's own, and setScheme recolours it.    *)
InPlace(m, chrome) == [live EXCEPT !.m = IF live.engine THEN live.m ELSE m, !.chrome = chrome]

(* setMariner and setScheme: in engine mode arm the debounce (the chrome is    *)
(* not recoloured there), else update in place.                                *)
Restyle(chrome) == /\ IF engineMode THEN timer' = TRUE /\ UNCHANGED live
                      ELSE live' = InPlace(mariner', chrome) /\ UNCHANGED timer
                   /\ UNCHANGED loaded
SetMariner(s) == Change(s) /\ Restyle(live.chrome)
SetScheme == Change(Scheme) /\ Restyle(mariner'[Scheme])
SetPxPitch == /\ Change(Pitch)
              /\ IF engineMode THEN timer' = TRUE /\ UNCHANGED <<live, loaded>>
                 ELSE /\ UNCHANGED timer /\ loaded' = FALSE
                      /\ live' = [BuildStyle(cached, FALSE, serverSets, basemap) EXCEPT !.m = mariner']

(* _engineRestyleNow up to its request. *)
EngineRestyle ==
  /\ timer /\ Cardinality(calls) < MaxCalls /\ timer' = FALSE
  /\ LET from == IF lastMariner = None THEN MarinerQuery ELSE lastMariner IN
     IF ~engineMode THEN UNCHANGED <<waiting, calls, lastMariner>>
     ELSE IF ~loaded THEN waiting' = waiting \cup {"restyle"} /\ UNCHANGED <<calls, lastMariner>>
     ELSE IF from = MarinerQuery THEN lastMariner' = MarinerQuery /\ UNCHANGED <<waiting, calls>>
     ELSE /\ Send(calls, [id |-> Fresh(calls), op |-> "diff", from |-> from, to |-> MarinerQuery])
          /\ UNCHANGED <<waiting, lastMariner>>
  /\ UNCHANGED <<mariner, engineMode, engineSet, serverSets, basemap, coastline, cached, live, loaded, env>>

(* The ops of a difference name the settings that differ, in layers of its set. *)
ApplyOps(m, c) == [s \in Setting |-> IF c.from.m[s] # c.to.m[s] THEN c.to.m[s] ELSE m[s]]
Patched(st, c) == IF st.set = c.from.set THEN [st EXCEPT !.m = ApplyOps(@, c)] ELSE st

(* Mutant: the ops reach the map but not the cached style. *)
DiffAnswerUncached(c) ==
  /\ c \in calls /\ c.op = "diff" /\ calls' = calls \ {c}
  /\ live' = (IF live.engine THEN Patched(live, c) ELSE live) /\ loaded' = FALSE
  /\ lastMariner' = c.to
  /\ UNCHANGED <<mariner, engineMode, engineSet, serverSets, basemap, coastline, timer, waiting, cached, env>>

(* _engineRestyleNow after its request: apply the ops in place to the map and   *)
(* to the cached style (which throws when there is none), or rebuild.           *)
DiffAnswer(c) ==
  /\ c \in calls /\ c.op = "diff"
  /\ live' = IF live.engine THEN Patched(live, c) ELSE live
  /\ loaded' = FALSE
  /\ IF cached = None
     THEN /\ Send(calls \ {c}, [id |-> Fresh(calls \ {c}), op |-> "rebuild", q |-> MarinerQuery])
          /\ UNCHANGED <<cached, lastMariner>>
     ELSE /\ cached' = Patched(cached, c) /\ lastMariner' = c.to /\ calls' = calls \ {c}
  /\ UNCHANGED <<mariner, engineMode, engineSet, serverSets, basemap, coastline, timer, waiting, env>>

DiffRefused(c) ==
  /\ c \in calls /\ c.op = "diff"
  /\ Send(calls \ {c}, [id |-> Fresh(calls \ {c}), op |-> "rebuild", q |-> MarinerQuery])
  /\ Fails \* an error, or the engine's answer that the layers themselves change
  /\ UNCHANGED <<mariner, engineMode, engineSet, serverSets, basemap, coastline, timer, waiting, style, gen, hist>>

(* _engineRebuild after its request. *)
RebuildAnswer(c) ==
  /\ c \in calls /\ c.op = "rebuild" /\ calls' = calls \ {c}
  /\ cached' = Styled(c.q)
  /\ IF loaded THEN /\ SetStyle(cached', engineMode, serverSets, basemap)
                    /\ lastMariner' = MarinerQuery /\ UNCHANGED waiting
     ELSE waiting' = waiting \cup {"install"} /\ UNCHANGED <<live, loaded, lastMariner>>
  /\ UNCHANGED <<mariner, engineMode, engineSet, serverSets, basemap, coastline, timer, env>>

RebuildFailed(c) ==
  /\ c \in calls /\ c.op = "rebuild" /\ calls' = calls \ {c}
  /\ Fails /\ failed' = TRUE
  /\ UNCHANGED <<mariner, engineMode, engineSet, serverSets, basemap, coastline, timer, waiting, style, gen, overlapped, told>>

(* The map settles and runs the callbacks that waited for it. *)
Idle ==
  /\ ~loaded
  /\ IF "install" \in waiting
     THEN SetStyle(cached, engineMode, serverSets, basemap) /\ lastMariner' = MarinerQuery
     ELSE loaded' = TRUE /\ UNCHANGED <<live, lastMariner>>
  /\ timer' = (timer \/ ("restyle" \in waiting /\ engineMode))
  /\ waiting' = {}
  /\ UNCHANGED <<mariner, engineMode, engineSet, serverSets, basemap, coastline, calls, cached, env>>
-----------------------------------------------------------------------------
(* setServerSets: leave engine mode and ask for the style of the new packs. *)
SetServerSets(names) ==
  /\ left.sets > 0 /\ left' = [left EXCEPT !.sets = @ - 1]
  /\ engineMode' = FALSE /\ cached' = None /\ engineSet' = names
  /\ Send(calls, IF names = {} THEN [id |-> Fresh(calls), op |-> "metas", names |-> names, prev |-> serverSets.names]
                 ELSE [id |-> Fresh(calls), op |-> "probe", q |-> [set |-> names, m |-> mariner]])
  /\ overlapped' = (overlapped \/ Busy \/ timer \/ waiting # {})
  /\ told' = TRUE
  /\ UNCHANGED <<mariner, serverSets, basemap, coastline, timer, waiting, lastMariner, live, loaded, gen, failed>>

(* _initEngineStyle: adopt the answer; then _fetchScaminValues. *)
ProbeAnswer(c) ==
  /\ c \in calls /\ c.op = "probe"
  /\ cached' = Styled(c.q) /\ engineMode' = TRUE /\ lastMariner' = MarinerQuery
  /\ Send(calls \ {c}, [id |-> Fresh(calls \ {c}), op |-> "scamin", names |-> c.q.set])
  /\ UNCHANGED <<mariner, engineSet, serverSets, basemap, coastline, timer, waiting, live, loaded, env>>

ProbeFailed(c) ==
  /\ c \in calls /\ c.op = "probe"
  /\ Send(calls \ {c}, [id |-> Fresh(calls \ {c}), op |-> "metas", names |-> c.q.set, prev |-> serverSets.names])
  /\ Fails /\ failed' = TRUE
  /\ UNCHANGED <<mariner, engineMode, engineSet, serverSets, basemap, coastline, timer, waiting, style, gen, overlapped, told>>

(* _fetchScaminValues answered (it ignores errors): ChartSources.setServerSets. *)
ScaminAnswer(c) ==
  /\ c \in calls /\ c.op = "scamin"
  /\ Send(calls \ {c}, [id |-> Fresh(calls \ {c}), op |-> "metas", names |-> c.names, prev |-> serverSets.names])
  /\ UNCHANGED <<mariner, engineMode, engineSet, serverSets, basemap, coastline, timer, waiting, style, env>>

(* refresh and flushTiles look each set up as the source chart-<set>; the      *)
(* engine's style of one set alone calls its source "chart", which they miss.  *)
Alone(st) == st.engine /\ Cardinality(st.set) = 1
Reloaded(names) ==
  [live EXCEPT !.gen = [p \in Pack |-> IF p \in names \cap live.set /\ ~Alone(live) THEN gen ELSE live.gen[p]]]

(* ChartSources.setServerSets after _loadSetMetas: rebuild the style when the   *)
(* names differ from those before the call, else only request the tiles again.  *)
MetasAnswer(c) ==
  /\ c \in calls /\ c.op = "metas" /\ calls' = calls \ {c}
  /\ serverSets' = [names |-> c.names, gen |-> gen]
  /\ IF c.names # c.prev THEN SetStyle(cached, engineMode, serverSets', basemap)
     ELSE live' = [Reloaded(c.names) EXCEPT !.kept = failed] /\ UNCHANGED loaded
  /\ UNCHANGED <<mariner, engineMode, engineSet, basemap, coastline, timer, waiting, cached, lastMariner, env>>

(* setBasemap: the offline coastline is fetched the first time. *)
SetBasemap(b) ==
  /\ left.change > 0 /\ left' = [left EXCEPT !.change = @ - 1]
  /\ b # basemap
  /\ IF b = "coastline" /\ ~coastline
     THEN Send(calls, [id |-> Fresh(calls), op |-> "coast"]) /\ UNCHANGED <<basemap, live, loaded>>
     ELSE /\ basemap' = b /\ SetStyle(cached, engineMode, serverSets, b) /\ UNCHANGED calls
  /\ overlapped' = (overlapped \/ Busy)
  /\ UNCHANGED <<mariner, engineMode, engineSet, serverSets, coastline, timer, waiting, cached, lastMariner, gen, failed, told>>

(* _ensureCoastline answered. *)
CoastAnswer(c) ==
  /\ c \in calls /\ c.op = "coast" /\ calls' = calls \ {c}
  /\ coastline' = TRUE /\ basemap' = "coastline"
  /\ SetStyle(cached, engineMode, serverSets, "coastline")
  /\ UNCHANGED <<mariner, engineMode, engineSet, serverSets, timer, waiting, cached, lastMariner, env>>

(* The server bakes the sets again: their tile URLs change. *)
Bake ==
  /\ left.bake > 0 /\ left' = [left EXCEPT !.bake = @ - 1]
  /\ gen' = gen + 1 /\ told' = FALSE
  /\ UNCHANGED <<mariner, engineMode, engineSet, serverSets, basemap, coastline, timer, waiting, calls, style, overlapped, failed>>

(* flushTiles, when a re-bake the shell followed is over. *)
FlushTiles ==
  /\ left.sets > 0 /\ left' = [left EXCEPT !.sets = @ - 1]
  /\ Send(calls, [id |-> Fresh(calls), op |-> "flush", names |-> serverSets.names])
  /\ overlapped' = (overlapped \/ Busy)
  /\ UNCHANGED <<mariner, engineMode, engineSet, serverSets, basemap, coastline, timer, waiting, style, gen, failed, told>>

(* Mutant: the client counts the re-bake itself. *)
FlushAnswerCounts(c) ==
  /\ c \in calls /\ c.op = "flush" /\ calls' = calls \ {c}
  /\ serverSets' = [names |-> c.names, gen |-> gen + 1] /\ live' = Reloaded(c.names)
  /\ UNCHANGED <<mariner, engineMode, engineSet, basemap, coastline, timer, waiting, cached, lastMariner, loaded, env>>

FlushAnswer(c) ==
  /\ c \in calls /\ c.op = "flush" /\ calls' = calls \ {c}
  /\ serverSets' = [names |-> c.names, gen |-> gen]
  /\ live' = Reloaded(c.names)
  /\ UNCHANGED <<mariner, engineMode, engineSet, basemap, coastline, timer, waiting, cached, lastMariner, loaded, env>>

Answer == \E c \in calls : \/ DiffAnswer(c) \/ DiffRefused(c) \/ RebuildAnswer(c) \/ RebuildFailed(c)
                           \/ ProbeAnswer(c) \/ ProbeFailed(c) \/ ScaminAnswer(c) \/ MetasAnswer(c)
                           \/ CoastAnswer(c) \/ FlushAnswer(c)
User == /\ Cardinality(calls) < MaxCalls
        /\ \/ \E s \in Setting \ {Scheme, Pitch} : SetMariner(s)
           \/ SetScheme \/ SetPxPitch
           \/ \E names \in PackList : SetServerSets(names)
           \/ \E b \in Basemap : SetBasemap(b)
           \/ FlushTiles
Done == calls = {} /\ ~timer /\ loaded /\ UNCHANGED vars
Next == EngineRestyle \/ Idle \/ Answer \/ User \/ Bake \/ Done
Spec == Init /\ [][Next]_vars
(* Requests end, timers fire, the map settles: while one is due, one happens. *)
Fairness == WF_vars(EngineRestyle \/ Idle \/ Answer)
LiveSpec == Spec /\ Fairness
-----------------------------------------------------------------------------
Quiescent == calls = {} /\ waiting = {} /\ ~timer /\ loaded

(* Once nothing is in flight the map shows the settings the user chose, from    *)
(* the packs the shell gave, and the cached style a basemap switch would        *)
(* install is the one shown; for changes made one at a time whose requests the  *)
(* server answered, however restyles were deferred or fell back to a rebuild;   *)
(* once the shell has been told of a bake, the next style built asks for its    *)
(* tiles, and the map does already, but for an engine style of one set, whose   *)
(* source the re-pointing misses; without packs the chrome is in the scheme     *)
(* chosen (an engine style's waits for the next rebuild)                        *)
(* (_engineRestyleNow, _applyOpsToCached, _engineRebuild, setServerSets).       *)
SerialChangesShow ==
  Quiescent /\ ~overlapped /\ ~failed =>
    /\ live.engine = engineMode /\ live.set = serverSets.names
    /\ live.m = mariner /\ live.base = basemap
    /\ engineMode => cached.set = live.set /\ cached.m = live.m /\ lastMariner = MarinerQuery
    /\ ~engineMode => live.chrome = mariner[Scheme]
    /\ told => (engineMode => cached.gen = gen) /\ (~Alone(live) => \A p \in live.set : live.gen[p] = gen)

(* Even when a full style fetch failed, the difference the next change asks for *)
(* starts from what the map shows (_lastMariner tells the truth), unless the    *)
(* same packs were set again after the failure: then _initEngineStyle records   *)
(* the new settings, and the map keeps its older style (live.kept).             *)
DiffBaseIsShown ==
  Quiescent /\ ~overlapped /\ live.engine /\ ~live.kept /\ engineMode =>
    lastMariner = [set |-> live.set, m |-> live.m]

=============================================================================
