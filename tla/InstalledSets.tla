--------------------------- MODULE InstalledSets ---------------------------
(* What <chart-plotter> believes to be installed, and says of it: every       *)
(* _renderInstalledSets reads the server's registry in four awaited steps and *)
(* writes the sets the map draws, the coverage and the pointers to off-screen *)
(* charts; flushTiles re-reads the tile generations after a bake; and every   *)
(* job, the library's own, one re-attached to after a reload or a rebuild of  *)
(* everything, reports in the one progress row.                               *)
EXTENDS Naturals, Sequences, FiniteSets, TLC

CONSTANTS Packs,      \* provider packs, one baked archive each
          None, MaxEvents \* bound: changes at the server, jobs and gestures

VARIABLES reg, gen,   \* server: each pack "none", "on" or "off"; its bake
          job,        \* server: the pack being baked, None
          asked,      \* "charts-changed" events not yet dispatched
          runs,       \* the refreshes under way, with what they have read
          installed, disabled, cells, catalog, coverage, chips, has, \* the shell
          sets,       \* ChartSources._serverSets: pack -> bake generation
          style,      \* the sources in the map's style: pack -> bake generation
          engine,     \* that style is the engine's, which names one source "chart"
          view,       \* the packs in view
          boot,       \* onReady: "render", "ask" (for a running job), "up"
          task,       \* _task: a job the shell itself watches, None
          left,       \* "rebuild": the providers still to be re-baked
          card, drawer, \* the welcome card; the drawer is open
          nc, opened, ended, \* NotificationCenter: its Map; handles given, ended
          pill,       \* the progress row
          told, crossed, ever, failed, \* ghosts: see RefreshIsTrue
          events

server == <<reg, gen, job>>
shell == <<installed, disabled, cells, catalog, coverage, chips, has, sets, style, engine>>
tasks == <<nc, opened, ended>>
ghosts == <<told, crossed, ever, failed>>
vars == <<server, asked, runs, shell, view, boot, task, left, card, drawer, tasks, pill, ghosts, events>>

On(r) == {p \in Packs : r[p] = "on"}
Here(r) == {p \in Packs : r[p] # "none"}
NoPill == [by |-> "none", h |-> 0, error |-> FALSE]
Row(by, h, error) == [by |-> by, h |-> h, error |-> error]
NoSets == [p \in {} |-> 0]
Run(then) == [at |-> "packs", then |-> then, reg |-> reg, names |-> {}, prev |-> {},
                engine |-> FALSE, url |-> NoSets]
Event == events < MaxEvents /\ events' = events + 1

Init ==
  /\ reg \in {[p \in Packs |-> "none"], [p \in Packs |-> "on"]}
  /\ gen = [p \in Packs |-> 1] /\ job \in Packs \cup {None}
  /\ asked = 0 /\ runs = {} /\ view = {}
  /\ installed = {} /\ disabled = {} /\ cells = {} /\ catalog = {} /\ coverage = {} /\ chips = {}
  /\ has = FALSE /\ sets = NoSets /\ style = NoSets /\ engine = FALSE
  /\ boot = "render" /\ task = None /\ left = {} /\ card = FALSE /\ drawer = FALSE
  /\ nc = <<>> /\ opened = <<>> /\ ended = {} /\ pill = NoPill
  /\ told = FALSE /\ crossed = FALSE /\ ever = FALSE /\ failed = FALSE /\ events = 0
-----------------------------------------------------------------------------
(* A refresh begins; it is told of all that happened before it.               *)
Begin(then) ==
  /\ runs' = runs \cup {Run(then)} /\ told' = TRUE
  /\ crossed' = (runs # {}) /\ ever' = (ever \/ crossed') /\ failed' = (failed /\ runs # {})
(* updateEmptyState: nothing installed, nothing open and no job of the shell's. *)
Empty(h, inst, dr, t) == ~h /\ inst = {} /\ ~dr /\ t = None
UpdateEmptyState(h, inst, dr, t) == card' = Empty(h, inst, dr, t)

(* The registry; a failed read is an empty registry.                          *)
ReadPacks(c, ok) ==
  /\ c.at = "packs" /\ IF ok THEN events' = events ELSE Event
  /\ runs' = (runs \ {c}) \cup
       {[c EXCEPT !.at = "cells", !.reg = IF ok THEN reg ELSE [p \in Packs |-> "none"]]}
  /\ failed' = (failed \/ ~ok)
  /\ UNCHANGED <<server, asked, shell, view, boot, task, left, card, drawer, tasks, pill, told, crossed, ever>>
(* The installed cells; a call that fails keeps those the shell has.          *)
ReadCells(c, ok) ==
  /\ c.at = "cells" /\ IF ok THEN events' = events ELSE Event
  /\ runs' = (runs \ {c}) \cup {[c EXCEPT !.at = "active"]}
  /\ cells' = IF ok THEN Here(reg) ELSE cells
  /\ failed' = (failed \/ ~ok)
  /\ UNCHANGED <<server, asked, installed, disabled, catalog, coverage, chips, has, sets, style, engine, view,
                 boot, task, left, card, drawer, tasks, pill, told, crossed, ever>>
(* What the registry said replaces what the shell knew, before the map follows. *)
Adopt(r) == installed' = Here(r) /\ disabled' = Here(r) \ On(r) /\ coverage' = On(r)
(* The cells that can be searched for: those of the packs that are on, or none. *)
ReadActive(c, ok) ==
  /\ c.at = "active" /\ IF ok THEN events' = events ELSE Event
  /\ catalog' = (IF ok THEN On(reg) ELSE {}) /\ failed' = (failed \/ ~ok) /\ Adopt(c.reg)
  /\ runs' = (runs \ {c}) \cup {[c EXCEPT !.at = "style", !.names = On(c.reg)]}
  /\ UNCHANGED <<server, asked, cells, chips, has, sets, style, engine, view, boot, task, left, card,
                 drawer, tasks, pill, told, crossed, ever>>
(* _loadSetMetas: the generation each tile URL carries, as of now.            *)
Metas(names) == [p \in names |-> gen[p]]
(* <chart-canvas> asks for the engine's style first, which has its own URLs;   *)
(* only then are the names compared with those the sources have.               *)
EngineStyle(c, ok) ==
  /\ c.at = "style" /\ IF ok \/ c.names = {} THEN events' = events ELSE Event
  /\ runs' = (runs \ {c}) \cup {[c EXCEPT !.at = "sets", !.prev = DOMAIN sets,
                                          !.engine = ok /\ c.names # {}, !.url = Metas(c.names)]}
  /\ UNCHANGED <<server, asked, shell, view, boot, task, left, card, drawer, tasks, pill, ghosts>>

(* The re-pointing looks a set up as chart-<set>: the engine's style of one    *)
(* set alone calls its source "chart", and keeps the URL it was built with.    *)
Alone == engine /\ Cardinality(DOMAIN style) = 1
Repointed(names) ==
  [p \in DOMAIN style |-> IF p \in names /\ ~Alone THEN gen[p] ELSE style[p]]
(* setServerSets: other names rebuild the style, the same re-point its sources. *)
SetServerSets(c) ==
  /\ sets' = Metas(c.names)
  /\ IF c.prev = c.names THEN style' = Repointed(c.names) /\ engine' = engine
     ELSE style' = (IF c.engine THEN c.url ELSE Metas(c.names)) /\ engine' = c.engine
Pointers(packs) == packs \ view  \* ChartFinder.update: the ones off screen
Drawn(c) ==
  /\ c.at = "sets" /\ SetServerSets(c)
  /\ has' = (c.names # {}) /\ chips' = Pointers(coverage)
  /\ UpdateEmptyState(c.names # {}, installed, drawer, task)
  /\ runs' = (runs \ {c}) \cup
       (IF c.then = "flush" THEN {[c EXCEPT !.at = "flush", !.names = DOMAIN sets']} ELSE {})
  /\ boot' = IF c.then = "boot" THEN "ask" ELSE boot
  /\ UNCHANGED <<server, asked, installed, disabled, cells, catalog, coverage, view, task, left, drawer,
                 tasks, pill, ghosts, events>>
(* flushTiles after a bake: the metas of the sets it began with, then sources. *)
Flush(c) ==
  /\ c.at = "flush" /\ sets' = Metas(c.names) /\ style' = Repointed(c.names) /\ engine' = engine
  /\ runs' = runs \ {c}
  /\ UNCHANGED <<server, asked, installed, disabled, cells, catalog, coverage, chips, has, view, boot,
                 task, left, card, drawer, tasks, pill, ghosts, events>>
RunStep ==
  \E c \in runs :
    \/ Drawn(c) \/ Flush(c)
    \/ \E ok \in BOOLEAN : ReadPacks(c, ok) \/ ReadCells(c, ok) \/ ReadActive(c, ok) \/ EngineStyle(c, ok)

(* onReady renders first; the packs it finds need no event.                   *)
BootRender ==
  /\ boot = "render" /\ Cardinality(runs) < 2 /\ boot' = "rendering" /\ Begin("boot")
  /\ UNCHANGED <<server, asked, shell, view, task, left, card, drawer, tasks, pill, events>>
ChartsChanged ==
  /\ asked > 0 /\ asked' = asked - 1 /\ Cardinality(runs) < 2 /\ Begin("none")
  /\ UNCHANGED <<server, shell, view, boot, task, left, card, drawer, tasks, pill, events>>
-----------------------------------------------------------------------------
(* _reattachTask: a job found running is watched, and no other is.            *)
Reattach ==
  /\ boot = "ask" /\ boot' = "up"
  /\ IF job = None THEN UNCHANGED <<task, pill>>
     ELSE task' = "reattach" /\ pill' = Row("reattach", 0, FALSE)
  /\ UNCHANGED <<server, asked, runs, shell, view, left, card, drawer, tasks, ghosts, events>>
TaskProgress ==
  /\ task # None /\ pill' = Row(task, 0, FALSE)
  /\ UNCHANGED <<server, asked, runs, shell, view, boot, task, left, card, drawer, tasks, ghosts, events>>
(* The job ended, or its stream broke: the row goes, and all is read again.   *)
ReattachEnds ==
  /\ task = "reattach" /\ job = None /\ task' = None /\ pill' = NoPill
  /\ Cardinality(runs) < 2 /\ Begin("flush")
  /\ UNCHANGED <<server, asked, shell, view, boot, left, card, drawer, tasks, events>>
Rebuild == \* _rebuildAllPerBand, while neither shell nor library is busy
  /\ Event /\ boot = "up" /\ task = None /\ nc = <<>> /\ job = None /\ Here(reg) # {}
  /\ task' = "rebuild" /\ left' = Here(reg) /\ pill' = Row("rebuild", 0, FALSE)
  /\ UNCHANGED <<server, asked, runs, shell, view, boot, card, drawer, tasks, ghosts>>
RebuildNext == \* each provider's bake is asked for, and waited for
  /\ task = "rebuild" /\ job = None /\ \E p \in left :
       left' = left \ {p} /\ job' = IF reg[p] = "none" THEN None ELSE p
  /\ pill' = Row("rebuild", 0, FALSE)
  /\ UNCHANGED <<reg, gen, asked, runs, shell, view, boot, task, card, drawer, tasks, ghosts, events>>
RebuildEnds ==
  /\ task = "rebuild" /\ left = {} /\ job = None /\ task' = None /\ pill' = NoPill
  /\ Cardinality(runs) < 2 /\ Begin("flush")
  /\ UNCHANGED <<server, asked, shell, view, boot, left, card, drawer, tasks, events>>
-----------------------------------------------------------------------------
(* The server bakes: a new generation, and a new pack is on.                  *)
Baked ==
  /\ job # None /\ gen[job] < 3 /\ gen' = [gen EXCEPT ![job] = @ + 1]
  /\ reg' = [reg EXCEPT ![job] = IF @ = "none" THEN "on" ELSE @]
  /\ job' = None /\ told' = FALSE
  /\ UNCHANGED <<asked, runs, shell, view, boot, task, left, card, drawer, tasks, pill, crossed, ever, failed, events>>
(* The library shows, hides or removes a pack, and says so once it is done.   *)
LibraryChange(p, now) ==
  /\ Event /\ reg[p] \notin {"none", now} /\ job # p
  /\ reg' = [reg EXCEPT ![p] = now] /\ asked' = asked + 1 /\ told' = FALSE
  /\ UNCHANGED <<gen, job, runs, shell, view, boot, task, left, card, drawer, tasks, pill, crossed, ever, failed>>
Library == \E p \in Packs, now \in {"none", "on", "off"} : LibraryChange(p, now)
OpenDrawer == \* openCharts hides the card by hand, setDrawerOpen by the rule
  /\ Event /\ drawer' = ~drawer /\ UpdateEmptyState(has, installed, ~drawer, task)
  /\ UNCHANGED <<server, asked, runs, shell, view, boot, task, left, tasks, pill, ghosts>>
Pan == \* "move": the pointers are placed again
  /\ Event /\ view' \in SUBSET Packs \ {view} /\ chips' = coverage \ view'
  /\ UNCHANGED <<server, asked, runs, installed, disabled, cells, catalog, coverage, has, sets, style,
                 engine, boot, task, left, card, drawer, tasks, pill, ghosts>>
-----------------------------------------------------------------------------
(* NotificationCenter.  task: a new handle for id, in the place of the old.   *)
IdsOf(s) == {s[i].id : i \in DOMAIN s}
Without(s, id) == SelectSeq(s, LAMBDA t : t.id # id)
OpenTask(id) ==
  /\ Event /\ opened' = Append(opened, id) /\ ended' = ended
  /\ nc' = LET t == [id |-> id, h |-> Len(opened')] IN
           IF id \in IdsOf(nc) THEN [i \in DOMAIN nc |-> IF nc[i].id = id THEN t ELSE nc[i]]
           ELSE Append(nc, t)
  /\ pill' = Row(id, Len(opened'), FALSE)
  /\ UNCHANGED <<server, asked, runs, shell, view, boot, task, left, card, drawer, ghosts>>
UpdateAny(h) ==  \* (mutant) a report of a task that has ended is drawn
  /\ pill' = Row(opened[h], h, FALSE)
  /\ UNCHANGED <<server, asked, runs, shell, view, boot, task, left, card, drawer, tasks, ghosts, events>>
(* A handle's report counts while its id has a task, a later one's included.  *)
Update(h) ==
  /\ opened[h] \in IdsOf(nc) /\ pill' = Row(opened[h], h, FALSE)
  /\ UNCHANGED <<server, asked, runs, shell, view, boot, task, left, card, drawer, tasks, ghosts, events>>
(* done or fail: the last of the others shows, or the error, or nothing.      *)
EndTask(h, bad) ==
  /\ h \notin ended /\ ended' = ended \cup {h} /\ opened' = opened
  /\ nc' = Without(nc, opened[h])
  /\ pill' = IF nc' # <<>> THEN Row(nc'[Len(nc')].id, nc'[Len(nc')].h, FALSE)
             ELSE IF bad THEN Row(opened[h], h, TRUE) ELSE NoPill
  /\ UNCHANGED <<server, asked, runs, shell, view, boot, task, left, card, drawer, ghosts, events>>
Notify ==
  \/ \E id \in {"batch", "import"} : OpenTask(id)
  \/ \E h \in DOMAIN opened : Update(h) \/ \E bad \in BOOLEAN : EndTask(h, bad)

Next ==
  \/ BootRender \/ ChartsChanged \/ RunStep
  \/ Reattach \/ TaskProgress \/ ReattachEnds \/ Rebuild \/ RebuildNext \/ RebuildEnds
  \/ Baked \/ Library \/ OpenDrawer \/ Pan \/ Notify
Spec == Init /\ [][Next]_vars
-----------------------------------------------------------------------------
(* Every variable has its type.                                               *)
TypeOK ==
  /\ reg \in [Packs -> {"none", "on", "off"}] /\ gen \in [Packs -> 1 .. 3]
  /\ job \in Packs \cup {None} /\ asked \in Nat /\ Cardinality(runs) <= 2
  /\ {installed, disabled, cells, catalog, coverage, chips, view, left} \subseteq SUBSET Packs
  /\ DOMAIN sets \subseteq Packs /\ DOMAIN style \subseteq Packs
  /\ {has, engine, card, drawer, told, crossed, ever, failed} \subseteq BOOLEAN
  /\ boot \in {"render", "rendering", "ask", "up"} /\ task \in {None, "reattach", "rebuild"}

(* After the last change the shell was told of, by a refresh that shared its  *)
(* time with no other and read everything it asked for, the lists, the map's  *)
(* sources and the generations of their tiles, the coverage and the pointers  *)
(* are those of the server.  The URL of an engine style's only set is left    *)
(* out: no refresh and no flush re-points it, so it keeps the generation the  *)
(* style was built with.                                                      *)
RefreshIsTrue ==
  runs = {} /\ told /\ ~crossed /\ ~failed =>
    /\ installed = Here(reg) /\ cells = Here(reg) /\ disabled = Here(reg) \ On(reg)
    /\ sets = Metas(On(reg)) /\ (ever \/ (DOMAIN style = DOMAIN sets /\ (Alone \/ style = sets))) /\ has = (sets # NoSets)
    /\ catalog = On(reg) /\ coverage = On(reg) /\ chips = On(reg) \ view

(* The progress row names a job only while the NotificationCenter has a task  *)
(* of its id: an end clears the row or hands it to another, and nothing       *)
(* reported late brings it back.                                              *)
PillIsWork ==
  pill.by \in {"batch", "import"} /\ ~pill.error => pill.by \in IdsOf(nc)
(* With no refresh under way and no job of the shell's own, the welcome card  *)
(* is up exactly when nothing is installed and no drawer is open.             *)
CardIsWelcome ==
  runs = {} /\ boot = "up" /\ task = None => card = Empty(has, installed, drawer, task)
=============================================================================
