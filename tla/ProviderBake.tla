---------------------------- MODULE ProviderBake ----------------------------
(***************************************************************************)
(* The life of one chart provider in internal/engine/server: districts are *)
(* downloaded into its ENC_ROOT, jobs that hold bakeMu bake the ENC_ROOT   *)
(* into per-cell archives, and a compositor opened over the archives is    *)
(* registered as the provider's tile set.  Bakes by the running engine go  *)
(* into the served tree <set>/tiles in place; an engine change bakes into  *)
(* <set>/tiles.next and swaps the trees last.  The process may die at any  *)
(* step and come back, under the same or another engine build.             *)
(*                                                                         *)
(* A district stands for its cells (the unit of download and of deletion), *)
(* its cells are baked together, and an archive is the pair of the engine  *)
(* that baked it and the edition of the source it was baked from.          *)
(***************************************************************************)
EXTENDS Naturals, FiniteSets, TLC

CONSTANTS Districts,      \* the districts a client may install
          Engines,        \* the engine commits that may be linked into a build
          None,           \* no stamp, no archive, no live.gen, no registration
          MaxEdition,     \* bound: source editions of a district
          MaxJobs,        \* bound: bake jobs waiting for bakeMu
          MaxCrashes,     \* bound: restarts
          MaxFailures,    \* bound: bakes the engine gives up
          NoRebakeValues  \* values CHARTPLOTTER_NO_REBAKE may have at a start

ASSUME ConstantsAssumption ==
  /\ None \notin Engines
  /\ None \notin Engines \X (1 .. MaxEdition)
  /\ MaxEdition \in Nat /\ MaxJobs \in Nat
  /\ MaxCrashes \in Nat /\ MaxFailures \in Nat
  /\ NoRebakeValues \subseteq BOOLEAN

Archive == Engines \X (1 .. MaxEdition)
Content == [Districts -> Archive \cup {None}]

(* A tree of archives on disk: is the directory there, its .enginever, its *)
(* archives, and which of them have a later mtime than their source.       *)
Tree == [there : BOOLEAN, stamp : Engines \cup {None},
         arch : Content, fresh : SUBSET Districts]

(* live.gen holds a hash of the serving engine and of the archives.        *)
Token == [eng : Engines \cup {None}, arch : Content]

(* The locals of the job that holds bakeMu: does it heal (no client asked), *)
(* is it staged, the districts not baked yet, the one being baked and the  *)
(* edition read, and the content of the compositor it opened.              *)
Job == [heal : BOOLEAN, staged : BOOLEAN, todo : SUBSET Districts,
        cell : Districts \cup {None}, ed : 0 .. MaxEdition, src : Content]

NoContent == [d \in Districts |-> None]
NoTree == [there |-> FALSE, stamp |-> None, arch |-> NoContent, fresh |-> {}]
Archives(tree) == {d \in Districts : tree.arch[d] # None}

VARIABLES
  engine,    \* EngineCommit of the running (or last) process
  noRebake,  \* its CHARTPLOTTER_NO_REBAKE
  phase,     \* "down", "recovering" (inside registerLiveProviders) or "up"
  src,       \* edition of each district in ENC_ROOT, 0 when it is not installed
  tiles,     \* <set>/tiles
  next,      \* <set>/tiles.next
  gen,       \* live.gen, the content token
  off,       \* prefs.Disabled[provider]
  reg,       \* the content of the registered compositor
  waiting,   \* bake jobs blocked on bakeMu
  healing,   \* rebakeMissingProviders wants to bake and is blocked on bakeMu
  deleting,  \* districts whose delete job is blocked on bakeMu
  pc,        \* where the job holding bakeMu is; "idle" when nobody holds it
  job,       \* its locals
  crashes, failures,   \* counted against their bounds
  done,      \* history: installed districts a job has put on the map
  rewritten, \* history: districts rewritten while the engine was baking them
  hist       \* history: which of Events have happened

build == <<engine, noRebake>>
disk == <<src, tiles, next, gen, off>>
queue == <<waiting, healing, deleting>>
holder == <<pc, job>>
bounds == <<crashes, failures>>
history == <<done, rewritten, hist>>
vars == <<build, phase, disk, reg, queue, holder, bounds, history>>

(* "torn": a process died removing the old tree, not made good yet;        *)
(* "discarded": and a bake of a third engine has thrown away the staged    *)
(* tree of that swap, not made good yet; "raced": the provider was deleted *)
(* under the job that holds bakeMu; "muted": a bake ran under              *)
(* CHARTPLOTTER_NO_REBAKE.                                                 *)
Events == {"torn", "discarded", "raced", "muted"}
MadeGood == {"torn", "discarded"}
When(event, happens) == IF happens THEN {event} ELSE {}

NoJob == [heal |-> FALSE, staged |-> FALSE, todo |-> {}, cell |-> None, ed |-> 0, src |-> NoContent]

Installed == {d \in Districts : src[d] # 0}

(* live_provider.go liveEngineCurrent: the stamp is the running engine's.  *)
LiveEngineCurrent(tree, e, nr) == nr \/ tree.stamp = e

(* The staging tree of an earlier, interrupted bake by this engine is used *)
(* again.  The mutant stamps and uses whatever is there.                   *)
AnyStaging(tree, e, nr) == TRUE
ResumesStaging(tree, e, nr) == LiveEngineCurrent(tree, e, nr)

(* The engine's rule: an archive later than its source need not be baked   *)
(* again.  The mutant looks only for the archive.                          *)
HasArchive(tree, d) == tree.arch[d] # None
UpToDate(tree, d) == tree.arch[d] # None /\ d \in tree.fresh

(* live_provider.go liveGenToken: it names the archives and the engine.    *)
LiveGenToken(tree, e) == [eng |-> e, arch |-> tree.arch]
NoGen == [eng |-> None, arch |-> NoContent]

Init ==
  /\ engine \in Engines /\ noRebake \in NoRebakeValues /\ phase = "up"
  /\ src = [d \in Districts |-> 0]
  /\ tiles = NoTree /\ next = NoTree /\ gen = NoGen /\ off = FALSE
  /\ reg = NoContent
  /\ waiting = 0 /\ healing = FALSE /\ deleting = {}
  /\ pc = "idle" /\ job = NoJob
  /\ crashes = 0 /\ failures = 0
  /\ done = {} /\ rewritten = {} /\ hist = {}

-----------------------------------------------------------------------------
(* Requests.                                                               *)

(* provider.go cacheDistrict and the job the import handlers queue after   *)
(* it.  Downloads run without bakeMu.  The files are rewritten, so no      *)
(* archive of the district is newer than its source any more.              *)
Download(d) ==
  /\ phase = "up" /\ src[d] < MaxEdition /\ waiting < MaxJobs
  /\ src' = [src EXCEPT ![d] = @ + 1]
  /\ tiles' = [tiles EXCEPT !.fresh = @ \ {d}]
  /\ next' = [next EXCEPT !.fresh = @ \ {d}]
  /\ waiting' = waiting + 1
  /\ rewritten' = IF job.cell = d THEN rewritten \cup {d} ELSE rewritten \ {d}
  /\ UNCHANGED <<build, phase, gen, off, reg, healing, deleting, holder,
                 bounds, done, hist>>

(* import.go handleImport with no cells: bake again what is installed.     *)
RequestRebake ==
  /\ phase = "up" /\ Installed # {} /\ waiting < MaxJobs
  /\ waiting' = waiting + 1
  /\ UNCHANGED <<build, phase, disk, reg, healing, deleting, holder, bounds, history>>

(* tilesets.go handleDeleteDistrict up to the goroutine's bakeMu.Lock.     *)
RequestDelete(d) ==
  /\ phase = "up" /\ src[d] # 0
  /\ deleting' = deleting \cup {d}
  /\ UNCHANGED <<build, phase, disk, reg, waiting, healing, holder, bounds, history>>

(* tile57_bake.go dropProviderSet: unregister the provider and forget that *)
(* it is off, remove its set directory, then its ENC_ROOT.                 *)
RemoveTrees == tiles' = NoTree /\ next' = NoTree /\ gen' = NoGen
DropProviderSet ==
  /\ reg' = NoContent /\ off' = FALSE /\ done' = {}
  /\ RemoveTrees
  /\ src' = [d \in Districts |-> 0]

(* The process dies inside dropProviderSet: the ENC_ROOT is still there.   *)
DropCut ==
  /\ off' = FALSE /\ done' = {}
  /\ RemoveTrees \/ UNCHANGED <<tiles, next, gen>>
  /\ UNCHANGED src

(* tilesets.go handleDeleteSet: the drop, without bakeMu.                  *)
DeleteSet ==
  /\ phase = "up"
  /\ DropProviderSet
  /\ hist' = hist \cup When("raced", pc # "idle")
  /\ UNCHANGED <<build, phase, queue, holder, bounds, rewritten>>

(* tilesets.go handleSetEnabled.  Enabling opens a compositor over what    *)
(* <set>/tiles holds at that moment when no compositor is registered.      *)
SetEnabled(on) ==
  /\ phase = "up"
  /\ off' = ~on
  /\ reg' = IF ~on THEN NoContent
            ELSE IF reg = NoContent THEN tiles.arch ELSE reg
  /\ UNCHANGED <<build, phase, src, tiles, next, gen, queue, holder, bounds, history>>

-----------------------------------------------------------------------------
(* The job that holds bakeMu.                                              *)

(* Mutant: the job starts whether it was asked for or not.                 *)
StartUnasked ==
  /\ phase = "up" /\ pc = "idle"
  /\ waiting' = waiting - 1
  /\ pc' = IF Installed = {} THEN "drop" ELSE "prepare"
  /\ UNCHANGED <<build, phase, disk, reg, healing, deleting, job, bounds, history>>

StartBake ==
  /\ phase = "up" /\ pc = "idle" /\ waiting > 0
  /\ waiting' = waiting - 1
  /\ pc' = IF Installed = {} THEN "drop" ELSE "prepare"
  /\ UNCHANGED <<build, phase, disk, reg, healing, deleting, job, bounds, history>>

(* The goroutine of rebakeMissingProviders gets bakeMu.                     *)
StartHeal ==
  /\ phase = "up" /\ pc = "idle" /\ healing
  /\ healing' = FALSE
  /\ job' = [NoJob EXCEPT !.heal = TRUE]
  /\ pc' = IF Installed = {} THEN "drop" ELSE "prepare"
  /\ UNCHANGED <<build, phase, disk, reg, waiting, deleting, bounds, history>>

(* The goroutine of handleDeleteDistrict: remove the folder, then bake.    *)
StartDelete(d) ==
  /\ phase = "up" /\ pc = "idle" /\ d \in deleting
  /\ deleting' = deleting \ {d}
  /\ src' = [src EXCEPT ![d] = 0]
  /\ done' = done \ {d}
  /\ pc' = IF Installed \subseteq {d} THEN "drop" ELSE "prepare"
  /\ UNCHANGED <<build, phase, tiles, next, gen, off, reg, waiting, healing,
                 job, bounds, rewritten, hist>>

(* The job lets go of bakeMu; a delete that raced it has nothing to race.  *)
Finish == pc' = "idle" /\ job' = NoJob
Unraced == hist' = hist \ {"raced"}

(* bakeProvider found no district; what it drops is what is there by now.  *)
DropEmpty ==
  /\ pc = "drop"
  /\ DropProviderSet /\ Finish /\ Unraced
  /\ UNCHANGED <<build, phase, queue, bounds, rewritten>>

(* prepareLiveProvider up to PrepareLive: choose the tree to bake into,    *)
(* empty a staging tree of another engine, stamp the tree up front.        *)
Prepare ==
  /\ pc = "prepare"
  /\ LET staged == ~LiveEngineCurrent(tiles, engine, noRebake)
         kept == IF ResumesStaging(next, engine, noRebake) THEN next ELSE NoTree
     IN /\ job' = [job EXCEPT !.staged = staged, !.todo = Installed]
        /\ IF staged
           THEN /\ next' = [kept EXCEPT !.there = TRUE, !.stamp = engine]
                /\ UNCHANGED tiles
           ELSE /\ tiles' = [tiles EXCEPT !.there = TRUE, !.stamp = engine]
                /\ UNCHANGED next
  /\ pc' = "bake"
  /\ hist' = hist \cup When("muted", noRebake)
                  \cup When("discarded", /\ "torn" \in hist
                                          /\ ~LiveEngineCurrent(tiles, engine, noRebake)
                                          /\ ~ResumesStaging(next, engine, noRebake))
  /\ UNCHANGED <<build, phase, src, gen, off, reg, queue, bounds, done, rewritten>>

BakeTree == IF job.staged THEN next ELSE tiles

(* The engine reads a district whose archive is missing or older than its  *)
(* source, and skips one whose archive is newer (or whose files are gone). *)
BakeRead(d) ==
  /\ pc = "bake" /\ job.cell = None /\ d \in job.todo
  /\ IF src[d] # 0 /\ ~UpToDate(BakeTree, d)
     THEN job' = [job EXCEPT !.cell = d, !.ed = src[d]]
     ELSE job' = [job EXCEPT !.todo = @ \ {d}]
  /\ UNCHANGED <<build, phase, disk, reg, queue, pc, bounds, history>>

(* It writes the archive: it is now the newer of the two files.            *)
BakeWrite ==
  /\ pc = "bake" /\ job.cell # None
  /\ LET put(tree) == [tree EXCEPT !.there = TRUE,
                                   !.arch[job.cell] = <<engine, job.ed>>,
                                   !.fresh = @ \cup {job.cell}]
     IN IF job.staged THEN next' = put(next) /\ UNCHANGED tiles
                      ELSE tiles' = put(tiles) /\ UNCHANGED next
  /\ job' = [job EXCEPT !.todo = @ \ {job.cell}, !.cell = None, !.ed = 0]
  /\ UNCHANGED <<build, phase, src, gen, off, reg, queue, pc, bounds, history>>

(* PrepareLive returns an error: bakeProvider records it and gives up.     *)
BakeFail ==
  /\ pc = "bake" /\ failures < MaxFailures
  /\ failures' = failures + 1
  /\ Finish /\ Unraced
  /\ UNCHANGED <<build, phase, disk, reg, queue, crashes, done, rewritten>>

(* PrepareLive returns when every district is baked.                          *)
EveryCellBaked == job.cell = None /\ job.todo = {}

(* PrepareLive is through.  Whether the engine drops the archives of cells *)
(* whose source is gone is not known here, so it may.  A staged bake that  *)
(* produced nothing is thrown away.                                        *)
BakeDone ==
  /\ pc = "bake" /\ EveryCellBaked
  /\ \E gone \in {{}, Archives(BakeTree) \ Installed} :
       LET kept == [BakeTree EXCEPT
             !.arch = [d \in Districts |-> IF d \in gone THEN None ELSE @[d]]]
       IN IF ~job.staged
          THEN tiles' = kept /\ pc' = "open" /\ UNCHANGED <<next, job, hist>>
          ELSE IF Archives(kept) = {}
          THEN next' = NoTree /\ Finish /\ Unraced /\ UNCHANGED tiles
          ELSE /\ next' = kept /\ hist' = hist \ {"discarded"}
               /\ pc' = "remove" /\ UNCHANGED <<tiles, job>>
  /\ UNCHANGED <<build, phase, src, gen, off, reg, queue, bounds, done, rewritten>>

(* os.RemoveAll(tiles), file by file and in any order: the stamp or an     *)
(* archive goes; when nothing is left the directory itself goes.           *)
RemoveOne ==
  /\ pc = "remove"
  /\ \/ /\ tiles.stamp # None
        /\ tiles' = [tiles EXCEPT !.stamp = None]
        /\ UNCHANGED pc
     \/ \E d \in Archives(tiles) :
          /\ tiles' = [tiles EXCEPT !.arch[d] = None, !.fresh = @ \ {d}]
          /\ UNCHANGED pc
     \/ /\ tiles.stamp = None /\ Archives(tiles) = {}
        /\ tiles' = NoTree
        /\ pc' = "rename"
  /\ UNCHANGED <<build, phase, src, next, gen, off, reg, queue, job, bounds, history>>

(* os.Rename(tiles.next, tiles).  It fails when the staged tree is gone.   *)
SwapRename ==
  /\ pc = "rename"
  /\ IF next.there
     THEN /\ tiles' = next /\ next' = NoTree
          /\ hist' = hist \ MadeGood
          /\ pc' = "open" /\ UNCHANGED job
     ELSE Finish /\ Unraced /\ UNCHANGED <<tiles, next>>
  /\ UNCHANGED <<build, phase, src, gen, off, reg, queue, bounds, done, rewritten>>

(* The tail of prepareLiveProvider: open a compositor over the tree.       *)
OpenComposer ==
  /\ pc = "open"
  /\ IF Archives(tiles) = {}
     THEN tiles' = NoTree /\ Finish /\ Unraced
     ELSE /\ job' = [job EXCEPT !.src = tiles.arch]
          /\ pc' = "register"
          /\ UNCHANGED <<tiles, hist>>
  /\ UNCHANGED <<build, phase, src, next, gen, off, reg, queue, bounds, done, rewritten>>

(* registerProviderSet: register the compositor and enable the set ...     *)
Register ==
  /\ pc = "register"
  /\ reg' = job.src /\ off' = FALSE
  /\ done' = {d \in Installed : job.src[d] # None /\ "raced" \notin hist}
  /\ hist' = hist \ MadeGood
  /\ pc' = "bump"
  /\ UNCHANGED <<build, phase, src, tiles, next, gen, queue, job, bounds, rewritten>>

(* ... then write live.gen from the archives on disk (bumpLiveGen).        *)
BumpLiveGen ==
  /\ pc = "bump"
  /\ gen' = LiveGenToken(tiles, engine)
  /\ Finish /\ Unraced
  /\ UNCHANGED <<build, phase, src, tiles, next, off, reg, queue, bounds, done, rewritten>>

-----------------------------------------------------------------------------
(* The process dies, and starts again.                                     *)

Crash ==
  /\ phase # "down" /\ crashes < MaxCrashes
  /\ crashes' = crashes + 1
  /\ phase' = "down" /\ reg' = NoContent
  /\ waiting' = 0 /\ healing' = FALSE /\ deleting' = {} /\ Finish
  /\ hist' = (hist \ {"raced"}) \cup When("torn", pc = "remove")
  /\ UNCHANGED <<disk, done>> \/ (phase = "up" /\ DropCut)
  /\ UNCHANGED <<build, failures, rewritten>>

(* registerLiveProviders on an interrupted swap: move the staged tree into *)
(* place.  live.gen is dropped in the step after.                          *)
BootRecover ==
  /\ phase = "down"
  /\ Installed # {} /\ ~tiles.there /\ next.there
  /\ engine' \in Engines /\ noRebake' \in NoRebakeValues
  /\ tiles' = next /\ next' = NoTree
  /\ hist' = hist \ MadeGood
  /\ phase' = "recovering"
  /\ UNCHANGED <<src, gen, off, reg, queue, holder, bounds, done, rewritten>>

(* rebakeMissingProviders queues a bake when nothing is registered or what *)
(* is registered is of another engine; each mutant forgets one of the two. *)
HealsStale(serve, e, nr) ==
  Installed # {} /\ serve /\ ~LiveEngineCurrent(tiles, e, nr)
HealsUnserved(serve, e, nr) == Installed # {} /\ ~serve
Heals(serve, e, nr) ==
  Installed # {} /\ (serve => ~LiveEngineCurrent(tiles, e, nr))

(* The rest of registerLiveProviders, and rebakeMissingProviders after it. *)
Boot ==
  /\ \/ phase = "recovering" /\ UNCHANGED build
     \/ /\ phase = "down"
        /\ Installed = {} \/ tiles.there \/ ~next.there
        /\ engine' \in Engines /\ noRebake' \in NoRebakeValues
  /\ phase' = "up"
  /\ LET kept == IF phase = "recovering" THEN NoGen ELSE gen
         serve == Installed # {} /\ ~off /\ Archives(tiles) # {} /\ kept # NoGen
     IN /\ reg' = IF serve THEN tiles.arch ELSE NoContent
        /\ gen' = IF serve THEN LiveGenToken(tiles, engine') ELSE kept
        /\ healing' = Heals(serve, engine', noRebake')
  /\ UNCHANGED <<src, tiles, next, off, waiting, deleting, holder, bounds, history>>

-----------------------------------------------------------------------------
Request ==
  \/ \E d \in Districts : Download(d) \/ RequestDelete(d)
  \/ RequestRebake \/ DeleteSet
  \/ \E on \in BOOLEAN : SetEnabled(on)

BakeStep ==
  \/ DropEmpty \/ Prepare
  \/ (\E d \in Districts : BakeRead(d)) \/ BakeWrite \/ BakeDone
  \/ RemoveOne \/ SwapRename \/ OpenComposer \/ Register \/ BumpLiveGen

StartJob == StartBake \/ StartHeal \/ \E d \in Districts : StartDelete(d)

Next == Request \/ StartJob \/ BakeStep \/ BakeFail \/ Crash \/ BootRecover \/ Boot

Spec == Init /\ [][Next]_vars

(* A goroutine that holds bakeMu runs on, a free bakeMu goes to a waiter,  *)
(* and a stopped process is started again; clients need never ask.         *)
Fairness ==
  /\ WF_vars(BakeStep)
  /\ SF_vars(StartBake) /\ SF_vars(StartHeal)
  /\ WF_vars(BootRecover \/ Boot)

LiveSpec == Spec /\ Fairness

-----------------------------------------------------------------------------
(* Properties.                                                             *)

TypeOK ==
  /\ engine \in Engines /\ noRebake \in BOOLEAN
  /\ phase \in {"down", "recovering", "up"}
  /\ src \in [Districts -> 0 .. MaxEdition]
  /\ tiles \in Tree /\ next \in Tree
  /\ gen \in Token
  /\ off \in BOOLEAN /\ reg \in Content
  /\ waiting \in Nat /\ healing \in BOOLEAN /\ deleting \subseteq Districts
  /\ pc \in {"idle", "drop", "prepare", "bake", "remove", "rename", "open",
             "register", "bump"}
  /\ job \in Job
  /\ crashes \in 0 .. MaxCrashes /\ failures \in 0 .. MaxFailures
  /\ done \subseteq Districts /\ rewritten \subseteq Districts /\ hist \subseteq Events

(* A tree's .enginever tells the truth: every archive in a stamped tree    *)
(* was baked by the engine of the stamp, whatever crash, failed bake or    *)
(* upgrade came between, although the stamp is written before the bake.    *)
(* liveEngineCurrent decides from the stamp alone whether to bake again.   *)
(* (A bake under CHARTPLOTTER_NO_REBAKE stamps what it did not bake.)      *)
Truthful(tree) ==
  tree.stamp # None =>
    \A d \in Archives(tree) : tree.arch[d][1] = tree.stamp
StampTruthful == "muted" \notin hist => Truthful(tiles) /\ Truthful(next)

(* prepareLiveProvider drops the old archives last: a chart that a job has *)
(* put on the map is in one of the two trees at every moment, through      *)
(* every re-bake, failure and restart, and through a death in the middle   *)
(* of removing the old tree, until it is deleted.  The one exception: a    *)
(* death there followed by a bake of a third engine, which throws away the *)
(* staged tree the swap had left the charts in, until that bake is through.*)
ChartsNeverLost ==
  "discarded" \notin hist => \A d \in done : tiles.arch[d] # None \/ next.arch[d] # None

(* registerLiveProviders and rebakeMissingProviders between them: after a  *)
(* restart every chart of an enabled provider that had been on the map is  *)
(* on it again, or the start has queued a bake of the provider (Recovers   *)
(* says that such a bake comes to put it there).  The one exception: the   *)
(* process died removing the old tree and what was left of it is of the    *)
(* engine that starts, a roll-back, which serves what was left.            *)
RestartKeepsCharts ==
  [][/\ phase # "up" /\ phase' = "up" /\ ~off
     /\ ~("torn" \in hist /\ LiveEngineCurrent(tiles, engine', noRebake'))
     => healing' \/ \A d \in done : reg'[d] # None]_vars

(* What a job registers is what is installed: every district, at the       *)
(* edition on disk, unless a later job is already waiting to bake it.  A   *)
(* district that was rewritten while the engine was baking it is there in  *)
(* an edition that may be the older: its archive passes for the newer      *)
(* file, and only the next download mends it.                              *)
RegistersWhatIsInstalled ==
  pc = "register" /\ waiting = 0 =>
    \A d \in Installed :
      job.src[d] # None /\ (d \notin rewritten => job.src[d][2] = src[d])

(* What jobs register is what is installed, and no chart that has been on  *)
(* the map is lost to a re-bake, a failure or a restart.                   *)
ChartsSurvive == RegistersWhatIsInstalled /\ ChartsNeverLost

(* Self-heal: an installed, enabled provider that is not on the map is put *)
(* on it, unless a bake fails (the failure is reported on the job).        *)
SelfHeal ==
  (phase = "up" /\ Installed # {} /\ reg = NoContent /\ ~off)
    ~> (reg # NoContent \/ Installed = {} \/ off \/ phase # "up" \/ failures > 0)

(* Every archive a running engine serves is in the end its own, unless the *)
(* switch that suppresses the re-bake has been used.                       *)
EventuallyCurrent ==
  (phase = "up" /\ Installed # {})
    ~> \/ phase # "up" \/ Installed = {} \/ failures > 0
       \/ noRebake \/ "muted" \in hist
       \/ \A d \in Archives(tiles) : tiles.arch[d][1] = engine

(* An installed provider comes to be served, with archives of the running  *)
(* engine.                                                                 *)
Recovers == SelfHeal /\ EventuallyCurrent

-----------------------------------------------------------------------------
(* What the code's comments say and its behaviour contradicts.             *)

(* prefs.go: a disabled pack is not registered and the state survives      *)
(* restarts, so the bake of a self-heal, which no client asked for, does   *)
(* not enable the provider it registers.                                   *)
DisabledSurvivesRestart ==
  [][pc = "register" /\ pc' = "bump" /\ job.heal /\ off => off']_vars

(* For TLC: districts are interchangeable, and so are engine builds.       *)
Symmetry == Permutations(Districts) \cup Permutations(Engines)
=============================================================================
