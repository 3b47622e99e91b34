------------------------- MODULE ProviderBakeProofs -------------------------
(***************************************************************************)
(* Proofs about ProviderBake: its type invariant; that the engine stamp of *)
(* a tree of archives tells the truth as long as no bake has run under     *)
(* CHARTPLOTTER_NO_REBAKE; that charts that have been on the map survive   *)
(* re-bakes, failures and restarts and return to it; and that what a job   *)
(* registers is what is installed.                                         *)
(***************************************************************************)
EXTENDS ProviderBake, TLAPS

(* A stopped process holds no lock and has no locals; a cell being baked   *)
(* has a source edition; and the tree a running bake writes to carries the *)
(* stamp of the running engine, unless the whole tree has been deleted     *)
(* under the bake (DeleteSet takes no lock).  The last part is what makes  *)
(* StampTruthful inductive: BakeWrite adds an archive of the running       *)
(* engine to a tree whose stamp was written earlier, by Prepare.           *)
StoppedIsIdle == phase # "up" => pc = "idle"
BakedHasSource == job.cell # None => job.ed # 0
BakeTreeStamped == pc = "bake" => BakeTree.stamp \in {engine, None}

TypeInv == TypeOK /\ BakedHasSource
Stamped == BakeTreeStamped /\ Truthful(tiles) /\ Truthful(next)
StampInv == TypeInv /\ StoppedIsIdle /\ ("muted" \notin hist => Stamped)

-----------------------------------------------------------------------------
(* The type invariant, one step per action.                                *)

LEMMA NothingTypes ==
  /\ NoContent \in Content /\ NoTree \in Tree
  /\ NoGen \in Token /\ NoJob \in Job
  /\ NoJob.cell = None
<1>1. NoContent \in Content
  BY DEF NoContent, Content
<1>2. NoTree \in Tree
  BY <1>1 DEF NoTree, Tree
<1>3. NoGen \in Token
  BY <1>1 DEF NoGen, Token
<1>4. NoJob \in Job
  BY <1>1, ConstantsAssumption DEF NoJob, Job
<1>5. NoJob.cell = None
  BY DEF NoJob
<1> QED
  BY <1>1, <1>2, <1>3, <1>4, <1>5

(* What the steps of a bake do to a tree leaves a tree.                    *)
LEMMA TreeTypes ==
  ASSUME NEW t \in Tree
  PROVE  /\ t.arch \in Content /\ t.fresh \subseteq Districts
         /\ \A f \in SUBSET Districts : [t EXCEPT !.fresh = f] \in Tree
         /\ [t EXCEPT !.stamp = None] \in Tree
         /\ \A e \in Engines : [t EXCEPT !.there = TRUE, !.stamp = e] \in Tree
         /\ \A c \in Content : [t EXCEPT !.arch = c] \in Tree
  BY DEF Tree

LEMMA WriteTypes ==
  ASSUME NEW t \in Tree, NEW d \in Districts, NEW a \in Archive
  PROVE  [t EXCEPT !.there = TRUE, !.arch[d] = a, !.fresh = @ \cup {d}] \in Tree
<1>1. [t.arch EXCEPT ![d] = a] \in Content
  BY DEF Tree, Content
<1> QED
  BY <1>1 DEF Tree

LEMMA RemoveTypes ==
  ASSUME NEW t \in Tree, NEW d \in Districts
  PROVE  [t EXCEPT !.arch[d] = None, !.fresh = @ \ {d}] \in Tree
<1>1. [t.arch EXCEPT ![d] = None] \in Content
  BY DEF Tree, Content
<1> QED
  BY <1>1 DEF Tree

LEMMA JobTypes ==
  ASSUME NEW j \in Job
  PROVE  /\ j.src \in Content /\ j.todo \subseteq Districts
         /\ j.cell \in Districts \cup {None} /\ j.ed \in 0 .. MaxEdition
         /\ [j EXCEPT !.heal = TRUE] \in Job
         /\ \A b \in BOOLEAN, t \in SUBSET Districts :
              [j EXCEPT !.staged = b, !.todo = t] \in Job
         /\ \A d \in Districts, e \in 0 .. MaxEdition :
              [j EXCEPT !.cell = d, !.ed = e] \in Job
         /\ \A t \in SUBSET Districts : [j EXCEPT !.todo = t] \in Job
         /\ \A t \in SUBSET Districts :
              [j EXCEPT !.todo = t, !.cell = None, !.ed = 0] \in Job
         /\ \A c \in Content : [j EXCEPT !.src = c] \in Job
<1>1. 0 \in 0 .. MaxEdition
  BY ConstantsAssumption
<1>2. /\ j.src \in Content /\ j.todo \subseteq Districts
      /\ j.cell \in Districts \cup {None} /\ j.ed \in 0 .. MaxEdition
      /\ [j EXCEPT !.heal = TRUE] \in Job
  BY DEF Job
<1>3. \A b \in BOOLEAN, t \in SUBSET Districts :
        [j EXCEPT !.staged = b, !.todo = t] \in Job
  BY DEF Job
<1>4. \A d \in Districts, e \in 0 .. MaxEdition :
        [j EXCEPT !.cell = d, !.ed = e] \in Job
  BY DEF Job
<1>5. \A t \in SUBSET Districts :
        /\ [j EXCEPT !.todo = t] \in Job
        /\ [j EXCEPT !.todo = t, !.cell = None, !.ed = 0] \in Job
  BY <1>1 DEF Job
<1>6. \A c \in Content : [j EXCEPT !.src = c] \in Job
  BY DEF Job
<1> QED
  BY <1>2, <1>3, <1>4, <1>5, <1>6

LEMMA TypeInvInit == Init => TypeInv
<1> SUFFICES ASSUME Init PROVE TypeInv
  OBVIOUS
<1>1. src \in [Districts -> 0 .. MaxEdition]
  BY ConstantsAssumption DEF Init
<1>2. noRebake \in BOOLEAN /\ crashes \in 0 .. MaxCrashes /\ failures \in 0 .. MaxFailures
  BY ConstantsAssumption DEF Init
<1>3. tiles \in Tree /\ next \in Tree /\ gen \in Token /\ reg \in Content
  BY NothingTypes DEF Init
<1>4. job \in Job /\ job.cell = None
  BY NothingTypes DEF Init
<1> QED
  BY <1>1, <1>2, <1>3, <1>4 DEF Init, TypeInv, TypeOK, BakedHasSource

LEMMA DropTypes ==
  ASSUME TypeOK, DropProviderSet
  PROVE  /\ src' \in [Districts -> 0 .. MaxEdition]
         /\ tiles' \in Tree /\ next' \in Tree /\ gen' \in Token
         /\ off' \in BOOLEAN /\ reg' \in Content /\ done' \subseteq Districts
<1>1. src' \in [Districts -> 0 .. MaxEdition]
  BY ConstantsAssumption DEF DropProviderSet
<1> QED
  BY <1>1, NothingTypes DEF DropProviderSet, RemoveTrees

LEMMA DropCutTypes ==
  ASSUME TypeOK, DropCut
  PROVE  /\ src' \in [Districts -> 0 .. MaxEdition]
         /\ tiles' \in Tree /\ next' \in Tree /\ gen' \in Token
         /\ off' \in BOOLEAN /\ done' \subseteq Districts
  BY NothingTypes DEF DropCut, RemoveTrees, TypeOK

LEMMA TypeInvNext ==
  ASSUME TypeInv, [Next]_vars
  PROVE  TypeInv'
<1> USE DEF TypeInv, TypeOK, BakedHasSource, history, Unraced
<1>1. ASSUME NEW d \in Districts, Download(d) PROVE TypeInv'
  <2>1. /\ [tiles EXCEPT !.fresh = @ \ {d}] \in Tree
        /\ [next EXCEPT !.fresh = @ \ {d}] \in Tree
    BY TreeTypes
  <2>2. src' \in [Districts -> 0 .. MaxEdition]
    BY <1>1, ConstantsAssumption DEF Download
  <2> QED
    BY <1>1, <2>1, <2>2 DEF Download, build, holder, bounds
<1>2. ASSUME NEW d \in Districts, RequestDelete(d) PROVE TypeInv'
  BY <1>2 DEF RequestDelete, build, disk, holder, bounds
<1>3. CASE RequestRebake
  BY <1>3 DEF RequestRebake, build, disk, holder, bounds
<1>4. CASE DeleteSet
  BY <1>4, DropTypes DEF DeleteSet, When, Events, build, queue, holder, bounds
<1>5. ASSUME NEW on \in BOOLEAN, SetEnabled(on) PROVE TypeInv'
  BY <1>5, TreeTypes, NothingTypes DEF SetEnabled, build, queue, holder, bounds
<1>6. CASE StartBake
  BY <1>6 DEF StartBake, build, disk, bounds
<1>7. CASE StartHeal
  <2>1. [NoJob EXCEPT !.heal = TRUE] \in Job
    BY NothingTypes, JobTypes
  <2> QED
    BY <1>7, <2>1 DEF StartHeal, NoJob, build, disk, bounds
<1>8. ASSUME NEW d \in Districts, StartDelete(d) PROVE TypeInv'
  BY <1>8, ConstantsAssumption DEF StartDelete, build, bounds
<1>9. CASE DropEmpty
  BY <1>9, DropTypes, NothingTypes DEF DropEmpty, Finish, build, queue, bounds
<1>10. CASE Prepare
  <2> DEFINE staged == ~LiveEngineCurrent(tiles, engine, noRebake)
             kept == IF ResumesStaging(next, engine, noRebake) THEN next ELSE NoTree
  <2>1. Installed \subseteq Districts /\ staged \in BOOLEAN
    BY DEF Installed
  <2>2. [job EXCEPT !.staged = staged, !.todo = Installed] \in Job
    BY <2>1, JobTypes
  <2>3. /\ [kept EXCEPT !.there = TRUE, !.stamp = engine] \in Tree
        /\ [tiles EXCEPT !.there = TRUE, !.stamp = engine] \in Tree
    BY TreeTypes, NothingTypes
  <2>4. job'.cell = job.cell /\ job'.ed = job.ed
    BY <1>10 DEF Prepare, Job
  <2>5. hist' \subseteq Events
    BY <1>10 DEF Prepare, When, Events
  <2> QED
    BY <1>10, <2>2, <2>3, <2>4, <2>5 DEF Prepare, build, queue, bounds
<1>11. ASSUME NEW d \in Districts, BakeRead(d) PROVE TypeInv'
  <2>1. CASE job' = [job EXCEPT !.cell = d, !.ed = src[d]] /\ src[d] # 0
    <3>1. job' \in Job
      BY <2>1, JobTypes
    <3>2. job'.ed # 0
      BY <2>1 DEF Job
    <3> QED
      BY <1>11, <3>1, <3>2 DEF BakeRead, build, disk, queue, bounds
  <2>2. CASE job' = [job EXCEPT !.todo = @ \ {d}]
    <3>1. job' \in Job
      BY <2>2, JobTypes
    <3>2. job'.cell = job.cell /\ job'.ed = job.ed
      BY <2>2 DEF Job
    <3> QED
      BY <1>11, <3>1, <3>2 DEF BakeRead, build, disk, queue, bounds
  <2> QED
    BY <1>11, <2>1, <2>2 DEF BakeRead
<1>12. CASE BakeWrite
  <2>1. job.cell \in Districts /\ job.ed \in 1 .. MaxEdition
    <3>1. job.cell \in Districts \cup {None} /\ job.ed \in 0 .. MaxEdition
      BY JobTypes
    <3>2. job.cell # None /\ job.ed # 0
      BY <1>12 DEF BakeWrite
    <3> QED
      BY <3>1, <3>2, ConstantsAssumption
  <2>2. <<engine, job.ed>> \in Archive
    BY <2>1 DEF Archive
  <2>3. tiles' \in Tree /\ next' \in Tree
    <3>1. ASSUME NEW t \in Tree
          PROVE  [t EXCEPT !.there = TRUE, !.arch[job.cell] = <<engine, job.ed>>,
                           !.fresh = @ \cup {job.cell}] \in Tree
      BY <2>1, <2>2, WriteTypes
    <3> QED
      BY <1>12, <3>1 DEF BakeWrite
  <2>4. job' \in Job
    BY <1>12, JobTypes DEF BakeWrite
  <2>5. job'.cell = None
    BY <1>12 DEF BakeWrite, Job
  <2> QED
    BY <1>12, <2>3, <2>4, <2>5 DEF BakeWrite, build, queue, bounds
<1>13. CASE BakeFail
  BY <1>13, NothingTypes, ConstantsAssumption DEF BakeFail, Finish, build,
     disk, queue
<1>14. CASE BakeDone
  <2>1. BakeTree \in Tree
    BY DEF BakeTree
  <2>2. ASSUME NEW gone
        PROVE  [BakeTree EXCEPT !.arch =
                  [d \in Districts |-> IF d \in gone THEN None ELSE @[d]]] \in Tree
    <3>1. [d \in Districts |-> IF d \in gone THEN None ELSE BakeTree.arch[d]] \in Content
      BY <2>1 DEF Tree, Content
    <3> QED
      BY <2>1, <3>1, TreeTypes
  <2> QED
    BY <1>14, <2>2, NothingTypes DEF BakeDone, Finish, build, queue, bounds
<1>15. CASE RemoveOne
  <2>1. tiles' \in Tree
    BY <1>15, TreeTypes, RemoveTypes, NothingTypes DEF RemoveOne, Archives
  <2>2. pc' \in {"remove", "rename"}
    BY <1>15 DEF RemoveOne
  <2> QED
    BY <1>15, <2>1, <2>2 DEF RemoveOne, build, queue, bounds
<1>16. CASE SwapRename
  BY <1>16, NothingTypes DEF SwapRename, Finish, build, queue, bounds
<1>17. CASE OpenComposer
  <2>1. CASE Archives(tiles) = {}
    BY <1>17, <2>1, NothingTypes DEF OpenComposer, Finish, build, queue, bounds
  <2>2. CASE Archives(tiles) # {}
    <3>1. job' \in Job
      BY <1>17, <2>2, TreeTypes, JobTypes DEF OpenComposer
    <3>2. job'.cell = job.cell /\ job'.ed = job.ed
      BY <1>17, <2>2 DEF OpenComposer, Job
    <3> QED
      BY <1>17, <2>2, <3>1, <3>2 DEF OpenComposer, build, queue, bounds
  <2> QED
    BY <2>1, <2>2
<1>18. CASE Register
  BY <1>18, JobTypes DEF Register, MadeGood, Installed, build, queue, bounds
<1>19. CASE BumpLiveGen
  <2>1. LiveGenToken(tiles, engine) \in Token
    BY TreeTypes DEF LiveGenToken, Token
  <2> QED
    BY <1>19, <2>1, NothingTypes DEF BumpLiveGen, Finish, build, queue, bounds
<1>20. CASE Crash
  <2>1. crashes' \in 0 .. MaxCrashes /\ hist' \subseteq Events
    BY <1>20, ConstantsAssumption DEF Crash, When, Events
  <2>2. /\ src' \in [Districts -> 0 .. MaxEdition]
        /\ tiles' \in Tree /\ next' \in Tree /\ gen' \in Token
        /\ off' \in BOOLEAN /\ done' \subseteq Districts
    BY <1>20, DropCutTypes DEF Crash, disk
  <2> QED
    BY <1>20, <2>1, <2>2, NothingTypes DEF Crash, Finish, build
<1>21. CASE BootRecover
  BY <1>21, NothingTypes, ConstantsAssumption DEF BootRecover, queue, holder, bounds
<1>22. CASE Boot
  <2>1. engine' \in Engines /\ noRebake' \in BOOLEAN
    BY <1>22, ConstantsAssumption DEF Boot, build
  <2>2. LiveGenToken(tiles, engine') \in Token
    BY <2>1, TreeTypes DEF LiveGenToken, Token
  <2>3. \A s \in BOOLEAN : Heals(s, engine', noRebake') \in BOOLEAN
    BY DEF Heals
  <2> QED
    BY <1>22, <2>1, <2>2, <2>3, NothingTypes, TreeTypes DEF Boot, holder, bounds
<1>23. CASE UNCHANGED vars
  BY <1>23 DEF vars, build, disk, queue, holder, bounds
<1> QED
  BY <1>1, <1>2, <1>3, <1>4, <1>5, <1>6, <1>7, <1>8, <1>9, <1>10, <1>11, <1>12,
     <1>13, <1>14, <1>15, <1>16, <1>17, <1>18, <1>19, <1>20, <1>21, <1>22, <1>23
     DEF Next, Request, StartJob, BakeStep

(* Every reachable state is well typed; what a restart finds on disk and   *)
(* what a bake writes are trees of archives.                               *)
THEOREM TypeCorrect == Spec => []TypeOK
<1>1. TypeInv => TypeOK
  BY DEF TypeInv
<1> QED
  BY TypeInvInit, TypeInvNext, <1>1, PTL DEF Spec

-----------------------------------------------------------------------------
(* The stamps.                                                             *)

LEMMA TruthfulTrees ==
  /\ Truthful(NoTree)
  /\ \A t \in Tree : Truthful(t) =>
       /\ \A f : Truthful([t EXCEPT !.fresh = f])
       /\ Truthful([t EXCEPT !.stamp = None])
       /\ Truthful([t EXCEPT !.there = TRUE, !.stamp = t.stamp])
<1>1. Truthful(NoTree)
  BY DEF Truthful, NoTree
<1>2. ASSUME NEW t \in Tree, Truthful(t)
      PROVE  /\ \A f : Truthful([t EXCEPT !.fresh = f])
             /\ Truthful([t EXCEPT !.stamp = None])
             /\ Truthful([t EXCEPT !.there = TRUE, !.stamp = t.stamp])
  BY <1>2 DEF Truthful, Tree, Archives
<1> QED
  BY <1>1, <1>2

(* Fewer archives than a truthful tree, or one more of the stamped engine. *)
LEMMA TruthfulFewer ==
  ASSUME NEW t \in Tree, Truthful(t), NEW gone
  PROVE  Truthful([t EXCEPT !.arch = [d \in Districts |-> IF d \in gone THEN None ELSE @[d]]])
  BY DEF Truthful, Tree, Archives

LEMMA TruthfulRemove ==
  ASSUME NEW t \in Tree, Truthful(t), NEW d \in Districts
  PROVE  Truthful([t EXCEPT !.arch[d] = None, !.fresh = @ \ {d}])
  BY DEF Truthful, Tree, Content, Archives

LEMMA TruthfulWrite ==
  ASSUME NEW t \in Tree, Truthful(t), NEW d \in Districts, NEW e \in Engines,
         NEW ed \in 0 .. MaxEdition, t.stamp \in {e, None}
  PROVE  Truthful([t EXCEPT !.there = TRUE, !.arch[d] = <<e, ed>>, !.fresh = @ \cup {d}])
<1> DEFINE w == [t EXCEPT !.there = TRUE, !.arch[d] = <<e, ed>>, !.fresh = @ \cup {d}]
<1>1. w.stamp = t.stamp /\ w.arch = [t.arch EXCEPT ![d] = <<e, ed>>]
  BY DEF Tree
<1>2. ASSUME w.stamp # None, NEW c \in Archives(w)
      PROVE  w.arch[c][1] = w.stamp
  <2>1. CASE c = d
    BY <1>1, <1>2, <2>1 DEF Tree, Content
  <2>2. CASE c # d
    BY <1>1, <1>2, <2>2 DEF Truthful, Archives, Tree, Content
  <2> QED
    BY <2>1, <2>2
<1> HIDE DEF w
<1> QED
  BY <1>2 DEF Truthful, w

LEMMA StampInvInit ==
  ASSUME Init PROVE StampInv
<1>1. TypeInv
  BY TypeInvInit
<1> QED
  BY <1>1, TruthfulTrees DEF Init, StampInv, StoppedIsIdle, BakeTreeStamped,
     Stamped

(* Only a running process starts a job, and dying ends the one it has.     *)
LEMMA StoppedIsIdleNext ==
  ASSUME StoppedIsIdle, TypeOK, [Next]_vars
  PROVE  StoppedIsIdle'
<1> USE DEF StoppedIsIdle, Unraced
<1>1. CASE Request
  BY <1>1 DEF Request, Download, RequestDelete, RequestRebake, DeleteSet, SetEnabled, holder
<1>2. CASE StartJob
  BY <1>2 DEF StartJob, StartBake, StartHeal, StartDelete
<1>3. CASE BakeStep
  <2>1. pc # "idle" /\ phase' = phase
    BY <1>3 DEF BakeStep, DropEmpty, Prepare, BakeRead, BakeWrite, BakeDone, RemoveOne,
       SwapRename, OpenComposer, Register, BumpLiveGen
  <2> QED
    BY <2>1
<1>4. CASE BakeFail \/ Crash \/ BootRecover \/ Boot
  BY <1>4 DEF BakeFail, Crash, BootRecover, Boot, Finish, holder
<1>5. CASE UNCHANGED vars
  BY <1>5 DEF vars, holder
<1> QED
  BY <1>1, <1>2, <1>3, <1>4, <1>5 DEF Next

(* A bake under the switch is not forgotten.                               *)
LEMMA MutedStays ==
  ASSUME "muted" \in hist, [Next]_vars
  PROVE  "muted" \in hist'
<1> USE DEF history, Unraced, MadeGood
<1>1. CASE Request
  BY <1>1 DEF Request, Download, RequestDelete, RequestRebake, DeleteSet, SetEnabled
<1>2. CASE StartJob
  BY <1>2 DEF StartJob, StartBake, StartHeal, StartDelete
<1>3. CASE BakeStep
  BY <1>3 DEF BakeStep, DropEmpty, Prepare, BakeRead, BakeWrite, BakeDone, RemoveOne,
     SwapRename, OpenComposer, Register, BumpLiveGen
<1>4. CASE BakeFail \/ Crash \/ BootRecover \/ Boot
  BY <1>4 DEF BakeFail, Crash, BootRecover, Boot
<1>5. CASE UNCHANGED vars
  BY <1>5 DEF vars
<1> QED
  BY <1>1, <1>2, <1>3, <1>4, <1>5 DEF Next

LEMMA StampInvNext ==
  ASSUME StampInv, [Next]_vars
  PROVE  StampInv'
<1> SUFFICES ASSUME "muted" \notin hist' PROVE Stamped'
  BY TypeInvNext, StoppedIsIdleNext DEF StampInv, TypeInv
<1>0. /\ tiles \in Tree /\ next \in Tree /\ Truthful(tiles) /\ Truthful(next)
      /\ Stamped
  BY MutedStays DEF StampInv, Stamped, TypeInv, TypeOK
<1> USE <1>0 DEF StampInv, StoppedIsIdle, Stamped, BakeTreeStamped
<1>1. ASSUME NEW d \in Districts, Download(d) PROVE Stamped'
  <2>1. /\ tiles'.stamp = tiles.stamp /\ Truthful(tiles')
        /\ next'.stamp = next.stamp /\ Truthful(next')
    BY <1>0, <1>1, TruthfulTrees DEF Download, Tree
  <2> QED
    BY <1>1, <2>1 DEF Download, BakeTree, build, holder
<1>2. ASSUME NEW d \in Districts, RequestDelete(d) PROVE Stamped'
  BY <1>2 DEF RequestDelete, BakeTree, build, disk, holder
<1>3. CASE RequestRebake
  BY <1>3 DEF RequestRebake, BakeTree, build, disk, holder
<1>4. CASE DeleteSet
  <2>1. tiles' = NoTree /\ next' = NoTree /\ NoTree.stamp = None
    BY <1>4 DEF DeleteSet, DropProviderSet, RemoveTrees, NoTree
  <2> QED
    BY <1>4, <2>1, TruthfulTrees DEF DeleteSet, BakeTree, build, holder
<1>5. ASSUME NEW on \in BOOLEAN, SetEnabled(on) PROVE Stamped'
  BY <1>5 DEF SetEnabled, BakeTree, build, holder
<1>6. CASE StartBake
  BY <1>6 DEF StartBake, build, disk
<1>7. CASE StartHeal
  BY <1>7 DEF StartHeal, build, disk
<1>8. ASSUME NEW d \in Districts, StartDelete(d) PROVE Stamped'
  BY <1>8 DEF StartDelete, build
<1>9. CASE DropEmpty
  BY <1>9, TruthfulTrees DEF DropEmpty, DropProviderSet, RemoveTrees, Finish, build
<1>10. CASE Prepare
  <2>1. pc = "prepare" /\ pc' = "bake" /\ phase = "up" /\ ~noRebake
    BY <1>10 DEF Prepare, When
  <2>2. CASE LiveEngineCurrent(tiles, engine, noRebake)
    <3>1. tiles.stamp = engine /\ ~job'.staged
      BY <1>10, <2>1, <2>2 DEF Prepare, LiveEngineCurrent, TypeInv, TypeOK, Job
    <3>2. tiles' = [tiles EXCEPT !.there = TRUE, !.stamp = tiles.stamp] /\ next' = next
      BY <1>10, <2>2, <3>1 DEF Prepare
    <3>3. tiles'.stamp = engine /\ Truthful(tiles')
      BY <1>0, <3>1, <3>2, TruthfulTrees DEF Tree
    <3> QED
      BY <1>0, <1>10, <2>1, <3>1, <3>2, <3>3 DEF Prepare, BakeTree, build
  <2>3. CASE ~LiveEngineCurrent(tiles, engine, noRebake)
    <3> DEFINE kept == IF ResumesStaging(next, engine, noRebake) THEN next ELSE NoTree
    <3>1. job'.staged /\ tiles' = tiles
          /\ next' = [kept EXCEPT !.there = TRUE, !.stamp = engine]
      BY <1>10, <2>3 DEF Prepare, TypeInv, TypeOK, Job
    <3>2. next'.stamp = engine /\ Truthful(next')
      <4>1. CASE ResumesStaging(next, engine, noRebake)
        <5>1. next.stamp = engine
          BY <2>1, <4>1 DEF ResumesStaging, LiveEngineCurrent
        <5> QED
          BY <1>0, <3>1, <4>1, <5>1, TruthfulTrees DEF Tree
      <4>2. CASE ~ResumesStaging(next, engine, noRebake)
        BY <3>1, <4>2 DEF Truthful, NoTree, NoContent, Archives
      <4> QED
        BY <4>1, <4>2
    <3> HIDE DEF kept
    <3> QED
      BY <1>0, <1>10, <2>1, <3>1, <3>2 DEF Prepare, BakeTree, build
  <2> QED
    BY <2>2, <2>3
<1>11. ASSUME NEW d \in Districts, BakeRead(d) PROVE Stamped'
  <2>1. job'.staged = job.staged
    BY <1>11 DEF BakeRead, TypeInv, TypeOK, Job
  <2> QED
    BY <1>11, <2>1 DEF BakeRead, BakeTree, build, disk
<1>12. CASE BakeWrite
  <2>1. job'.staged = job.staged /\ pc = "bake" /\ phase = "up"
    BY <1>12 DEF BakeWrite, TypeInv, TypeOK, Job
  <2>2. job.cell \in Districts /\ engine \in Engines /\ job.ed \in 0 .. MaxEdition
    <3>1. /\ job.cell \in Districts \cup {None} /\ engine \in Engines
          /\ job.ed \in 0 .. MaxEdition
      BY JobTypes DEF TypeInv, TypeOK
    <3> QED
      BY <1>12, <3>1 DEF BakeWrite
  <2>3. ASSUME NEW t \in Tree, Truthful(t), t.stamp \in {engine, None}
        PROVE  LET w == [t EXCEPT !.there = TRUE, !.arch[job.cell] = <<engine, job.ed>>,
                                  !.fresh = @ \cup {job.cell}]
               IN  Truthful(w) /\ w.stamp \in {engine, None}
    <3> DEFINE w == [t EXCEPT !.there = TRUE, !.arch[job.cell] = <<engine, job.ed>>,
                              !.fresh = @ \cup {job.cell}]
    <3>1. w.stamp = t.stamp
      BY DEF Tree
    <3>2. Truthful(w)
      BY <2>2, <2>3, TruthfulWrite
    <3> QED
      BY <2>3, <3>1, <3>2
  <2>4. CASE job.staged
    BY <1>0, <1>12, <2>1, <2>3, <2>4 DEF BakeWrite, BakeTree, build
  <2>5. CASE ~job.staged
    BY <1>0, <1>12, <2>1, <2>3, <2>5 DEF BakeWrite, BakeTree, build
  <2> QED
    BY <2>4, <2>5
<1>13. CASE BakeFail
  BY <1>13 DEF BakeFail, Finish, build, disk
<1>14. CASE BakeDone
  <2>1. BakeTree \in Tree /\ Truthful(BakeTree)
    BY <1>0 DEF BakeTree
  <2>2. Truthful(tiles') /\ Truthful(next')
    <3> DEFINE kept(gone) ==
          [BakeTree EXCEPT !.arch = [d \in Districts |-> IF d \in gone THEN None ELSE @[d]]]
    <3>1. ASSUME NEW gone PROVE Truthful(kept(gone))
      BY <2>1, TruthfulFewer
    <3>2. PICK gone : \/ tiles' = kept(gone) /\ next' = next
                      \/ next' = NoTree /\ tiles' = tiles
                      \/ next' = kept(gone) /\ tiles' = tiles
      BY <1>14 DEF BakeDone
    <3> HIDE DEF kept
    <3> QED
      BY <1>0, <3>1, <3>2, TruthfulTrees
  <2>3. pc' # "bake" /\ phase' = "up"
    BY <1>14 DEF BakeDone, Finish
  <2> QED
    BY <1>14, <2>2, <2>3 DEF BakeDone, build
<1>15. CASE RemoveOne
  <2>1. Truthful(tiles')
    BY <1>0, <1>15, TruthfulTrees, TruthfulRemove DEF RemoveOne, Archives
  <2> QED
    BY <1>15, <2>1 DEF RemoveOne, build
<1>16. CASE SwapRename
  BY <1>0, <1>16, TruthfulTrees DEF SwapRename, Finish, build
<1>17. CASE OpenComposer
  BY <1>0, <1>17, TruthfulTrees DEF OpenComposer, Finish, build
<1>18. CASE Register
  BY <1>18 DEF Register, build
<1>19. CASE BumpLiveGen
  BY <1>19 DEF BumpLiveGen, Finish, build
<1>20. CASE Crash
  BY <1>0, <1>20, TruthfulTrees DEF Crash, DropCut, RemoveTrees, Finish, build, disk
<1>21. CASE BootRecover
  BY <1>0, <1>21, TruthfulTrees DEF BootRecover, holder
<1>22. CASE Boot
  BY <1>22 DEF Boot, holder
<1>23. CASE UNCHANGED vars
  BY <1>23 DEF vars, build, disk, holder, BakeTree
<1> QED
  BY <1>1, <1>2, <1>3, <1>4, <1>5, <1>6, <1>7, <1>8, <1>9, <1>10, <1>11, <1>12,
     <1>13, <1>14, <1>15, <1>16, <1>17, <1>18, <1>19, <1>20, <1>21, <1>22, <1>23
     DEF Next, Request, StartJob, BakeStep

(* Until a bake runs under the development switch the stamp of both trees  *)
(* tells the truth through any sequence of downloads, failed bakes,        *)
(* restarts and upgrades, for any number of districts, editions, engines   *)
(* and restarts.                                                           *)
THEOREM StampsAreTruthful == Spec => []StampTruthful
<1>1. StampInv => StampTruthful
  BY DEF StampInv, Stamped, StampTruthful
<1> QED
  BY StampInvInit, StampInvNext, <1>1, PTL DEF Spec

-----------------------------------------------------------------------------
(* Charts that have been on the map.                                       *)

(* Only a directory holds archives.                                        *)
There(tree) == tree.there \/ Archives(tree) = {}

(* Where the charts that have been on the map are.  A job works towards a  *)
(* tree that has all of them; from the moment the old tree is removed they *)
(* are in the new one, and only a process that stops between removing and  *)
(* renaming leaves them there.                                             *)
Whereabouts ==
  /\ "raced" \in hist => done = {}
  /\ done \subseteq Installed
  /\ pc = "bake" => \A d \in done : d \in job.todo \/ d \in Archives(BakeTree)
  /\ pc \in {"remove", "rename"} => done \subseteq Archives(next)
  /\ pc \in {"open", "register"} => done \subseteq Archives(tiles)
  /\ pc = "register" /\ "raced" \notin hist =>
       \A d \in Districts : job.src[d] # None => d \in Archives(tiles)
  /\ pc = "rename" => ~tiles.there
  /\ ~tiles.there /\ done # {} => /\ pc = "rename" \/ phase = "down"
                                  /\ done \subseteq Archives(next)
  /\ "torn" \notin hist /\ tiles.there /\ pc \notin {"remove", "rename"}
       => done \subseteq Archives(tiles)
  /\ "torn" \in hist /\ "discarded" \notin hist => done \subseteq Archives(next)
ChartInv ==
  /\ TypeInv /\ StoppedIsIdle /\ There(tiles) /\ There(next)
  /\ Whereabouts

(* What the archives are of, but for districts rewritten under a bake.  An *)
(* archive that counts as fresh is of the edition on disk; a cell is being *)
(* baked only by a bake, which has read that edition; and unless a         *)
(* download has queued another job, what a job has baked is of the         *)
(* editions on disk up to its registration.                                *)
Current(arch, d) == arch[d] # None /\ (d \notin rewritten => arch[d][2] = src[d])
Fresh(tree) == \A d \in tree.fresh \cap Installed \cap Archives(tree) : Current(tree.arch, d)
Baked ==
  waiting = 0 =>
    \A d \in Installed :
      /\ pc = "bake" => d \in job.todo \/ Current(BakeTree.arch, d)
      /\ pc \in {"remove", "rename"} => Current(next.arch, d)
      /\ pc = "open" => Current(tiles.arch, d)
      /\ pc = "register" => Current(job.src, d)
ReadsOnce ==
  job.cell # None => job.cell \in rewritten \/ src[job.cell] \in {0, job.ed}
Progress == Fresh(tiles) /\ Fresh(next) /\ ReadsOnce /\ Baked
BakingOnly == job.cell # None => pc = "bake"
EditionInv == TypeInv /\ BakingOnly /\ Progress

-----------------------------------------------------------------------------
(* What is in a tree after the steps of a bake.                            *)

LEMMA NothingThere == ~NoTree.there /\ Archives(NoTree) = {} /\ There(NoTree)
  BY DEF NoTree, NoContent, Archives, There

LEMMA WrittenArchives ==
  ASSUME NEW t \in Tree, NEW d \in Districts, NEW a \in Archive
  PROVE  LET w == [t EXCEPT !.there = TRUE, !.arch[d] = a, !.fresh = @ \cup {d}]
         IN  Archives(w) = Archives(t) \cup {d} /\ w.there
<1> DEFINE w == [t EXCEPT !.there = TRUE, !.arch[d] = a, !.fresh = @ \cup {d}]
<1>1. w.there /\ w.arch = [t.arch EXCEPT ![d] = a] /\ t.arch \in Content
  BY DEF Tree
<1>2. a # None
  BY ConstantsAssumption DEF Archive
<1>3. \A c \in Districts : w.arch[c] = IF c = d THEN a ELSE t.arch[c]
  BY <1>1 DEF Content
<1> HIDE DEF w
<1>4. Archives(w) = Archives(t) \cup {d}
  BY <1>2, <1>3 DEF Archives
<1> QED
  BY <1>1, <1>4 DEF w

LEMMA KeptArchives ==
  ASSUME NEW t \in Tree, NEW gone
  PROVE  LET k == [t EXCEPT !.arch = [d \in Districts |-> IF d \in gone THEN None ELSE @[d]]]
         IN  Archives(k) = Archives(t) \ gone /\ k.there = t.there /\ (There(t) => There(k))
<1> DEFINE k == [t EXCEPT !.arch = [d \in Districts |-> IF d \in gone THEN None ELSE @[d]]]
<1>1. k.there = t.there /\ k.arch = [d \in Districts |-> IF d \in gone THEN None ELSE t.arch[d]]
  BY DEF Tree
<1> HIDE DEF k
<1>2. Archives(k) = Archives(t) \ gone
  BY <1>1 DEF Archives
<1>3. There(t) => There(k)
  BY <1>1, <1>2 DEF There
<1> QED
  BY <1>1, <1>2, <1>3 DEF k

LEMMA RemovedArchives ==
  ASSUME NEW t \in Tree, NEW d \in Districts
  PROVE  LET k == [t EXCEPT !.arch[d] = None, !.fresh = @ \ {d}]
         IN  Archives(k) = Archives(t) \ {d} /\ k.there = t.there /\ (There(t) => There(k))
<1> DEFINE k == [t EXCEPT !.arch[d] = None, !.fresh = @ \ {d}]
<1>1. k.there = t.there /\ k.arch = [t.arch EXCEPT ![d] = None] /\ t.arch \in Content
  BY DEF Tree
<1>2. \A c \in Districts : k.arch[c] = IF c = d THEN None ELSE t.arch[c]
  BY <1>1 DEF Content
<1> HIDE DEF k
<1>3. Archives(k) = Archives(t) \ {d}
  BY <1>2 DEF Archives
<1>4. There(t) => There(k)
  BY <1>1, <1>3 DEF There
<1> QED
  BY <1>1, <1>3, <1>4 DEF k

-----------------------------------------------------------------------------
(* Charts.                                                                 *)

LEMMA ChartInvInit ==
  ASSUME Init PROVE ChartInv
<1>1. TypeInv /\ StoppedIsIdle
  BY TypeInvInit DEF Init, StoppedIsIdle
<1> QED
  BY <1>1, NothingThere DEF Init, ChartInv, Whereabouts, Installed

LEMMA ThereNext ==
  ASSUME TypeInv, There(tiles), There(next), [Next]_vars
  PROVE  There(tiles') /\ There(next')
<1> USE DEF TypeInv, TypeOK, history, Unraced
<1>1. ASSUME NEW d \in Districts, Download(d) PROVE There(tiles') /\ There(next')
  <2>1. /\ tiles'.arch = tiles.arch /\ tiles'.there = tiles.there
        /\ next'.arch = next.arch /\ next'.there = next.there
    BY <1>1 DEF Download, Tree
  <2> QED
    BY <2>1 DEF There, Archives
<1>2. CASE DropProviderSet \/ DropCut
  BY <1>2, NothingThere DEF DropProviderSet, DropCut, RemoveTrees
<1>3. CASE Prepare
  <2>1. \/ tiles' = tiles /\ next'.there
        \/ tiles'.there /\ next' = next
    BY <1>3, NothingTypes DEF Prepare, Tree
  <2> QED
    BY <2>1 DEF There
<1>4. CASE BakeWrite
  <2>1. \/ tiles' = tiles /\ next'.there
        \/ tiles'.there /\ next' = next
    BY <1>4 DEF BakeWrite, Tree
  <2> QED
    BY <2>1 DEF There
<1>5. CASE BakeDone
  <2> DEFINE kept(gone) ==
        [BakeTree EXCEPT !.arch = [d \in Districts |-> IF d \in gone THEN None ELSE @[d]]]
  <2>1. BakeTree \in Tree /\ There(BakeTree)
    BY DEF BakeTree
  <2>2. ASSUME NEW gone PROVE There(kept(gone))
    BY <2>1, KeptArchives
  <2>3. PICK gone : \/ tiles' = kept(gone) /\ next' = next
                    \/ next' = NoTree /\ tiles' = tiles
                    \/ next' = kept(gone) /\ tiles' = tiles
    BY <1>5 DEF BakeDone
  <2> HIDE DEF kept
  <2> QED
    BY <2>2, <2>3, NothingThere
<1>6. CASE RemoveOne
  <2>1. CASE tiles' = [tiles EXCEPT !.stamp = None]
    <3>1. tiles'.arch = tiles.arch /\ tiles'.there = tiles.there
      BY <2>1 DEF Tree
    <3> QED
      BY <1>6, <3>1 DEF RemoveOne, There, Archives
  <2>2. ASSUME NEW d \in Districts, tiles' = [tiles EXCEPT !.arch[d] = None, !.fresh = @ \ {d}]
        PROVE  There(tiles')
    BY <2>2, RemovedArchives
  <2>3. CASE tiles' = NoTree
    BY <1>6, <2>3, NothingThere DEF RemoveOne
  <2> QED
    BY <1>6, <2>1, <2>2, <2>3 DEF RemoveOne, Archives
<1>7. CASE SwapRename \/ OpenComposer \/ BootRecover
  BY <1>7, NothingThere DEF SwapRename, OpenComposer, BootRecover
<1>8. CASE UNCHANGED <<tiles, next>>
  BY <1>8
<1> QED
  BY <1>1, <1>2, <1>3, <1>4, <1>5, <1>6, <1>7, <1>8 DEF Next, Request, StartJob, BakeStep, vars,
     disk, RequestDelete, RequestRebake, DeleteSet, SetEnabled, StartBake, StartHeal, StartDelete,
     DropEmpty, BakeRead, BakeFail, Register, BumpLiveGen, Crash, Boot

(* The directory of the served tree is only ever missing before there are  *)
(* charts, in the middle of a swap, and while no process runs.             *)
LEMMA WhereaboutsNext ==
  ASSUME TypeInv, StoppedIsIdle, There(tiles), There(next), Whereabouts, [Next]_vars
  PROVE  Whereabouts'
<1> USE DEF TypeInv, TypeOK, StoppedIsIdle, history, Unraced, MadeGood, When
<1>0. /\ tiles \in Tree /\ next \in Tree /\ job \in Job
      /\ Archives(tiles) \subseteq Districts /\ Archives(next) \subseteq Districts
  BY DEF Archives
<1>1. ASSUME NEW d \in Districts, Download(d) PROVE Whereabouts'
  <2>1. /\ tiles'.there = tiles.there /\ Archives(tiles') = Archives(tiles)
        /\ next'.there = next.there /\ Archives(next') = Archives(next)
        /\ Archives(BakeTree') = Archives(BakeTree)
    <3>1. /\ tiles'.arch = tiles.arch /\ tiles'.there = tiles.there
          /\ next'.arch = next.arch /\ next'.there = next.there
      BY <1>1 DEF Download, Tree
    <3> QED
      BY <1>1, <3>1 DEF Download, Archives, BakeTree, holder
  <2>2. Installed \subseteq Installed'
    BY <1>1 DEF Download, Installed
  <2> QED
    BY <1>1, <2>1, <2>2 DEF Download, Whereabouts, holder, When
<1>2. ASSUME NEW d \in Districts, RequestDelete(d) PROVE Whereabouts'
  BY <1>2 DEF RequestDelete, Whereabouts, Archives, BakeTree, Installed, disk, holder
<1>3. CASE RequestRebake
  BY <1>3 DEF RequestRebake, Whereabouts, Archives, BakeTree, Installed, disk, holder
<1>4. CASE DeleteSet
  <2>1. done' = {} /\ pc' = pc /\ hist' = hist \cup When("raced", pc # "idle")
        /\ tiles' = NoTree /\ job' = job
    BY <1>4 DEF DeleteSet, DropProviderSet, RemoveTrees, holder
  <2>2. "raced" \notin hist' => pc' = "idle"
    BY <2>1
  <2>3. pc' = "rename" => ~tiles'.there
    BY <2>1, NothingThere
  <2> QED
    BY <2>1, <2>2, <2>3 DEF Whereabouts
<1>5. ASSUME NEW on \in BOOLEAN, SetEnabled(on) PROVE Whereabouts'
  BY <1>5 DEF SetEnabled, Whereabouts, Archives, BakeTree, Installed, holder
<1>6. CASE StartBake
  BY <1>6 DEF StartBake, Whereabouts, Archives, Installed, disk
<1>7. CASE StartHeal
  BY <1>7 DEF StartHeal, Whereabouts, Archives, Installed, disk
<1>8. ASSUME NEW d \in Districts, StartDelete(d) PROVE Whereabouts'
  <2>1. Installed \ {d} \subseteq Installed'
    BY <1>8 DEF StartDelete, Installed
  <2>2. done' \subseteq done /\ done' \subseteq Installed'
    BY <1>8, <2>1 DEF StartDelete, Whereabouts
  <2> QED
    BY <1>8, <2>2 DEF StartDelete, Whereabouts, Archives
<1>9. CASE DropEmpty
  BY <1>9 DEF DropEmpty, DropProviderSet, Finish, Whereabouts
<1>10. CASE Prepare
  <2>1. /\ job'.todo = Installed /\ pc' = "bake" /\ Installed' = Installed
        /\ done' = done /\ phase' = phase /\ phase = "up" /\ pc = "prepare"
    BY <1>10 DEF Prepare, Job, Installed
  <2>4. "torn" \in hist' <=> "torn" \in hist
    BY <1>10 DEF Prepare
  <2>5. "raced" \in hist' <=> "raced" \in hist
    BY <1>10 DEF Prepare
  <2>6. ASSUME "torn" \in hist', "discarded" \notin hist' PROVE done \subseteq Archives(next')
    <3>1. done \subseteq Archives(next)
      BY <1>10, <2>4, <2>6 DEF Prepare, Whereabouts
    <3>2. Archives([next EXCEPT !.there = TRUE, !.stamp = engine]) = Archives(next)
      BY DEF Archives, Tree
    <3>3. next' \in {next, [next EXCEPT !.there = TRUE, !.stamp = engine]}
      BY <1>10, <2>4, <2>6 DEF Prepare
    <3> QED
      BY <3>1, <3>2, <3>3
  <2>2. CASE tiles' = tiles
    BY <2>1, <2>2, <2>4, <2>5, <2>6 DEF Whereabouts, Archives
  <2>3. CASE tiles' = [tiles EXCEPT !.there = TRUE, !.stamp = engine] /\ next' = next
    <3>1. Archives(tiles') = Archives(tiles) /\ tiles'.there
      BY <2>3 DEF Archives, Tree
    <3>2. done = {} \/ tiles.there
      BY <2>1 DEF Whereabouts
    <3> QED
      BY <2>1, <2>4, <2>5, <2>6, <3>1, <3>2 DEF Whereabouts
  <2> QED
    BY <1>10, <2>2, <2>3 DEF Prepare
<1>11. ASSUME NEW d \in Districts, BakeRead(d) PROVE Whereabouts'
  <2>1. /\ pc' = "bake" /\ pc = "bake" /\ Installed' = Installed /\ done' = done
        /\ job'.staged = job.staged /\ Archives(BakeTree') = Archives(BakeTree)
        /\ Archives(tiles') = Archives(tiles) /\ Archives(next') = Archives(next)
        /\ tiles' = tiles /\ phase' = phase /\ hist' = hist
    <3>1. job'.staged = job.staged
      BY <1>11 DEF BakeRead, Job
    <3> QED
      BY <1>11, <3>1 DEF BakeRead, disk, Installed, BakeTree, Archives
  <2>2. ASSUME NEW c \in done PROVE c \in job'.todo \/ c \in Archives(BakeTree)
    <3>1. c \in job.todo \/ c \in Archives(BakeTree)
      BY <2>1 DEF Whereabouts
    <3>2. CASE job'.todo = job.todo
      BY <3>1, <3>2
    <3>3. CASE job'.todo = job.todo \ {d} /\ (src[d] = 0 \/ UpToDate(BakeTree, d))
      <4>1. c = d => c \in Archives(BakeTree)
        BY <3>3 DEF Whereabouts, Installed, UpToDate, Archives
      <4> QED
        BY <3>1, <3>3, <4>1
    <3> QED
      BY <1>11, <3>2, <3>3 DEF BakeRead, Job
  <2> QED
    BY <2>1, <2>2 DEF Whereabouts
<1>12. CASE BakeWrite
  <2>1. /\ pc' = "bake" /\ pc = "bake" /\ Installed' = Installed /\ done' = done
        /\ phase' = phase /\ phase = "up" /\ hist' = hist
        /\ job'.staged = job.staged /\ job'.todo = job.todo \ {job.cell}
    BY <1>12 DEF BakeWrite, Job, Installed
  <2>2. job.cell \in Districts /\ <<engine, job.ed>> \in Archive
    <3>1. job.cell \in Districts /\ job.ed \in 1 .. MaxEdition
      <4>1. job.cell \in Districts \cup {None} /\ job.ed \in 0 .. MaxEdition
        BY JobTypes
      <4> QED
        BY <1>12, <4>1, ConstantsAssumption DEF BakeWrite, BakedHasSource
    <3> QED
      BY <3>1 DEF Archive
  <2>3. CASE job.staged
    <3>1. tiles' = tiles /\ Archives(next') = Archives(next) \cup {job.cell}
      BY <1>12, <2>2, <2>3, WrittenArchives DEF BakeWrite
    <3> QED
      BY <2>1, <2>3, <3>1 DEF Whereabouts, BakeTree, Archives
  <2>4. CASE ~job.staged
    <3>1. /\ next' = next /\ tiles'.there
          /\ Archives(tiles') = Archives(tiles) \cup {job.cell}
      <4>1. /\ next' = next
            /\ tiles' = [tiles EXCEPT !.there = TRUE, !.arch[job.cell] = <<engine, job.ed>>,
                                      !.fresh = @ \cup {job.cell}]
        BY <1>12, <2>4 DEF BakeWrite
      <4> QED
        BY <2>2, <4>1, WrittenArchives
    <3>2. done = {} \/ tiles.there
      BY <2>1 DEF Whereabouts
    <3> QED
      BY <2>1, <2>4, <3>1, <3>2 DEF Whereabouts, BakeTree
  <2> QED
    BY <2>3, <2>4
<1>13. CASE BakeFail
  BY <1>13 DEF BakeFail, Finish, Whereabouts, Archives, Installed, disk
<1>14. CASE BakeDone
  <2> DEFINE kept(gone) ==
        [BakeTree EXCEPT !.arch = [d \in Districts |-> IF d \in gone THEN None ELSE @[d]]]
  <2>1. /\ pc = "bake" /\ phase' = phase /\ phase = "up" /\ done' = done
        /\ Installed' = Installed /\ job.todo = {}
    BY <1>14 DEF BakeDone, EveryCellBaked, Installed
  <2>2. BakeTree \in Tree /\ done \subseteq Archives(BakeTree) /\ done \subseteq Installed
    BY <2>1 DEF BakeTree, Whereabouts
  <2>3. ASSUME NEW gone, gone \in {{}, Archives(BakeTree) \ Installed}
        PROVE  done \subseteq Archives(kept(gone)) /\ kept(gone).there = BakeTree.there
    <3>1. Archives(kept(gone)) = Archives(BakeTree) \ gone /\ kept(gone).there = BakeTree.there
      BY <2>2, KeptArchives
    <3> HIDE DEF kept
    <3> QED
      BY <2>2, <2>3, <3>1
  <2>4. PICK gone \in {{}, Archives(BakeTree) \ Installed} :
          \/ ~job.staged /\ tiles' = kept(gone) /\ pc' = "open" /\ next' = next /\ hist' = hist
          \/ Archives(kept(gone)) = {} /\ pc' = "idle" /\ tiles' = tiles
             /\ hist' = hist \ {"raced"}
          \/ next' = kept(gone) /\ pc' = "remove" /\ tiles' = tiles
             /\ hist' = hist \ {"discarded"}
    BY <1>14 DEF BakeDone, Finish
  <2>5. done \subseteq Archives(kept(gone)) /\ kept(gone).there = BakeTree.there
    BY <2>3
  <2> HIDE DEF kept
  <2>6. CASE ~job.staged /\ tiles' = kept(gone) /\ pc' = "open" /\ next' = next /\ hist' = hist
    <3>1. tiles'.there = tiles.there /\ done \subseteq Archives(tiles')
      BY <2>5, <2>6 DEF BakeTree
    <3> QED
      BY <2>1, <2>6, <3>1 DEF Whereabouts
  <2>7. CASE Archives(kept(gone)) = {} /\ pc' = "idle" /\ tiles' = tiles
             /\ hist' = hist \ {"raced"}
    BY <2>1, <2>5, <2>7 DEF Whereabouts
  <2>8. CASE next' = kept(gone) /\ pc' = "remove" /\ tiles' = tiles
             /\ hist' = hist \ {"discarded"}
    BY <2>1, <2>5, <2>8 DEF Whereabouts
  <2> QED
    BY <2>4, <2>6, <2>7, <2>8
<1>15. CASE RemoveOne
  <2>1. /\ pc = "remove" /\ next' = next /\ done' = done /\ phase' = phase /\ hist' = hist
        /\ Installed' = Installed /\ done \subseteq Archives(next)
    BY <1>15 DEF RemoveOne, Installed, Whereabouts
  <2>2. CASE pc' = "remove" /\ tiles'.there = tiles.there
    BY <2>1, <2>2 DEF Whereabouts
  <2>3. CASE pc' = "rename" /\ tiles' = NoTree
    BY <2>1, <2>3, NothingThere DEF Whereabouts
  <2>4. \/ pc' = "remove" /\ tiles'.there = tiles.there
        \/ pc' = "rename" /\ tiles' = NoTree
    <3>1. [tiles EXCEPT !.stamp = None].there = tiles.there
      BY DEF Tree
    <3>2. \A d \in Districts : [tiles EXCEPT !.arch[d] = None, !.fresh = @ \ {d}].there = tiles.there
      BY DEF Tree
    <3> QED
      BY <1>15, <3>1, <3>2 DEF RemoveOne, Archives
  <2> QED
    BY <2>2, <2>3, <2>4
<1>16. CASE SwapRename
  <2>1. /\ pc = "rename" /\ phase' = phase /\ phase = "up" /\ done' = done
        /\ Installed' = Installed /\ done \subseteq Archives(next) /\ ~tiles.there
    BY <1>16 DEF SwapRename, Installed, Whereabouts
  <2>2. CASE next.there
    BY <1>16, <2>1, <2>2 DEF SwapRename, Whereabouts, Archives
  <2>3. CASE ~next.there
    <3>1. done = {}
      BY <2>1, <2>3 DEF There
    <3> QED
      BY <1>16, <2>1, <2>3, <3>1 DEF SwapRename, Finish, Whereabouts
  <2> QED
    BY <2>2, <2>3
<1>17. CASE OpenComposer
  <2>1. /\ pc = "open" /\ done' = done /\ Installed' = Installed /\ next' = next
        /\ done \subseteq Archives(tiles) /\ phase' = phase
    BY <1>17 DEF OpenComposer, Installed, Whereabouts
  <2>2. CASE Archives(tiles) = {}
    BY <1>17, <2>1, <2>2 DEF OpenComposer, Finish, Whereabouts
  <2>3. CASE Archives(tiles) # {}
    <3>1. tiles' = tiles /\ pc' = "register" /\ job'.src = tiles.arch /\ hist' = hist
      BY <1>17, <2>3 DEF OpenComposer, Job
    <3> QED
      BY <2>1, <3>1 DEF Whereabouts, Archives
  <2> QED
    BY <2>2, <2>3
<1>18. CASE Register
  <2>1. /\ pc' = "bump" /\ tiles' = tiles /\ phase' = phase /\ Installed' = Installed
        /\ done' \subseteq Installed /\ done' \subseteq Archives(tiles)
        /\ "torn" \notin hist' /\ ("raced" \in hist' => done' = {})
    BY <1>18 DEF Register, Installed, Whereabouts, Archives
  <2> QED
    BY <2>1 DEF Whereabouts, There, Archives
<1>19. CASE BumpLiveGen
  BY <1>19 DEF BumpLiveGen, Finish, Whereabouts, Archives, Installed
<1>20. CASE Crash
  <2>1. /\ pc' = "idle" /\ phase' = "down" /\ src' = src
        /\ pc = "remove" => "torn" \in hist'
        /\ "torn" \in hist => "torn" \in hist'
        /\ "torn" \in hist' => "torn" \in hist \/ pc = "remove"
        /\ "discarded" \in hist => "discarded" \in hist'
        /\ "raced" \notin hist'
    BY <1>20 DEF Crash, DropCut, Finish, disk
  <2>2. CASE UNCHANGED <<tiles, next, done>> /\ pc \in {"remove", "rename"}
    BY <2>1, <2>2 DEF Whereabouts, Archives, Installed
  <2>3. CASE UNCHANGED <<tiles, next, done>> /\ pc \notin {"remove", "rename"}
    BY <2>1, <2>3 DEF Whereabouts, Archives, Installed
  <2>4. CASE done' = {}
    BY <2>1, <2>4 DEF Whereabouts
  <2> QED
    BY <1>20, <2>2, <2>3, <2>4 DEF Crash, DropCut, disk
<1>21. CASE BootRecover
  <2>1. /\ pc = "idle" /\ pc' = "idle" /\ tiles' = next /\ done' = done /\ ~tiles.there
        /\ next.there /\ Installed' = Installed
    BY <1>21 DEF BootRecover, holder, Installed
  <2>3. "torn" \notin hist' /\ ("raced" \in hist' => done = {})
    BY <1>21 DEF BootRecover, Whereabouts
  <2>2. done \subseteq Archives(next)
    BY <2>1 DEF Whereabouts
  <2> QED
    BY <2>1, <2>2, <2>3 DEF Whereabouts, Archives
<1>22. CASE Boot
  <2>1. /\ pc = "idle" /\ pc' = "idle" /\ UNCHANGED <<tiles, next, done, hist>>
        /\ Installed' = Installed
    BY <1>22 DEF Boot, holder, Installed
  <2>2. tiles.there \/ done = {}
    <3>1. CASE phase = "recovering"
      BY <2>1, <3>1 DEF Whereabouts
    <3>2. CASE phase = "down" /\ ~tiles.there
      BY <1>22, <2>1, <3>2 DEF Boot, Whereabouts, There
    <3> QED
      BY <1>22, <3>1, <3>2 DEF Boot
  <2> QED
    BY <2>1, <2>2 DEF Whereabouts, Archives
<1>23. CASE UNCHANGED vars
  BY <1>23 DEF vars, disk, holder, Whereabouts, Archives, BakeTree, Installed
<1> QED
  BY <1>1, <1>2, <1>3, <1>4, <1>5, <1>6, <1>7, <1>8, <1>9, <1>10, <1>11, <1>12,
     <1>13, <1>14, <1>15, <1>16, <1>17, <1>18, <1>19, <1>20, <1>21, <1>22, <1>23
     DEF Next, Request, StartJob, BakeStep

LEMMA ChartInvNext ==
  ASSUME ChartInv, [Next]_vars
  PROVE  ChartInv'
<1>1. TypeInv' /\ StoppedIsIdle' /\ There(tiles') /\ There(next')
  BY TypeInvNext, StoppedIsIdleNext, ThereNext DEF ChartInv, TypeInv
<1>2. Whereabouts'
  BY WhereaboutsNext DEF ChartInv
<1> QED
  BY <1>1, <1>2 DEF ChartInv

-----------------------------------------------------------------------------
(* Editions.                                                               *)

LEMMA NothingFresh == Fresh(NoTree)
  BY DEF Fresh, NoTree, NoContent, Archives

(* What may be done to a tree without an archive passing for newer than it *)
(* is: an archive may go, or stop being fresh.                             *)
LEMMA FewerFresh ==
  ASSUME NEW t \in Tree, NEW u \in Tree, Fresh(t), u.fresh \subseteq t.fresh,
         \A d \in Districts : u.arch[d] \in {t.arch[d], None}
  PROVE  Fresh(u)
  BY DEF Fresh, Archives, Current

LEMMA EditionInvInit ==
  ASSUME Init PROVE EditionInv
<1>1. TypeInv
  BY TypeInvInit
<1>2. job.cell = None /\ pc = "idle"
  BY NothingTypes DEF Init
<1> QED
  BY <1>1, <1>2, NothingFresh DEF Init, EditionInv, Progress, Baked, ReadsOnce, BakingOnly

LEMMA BakingOnlyNext ==
  ASSUME TypeInv, BakingOnly, [Next]_vars
  PROVE  BakingOnly'
<1> USE NothingTypes DEF TypeInv, TypeOK, BakingOnly, history, Unraced
<1>1. CASE Request \/ StartBake \/ (\E d \in Districts : StartDelete(d)) \/ Register \/ Boot \/ BootRecover
  BY <1>1 DEF Request, Download, RequestDelete, RequestRebake, DeleteSet, SetEnabled, holder,
     StartBake, StartDelete, Register, Boot, BootRecover
<1>2. CASE StartHeal
  BY <1>2 DEF StartHeal, NoJob
<1>3. CASE DropEmpty \/ BakeFail \/ BumpLiveGen \/ Crash
  BY <1>3 DEF DropEmpty, BakeFail, BumpLiveGen, Crash, Finish
<1>4. CASE Prepare
  BY <1>4 DEF Prepare
<1>5. CASE (\E d \in Districts : BakeRead(d)) \/ BakeWrite
  <2>1. pc' = "bake"
    BY <1>5 DEF BakeRead, BakeWrite
  <2> QED
    BY <2>1
<1>6. CASE BakeDone
  BY <1>6 DEF BakeDone, EveryCellBaked, Finish
<1>7. CASE RemoveOne
  BY <1>7 DEF RemoveOne
<1>8. CASE SwapRename
  BY <1>8 DEF SwapRename, Finish
<1>9. CASE OpenComposer
  BY <1>9 DEF OpenComposer, Finish, Job
<1>10. CASE UNCHANGED vars
  BY <1>10 DEF vars, holder
<1> QED
  BY <1>1, <1>2, <1>3, <1>4, <1>5, <1>6, <1>7, <1>8, <1>9, <1>10 DEF Next, StartJob, BakeStep

(* The fresh archives of both trees.                                       *)
LEMMA FreshNext ==
  ASSUME TypeInv, BakingOnly, Fresh(tiles), Fresh(next), ReadsOnce, [Next]_vars
  PROVE  Fresh(tiles)' /\ Fresh(next)'
<1> USE DEF TypeInv, TypeOK, history, Unraced
<1>0. tiles \in Tree /\ next \in Tree /\ tiles' \in Tree /\ next' \in Tree
  BY TypeInvNext
<1>1. ASSUME NEW d \in Districts, Download(d) PROVE Fresh(tiles)' /\ Fresh(next)'
  <2>1. /\ \A c \in Districts \ {d} : src'[c] = src[c]
        /\ tiles'.arch = tiles.arch /\ tiles'.fresh = tiles.fresh \ {d}
        /\ next'.arch = next.arch /\ next'.fresh = next.fresh \ {d}
    BY <1>1 DEF Download, Tree
  <2>2. \A c \in Districts \ {d} : c \in rewritten' <=> c \in rewritten
    BY <1>1 DEF Download
  <2> QED
    BY <2>1, <2>2 DEF Fresh, Archives, Current, Installed
<1>2. CASE tiles' = NoTree /\ next' = NoTree
  BY <1>2 DEF Fresh, NoTree, NoContent, Archives
<1>3. ASSUME NEW d \in Districts, StartDelete(d) PROVE Fresh(tiles)' /\ Fresh(next)'
  <2>1. \A c \in Districts : src'[c] # 0 => src'[c] = src[c]
    BY <1>3 DEF StartDelete
  <2> QED
    BY <1>3, <2>1 DEF StartDelete, Fresh, Archives, Current, Installed
<1>4. CASE BakeWrite
  <2>1. /\ job.cell \in Districts /\ src' = src /\ rewritten' = rewritten
        /\ job.cell \in rewritten \/ src[job.cell] \in {0, job.ed}
    BY <1>4, JobTypes DEF BakeWrite, ReadsOnce
  <2>2. ASSUME NEW t \in Tree, Fresh(t)
        PROVE  Fresh([t EXCEPT !.there = TRUE, !.arch[job.cell] = <<engine, job.ed>>,
                               !.fresh = @ \cup {job.cell}])
    <3> DEFINE w == [t EXCEPT !.there = TRUE, !.arch[job.cell] = <<engine, job.ed>>,
                              !.fresh = @ \cup {job.cell}]
    <3>1. w.arch = [t.arch EXCEPT ![job.cell] = <<engine, job.ed>>] /\ t.arch \in Content
          /\ w.fresh = t.fresh \cup {job.cell}
      BY DEF Tree
    <3>2. \A c \in Districts : w.arch[c] = IF c = job.cell THEN <<engine, job.ed>> ELSE t.arch[c]
      BY <3>1 DEF Content
    <3> HIDE DEF w
    <3>3. ASSUME NEW c \in w.fresh \cap Installed \cap Archives(w) PROVE Current(w.arch, c)
      <4>1. CASE c = job.cell
        <5>1. w.arch[c] = <<engine, job.ed>> /\ w.arch[c] # None /\ src[c] # 0
          BY <3>2, <3>3, <4>1 DEF Archives, Installed
        <5>2. <<engine, job.ed>>[2] = job.ed
          OBVIOUS
        <5> QED
          BY <2>1, <4>1, <5>1, <5>2 DEF Current
      <4>2. CASE c # job.cell
        BY <2>2, <3>1, <3>2, <3>3, <4>2 DEF Fresh, Archives, Current, Installed
      <4> QED
        BY <4>1, <4>2
    <3> QED
      BY <3>3 DEF Fresh, w
  <2>3. \/ tiles' = tiles /\ Fresh(next')
        \/ Fresh(tiles') /\ next' = next
    BY <1>4, <2>2 DEF BakeWrite
  <2> QED
    BY <2>1, <2>3 DEF Fresh, Installed, Current
<1>5. ASSUME src' = src /\ rewritten' = rewritten,
             tiles'.fresh \subseteq tiles.fresh, next'.fresh \subseteq next.fresh,
             \A d \in Districts : /\ tiles'.arch[d] \in {tiles.arch[d], None}
                                  /\ next'.arch[d] \in {next.arch[d], None}
      PROVE  Fresh(tiles)' /\ Fresh(next)'
  <2>1. Fresh(tiles') /\ Fresh(next')
    BY <1>0, <1>5, FewerFresh
  <2> QED
    BY <1>5, <2>1 DEF Fresh, Installed, Current
<1>6. CASE Prepare \/ BakeDone \/ RemoveOne
  <2>1. src' = src /\ rewritten' = rewritten
    BY <1>6 DEF Prepare, BakeDone, RemoveOne
  <2>2. CASE Prepare
    <3>1. /\ \A d \in Districts : /\ tiles'.arch[d] \in {tiles.arch[d], None}
                                  /\ next'.arch[d] \in {next.arch[d], None}
          /\ tiles'.fresh \subseteq tiles.fresh /\ next'.fresh \subseteq next.fresh
      <4>1. ASSUME NEW t \in Tree
            PROVE  LET u == [t EXCEPT !.there = TRUE, !.stamp = engine]
                   IN  u.arch = t.arch /\ u.fresh = t.fresh
        BY DEF Tree
      <4>2. NoTree \in Tree /\ NoTree.fresh = {} /\ \A d \in Districts : NoTree.arch[d] = None
        BY NothingTypes DEF NoTree, NoContent
      <4> QED
        BY <2>2, <4>1, <4>2 DEF Prepare
    <3> QED
      BY <1>5, <2>1, <3>1
  <2>3. CASE BakeDone
    <3> DEFINE kept(gone) ==
          [BakeTree EXCEPT !.arch = [d \in Districts |-> IF d \in gone THEN None ELSE @[d]]]
    <3>1. ASSUME NEW gone
          PROVE  /\ \A d \in Districts : kept(gone).arch[d] \in {BakeTree.arch[d], None}
                 /\ kept(gone).fresh = BakeTree.fresh
      BY DEF BakeTree, Tree
    <3>2. PICK gone : \/ ~job.staged /\ tiles' = kept(gone) /\ next' = next
                      \/ next' = NoTree /\ tiles' = tiles
                      \/ job.staged /\ next' = kept(gone) /\ tiles' = tiles
      BY <2>3 DEF BakeDone
    <3> HIDE DEF kept
    <3>3. NoTree.fresh = {} /\ \A d \in Districts : NoTree.arch[d] = None
      BY DEF NoTree, NoContent
    <3>4. /\ \A d \in Districts : /\ tiles'.arch[d] \in {tiles.arch[d], None}
                                  /\ next'.arch[d] \in {next.arch[d], None}
          /\ tiles'.fresh \subseteq tiles.fresh /\ next'.fresh \subseteq next.fresh
      BY <3>1, <3>2, <3>3 DEF BakeTree
    <3> QED
      BY <1>5, <2>1, <3>4
  <2>4. CASE RemoveOne
    <3>1. /\ [tiles EXCEPT !.stamp = None].arch = tiles.arch
          /\ [tiles EXCEPT !.stamp = None].fresh = tiles.fresh
      BY DEF Tree
    <3>2. ASSUME NEW d \in Districts
          PROVE  LET u == [tiles EXCEPT !.arch[d] = None, !.fresh = @ \ {d}]
                 IN  u.fresh = tiles.fresh \ {d} /\ u.arch = [tiles.arch EXCEPT ![d] = None]
      BY DEF Tree
    <3>3. \A d \in Districts, c \in Districts :
            [tiles.arch EXCEPT ![d] = None][c] \in {tiles.arch[c], None}
      BY DEF Tree, Content
    <3>4. NoTree.fresh = {} /\ \A d \in Districts : NoTree.arch[d] = None
      BY DEF NoTree, NoContent
    <3>5. /\ next' = next /\ tiles'.fresh \subseteq tiles.fresh
          /\ \A d \in Districts : tiles'.arch[d] \in {tiles.arch[d], None}
      BY <2>4, <3>1, <3>2, <3>3, <3>4 DEF RemoveOne, Archives
    <3> QED
      BY <1>5, <2>1, <3>5
  <2> QED
    BY <1>6, <2>2, <2>3, <2>4
<1>7. CASE SwapRename \/ OpenComposer \/ BootRecover
  <2>1. src' = src /\ rewritten' = rewritten /\ tiles' \in {tiles, next, NoTree} /\ next' \in {next, NoTree}
    BY <1>7 DEF SwapRename, OpenComposer, BootRecover
  <2>2. Fresh(tiles') /\ Fresh(next')
    BY <2>1, NothingFresh
  <2> QED
    BY <2>1, <2>2 DEF Fresh, Installed, Current
<1>8. CASE UNCHANGED <<src, rewritten, tiles, next>>
  BY <1>8 DEF Fresh, Archives, Current, Installed
<1> QED
  BY <1>1, <1>2, <1>3, <1>4, <1>6, <1>7, <1>8 DEF Next, Request, StartJob, BakeStep, vars,
     disk, RequestDelete, RequestRebake, DeleteSet, SetEnabled, StartBake, StartHeal,
     DropEmpty, DropProviderSet, DropCut, RemoveTrees, BakeRead, BakeFail, Register,
     BumpLiveGen, Crash, Boot

(* The edition a bake has read stays that on disk.                         *)
LEMMA ReadsOnceNext ==
  ASSUME TypeInv, BakingOnly, ReadsOnce, [Next]_vars
  PROVE  ReadsOnce'
<1> USE DEF TypeInv, TypeOK, ReadsOnce, BakingOnly, history, Unraced
<1>1. ASSUME NEW d \in Districts, Download(d) PROVE ReadsOnce'
  <2>1. job' = job /\ \A c \in Districts \ {d} : src'[c] = src[c]
    BY <1>1 DEF Download, holder
  <2>2. CASE job.cell = d
    BY <1>1, <2>1, <2>2 DEF Download
  <2>3. CASE job.cell # d /\ job.cell # None
    <3>1. job.cell \in Districts \ {d}
      BY <2>3, JobTypes
    <3>2. src'[job.cell] = src[job.cell] /\ (job.cell \in rewritten' <=> job.cell \in rewritten)
      BY <1>1, <2>1, <3>1 DEF Download
    <3> QED
      BY <2>1, <3>2
  <2> QED
    BY <2>1, <2>2, <2>3
<1>2. CASE DeleteSet
  <2>1. job' = job /\ rewritten' = rewritten /\ \A c \in Districts : src'[c] = 0
    BY <1>2 DEF DeleteSet, DropProviderSet, holder
  <2>2. job.cell \in Districts \cup {None}
    BY JobTypes
  <2> QED
    BY <2>1, <2>2
<1>3. ASSUME NEW d \in Districts, BakeRead(d) PROVE ReadsOnce'
  BY <1>3 DEF BakeRead, Job, disk
<1>4. CASE job'.cell = None
  BY <1>4
<1>5. CASE job' = job /\ src' = src /\ rewritten' = rewritten
  BY <1>5
<1>6. CASE DropEmpty \/ BakeFail \/ BumpLiveGen \/ Crash \/ BakeWrite \/ StartHeal
  <2>1. job'.cell = None
    BY <1>6, NothingTypes DEF DropEmpty, BakeFail, BumpLiveGen, Crash, Finish, BakeWrite, Job,
       StartHeal, NoJob
  <2> QED
    BY <2>1
<1>7. CASE Prepare \/ OpenComposer
  <2>1. job.cell = None
    BY <1>7 DEF Prepare, OpenComposer
  <2>2. job'.cell = job.cell \/ job' = NoJob
    BY <1>7 DEF Prepare, OpenComposer, Finish, Job
  <2> QED
    BY <2>1, <2>2, NothingTypes
<1>8. CASE BakeDone \/ SwapRename
  <2>1. (job' = job /\ src' = src /\ rewritten' = rewritten) \/ job' = NoJob
    BY <1>8 DEF BakeDone, SwapRename, Finish
  <2> QED
    BY <2>1, NothingTypes
<1>9. ASSUME NEW d \in Districts, StartDelete(d) PROVE ReadsOnce'
  BY <1>9 DEF StartDelete
<1> QED
  BY <1>1, <1>2, <1>3, <1>5, <1>6, <1>7, <1>8, <1>9 DEF Next, Request, StartJob, BakeStep, vars,
     disk, holder, RequestDelete, RequestRebake, SetEnabled, StartBake, RemoveOne, Register,
     BootRecover, Boot

LEMMA BakedNext ==
  ASSUME TypeInv, StoppedIsIdle, BakingOnly, Progress, [Next]_vars
  PROVE  Baked'
<1> USE DEF TypeInv, TypeOK, history, Unraced
<1>0. Fresh(tiles) /\ Fresh(next) /\ ReadsOnce /\ Baked
  BY DEF Progress
<1> SUFFICES ASSUME waiting' = 0, NEW d \in Installed'
             PROVE  /\ pc' = "bake" => d \in job'.todo \/ Current(BakeTree.arch, d)'
                    /\ pc' \in {"remove", "rename"} => Current(next.arch, d)'
                    /\ pc' = "open" => Current(tiles.arch, d)'
                    /\ pc' = "register" => Current(job.src, d)'
  BY DEF Baked
<1> DEFINE Goal == /\ pc' = "bake" => d \in job'.todo \/ Current(BakeTree.arch, d)'
                   /\ pc' \in {"remove", "rename"} => Current(next.arch, d)'
                   /\ pc' = "open" => Current(tiles.arch, d)'
                   /\ pc' = "register" => Current(job.src, d)'
<1>1. CASE pc' \in {"idle", "drop", "prepare", "bump"}
  BY <1>1
<1>2. CASE UNCHANGED <<waiting, src, rewritten, tiles, next, holder>>
  BY <1>0, <1>2 DEF Baked, Installed, BakeTree, Current, holder
<1>3. ASSUME NEW c \in Districts, Download(c) PROVE Goal
  BY <1>3 DEF Download
<1>4. CASE RequestRebake
  BY <1>4 DEF RequestRebake
<1>5. CASE DeleteSet
  BY <1>5 DEF DeleteSet, DropProviderSet, Installed
<1>6. CASE Prepare
  <2>1. pc' = "bake" /\ job'.todo = Installed'
    BY <1>6 DEF Prepare, Job, Installed
  <2> QED
    BY <2>1
<1>7. ASSUME NEW c \in Districts, BakeRead(c) PROVE Goal
  <2>1. /\ pc = "bake" /\ pc' = "bake" /\ src' = src /\ rewritten' = rewritten /\ waiting = 0 /\ d \in Installed
        /\ BakeTree' = BakeTree
    <3>1. job'.staged = job.staged
      BY <1>7 DEF BakeRead, Job
    <3> QED
      BY <1>7, <3>1 DEF BakeRead, disk, queue, Installed, BakeTree
  <2>2. d \in job.todo \/ Current(BakeTree.arch, d)
    BY <1>0, <2>1 DEF Baked
  <2>3. CASE job'.todo = job.todo
    BY <2>1, <2>2, <2>3 DEF Current
  <2>4. CASE job'.todo = job.todo \ {c} /\ (src[c] = 0 \/ UpToDate(BakeTree, c))
    <3>1. c = d => Current(BakeTree.arch, d)
      BY <1>0, <2>1, <2>4 DEF Installed, UpToDate, BakeTree, Fresh, Archives
    <3> QED
      BY <2>1, <2>2, <2>4, <3>1 DEF Current
  <2> QED
    BY <1>7, <2>3, <2>4 DEF BakeRead, Job
<1>8. CASE BakeWrite
  <2>1. /\ pc = "bake" /\ pc' = "bake" /\ src' = src /\ rewritten' = rewritten /\ waiting = 0 /\ d \in Installed
        /\ job'.staged = job.staged /\ job'.todo = job.todo \ {job.cell}
        /\ job.cell \in Districts /\ BakeTree \in Tree
        /\ job.cell \in rewritten \/ src[job.cell] \in {0, job.ed}
    BY <1>0, <1>8, JobTypes DEF BakeWrite, Job, queue, Installed, ReadsOnce, BakeTree
  <2>2. d \in job.todo \/ Current(BakeTree.arch, d)
    BY <1>0, <2>1 DEF Baked
  <2>3. BakeTree' = [BakeTree EXCEPT !.there = TRUE, !.arch[job.cell] = <<engine, job.ed>>,
                                     !.fresh = @ \cup {job.cell}]
    BY <1>8, <2>1 DEF BakeWrite, BakeTree
  <2>4. BakeTree'.arch = [BakeTree.arch EXCEPT ![job.cell] = <<engine, job.ed>>]
    BY <2>1, <2>3 DEF Tree
  <2>5. /\ BakeTree'.arch[job.cell] = <<engine, job.ed>>
        /\ d # job.cell => BakeTree'.arch[d] = BakeTree.arch[d]
    BY <2>1, <2>4 DEF Tree, Content, Installed
  <2>6. <<engine, job.ed>> # None
    <3>1. job.ed \in 0 .. MaxEdition /\ job.ed # 0
      BY <1>8, JobTypes DEF BakeWrite, BakedHasSource
    <3>2. job.ed \in 1 .. MaxEdition
      BY <3>1, ConstantsAssumption
    <3> QED
      BY <3>2, ConstantsAssumption
  <2>7. CASE d = job.cell
    <3>1. BakeTree'.arch[d] = <<engine, job.ed>> /\ (d \notin rewritten' => job.ed = src'[d])
      BY <2>1, <2>5, <2>7 DEF Installed
    <3>2. <<engine, job.ed>>[2] = job.ed
      OBVIOUS
    <3>3. Current(BakeTree.arch, d)'
      BY <2>6, <3>1, <3>2 DEF Current
    <3> QED
      BY <2>1, <3>3
  <2>8. CASE d # job.cell
    BY <2>1, <2>2, <2>5, <2>8 DEF Current
  <2> QED
    BY <2>7, <2>8
<1>9. CASE BakeDone
  <2> DEFINE kept(gone) ==
        [BakeTree EXCEPT !.arch = [c \in Districts |-> IF c \in gone THEN None ELSE @[c]]]
  <2>1. /\ pc = "bake" /\ src' = src /\ rewritten' = rewritten /\ waiting = 0 /\ d \in Installed /\ job.todo = {}
    BY <1>9 DEF BakeDone, EveryCellBaked, queue, Installed
  <2>2. Current(BakeTree.arch, d) /\ BakeTree \in Tree /\ d \in Districts
    BY <1>0, <2>1 DEF Baked, BakeTree, Installed
  <2>3. ASSUME NEW gone, gone \in {{}, Archives(BakeTree) \ Installed}
        PROVE  kept(gone).arch[d] = BakeTree.arch[d]
    <3>1. kept(gone).arch = [c \in Districts |-> IF c \in gone THEN None ELSE BakeTree.arch[c]]
      BY <2>2 DEF Tree
    <3> HIDE DEF kept
    <3> QED
      BY <2>1, <2>2, <2>3, <3>1
  <2>4. PICK gone \in {{}, Archives(BakeTree) \ Installed} :
          \/ tiles' = kept(gone) /\ pc' = "open"
          \/ pc' = "idle"
          \/ next' = kept(gone) /\ pc' = "remove"
    BY <1>9 DEF BakeDone, Finish
  <2>5. kept(gone).arch[d] = BakeTree.arch[d]
    BY <2>3
  <2> HIDE DEF kept
  <2> QED
    BY <2>1, <2>2, <2>4, <2>5 DEF Current
<1>10. CASE RemoveOne
  <2>1. /\ pc = "remove" /\ pc' \in {"remove", "rename"} /\ next' = next /\ src' = src /\ rewritten' = rewritten
        /\ waiting = 0 /\ d \in Installed
    BY <1>10 DEF RemoveOne, queue, Installed
  <2> QED
    BY <1>0, <2>1 DEF Baked, Current
<1>11. CASE SwapRename
  <2>1. /\ pc = "rename" /\ src' = src /\ rewritten' = rewritten /\ waiting = 0 /\ d \in Installed
        /\ \/ pc' = "idle"
           \/ pc' = "open" /\ tiles' = next
    BY <1>11 DEF SwapRename, Finish, queue, Installed
  <2> QED
    BY <1>0, <2>1 DEF Baked, Current
<1>12. CASE OpenComposer
  <2>1. /\ pc = "open" /\ src' = src /\ rewritten' = rewritten /\ waiting = 0 /\ d \in Installed
        /\ \/ pc' = "idle"
           \/ pc' = "register" /\ job'.src = tiles.arch
    BY <1>12 DEF OpenComposer, Finish, queue, Installed, Job
  <2> QED
    BY <1>0, <2>1 DEF Baked, Current
<1>13. CASE StartJob \/ DropEmpty \/ BakeFail \/ Register \/ BumpLiveGen \/ Crash \/ BootRecover \/ Boot
  <2>1. pc' \in {"idle", "drop", "prepare", "bump"}
    BY <1>13 DEF StartJob, StartBake, StartHeal, StartDelete, DropEmpty, BakeFail, Finish, Register,
       BumpLiveGen, Crash, BootRecover, Boot, StoppedIsIdle, holder
  <2> QED
    BY <1>1, <2>1
<1>14. CASE (\E c \in Districts : RequestDelete(c)) \/ (\E on \in BOOLEAN : SetEnabled(on))
  BY <1>2, <1>14 DEF RequestDelete, SetEnabled, disk, queue
<1>15. CASE UNCHANGED vars
  BY <1>2, <1>15 DEF vars, disk, queue
<1> QED
  BY <1>3, <1>4, <1>5, <1>6, <1>7, <1>8, <1>9, <1>10, <1>11, <1>12, <1>13, <1>14, <1>15
     DEF Next, Request, BakeStep

LEMMA EditionInvNext ==
  ASSUME EditionInv, StoppedIsIdle, [Next]_vars
  PROVE  EditionInv'
<1>1. TypeInv' /\ BakingOnly'
  BY TypeInvNext, BakingOnlyNext DEF EditionInv
<1>2. Progress'
  <2>1. Fresh(tiles)' /\ Fresh(next)' /\ ReadsOnce' /\ Baked'
    BY FreshNext, ReadsOnceNext, BakedNext DEF EditionInv, Progress
  <2> QED
    BY <2>1 DEF Progress
<1> QED
  BY <1>1, <1>2 DEF EditionInv

-----------------------------------------------------------------------------
(* What is registered is what is installed (each district, at its edition  *)
(* on disk but for one rewritten while it was being baked), and no chart   *)
(* that has been on the map is lost, for any number of districts,          *)
(* editions, engines, jobs, failures and restarts, the death of a process  *)
(* in the middle of removing the old tree included, unless a bake of a     *)
(* third engine then threw away the staged tree.                           *)
THEOREM ChartsAreKept == Spec => []ChartsSurvive
<1>1. ChartInv => ChartsNeverLost
  BY DEF ChartInv, Whereabouts, ChartsNeverLost, Archives
<1>2. EditionInv => RegistersWhatIsInstalled
  BY DEF EditionInv, Progress, Baked, Current, RegistersWhatIsInstalled
<1>3. ChartInv => StoppedIsIdle
  BY DEF ChartInv
<1>4. ChartInv /\ EditionInv => ChartsSurvive
  BY <1>1, <1>2 DEF ChartsSurvive
<1> QED
  BY ChartInvInit, ChartInvNext, EditionInvInit, EditionInvNext, <1>3, <1>4, PTL DEF Spec

(* However the process stopped, in the middle of removing the old tree     *)
(* too, after a restart the charts that had been on the map are on it      *)
(* again or the start has queued a bake of the provider; but for a start   *)
(* that takes what is left of a half removed tree for its own.             *)
THEOREM RestartsKeepCharts == Spec => RestartKeepsCharts
<1> DEFINE Kept ==
      /\ phase # "up" /\ phase' = "up" /\ ~off
      /\ ~("torn" \in hist /\ LiveEngineCurrent(tiles, engine', noRebake'))
      => healing' \/ \A d \in done : reg'[d] # None
<1>1. ASSUME ChartInv, [Next]_vars PROVE Kept
  <2> SUFFICES ASSUME phase # "up", phase' = "up", ~off,
                      ~("torn" \in hist /\ LiveEngineCurrent(tiles, engine', noRebake'))
               PROVE  healing' \/ \A d \in done : reg'[d] # None
    OBVIOUS
  <2>1. Boot
    <3>1. CASE Request \/ StartJob
      BY <3>1 DEF Request, Download, RequestDelete, RequestRebake, DeleteSet, SetEnabled,
         StartJob, StartBake, StartHeal, StartDelete
    <3>2. CASE BakeStep \/ BakeFail
      BY <3>2 DEF BakeStep, DropEmpty, Prepare, BakeRead, BakeWrite, BakeDone, RemoveOne,
         SwapRename, OpenComposer, Register, BumpLiveGen, BakeFail
    <3>3. CASE Crash \/ BootRecover \/ UNCHANGED vars
      BY <3>3 DEF Crash, BootRecover, vars
    <3> QED
      BY <1>1, <3>1, <3>2, <3>3 DEF Next
  <2>2. pc = "idle" /\ There(tiles) /\ Whereabouts
    BY <1>1 DEF ChartInv, StoppedIsIdle
  <2>3. Archives(tiles) # {} /\ "torn" \notin hist => done \subseteq Archives(tiles)
    BY <2>2 DEF Whereabouts, There
  <2>4. CASE Installed = {}
    BY <2>2, <2>4 DEF Whereabouts
  <2>5. CASE Installed # {}
    <3> DEFINE kept == IF phase = "recovering" THEN NoGen ELSE gen
               serve == Installed # {} /\ ~off /\ Archives(tiles) # {} /\ kept # NoGen
    <3>1. /\ reg' = IF serve THEN tiles.arch ELSE NoContent
          /\ healing' = Heals(serve, engine', noRebake')
      BY <2>1 DEF Boot
    <3>2. CASE serve /\ "torn" \notin hist
      BY <2>3, <3>1, <3>2 DEF Archives
    <3>4. CASE serve /\ "torn" \in hist
      BY <3>1, <3>4 DEF Heals
    <3>3. CASE ~serve
      BY <2>5, <3>1, <3>3 DEF Heals
    <3> QED
      BY <3>2, <3>3, <3>4
  <2> QED
    BY <2>4, <2>5
<1>2. ChartInv /\ [Next]_vars => [Kept]_vars
  BY <1>1
<1> HIDE DEF Kept
<1>3. Spec => [][Kept]_vars
  BY ChartInvInit, ChartInvNext, <1>2, PTL DEF Spec
<1> QED
  BY <1>3 DEF RestartKeepsCharts, Kept
=============================================================================
