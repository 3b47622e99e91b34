----------------------------- MODULE CellIndex ------------------------------
(***************************************************************************)
(* internal/engine/server/cellindex.go: the persistent index from cell     *)
(* name to bounding box, kept by a single-flight scan of the data          *)
(* directory, beside the requests that write, forget and remove cells.     *)
(*                                                                         *)
(* A cell's file is the edition it holds and its bounds are named by the   *)
(* edition they were parsed from; 0 is no file and no bounds.  A scanner   *)
(* is a goroutine of run(): kick() must never start a second one.          *)
(***************************************************************************)
EXTENDS Naturals, TLC

CONSTANTS Cells,        \* cells a client may install
          Scanners,     \* goroutines that may run run()
          MaxEdition,   \* bound: editions of a cell
          MaxDeletes,   \* bound: removals of a cell
          MaxRestarts   \* bound: restarts of the process

ASSUME CellIndexAssumption ==
  /\ Scanners # {}
  /\ MaxEdition \in Nat \ {0} /\ MaxDeletes \in Nat /\ MaxRestarts \in Nat

Bounds == [Cells -> 0 .. MaxEdition]

VARIABLES
  disk,      \* the .000 files
  bbox,      \* ci.bbox
  saved,     \* cells-index.json
  scanning, dirty,     \* ci.scanning, ci.dirty
  pc,        \* where each scanner is in run() and scan()
  walk,      \* its locals
  import,    \* cacheDistrict, for each cell: "idle", "written" or "forgotten"
  dropping,  \* cells dropProviderSet removed and has not asked a rebuild for
  asked, begun,        \* history: calls of kick, and how many the last pass began after
  raced,     \* history: cells forgotten between the parse and the insert of the old
             \* bounds they still have
  cut,       \* history: cells a restart found old bounds of in cells-index.json, which
             \* they still have
  unasked,   \* history: cells removed with their district since the last pass began
  deletes, restarts    \* counted against their bounds

files == <<disk, import, dropping>>
index == <<bbox, saved>>
flight == <<scanning, dirty>>
scanner == <<pc, walk>>
history == <<asked, begun, raced, cut, unasked>>
bounds == <<deletes, restarts>>
vars == <<files, index, flight, scanner, history, bounds>>

(* Directories not read yet, cells listed and not visited, cells seen, the *)
(* cell being parsed and the bounds read, and has anything changed.        *)
Walk == [unread : SUBSET Cells, listed : SUBSET Cells, present : SUBSET Cells,
         cell : SUBSET Cells, ed : 0 .. MaxEdition, changed : BOOLEAN]
NewWalk == [unread |-> Cells, listed |-> {}, present |-> {}, cell |-> {},
            ed |-> 0, changed |-> FALSE]

Idle == {s \in Scanners : pc[s] = "idle"}

(* newCellIndex on an empty data directory, and New's call of build().     *)
Init ==
  /\ disk = [c \in Cells |-> 0] /\ bbox = disk /\ saved = disk
  /\ import = [c \in Cells |-> "idle"] /\ dropping = {}
  /\ scanning = TRUE /\ dirty = TRUE
  /\ \E s \in Scanners : pc = [t \in Scanners |-> IF t = s THEN "begin" ELSE "idle"]
  /\ walk = [s \in Scanners |-> NewWalk]
  /\ asked = 1 /\ begun = 0
  /\ raced = {} /\ cut = {} /\ unasked = {}
  /\ deletes = 0 /\ restarts = 0

-----------------------------------------------------------------------------
(* kick(): mark the index dirty, start a scanner unless one is running.    *)
StartScanner ==
  /\ scanning' = TRUE
  /\ \E s \in Idle : pc' = [pc EXCEPT ![s] = "begin"]

(* Mutants: a request during a scan is dropped; every request scans.       *)
DroppingKick ==
  /\ asked' = asked + 1
  /\ IF scanning THEN UNCHANGED <<scanning, dirty, pc>>
                 ELSE dirty' = TRUE /\ StartScanner
ScanningKick ==
  /\ asked' = asked + 1 /\ dirty' = TRUE
  /\ IF Idle = {} THEN UNCHANGED <<scanning, pc>> ELSE StartScanner
Kick ==
  /\ asked' = asked + 1 /\ dirty' = TRUE
  /\ IF scanning THEN UNCHANGED <<scanning, pc>> ELSE StartScanner

(* cacheDistrict: write the cell, forget its bounds, ask for a rebuild.    *)
WriteCell(c) ==
  /\ import[c] = "idle" /\ disk[c] < MaxEdition
  /\ disk' = [disk EXCEPT ![c] = @ + 1]
  /\ import' = [import EXCEPT ![c] = "written"]
  /\ UNCHANGED <<dropping, index, flight, scanner, history, bounds>>

(* A scanner has read an older file of the cell and not inserted it yet.   *)
StaleInFlight(c) ==
  \E s \in Scanners : pc[s] = "insert" /\ walk[s].cell = {c} /\ walk[s].ed # disk[c]

(* Mutant: the bounds are kept.                                            *)
ForgetNothing(c) ==
  /\ import[c] = "written"
  /\ import' = [import EXCEPT ![c] = "forgotten"]
  /\ UNCHANGED <<disk, dropping, index, flight, scanner, history, bounds>>
Forget(c) ==
  /\ import[c] = "written"
  /\ bbox' = [bbox EXCEPT ![c] = 0]
  /\ import' = [import EXCEPT ![c] = "forgotten"]
  /\ raced' = IF StaleInFlight(c) THEN raced \cup {c} ELSE raced \ {c}
  /\ cut' = cut \ {c}
  /\ UNCHANGED <<disk, dropping, saved, flight, scanner, asked, begun, unasked, bounds>>

Rebuild(c) ==
  /\ import[c] = "forgotten"
  /\ import' = [import EXCEPT ![c] = "idle"]
  /\ Kick
  /\ UNCHANGED <<disk, dropping, index, walk, begun, raced, cut, unasked, bounds>>

(* dropProviderSet: remove the tree, then ask for a rebuild.               *)
RemoveSet(c) ==
  /\ disk[c] # 0 /\ deletes < MaxDeletes
  /\ deletes' = deletes + 1
  /\ disk' = [disk EXCEPT ![c] = 0]
  /\ dropping' = dropping \cup {c}
  /\ UNCHANGED <<import, index, flight, scanner, history, restarts>>

RebuildAfterRemove(c) ==
  /\ c \in dropping
  /\ dropping' = dropping \ {c}
  /\ Kick
  /\ UNCHANGED <<disk, import, index, walk, begun, raced, cut, unasked, bounds>>

(* handleDeleteDistrict: remove the folder.  Nothing asks for a rebuild    *)
(* unless it was the last of the provider.                                 *)
RemoveDistrict(c) ==
  /\ disk[c] # 0 /\ deletes < MaxDeletes
  /\ deletes' = deletes + 1
  /\ disk' = [disk EXCEPT ![c] = 0]
  /\ unasked' = unasked \cup {c}
  /\ UNCHANGED <<import, dropping, index, flight, scanner, asked, begun, raced, cut, restarts>>

-----------------------------------------------------------------------------
(* run(): a pass begins.                                                   *)
Begin(s) ==
  /\ pc[s] = "begin"
  /\ dirty' = FALSE
  /\ begun' = asked /\ unasked' = {}
  /\ walk' = [walk EXCEPT ![s] = NewWalk]
  /\ pc' = [pc EXCEPT ![s] = "walk"]
  /\ UNCHANGED <<files, index, scanning, asked, raced, cut, bounds>>

(* scan(): WalkDir lists the directory of a cell ...                       *)
ReadDir(s, c) ==
  /\ pc[s] = "walk" /\ c \in walk[s].unread
  /\ walk' = [walk EXCEPT ![s].unread = @ \ {c},
                          ![s].listed = IF disk[c] # 0 THEN @ \cup {c} ELSE @]
  /\ UNCHANGED <<files, index, flight, pc, history, bounds>>

(* ... and visits the cells it listed, parsing those without bounds.       *)
Visit(s, c) ==
  /\ pc[s] = "walk" /\ c \in walk[s].listed
  /\ walk' = [walk EXCEPT ![s].listed = @ \ {c}, ![s].present = @ \cup {c},
                          ![s].cell = IF bbox[c] = 0 THEN {c} ELSE {}]
  /\ pc' = IF bbox[c] = 0 THEN [pc EXCEPT ![s] = "parse"] ELSE pc
  /\ UNCHANGED <<files, index, flight, history, bounds>>

(* tile57.Charts reads the file; it fails when the file has gone, and then *)
(* there are no bounds to insert.  Mutant: the failure goes unnoticed.     *)
ParseUnchecked(s) ==
  /\ pc[s] = "parse"
  /\ \E c \in walk[s].cell : walk' = [walk EXCEPT ![s].ed = disk[c]]
  /\ pc' = [pc EXCEPT ![s] = "insert"]
  /\ UNCHANGED <<files, index, flight, history, bounds>>
Parse(s) ==
  /\ pc[s] = "parse"
  /\ \E c \in walk[s].cell :
       /\ walk' = [walk EXCEPT ![s].ed = disk[c],
                               ![s].cell = IF disk[c] = 0 THEN {} ELSE @]
       /\ pc' = [pc EXCEPT ![s] = IF disk[c] = 0 THEN "walk" ELSE "insert"]
  /\ UNCHANGED <<files, index, flight, history, bounds>>

(* Every 200 bounds (any number here) the index is saved on the way.       *)
Insert(s) ==
  /\ pc[s] = "insert"
  /\ \E c \in walk[s].cell : bbox' = [bbox EXCEPT ![c] = walk[s].ed]
  /\ walk' = [walk EXCEPT ![s].cell = {}, ![s].ed = 0, ![s].changed = TRUE]
  /\ \E step \in {"walk", "checkpoint"} : pc' = [pc EXCEPT ![s] = step]
  /\ UNCHANGED <<files, saved, flight, history, bounds>>

Checkpoint(s) ==
  /\ pc[s] = "checkpoint"
  /\ saved' = bbox
  /\ pc' = [pc EXCEPT ![s] = "walk"]
  /\ UNCHANGED <<files, bbox, flight, walk, history, bounds>>

(* Drop the bounds of every cell the walk has not seen.                       *)
Reconcile(s) ==
  /\ pc[s] = "walk" /\ walk[s].unread = {} /\ walk[s].listed = {}
  /\ bbox' = [c \in Cells |-> IF c \in walk[s].present THEN bbox[c] ELSE 0]
  /\ pc' = [pc EXCEPT ![s] = IF walk[s].changed \/ bbox' # bbox THEN "save" ELSE "end"]
  /\ raced' = raced \cap walk[s].present /\ cut' = cut \cap walk[s].present
  /\ UNCHANGED <<files, saved, flight, walk, asked, begun, unasked, bounds>>

Save(s) ==
  /\ pc[s] = "save"
  /\ saved' = bbox
  /\ pc' = [pc EXCEPT ![s] = "end"]
  /\ UNCHANGED <<files, bbox, flight, walk, history, bounds>>

(* run(): the pass is over; go again if a rebuild was asked for meanwhile. *)
End(s) ==
  /\ pc[s] = "end"
  /\ walk' = [walk EXCEPT ![s] = NewWalk]
  /\ IF dirty
     THEN pc' = [pc EXCEPT ![s] = "begin"] /\ UNCHANGED scanning
     ELSE pc' = [pc EXCEPT ![s] = "idle"] /\ scanning' = FALSE
  /\ UNCHANGED <<files, index, dirty, history, bounds>>

(* The process stops and starts: newCellIndex loads the file and New calls *)
(* build().                                                                *)
Restart ==
  /\ restarts < MaxRestarts
  /\ restarts' = restarts + 1
  /\ import' = [c \in Cells |-> "idle"] /\ dropping' = {}
  /\ bbox' = saved
  /\ cut' = {c \in Cells : saved[c] \notin {0, disk[c]}}
  /\ scanning' = TRUE /\ dirty' = TRUE
  /\ \E s \in Scanners : pc' = [t \in Scanners |-> IF t = s THEN "begin" ELSE "idle"]
  /\ walk' = [s \in Scanners |-> NewWalk]
  /\ asked' = asked + 1 /\ raced' = {}
  /\ UNCHANGED <<disk, saved, begun, unasked, deletes>>

-----------------------------------------------------------------------------
Request(c) == Forget(c) \/ Rebuild(c) \/ RebuildAfterRemove(c)
Client == \E c \in Cells : WriteCell(c) \/ RemoveSet(c) \/ RemoveDistrict(c)

Scan(s) ==
  \/ Begin(s) \/ (\E c \in Cells : ReadDir(s, c) \/ Visit(s, c))
  \/ Parse(s) \/ Insert(s) \/ Checkpoint(s) \/ Reconcile(s) \/ Save(s) \/ End(s)

Next == Client \/ (\E c \in Cells : Request(c)) \/ (\E s \in Scanners : Scan(s)) \/ Restart

Spec == Init /\ [][Next]_vars

(* Goroutines run on: a request that has begun ends, and so does a pass.   *)
Fairness == /\ \A c \in Cells : WF_vars(Request(c))
            /\ \A s \in Scanners : WF_vars(Scan(s))
LiveSpec == Spec /\ Fairness

-----------------------------------------------------------------------------
(* Properties.                                                             *)

TypeOK ==
  /\ disk \in Bounds /\ bbox \in Bounds /\ saved \in Bounds
  /\ scanning \in BOOLEAN /\ dirty \in BOOLEAN
  /\ pc \in [Scanners -> {"idle", "begin", "walk", "parse", "insert", "checkpoint",
                          "save", "end"}]
  /\ walk \in [Scanners -> Walk]
  /\ \A s \in Scanners :
       /\ (walk[s].cell # {}) = (pc[s] \in {"parse", "insert"})
       /\ (walk[s].ed # 0) = (pc[s] = "insert")
  /\ import \in [Cells -> {"idle", "written", "forgotten"}]
  /\ dropping \subseteq Cells
  /\ asked \in Nat /\ begun \in Nat
  /\ raced \subseteq Cells /\ cut \subseteq Cells /\ unasked \subseteq Cells
  /\ deletes \in 0 .. MaxDeletes /\ restarts \in 0 .. MaxRestarts

(* The index is at rest: what clients see until the next request.          *)
Settled == ~scanning /\ dropping = {} /\ \A c \in Cells : import[c] = "idle"

(* kick's single flight: the flag is the truth about the goroutines, so    *)
(* two scans never run side by side over one map and one file.             *)
SingleFlight ==
  /\ \A s, t \in Scanners \ Idle : s = t
  /\ scanning <=> Idle # Scanners

(* At rest the index has bounds for every cell that is installed, without  *)
(* exception: whatever was downloaded and removed while scans ran, and     *)
(* however often the process was restarted.  It has none for others, but   *)
(* for cells deleted with their district, which no pass has missed yet.    *)
IndexNamesInstalled ==
  Settled => \A c \in Cells :
    /\ disk[c] # 0 => bbox[c] # 0
    /\ disk[c] = 0 => bbox[c] = 0 \/ c \in unasked

(* At rest the bounds are those of the file on disk, but for two kinds of  *)
(* cells, which keep older ones until they are imported again: one whose   *)
(* old file was parsed before it was forgotten, and inserted after; and    *)
(* one whose old bounds were all a restart found in cells-index.json.      *)
BoundsAreCurrent ==
  Settled =>
    \A c \in Cells \ (raced \cup cut) : bbox[c] # 0 /\ disk[c] # 0 => bbox[c] = disk[c]

(* At rest the index names the installed cells, and a cell's bounds are    *)
(* older than its file in two named cases only.                            *)
IndexIsCurrent == IndexNamesInstalled /\ BoundsAreCurrent

(* A rebuild asked for at any moment is followed by a pass that begins     *)
(* after it.  A scanner in a pass maps to Rescan's passing.                *)
Passing == \E s \in Scanners : pc[s] \notin {"idle", "begin"}
Abstract == INSTANCE Rescan WITH passing <- Passing
ImplementsRescan == Abstract!Spec

(* For TLC: neither cells nor goroutines differ from one another.          *)
Symmetry == Permutations(Cells) \cup Permutations(Scanners)
=============================================================================
