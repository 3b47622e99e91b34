-------------------------- MODULE CellIndexProofs --------------------------
(***************************************************************************)
(* Proofs about CellIndex, for any cells, scanners and bounds: its type    *)
(* invariant, that one scan runs at a time, that every step of it is a     *)
(* step of Rescan or changes nothing Rescan speaks of, and that the index  *)
(* at rest has the installed cells with the bounds of their files.         *)
(***************************************************************************)
EXTENDS CellIndex, TLAPS

(* The steps of a scanner that are part of a pass.                         *)
InPass == {"walk", "parse", "insert", "checkpoint", "save", "end"}

(* What kick leaves behind until a pass begins: a dirty index has a        *)
(* request the last pass began before, and so has a scanner about to       *)
(* begin.  With it a scanner never begins a pass that nobody asked for.    *)
Wanted ==
  /\ begun <= asked
  /\ dirty => begun < asked
  /\ \A s \in Scanners : pc[s] = "begin" => dirty

FlightInv == TypeOK /\ SingleFlight /\ Wanted

-----------------------------------------------------------------------------
(* The type invariant.                                                     *)

LEMMA WalkTypes ==
  /\ NewWalk \in Walk /\ NewWalk.cell = {} /\ NewWalk.ed = 0
  /\ \A w \in Walk :
       /\ \A u, l \in SUBSET Cells : [w EXCEPT !.unread = u, !.listed = l] \in Walk
       /\ \A l, p, c \in SUBSET Cells :
            [w EXCEPT !.listed = l, !.present = p, !.cell = c] \in Walk
       /\ \A e \in 0 .. MaxEdition, c \in SUBSET Cells :
            [w EXCEPT !.ed = e, !.cell = c] \in Walk
       /\ [w EXCEPT !.cell = {}, !.ed = 0, !.changed = TRUE] \in Walk
<1>1. 0 \in 0 .. MaxEdition
  BY CellIndexAssumption
<1>2. NewWalk \in Walk /\ NewWalk.cell = {} /\ NewWalk.ed = 0
  BY <1>1 DEF NewWalk, Walk
<1>3. ASSUME NEW w \in Walk
      PROVE  /\ \A u, l \in SUBSET Cells : [w EXCEPT !.unread = u, !.listed = l] \in Walk
             /\ \A l, p, c \in SUBSET Cells :
                  [w EXCEPT !.listed = l, !.present = p, !.cell = c] \in Walk
  BY DEF Walk
<1>4. ASSUME NEW w \in Walk
      PROVE  /\ \A e \in 0 .. MaxEdition, c \in SUBSET Cells :
                  [w EXCEPT !.ed = e, !.cell = c] \in Walk
             /\ [w EXCEPT !.cell = {}, !.ed = 0, !.changed = TRUE] \in Walk
  BY <1>1 DEF Walk
<1> QED
  BY <1>2, <1>3, <1>4

LEMMA TypeInit == Init => TypeOK
<1> SUFFICES ASSUME Init PROVE TypeOK
  OBVIOUS
<1>1. disk \in Bounds /\ bbox \in Bounds /\ saved \in Bounds
  BY CellIndexAssumption DEF Init, Bounds
<1>2. walk \in [Scanners -> Walk]
  BY WalkTypes DEF Init
<1>3. PICK s \in Scanners : pc = [t \in Scanners |-> IF t = s THEN "begin" ELSE "idle"]
  BY DEF Init
<1>4. \A t \in Scanners : /\ walk[t].cell = {} /\ walk[t].ed = 0
                          /\ pc[t] \in {"begin", "idle"}
  BY <1>3, WalkTypes DEF Init
<1> QED
  BY <1>1, <1>2, <1>3, <1>4, CellIndexAssumption DEF Init, TypeOK

(* kick() changes the flags and at most sets an idle scanner going.        *)
LEMMA KickTypes ==
  ASSUME TypeOK, Kick
  PROVE  /\ scanning' \in BOOLEAN /\ dirty' \in BOOLEAN /\ asked' \in Nat
         /\ \/ pc' = pc
            \/ \E s \in Scanners : pc[s] = "idle" /\ pc' = [pc EXCEPT ![s] = "begin"]
<1>1. asked' \in Nat /\ dirty' \in BOOLEAN
  BY DEF TypeOK, Kick
<1>2. CASE scanning
  BY <1>1, <1>2 DEF TypeOK, Kick
<1>3. CASE ~scanning
  BY <1>1, <1>3 DEF Kick, StartScanner, Idle
<1> QED
  BY <1>2, <1>3

LEMMA TypeNext ==
  ASSUME TypeOK, [Next]_vars
  PROVE  TypeOK'
<1> USE DEF TypeOK
<1>1. ASSUME NEW c \in Cells, WriteCell(c) PROVE TypeOK'
  BY <1>1, CellIndexAssumption
     DEF WriteCell, Bounds, index, flight, scanner, history, bounds
<1>2. ASSUME NEW c \in Cells, RemoveSet(c) PROVE TypeOK'
  BY <1>2, CellIndexAssumption
     DEF RemoveSet, Bounds, index, flight, scanner, history, bounds
<1>3. ASSUME NEW c \in Cells, RemoveDistrict(c) PROVE TypeOK'
  BY <1>3, CellIndexAssumption
     DEF RemoveDistrict, Bounds, index, flight, scanner, history, bounds
<1>4. ASSUME NEW c \in Cells, Forget(c) PROVE TypeOK'
  BY <1>4, CellIndexAssumption
     DEF Forget, Bounds, index, flight, scanner, history, bounds
<1>5. ASSUME NEW c \in Cells, Rebuild(c) PROVE TypeOK'
  BY <1>5, KickTypes DEF Rebuild, index, flight, scanner, history, bounds
<1>6. ASSUME NEW c \in Cells, RebuildAfterRemove(c) PROVE TypeOK'
  BY <1>6, KickTypes DEF RebuildAfterRemove, index, flight, scanner, history, bounds
<1>7. ASSUME NEW s \in Scanners, Begin(s) PROVE TypeOK'
  <2>1. walk' \in [Scanners -> Walk]
    BY <1>7, WalkTypes DEF Begin
  <2>2. walk'[s].cell = {} /\ walk'[s].ed = 0
    BY <1>7, WalkTypes DEF Begin
  <2>3. \A t \in Scanners : t # s => walk'[t] = walk[t]
    BY <1>7 DEF Begin
  <2>4. pc' = [pc EXCEPT ![s] = "walk"]
    BY <1>7 DEF Begin
  <2>5. UNCHANGED <<disk, bbox, saved, import, dropping, scanning, asked, raced, cut,
                    deletes, restarts>>
    BY <1>7 DEF Begin, files, index, bounds
  <2>6. dirty' \in BOOLEAN
    BY <1>7, Zenon DEF Begin
  <2>7. begun' \in Nat /\ unasked' \subseteq Cells
    BY <1>7 DEF Begin
  <2> QED
    BY <2>1, <2>2, <2>3, <2>4, <2>5, <2>6, <2>7
<1>8. ASSUME NEW s \in Scanners, NEW c \in Cells, ReadDir(s, c) PROVE TypeOK'
  <2>1. walk[s].unread \in SUBSET Cells /\ walk[s].listed \in SUBSET Cells
    BY DEF Walk
  <2>2. PICK u, l \in SUBSET Cells :
          walk' = [walk EXCEPT ![s] = [@ EXCEPT !.unread = u, !.listed = l]]
    BY <1>8, <2>1 DEF ReadDir
  <2>3. walk' \in [Scanners -> Walk]
    BY <2>2, WalkTypes
  <2>4. walk'[s].cell = walk[s].cell /\ walk'[s].ed = walk[s].ed
    BY <2>2 DEF Walk
  <2>5. \A t \in Scanners : t # s => walk'[t] = walk[t]
    BY <2>2
  <2> QED
    BY <1>8, <2>3, <2>4, <2>5 DEF ReadDir, files, index, flight, history, bounds
<1>9. ASSUME NEW s \in Scanners, NEW c \in Cells, Visit(s, c) PROVE TypeOK'
  <2>1. walk[s].listed \in SUBSET Cells /\ walk[s].present \in SUBSET Cells
    BY DEF Walk
  <2> DEFINE found == IF bbox[c] = 0 THEN {c} ELSE {}
  <2>2. PICK l, p \in SUBSET Cells :
          walk' = [walk EXCEPT ![s] =
                     [@ EXCEPT !.listed = l, !.present = p, !.cell = found]]
    BY <1>9, <2>1 DEF Visit
  <2>3. walk' \in [Scanners -> Walk]
    BY <2>2, WalkTypes
  <2>4. walk'[s].cell = found /\ walk'[s].ed = walk[s].ed
    BY <2>2 DEF Walk
  <2>5. \A t \in Scanners : t # s => walk'[t] = walk[t]
    BY <2>2
  <2>6. walk[s].ed = 0
    BY <1>9 DEF Visit
  <2>7. pc' = [pc EXCEPT ![s] = IF bbox[c] = 0 THEN "parse" ELSE "walk"]
    BY <1>9 DEF Visit
  <2>8. \A t \in Scanners : /\ (walk'[t].cell # {}) = (pc'[t] \in {"parse", "insert"})
                            /\ (walk'[t].ed # 0) = (pc'[t] = "insert")
    <3> SUFFICES ASSUME NEW t \in Scanners
                 PROVE  /\ (walk'[t].cell # {}) = (pc'[t] \in {"parse", "insert"})
                        /\ (walk'[t].ed # 0) = (pc'[t] = "insert")
      OBVIOUS
    <3>1. CASE t # s
      BY <2>5, <2>7, <3>1
    <3>2. CASE t = s /\ bbox[c] = 0
      BY <2>4, <2>6, <2>7, <3>2
    <3>3. CASE t = s /\ bbox[c] # 0
      BY <2>4, <2>6, <2>7, <3>3
    <3> QED
      BY <3>1, <3>2, <3>3
  <2> QED
    BY <1>9, <2>3, <2>7, <2>8 DEF Visit, files, index, flight, history, bounds
<1>10. ASSUME NEW s \in Scanners, Parse(s) PROVE TypeOK'
  <2>1. PICK c \in walk[s].cell :
          /\ walk' = [walk EXCEPT ![s].ed = disk[c],
                                  ![s].cell = IF disk[c] = 0 THEN {} ELSE @]
          /\ pc' = [pc EXCEPT ![s] = IF disk[c] = 0 THEN "walk" ELSE "insert"]
    BY <1>10 DEF Parse
  <2>2. walk[s].cell \in SUBSET Cells
    BY DEF Walk
  <2>3. disk[c] \in 0 .. MaxEdition
    BY <2>1, <2>2 DEF Bounds
  <2> DEFINE kept == IF disk[c] = 0 THEN {} ELSE walk[s].cell
  <2>4. walk' = [walk EXCEPT ![s] = [@ EXCEPT !.ed = disk[c], !.cell = kept]]
    BY <2>1
  <2>5. walk' \in [Scanners -> Walk]
    BY <2>2, <2>3, <2>4, WalkTypes
  <2>6. walk'[s].cell = kept /\ walk'[s].ed = disk[c]
    BY <2>4 DEF Walk
  <2>7. \A t \in Scanners : t # s => walk'[t] = walk[t]
    BY <2>4
  <2> QED
    BY <1>10, <2>1, <2>5, <2>6, <2>7 DEF Parse, files, index, flight, history, bounds
<1>11. ASSUME NEW s \in Scanners, Insert(s) PROVE TypeOK'
  <2>1. walk[s].cell \subseteq Cells /\ walk[s].ed \in 0 .. MaxEdition
    BY DEF Walk
  <2>2. bbox' \in Bounds
    BY <1>11, <2>1 DEF Insert, Bounds
  <2>3. walk' = [walk EXCEPT ![s] = [@ EXCEPT !.cell = {}, !.ed = 0, !.changed = TRUE]]
    BY <1>11 DEF Insert
  <2>4. walk' \in [Scanners -> Walk]
    BY <2>3, WalkTypes
  <2>5. walk'[s].cell = {} /\ walk'[s].ed = 0
    BY <2>3 DEF Walk
  <2>6. \A t \in Scanners : t # s => walk'[t] = walk[t]
    BY <2>3
  <2>7. PICK step \in {"walk", "checkpoint"} : pc' = [pc EXCEPT ![s] = step]
    BY <1>11 DEF Insert
  <2> QED
    BY <1>11, <2>2, <2>4, <2>5, <2>6, <2>7 DEF Insert, files, flight, history, bounds
<1>12. ASSUME NEW s \in Scanners, Checkpoint(s) PROVE TypeOK'
  BY <1>12 DEF Checkpoint, files, flight, history, bounds
<1>13. ASSUME NEW s \in Scanners, Reconcile(s) PROVE TypeOK'
  <2>1. bbox' \in Bounds
    BY <1>13, CellIndexAssumption DEF Reconcile, Bounds
  <2> QED
    BY <1>13, <2>1 DEF Reconcile, files, flight, history, bounds
<1>14. ASSUME NEW s \in Scanners, Save(s) PROVE TypeOK'
  BY <1>14 DEF Save, files, flight, history, bounds
<1>15. ASSUME NEW s \in Scanners, End(s) PROVE TypeOK'
  <2>1. walk' \in [Scanners -> Walk]
    BY <1>15, WalkTypes DEF End
  <2>2. walk'[s].cell = {} /\ walk'[s].ed = 0
    BY <1>15, WalkTypes DEF End
  <2>3. scanning' \in BOOLEAN
    BY <1>15 DEF End
  <2>4. PICK step \in {"begin", "idle"} : pc' = [pc EXCEPT ![s] = step]
    BY <1>15 DEF End
  <2> QED
    BY <1>15, <2>1, <2>2, <2>3, <2>4 DEF End, files, index, history, bounds
<1>16. CASE Restart
  <2>1. walk' \in [Scanners -> Walk]
    BY <1>16, WalkTypes DEF Restart
  <2>2. PICK s \in Scanners : pc' = [t \in Scanners |-> IF t = s THEN "begin" ELSE "idle"]
    BY <1>16 DEF Restart
  <2>3. \A t \in Scanners : /\ walk'[t].cell = {} /\ walk'[t].ed = 0
                            /\ pc'[t] \in {"begin", "idle"}
    BY <1>16, <2>2, WalkTypes DEF Restart
  <2> QED
    BY <1>16, <2>1, <2>2, <2>3, CellIndexAssumption DEF Restart
<1>17. CASE UNCHANGED vars
  BY <1>17 DEF vars, files, index, flight, scanner, history, bounds
<1> QED
  BY <1>1, <1>2, <1>3, <1>4, <1>5, <1>6, <1>7, <1>8, <1>9, <1>10, <1>11, <1>12,
     <1>13, <1>14, <1>15, <1>16, <1>17 DEF Next, Client, Request, Scan

(* Every reachable state of the cell index is well typed; in particular a  *)
(* scanner holds a cell exactly while it parses and inserts it, and bounds *)
(* exactly between the two.                                                *)
THEOREM CellsTypeCorrect == Spec => []TypeOK
<1> QED
  BY TypeInit, TypeNext, PTL DEF Spec

-----------------------------------------------------------------------------
(* What a step may do to the flags, the scanners and the requests.         *)
Quiet == UNCHANGED <<flight, pc, asked, begun>>
Asks == Kick /\ UNCHANGED begun
PassStep(s) ==
  /\ pc[s] \in InPass
  /\ \E step \in InPass : pc' = [pc EXCEPT ![s] = step]
  /\ UNCHANGED <<flight, asked, begun>>

LEMMA StepKinds ==
  ASSUME TypeOK, [Next]_vars
  PROVE  \/ Quiet \/ Asks \/ Restart
         \/ \E s \in Scanners : PassStep(s) \/ Begin(s) \/ End(s)
<1>1. ASSUME NEW c \in Cells, WriteCell(c) \/ RemoveSet(c) \/ RemoveDistrict(c) \/ Forget(c)
      PROVE  Quiet
  BY <1>1 DEF WriteCell, RemoveSet, RemoveDistrict, Forget, Quiet, flight, scanner, history
<1>2. ASSUME NEW c \in Cells, Rebuild(c) \/ RebuildAfterRemove(c)
      PROVE  Asks
  BY <1>2 DEF Rebuild, RebuildAfterRemove, Asks
<1>3. ASSUME NEW s \in Scanners, NEW c \in Cells, ReadDir(s, c)
      PROVE  Quiet
  BY <1>3 DEF ReadDir, Quiet, history
<1>4. ASSUME NEW s \in Scanners, NEW c \in Cells, Visit(s, c)
      PROVE  PassStep(s)
  <2>1. pc[s] = "walk" /\ UNCHANGED <<flight, asked, begun>>
    BY <1>4 DEF Visit, history
  <2>2. pc' = [pc EXCEPT ![s] = IF bbox[c] = 0 THEN "parse" ELSE "walk"]
    BY <1>4 DEF Visit, TypeOK
  <2> QED
    BY <2>1, <2>2 DEF PassStep, InPass
<1>5. ASSUME NEW s \in Scanners, Parse(s)
      PROVE  PassStep(s)
  BY <1>5 DEF Parse, PassStep, InPass, history
<1>6. ASSUME NEW s \in Scanners, Insert(s)
      PROVE  PassStep(s)
  BY <1>6 DEF Insert, PassStep, InPass, history
<1>7. ASSUME NEW s \in Scanners, Checkpoint(s) \/ Reconcile(s) \/ Save(s)
      PROVE  PassStep(s)
  BY <1>7 DEF Checkpoint, Reconcile, Save, PassStep, InPass, history
<1>8. CASE UNCHANGED vars
  BY <1>8 DEF vars, flight, scanner, history, Quiet
<1> QED
  BY <1>1, <1>2, <1>3, <1>4, <1>5, <1>6, <1>7, <1>8 DEF Next, Client, Request, Scan

LEMMA FlightInit == Init => FlightInv
<1> SUFFICES ASSUME Init PROVE FlightInv
  OBVIOUS
<1>1. PICK s \in Scanners : pc = [t \in Scanners |-> IF t = s THEN "begin" ELSE "idle"]
  BY DEF Init
<1>2. SingleFlight
  BY <1>1 DEF Init, SingleFlight, Idle
<1>3. Wanted
  BY DEF Init, Wanted
<1> QED
  BY <1>2, <1>3, TypeInit DEF FlightInv

LEMMA FlightNext ==
  ASSUME FlightInv, [Next]_vars
  PROVE  FlightInv'
<1> USE DEF FlightInv, SingleFlight, Wanted
<1>1. TypeOK'
  BY TypeNext
<1>2. CASE Quiet
  BY <1>1, <1>2 DEF Quiet, flight, Idle
<1>3. CASE Asks
  <2>1. asked' = asked + 1 /\ begun' = begun /\ dirty' = TRUE /\ asked \in Nat /\ begun \in Nat
    BY <1>3 DEF Asks, Kick, TypeOK
  <2>2. CASE scanning
    <3>1. UNCHANGED <<scanning, pc>>
      BY <1>3, <2>2 DEF Asks, Kick
    <3> QED
      BY <1>1, <2>1, <3>1 DEF Idle, TypeOK
  <2>3. CASE ~scanning
    <3>1. PICK s \in Scanners : pc' = [pc EXCEPT ![s] = "begin"]
      BY <1>3, <2>3 DEF Asks, Kick, StartScanner, Idle
    <3>2. scanning' = TRUE
      BY <1>3, <2>3 DEF Asks, Kick, StartScanner
    <3>3. \A t \in Scanners : pc[t] = "idle"
      BY <2>3 DEF Idle
    <3>4. \A t \in Scanners : pc'[t] = IF t = s THEN "begin" ELSE "idle"
      BY <3>1, <3>3 DEF TypeOK
    <3> QED
      BY <1>1, <2>1, <3>2, <3>4 DEF Idle
  <2> QED
    BY <2>2, <2>3
<1>4. ASSUME NEW s \in Scanners, PassStep(s) PROVE FlightInv'
  <2>1. PICK step \in InPass : pc' = [pc EXCEPT ![s] = step]
    BY <1>4 DEF PassStep
  <2>2. \A t \in Scanners : /\ pc'[t] = "idle" <=> pc[t] = "idle"
                            /\ pc'[t] = "begin" => pc[t] = "begin"
    BY <1>4, <2>1 DEF PassStep, InPass, TypeOK
  <2>3. UNCHANGED <<scanning, dirty, asked, begun>>
    BY <1>4 DEF PassStep, flight
  <2> QED
    BY <1>1, <2>2, <2>3 DEF Idle
<1>5. ASSUME NEW s \in Scanners, Begin(s) PROVE FlightInv'
  <2>1. /\ pc[s] = "begin" /\ pc' = [pc EXCEPT ![s] = "walk"]
        /\ dirty' = FALSE /\ begun' = asked /\ UNCHANGED <<scanning, asked>>
    BY <1>5 DEF Begin
  <2>2. \A t \in Scanners : t # s => pc[t] = "idle"
    BY <2>1 DEF Idle
  <2>3. \A t \in Scanners : pc'[t] = IF t = s THEN "walk" ELSE "idle"
    BY <2>1, <2>2 DEF TypeOK
  <2>4. scanning
    BY <2>1 DEF Idle
  <2> QED
    BY <1>1, <2>1, <2>3, <2>4 DEF Idle, TypeOK
<1>6. ASSUME NEW s \in Scanners, End(s) PROVE FlightInv'
  <2>1. pc[s] = "end" /\ UNCHANGED <<dirty, asked, begun>>
    BY <1>6 DEF End, history
  <2>2. \A t \in Scanners : t # s => pc[t] = "idle"
    BY <2>1 DEF Idle
  <2>3. scanning
    BY <2>1 DEF Idle
  <2>4. CASE dirty
    <3>1. pc' = [pc EXCEPT ![s] = "begin"] /\ UNCHANGED scanning
      BY <1>6, <2>4 DEF End
    <3>2. \A t \in Scanners : pc'[t] = IF t = s THEN "begin" ELSE "idle"
      BY <2>2, <3>1 DEF TypeOK
    <3> QED
      BY <1>1, <2>1, <2>3, <2>4, <3>1, <3>2 DEF Idle
  <2>5. CASE ~dirty
    <3>1. pc' = [pc EXCEPT ![s] = "idle"] /\ scanning' = FALSE
      BY <1>6, <2>5 DEF End
    <3>2. \A t \in Scanners : pc'[t] = "idle"
      BY <2>2, <3>1 DEF TypeOK
    <3> QED
      BY <1>1, <2>1, <2>5, <3>1, <3>2 DEF Idle
  <2> QED
    BY <2>4, <2>5
<1>7. CASE Restart
  <2>1. PICK s \in Scanners : pc' = [t \in Scanners |-> IF t = s THEN "begin" ELSE "idle"]
    BY <1>7 DEF Restart
  <2>2. scanning' = TRUE /\ dirty' = TRUE /\ asked' = asked + 1 /\ begun' = begun
    BY <1>7 DEF Restart
  <2> QED
    BY <1>1, <2>1, <2>2 DEF Idle, TypeOK
<1> QED
  BY <1>2, <1>3, <1>4, <1>5, <1>6, <1>7, StepKinds

LEMMA FlightInvariant == Spec => []FlightInv
<1> QED
  BY FlightInit, FlightNext, PTL DEF Spec

(* kick() never starts a second scanner, whatever requests, scans and      *)
(* restarts come in whatever order: the flag says whether one runs.        *)
THEOREM OneScanAtATime == Spec => []SingleFlight
<1>1. FlightInv => SingleFlight
  BY DEF FlightInv
<1> QED
  BY <1>1, FlightInvariant, PTL

-----------------------------------------------------------------------------
(* The safety of Rescan: passes never overlap, and every pass begins after *)
(* a request that no earlier pass began after.                             *)

LEMMA PassingNext ==
  ASSUME FlightInv, [Next]_vars
  PROVE  [Abstract!Next]_(Abstract!vars)
<1> USE DEF FlightInv, SingleFlight
<1>1. TypeOK'
  BY TypeNext
<1>2. CASE Quiet
  BY <1>2 DEF Quiet, Passing, Abstract!vars
<1>3. CASE Asks
  <2>1. asked' = asked + 1 /\ begun' = begun
    BY <1>3 DEF Asks, Kick
  <2>2. \/ pc' = pc
        \/ \E s \in Scanners : pc[s] = "idle" /\ pc' = [pc EXCEPT ![s] = "begin"]
    BY <1>3, KickTypes DEF Asks
  <2>3. Passing' = Passing
    BY <2>2 DEF Passing, TypeOK
  <2> QED
    BY <2>1, <2>3 DEF Abstract!Next, Abstract!Ask
<1>4. ASSUME NEW s \in Scanners, PassStep(s)
      PROVE  UNCHANGED Abstract!vars
  <2>1. PICK step \in InPass : pc' = [pc EXCEPT ![s] = step]
    BY <1>4 DEF PassStep
  <2>2. pc[s] \in InPass /\ pc'[s] \in InPass
    BY <1>4, <2>1 DEF PassStep, TypeOK
  <2>3. Passing /\ Passing'
    BY <2>2 DEF Passing, InPass
  <2> QED
    BY <1>4, <2>3 DEF PassStep, Abstract!vars
<1>5. ASSUME NEW s \in Scanners, Begin(s)
      PROVE  Abstract!Begin
  <2>1. /\ pc[s] = "begin" /\ pc' = [pc EXCEPT ![s] = "walk"]
        /\ begun' = asked /\ asked' = asked
    BY <1>5 DEF Begin
  <2>2. \A t \in Scanners : t # s => pc[t] = "idle"
    BY <2>1 DEF Idle
  <2>3. ~Passing
    BY <2>1, <2>2 DEF Passing
  <2>4. Passing'
    BY <2>1 DEF Passing, TypeOK
  <2>5. begun < asked
    BY <2>1 DEF Wanted
  <2> QED
    BY <2>1, <2>3, <2>4, <2>5 DEF Abstract!Begin
<1>6. ASSUME NEW s \in Scanners, End(s)
      PROVE  Abstract!End
  <2>1. pc[s] = "end" /\ UNCHANGED <<asked, begun>>
    BY <1>6 DEF End, history
  <2>2. PICK step \in {"begin", "idle"} : pc' = [pc EXCEPT ![s] = step]
    BY <1>6 DEF End
  <2>3. \A t \in Scanners : t # s => pc[t] = "idle"
    BY <2>1 DEF Idle
  <2>4. Passing
    BY <2>1 DEF Passing
  <2>5. ~Passing'
    BY <2>2, <2>3 DEF Passing, TypeOK
  <2> QED
    BY <2>1, <2>4, <2>5 DEF Abstract!End
<1>7. CASE Restart
  <2>1. PICK s \in Scanners : pc' = [t \in Scanners |-> IF t = s THEN "begin" ELSE "idle"]
    BY <1>7 DEF Restart
  <2>2. ~Passing'
    BY <2>1 DEF Passing
  <2> QED
    BY <1>7, <2>2 DEF Restart, Abstract!Next, Abstract!Restart
<1> QED
  BY <1>2, <1>3, <1>4, <1>5, <1>6, <1>7, StepKinds DEF Abstract!Next

(* Every behaviour of the index is one of Rescan, fairness apart: it never *)
(* passes over the data directory twice at once, nor without a request.    *)
THEOREM CellsRescanSafely == Spec => Abstract!Init /\ [][Abstract!Next]_(Abstract!vars)
<1>1. Init => Abstract!Init
  <2> SUFFICES ASSUME Init PROVE Abstract!Init
    OBVIOUS
  <2>1. ~Passing
    BY DEF Init, Passing
  <2> QED
    BY <2>1 DEF Init, Abstract!Init
<1> QED
  BY <1>1, PassingNext, FlightInvariant, PTL DEF Spec

-----------------------------------------------------------------------------
(* The index at rest.  Bounds that are not those of the file are excused   *)
(* while their cell is about to be forgotten, and so are bounds on their   *)
(* way from a scanner; a scanner holds one cell at most.                   *)
Same(ed, c) == ed = 0 \/ disk[c] = 0 \/ ed = disk[c]
OneCell == \A s \in Scanners : \A c, d \in walk[s].cell : c = d
KeptBounds ==
  \A c \in Cells \ (raced \cup cut) : import[c] = "written" \/ Same(bbox[c], c)
ReadBounds ==
  \A s \in Scanners : \A c \in walk[s].cell :
    pc[s] = "insert" => c \in raced \/ import[c] = "written" \/ Same(walk[s].ed, c)

(* A cell that no request has touched since the last pass began.           *)
Still(c) == ~dirty /\ c \notin dropping /\ import[c] = "idle" /\ c \notin unasked

(* Of such a cell the pass knows the truth as far as it has come, and at   *)
(* its end so does the index.                                              *)
Named(c) == (bbox[c] # 0) = (disk[c] # 0)
Walked(s, c) ==
  /\ c \in walk[s].listed \cup walk[s].present => disk[c] # 0
  /\ disk[c] # 0 => c \in walk[s].unread \cup walk[s].listed \cup walk[s].present
  /\ c \in walk[s].present \ walk[s].cell => bbox[c] # 0
Passed(s, c) == IF pc[s] \in {"save", "end"} THEN Named(c) ELSE Walked(s, c)
PassInv ==
  \A c \in Cells : Still(c) =>
    /\ Idle = Scanners => Named(c)
    /\ \A s \in Scanners : pc[s] \in InPass => Passed(s, c)
RestsClean == Idle = Scanners => ~dirty
Missed == \A c \in unasked : disk[c] = 0 \/ import[c] # "idle" \/ dirty

BoundsInv == OneCell /\ KeptBounds /\ ReadBounds
NamesInv == RestsClean /\ PassInv
IndexInv == FlightInv /\ BoundsInv /\ NamesInv /\ Missed

LEMMA BoundsInit == Init => BoundsInv
<1> SUFFICES ASSUME Init PROVE BoundsInv
  OBVIOUS
<1>1. \A s \in Scanners : walk[s].cell = {}
  BY DEF Init, NewWalk
<1>2. bbox = [c \in Cells |-> 0]
  BY DEF Init
<1>3. KeptBounds
  BY <1>2 DEF KeptBounds, Same
<1> QED
  BY <1>1, <1>3 DEF BoundsInv, OneCell, ReadBounds

(* Only Visit, Parse and Insert change what a scanner holds.               *)
LEMMA BoundsNext ==
  ASSUME TypeOK, SingleFlight, BoundsInv, [Next]_vars
  PROVE  BoundsInv'
<1> USE DEF BoundsInv, OneCell, KeptBounds, ReadBounds, Same
<1>1. ASSUME NEW c \in Cells, WriteCell(c) PROVE BoundsInv'
  <2>1. /\ import'[c] = "written" /\ UNCHANGED <<bbox, pc, walk, raced, cut>>
        /\ \A d \in Cells : d # c => disk'[d] = disk[d] /\ import'[d] = import[d]
    BY <1>1 DEF TypeOK, WriteCell, Bounds, index, scanner, history
  <2>2. \A s \in Scanners : walk[s].cell \subseteq Cells
    BY DEF TypeOK, Walk
  <2> QED
    BY <2>1, <2>2
<1>2. ASSUME NEW c \in Cells, RemoveSet(c) \/ RemoveDistrict(c) PROVE BoundsInv'
  <2>1. UNCHANGED <<import, bbox, pc, walk, raced, cut>>
    BY <1>2 DEF RemoveSet, RemoveDistrict, index, scanner, history
  <2>2. \A d \in Cells : disk'[d] \in {0, disk[d]}
    BY <1>2 DEF TypeOK, RemoveSet, RemoveDistrict, Bounds
  <2>3. \A s \in Scanners : walk[s].cell \subseteq Cells
    BY DEF TypeOK, Walk
  <2> QED
    BY <2>1, <2>2, <2>3
<1>3. ASSUME NEW c \in Cells, Forget(c) PROVE BoundsInv'
  <2>1. /\ import[c] = "written" /\ import' = [import EXCEPT ![c] = "forgotten"]
        /\ bbox' = [bbox EXCEPT ![c] = 0] /\ cut' = cut \ {c} /\ UNCHANGED <<disk, pc, walk>>
        /\ raced' = IF StaleInFlight(c) THEN raced \cup {c} ELSE raced \ {c}
    BY <1>3 DEF Forget, scanner
  <2>2. ASSUME NEW s \in Scanners, c \in walk[s].cell, pc[s] = "insert"
        PROVE  c \in raced' \/ walk[s].ed = disk[c]
    <3>1. walk[s].cell = {c}
      BY <2>2
    <3> QED
      BY <2>1, <2>2, <3>1 DEF StaleInFlight
  <2>3. KeptBounds'
    BY <2>1 DEF TypeOK, Bounds
  <2>4. ReadBounds'
    <3> SUFFICES ASSUME NEW s \in Scanners, NEW d \in walk[s].cell, pc[s] = "insert"
                 PROVE  d \in raced' \/ import'[d] = "written" \/ Same(walk[s].ed, d)
      BY <2>1
    <3>1. CASE d = c
      BY <2>2, <3>1
    <3>2. CASE d # c
      BY <2>1, <3>2 DEF TypeOK, Walk
    <3> QED
      BY <3>1, <3>2
  <2> QED
    BY <2>1, <2>3, <2>4
<1>4. ASSUME NEW c \in Cells, Rebuild(c) \/ RebuildAfterRemove(c) PROVE BoundsInv'
  <2>1. /\ \A d \in Cells : import'[d] = "written" <=> import[d] = "written"
        /\ UNCHANGED <<disk, bbox, walk, raced, cut>>
    BY <1>4 DEF TypeOK, Rebuild, RebuildAfterRemove, index
  <2>2. \A s \in Scanners : pc'[s] = "insert" => pc[s] = "insert"
    BY <1>4, KickTypes DEF TypeOK, Rebuild, RebuildAfterRemove
  <2>3. \A s \in Scanners : walk[s].cell \subseteq Cells
    BY DEF TypeOK, Walk
  <2> QED
    BY <2>1, <2>2, <2>3
<1>5. ASSUME NEW s \in Scanners, Begin(s) \/ End(s) PROVE BoundsInv'
  <2>1. /\ walk' = [walk EXCEPT ![s] = NewWalk]
        /\ \E step \in {"walk", "begin", "idle"} : pc' = [pc EXCEPT ![s] = step]
    BY <1>5, Zenon DEF Begin, End
  <2>3. walk'[s].cell = {} /\ \A t \in Scanners : t # s => walk'[t] = walk[t] /\ pc'[t] = pc[t]
    BY <2>1 DEF TypeOK, NewWalk
  <2>2. UNCHANGED <<disk, import, bbox, raced, cut>>
    BY <1>5 DEF Begin, End, files, index, history
  <2> QED
    BY <2>2, <2>3
<1>6. ASSUME NEW s \in Scanners, NEW c \in Cells, ReadDir(s, c) PROVE BoundsInv'
  <2>1. \A t \in Scanners : walk'[t].cell = walk[t].cell /\ walk'[t].ed = walk[t].ed
    BY <1>6 DEF TypeOK, ReadDir, Walk
  <2> QED
    BY <1>6, <2>1 DEF ReadDir, files, index, history
<1>7. ASSUME NEW s \in Scanners, NEW c \in Cells, Visit(s, c) PROVE BoundsInv'
  <2>1. walk'[s].cell \subseteq {c} /\ pc'[s] # "insert"
    BY <1>7 DEF TypeOK, Visit, Walk
  <2>2. \A t \in Scanners : t # s => walk'[t] = walk[t] /\ pc'[t] = pc[t]
    BY <1>7 DEF TypeOK, Visit
  <2>3. UNCHANGED <<disk, import, bbox, raced, cut>>
    BY <1>7 DEF Visit, files, index, history
  <2> QED
    BY <2>1, <2>2, <2>3
<1>8. ASSUME NEW s \in Scanners, Parse(s) PROVE BoundsInv'
  <2>1. PICK c \in walk[s].cell :
          walk' = [walk EXCEPT ![s].ed = disk[c],
                               ![s].cell = IF disk[c] = 0 THEN {} ELSE @]
    BY <1>8 DEF Parse
  <2>2. walk[s].cell = {c}
    BY <2>1
  <2>3. walk'[s].cell \subseteq {c} /\ walk'[s].ed = disk[c]
    BY <2>1, <2>2 DEF TypeOK, Walk
  <2>4. \A t \in Scanners : t # s => walk'[t] = walk[t] /\ pc'[t] = pc[t]
    BY <1>8, <2>1 DEF TypeOK, Parse
  <2>5. UNCHANGED <<disk, import, bbox, raced, cut>>
    BY <1>8 DEF Parse, files, index, history
  <2> QED
    BY <2>3, <2>4, <2>5
<1>9. ASSUME NEW s \in Scanners, Insert(s) PROVE BoundsInv'
  <2>1. PICK c \in walk[s].cell : bbox' = [bbox EXCEPT ![c] = walk[s].ed]
    BY <1>9 DEF Insert
  <2>2. pc[s] = "insert" /\ UNCHANGED <<disk, import, raced, cut>>
    BY <1>9 DEF Insert, files, history
  <2>3. walk'[s].cell = {}
    BY <1>9 DEF TypeOK, Insert, Walk
  <2>4. \A t \in Scanners : t # s => walk'[t] = walk[t] /\ pc'[t] = pc[t]
    BY <1>9 DEF TypeOK, Insert
  <2>5. KeptBounds'
    BY <2>1, <2>2 DEF TypeOK, Bounds
  <2> QED
    BY <2>2, <2>3, <2>4, <2>5
<1>10. ASSUME NEW s \in Scanners, Checkpoint(s) \/ Save(s) PROVE BoundsInv'
  BY <1>10 DEF TypeOK, Checkpoint, Save, files, history
<1>11. ASSUME NEW s \in Scanners, Reconcile(s) PROVE BoundsInv'
  <2>1. \A c \in Cells : bbox'[c] = IF c \in walk[s].present THEN bbox[c] ELSE 0
    BY <1>11 DEF Reconcile
  <2>2. /\ UNCHANGED <<disk, import, walk>>
        /\ raced' = raced \cap walk[s].present /\ cut' = cut \cap walk[s].present
        /\ pc[s] = "walk" /\ \A t \in Scanners : pc'[t] = "insert" => t # s /\ pc[t] = "insert"
    BY <1>11 DEF TypeOK, Reconcile, files, history
  <2>3. KeptBounds'
    BY <2>1, <2>2
  <2>4. \A t \in Scanners : pc'[t] # "insert"
    BY <2>2 DEF SingleFlight, Idle
  <2> QED
    BY <2>2, <2>3, <2>4
<1>12. CASE Restart
  <2>1. \A s \in Scanners : walk'[s].cell = {}
    BY <1>12, WalkTypes DEF Restart
  <2>2. \A c \in Cells \ cut' : bbox'[c] = 0 \/ bbox'[c] = disk'[c]
    BY <1>12 DEF Restart
  <2> QED
    BY <2>1, <2>2
<1>13. CASE UNCHANGED vars
  BY <1>13 DEF vars, files, index, scanner, history
<1> QED
  BY <1>1, <1>2, <1>3, <1>4, <1>5, <1>6, <1>7, <1>8, <1>9, <1>10, <1>11, <1>12,
     <1>13 DEF Next, Client, Request, Scan

LEMMA NamesInit == Init => NamesInv
<1> SUFFICES ASSUME Init PROVE NamesInv
  OBVIOUS
<1>1. PICK s \in Scanners : pc = [t \in Scanners |-> IF t = s THEN "begin" ELSE "idle"]
  BY DEF Init
<1>2. dirty /\ Idle # Scanners
  BY <1>1 DEF Init, Idle
<1> QED
  BY <1>2 DEF NamesInv, RestsClean, PassInv, Still

(* A request leaves no cell still but those it does not touch.             *)
LEMMA NamesKick ==
  ASSUME TypeOK, SingleFlight, Kick
  PROVE  NamesInv'
<1>1. dirty' = TRUE
  BY DEF Kick
<1>2. Idle' # Scanners
  <2>1. CASE scanning
    BY <2>1 DEF Kick, SingleFlight, Idle
  <2>2. CASE ~scanning
    BY <2>2 DEF Kick, StartScanner, Idle, TypeOK
  <2> QED
    BY <2>1, <2>2
<1> QED
  BY <1>1, <1>2 DEF NamesInv, RestsClean, PassInv, Still

(* What a step does to one cell that stays still, by the scanner it is of. *)
LEMMA NamesRest ==
  ASSUME NamesInv, UNCHANGED <<flight, pc>>,
         \A c \in Cells : Still(c)' => /\ Still(c) /\ UNCHANGED <<disk[c], bbox[c]>>
                                       /\ walk' = walk
  PROVE  NamesInv'
<1>1. RestsClean'
  BY DEF NamesInv, RestsClean, Idle, flight
<1>2. ASSUME NEW c \in Cells, Still(c)'
      PROVE  /\ Idle' = Scanners => Named(c)'
             /\ \A s \in Scanners : pc'[s] \in InPass => Passed(s, c)'
  <2>1. /\ Idle = Scanners => Named(c)
        /\ \A s \in Scanners : pc[s] \in InPass => Passed(s, c)
    BY <1>2 DEF NamesInv, PassInv
  <2>2. UNCHANGED <<disk[c], bbox[c], walk, pc>>
    BY <1>2
  <2> QED
    BY <2>1, <2>2 DEF Idle, Named, Passed, Walked
<1> QED
  BY <1>1, <1>2 DEF NamesInv, PassInv

(* A step within a pass keeps the truth of still cells it had so far.      *)
LEMMA NamesPass ==
  ASSUME TypeOK, SingleFlight, NamesInv, NEW s \in Scanners,
         pc[s] \in InPass, pc'[s] \in InPass,
         \A t \in Scanners : t # s => pc'[t] = pc[t],
         UNCHANGED <<dirty, dropping, import, unasked>>,
         \A c \in Cells : Still(c) /\ Passed(s, c) => Passed(s, c)'
  PROVE  NamesInv'
<1>1. \A t \in Scanners : t # s => pc[t] = "idle"
  BY DEF SingleFlight, Idle, InPass
<1>2. Idle' # Scanners
  BY DEF Idle, InPass
<1>3. ASSUME NEW c \in Cells, Still(c)', NEW t \in Scanners, pc'[t] \in InPass
      PROVE  Passed(t, c)'
  <2>1. t = s
    BY <1>1, <1>3 DEF InPass
  <2>2. Still(c)
    BY <1>3 DEF Still
  <2>3. Passed(s, c)
    BY <2>2 DEF NamesInv, PassInv
  <2> QED
    BY <2>1, <2>2, <2>3
<1> QED
  BY <1>2, <1>3 DEF NamesInv, RestsClean, PassInv

LEMMA NamesScan ==
  ASSUME FlightInv, OneCell, NamesInv, NEW s \in Scanners, Scan(s)
  PROVE  NamesInv'
<1> USE DEF FlightInv
<1>1. CASE Begin(s)
  <2>1. /\ pc[s] = "begin" /\ pc' = [pc EXCEPT ![s] = "walk"] /\ dirty' = FALSE
        /\ walk' = [walk EXCEPT ![s] = NewWalk]
    BY <1>1 DEF Begin
  <2>2. \A t \in Scanners : t # s => pc[t] = "idle"
    BY <2>1 DEF SingleFlight, Idle
  <2>3. \A t \in Scanners : pc'[t] = IF t = s THEN "walk" ELSE "idle"
    BY <2>1, <2>2 DEF TypeOK
  <2>4. walk'[s] = NewWalk
    BY <2>1 DEF TypeOK
  <2>5. \A c \in Cells : Walked(s, c)'
    BY <2>4 DEF Walked, NewWalk
  <2>6. Idle' # Scanners
    BY <2>3 DEF Idle
  <2> QED
    BY <2>3, <2>5, <2>6 DEF NamesInv, RestsClean, PassInv, Passed, InPass
<1>2. ASSUME NEW c \in Cells, ReadDir(s, c) PROVE NamesInv'
  <2>1. /\ pc[s] = "walk" /\ UNCHANGED <<disk, bbox, pc, dirty, dropping, import, unasked>>
    BY <1>2 DEF ReadDir, files, index, flight, history
  <2>2. /\ walk'[s].unread = walk[s].unread \ {c}
        /\ walk'[s].listed = IF disk[c] # 0 THEN walk[s].listed \cup {c} ELSE walk[s].listed
        /\ walk'[s].present = walk[s].present /\ walk'[s].cell = walk[s].cell
    BY <1>2 DEF TypeOK, ReadDir, Walk
  <2>3. \A d \in Cells : Passed(s, d) => Passed(s, d)'
    BY <2>1, <2>2 DEF Passed, Walked
  <2> QED
    BY <2>1, <2>3, NamesPass DEF InPass
<1>3. ASSUME NEW c \in Cells, Visit(s, c) PROVE NamesInv'
  <2>1. /\ pc[s] = "walk" /\ pc'[s] \in {"walk", "parse"} /\ c \in walk[s].listed
        /\ \A t \in Scanners : t # s => pc'[t] = pc[t]
        /\ UNCHANGED <<disk, bbox, dirty, dropping, import, unasked>>
    BY <1>3 DEF TypeOK, Visit, files, index, flight, history
  <2>2. /\ walk'[s].unread = walk[s].unread
        /\ walk'[s].listed = walk[s].listed \ {c}
        /\ walk'[s].present = walk[s].present \cup {c}
        /\ walk'[s].cell = IF bbox[c] = 0 THEN {c} ELSE {}
    BY <1>3 DEF TypeOK, Visit, Walk
  <2>3. walk[s].cell = {}
    BY <2>1 DEF TypeOK
  <2>4. \A d \in Cells : Passed(s, d) => Passed(s, d)'
    BY <2>1, <2>2, <2>3 DEF Passed, Walked
  <2> QED
    BY <2>1, <2>4, NamesPass DEF InPass
<1>4. CASE Parse(s)
  <2>1. PICK c \in walk[s].cell :
          /\ walk' = [walk EXCEPT ![s].ed = disk[c],
                                  ![s].cell = IF disk[c] = 0 THEN {} ELSE @]
          /\ pc' = [pc EXCEPT ![s] = IF disk[c] = 0 THEN "walk" ELSE "insert"]
    BY <1>4 DEF Parse
  <2>2. /\ pc[s] = "parse" /\ pc'[s] \in {"walk", "insert"}
        /\ \A t \in Scanners : t # s => pc'[t] = pc[t]
        /\ UNCHANGED <<disk, bbox, dirty, dropping, import, unasked>>
    BY <1>4, <2>1 DEF TypeOK, Parse, files, index, flight, history
  <2>3. /\ walk'[s].unread = walk[s].unread /\ walk'[s].listed = walk[s].listed
        /\ walk'[s].present = walk[s].present
        /\ walk'[s].cell = IF disk[c] = 0 THEN {} ELSE walk[s].cell
    BY <2>1 DEF TypeOK, Walk
  <2>4. walk[s].cell = {c}
    BY <2>1 DEF OneCell
  <2>5. \A d \in Cells : Passed(s, d) => Passed(s, d)'
    BY <2>2, <2>3, <2>4 DEF Passed, Walked
  <2> QED
    BY <2>2, <2>5, NamesPass DEF InPass
<1>5. CASE Insert(s)
  <2>1. PICK c \in walk[s].cell : bbox' = [bbox EXCEPT ![c] = walk[s].ed]
    BY <1>5 DEF Insert
  <2>2. /\ pc[s] = "insert" /\ pc'[s] \in {"walk", "checkpoint"}
        /\ \A t \in Scanners : t # s => pc'[t] = pc[t]
        /\ UNCHANGED <<disk, dirty, dropping, import, unasked>>
    BY <1>5 DEF TypeOK, Insert, files, flight, history
  <2>3. /\ walk'[s].unread = walk[s].unread /\ walk'[s].listed = walk[s].listed
        /\ walk'[s].present = walk[s].present /\ walk'[s].cell = {}
    BY <1>5 DEF TypeOK, Insert, Walk
  <2>4. walk[s].cell = {c} /\ c \in Cells /\ walk[s].ed # 0
    BY <2>1, <2>2 DEF TypeOK, OneCell, Walk
  <2>5. bbox'[c] # 0 /\ \A d \in Cells : d # c => bbox'[d] = bbox[d]
    BY <2>1, <2>4 DEF TypeOK, Bounds
  <2>6. \A d \in Cells : Passed(s, d) => Passed(s, d)'
    BY <2>2, <2>3, <2>4, <2>5 DEF Passed, Walked
  <2> QED
    BY <2>2, <2>6, NamesPass DEF InPass
<1>6. CASE Checkpoint(s)
  <2>1. /\ pc[s] = "checkpoint" /\ pc'[s] = "walk"
        /\ \A t \in Scanners : t # s => pc'[t] = pc[t]
        /\ UNCHANGED <<disk, bbox, walk, dirty, dropping, import, unasked>>
    BY <1>6 DEF TypeOK, Checkpoint, files, flight, history
  <2>2. \A d \in Cells : Passed(s, d) => Passed(s, d)'
    BY <2>1 DEF Passed, Walked
  <2> QED
    BY <2>1, <2>2, NamesPass DEF InPass
<1>7. CASE Reconcile(s)
  <2>1. /\ pc[s] = "walk" /\ pc'[s] \in {"save", "end"}
        /\ walk[s].unread = {} /\ walk[s].listed = {}
        /\ \A t \in Scanners : t # s => pc'[t] = pc[t]
        /\ UNCHANGED <<disk, walk, dirty, dropping, import, unasked>>
    BY <1>7 DEF TypeOK, Reconcile, files, flight, history
  <2>2. \A d \in Cells : bbox'[d] = IF d \in walk[s].present THEN bbox[d] ELSE 0
    BY <1>7 DEF Reconcile
  <2>3. walk[s].cell = {}
    BY <2>1 DEF TypeOK
  <2>4. \A d \in Cells : Passed(s, d) => Passed(s, d)'
    BY <2>1, <2>2, <2>3 DEF Passed, Walked, Named
  <2> QED
    BY <2>1, <2>4, NamesPass DEF InPass
<1>8. CASE Save(s)
  <2>1. /\ pc[s] = "save" /\ pc'[s] = "end"
        /\ \A t \in Scanners : t # s => pc'[t] = pc[t]
        /\ UNCHANGED <<disk, bbox, walk, dirty, dropping, import, unasked>>
    BY <1>8 DEF TypeOK, Save, files, flight, history
  <2>2. \A d \in Cells : Passed(s, d) => Passed(s, d)'
    BY <2>1 DEF Passed, Named
  <2> QED
    BY <2>1, <2>2, NamesPass DEF InPass
<1>9. CASE End(s)
  <2>1. /\ pc[s] = "end"
        /\ UNCHANGED <<disk, bbox, dirty, dropping, import, unasked>>
    BY <1>9 DEF End, files, index, history
  <2>2. /\ dirty => pc' = [pc EXCEPT ![s] = "begin"]
        /\ ~dirty => pc' = [pc EXCEPT ![s] = "idle"]
    BY <1>9 DEF End
  <2>3. \A t \in Scanners : t # s => pc[t] = "idle"
    BY <2>1 DEF SingleFlight, Idle
  <2>4. \A t \in Scanners : pc'[t] \notin InPass
    BY <2>2, <2>3 DEF TypeOK, InPass
  <2>5. dirty => Idle' # Scanners
    BY <2>2 DEF TypeOK, Idle
  <2>6. \A c \in Cells : Still(c) => Named(c)
    BY <2>1 DEF NamesInv, PassInv, Passed, InPass
  <2>7. \A c \in Cells : Still(c)' => Named(c)'
    BY <2>1, <2>6 DEF Still, Named
  <2> QED
    BY <2>1, <2>4, <2>5, <2>7 DEF NamesInv, RestsClean, PassInv
<1> QED
  BY <1>1, <1>2, <1>3, <1>4, <1>5, <1>6, <1>7, <1>8, <1>9 DEF Scan

LEMMA NamesNext ==
  ASSUME FlightInv, OneCell, NamesInv, [Next]_vars
  PROVE  NamesInv'
<1> USE DEF FlightInv
<1>1. ASSUME NEW c \in Cells, WriteCell(c) PROVE NamesInv'
  <2>1. /\ import'[c] = "written" /\ UNCHANGED <<flight, pc, walk, bbox, dropping, unasked>>
        /\ \A d \in Cells : d # c => disk'[d] = disk[d] /\ import'[d] = import[d]
    BY <1>1 DEF TypeOK, WriteCell, Bounds, index, scanner, history
  <2> QED
    BY <2>1, NamesRest DEF Still, flight
<1>2. ASSUME NEW c \in Cells, RemoveSet(c) \/ RemoveDistrict(c) PROVE NamesInv'
  <2>1. /\ UNCHANGED <<flight, pc, walk, bbox, import>>
        /\ \A d \in Cells : d # c => disk'[d] = disk[d]
    BY <1>2 DEF TypeOK, RemoveSet, RemoveDistrict, Bounds, index, scanner, history
  <2>2. c \in dropping' \cup unasked' /\ dropping \subseteq dropping' /\ unasked \subseteq unasked'
    BY <1>2 DEF RemoveSet, RemoveDistrict, history
  <2> QED
    BY <2>1, <2>2, NamesRest DEF Still, flight
<1>3. ASSUME NEW c \in Cells, Forget(c) PROVE NamesInv'
  <2>1. /\ import'[c] = "forgotten" /\ UNCHANGED <<flight, pc, walk, disk, dropping, unasked>>
        /\ \A d \in Cells : d # c => bbox'[d] = bbox[d] /\ import'[d] = import[d]
    BY <1>3 DEF TypeOK, Forget, Bounds, scanner
  <2> QED
    BY <2>1, NamesRest DEF Still, flight
<1>4. ASSUME NEW c \in Cells, Rebuild(c) \/ RebuildAfterRemove(c) PROVE NamesInv'
  BY <1>4, NamesKick DEF Rebuild, RebuildAfterRemove
<1>5. CASE Restart
  <2>1. dirty' = TRUE /\ Idle' # Scanners
    BY <1>5 DEF Restart, Idle
  <2> QED
    BY <2>1 DEF NamesInv, RestsClean, PassInv, Still
<1>6. ASSUME NEW s \in Scanners, Scan(s) PROVE NamesInv'
  BY <1>6, NamesScan
<1>7. CASE UNCHANGED vars
  BY <1>7, NamesRest DEF vars, files, index, flight, scanner, history, Still
<1> QED
  BY <1>1, <1>2, <1>3, <1>4, <1>5, <1>6, <1>7 DEF Next, Client, Request

(* A cell deleted with its district and written again is asked for.        *)
LEMMA MissedNext ==
  ASSUME TypeOK, Missed, [Next]_vars PROVE Missed'
<1> USE DEF Missed
<1>1. ASSUME NEW c \in Cells, WriteCell(c) PROVE Missed'
  BY <1>1 DEF TypeOK, WriteCell, Bounds, flight, history
<1>2. ASSUME NEW c \in Cells, RemoveSet(c) \/ RemoveDistrict(c) PROVE Missed'
  BY <1>2 DEF TypeOK, RemoveSet, RemoveDistrict, Bounds, flight, history
<1>3. ASSUME NEW c \in Cells, Forget(c) PROVE Missed'
  BY <1>3 DEF TypeOK, Forget, flight
<1>4. ASSUME NEW c \in Cells, Rebuild(c) \/ RebuildAfterRemove(c) PROVE Missed'
  BY <1>4 DEF Rebuild, RebuildAfterRemove, Kick
<1>5. ASSUME NEW s \in Scanners, Begin(s) PROVE Missed'
  BY <1>5 DEF Begin
<1>6. ASSUME NEW s \in Scanners, Scan(s), ~Begin(s) PROVE Missed'
  <2>1. UNCHANGED <<disk, import, dirty, unasked>>
    BY <1>6
       DEF Scan, ReadDir, Visit, Parse, Insert, Checkpoint, Reconcile, Save, End, files,
           flight, history
  <2> QED
    BY <2>1
<1>7. CASE Restart
  BY <1>7 DEF Restart
<1>8. CASE UNCHANGED vars
  BY <1>8 DEF vars, files, flight, history
<1> QED
  BY <1>1, <1>2, <1>3, <1>4, <1>5, <1>6, <1>7, <1>8 DEF Next, Client, Request

LEMMA IndexInvariant == Spec => []IndexInv
<1>1. Init => IndexInv
  BY FlightInit, BoundsInit, NamesInit DEF IndexInv, Missed, Init
<1>2. IndexInv /\ [Next]_vars => IndexInv'
  <2>1. ASSUME IndexInv, [Next]_vars PROVE FlightInv'
    BY <2>1, FlightNext DEF IndexInv
  <2>2. ASSUME IndexInv, [Next]_vars PROVE BoundsInv'
    BY <2>2, BoundsNext DEF IndexInv, FlightInv
  <2>3. ASSUME IndexInv, [Next]_vars PROVE NamesInv'
    BY <2>3, NamesNext DEF IndexInv, BoundsInv
  <2>4. ASSUME IndexInv, [Next]_vars PROVE Missed'
    BY <2>4, MissedNext DEF IndexInv, FlightInv
  <2> QED
    BY <2>1, <2>2, <2>3, <2>4 DEF IndexInv
<1> QED
  BY <1>1, <1>2, PTL DEF Spec

(* Once nothing is under way the index names every cell on disk, however   *)
(* downloads, removals, scans and restarts were interleaved, and no other  *)
(* but those deleted with their district since; and a cell's bounds are    *)
(* those of its file unless old ones were inserted after they had been     *)
(* forgotten (raced) or loaded by a restart (cut), the interleavings that  *)
(* scan() beside cacheDistrict and save() do leave behind (cellindex.go).  *)
THEOREM IndexIsTrueAtRest == Spec => []IndexIsCurrent
<1>1. ASSUME IndexInv, Settled
      PROVE  \A c \in Cells : /\ disk[c] # 0 => bbox[c] # 0
                              /\ disk[c] = 0 => bbox[c] = 0 \/ c \in unasked
  <2>1. Idle = Scanners /\ ~dirty
    BY <1>1 DEF IndexInv, FlightInv, SingleFlight, NamesInv, RestsClean, Settled
  <2>2. \A c \in Cells \ unasked : Still(c)
    BY <1>1, <2>1 DEF Settled, Still
  <2>3. \A c \in unasked : disk[c] = 0
    BY <1>1, <2>1 DEF IndexInv, Missed, Settled, FlightInv, TypeOK
  <2> QED
    BY <1>1, <2>1, <2>2, <2>3 DEF IndexInv, NamesInv, PassInv, Named
<1>2. ASSUME IndexInv, Settled
      PROVE  \A c \in Cells \ (raced \cup cut) : bbox[c] # 0 /\ disk[c] # 0 => bbox[c] = disk[c]
  BY <1>2 DEF IndexInv, BoundsInv, KeptBounds, Same, Settled
<1>3. IndexInv => IndexIsCurrent
  BY <1>1, <1>2 DEF IndexIsCurrent, IndexNamesInstalled, BoundsAreCurrent
<1> QED
  BY <1>3, IndexInvariant, PTL
=============================================================================
