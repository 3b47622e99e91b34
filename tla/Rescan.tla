------------------------------- MODULE Rescan -------------------------------
(***************************************************************************)
(* What the index builders of internal/engine/server promise their         *)
(* callers: a rebuild that is asked for is followed by a whole pass over   *)
(* the data directory that began after it was asked for, passes never run  *)
(* side by side, and no pass runs that nobody asked for.                   *)
(***************************************************************************)
EXTENDS Naturals

VARIABLES asked,    \* rebuilds asked for so far
          begun,    \* how many of them the last pass began after
          passing   \* is a pass running

vars == <<asked, begun, passing>>

(* The start of a process asks for the first.                              *)
Init == asked = 1 /\ begun = 0 /\ passing = FALSE

Ask == asked' = asked + 1 /\ UNCHANGED <<begun, passing>>

Begin ==
  /\ ~passing /\ begun < asked
  /\ begun' = asked /\ passing' = TRUE /\ UNCHANGED asked

End == passing /\ passing' = FALSE /\ UNCHANGED <<asked, begun>>

(* The process is started again; a pass it was in has gone.                *)
Restart == asked' = asked + 1 /\ passing' = FALSE /\ UNCHANGED begun

Next == Ask \/ Begin \/ End \/ Restart

Spec == Init /\ [][Next]_vars /\ WF_vars(Begin) /\ WF_vars(End)
=============================================================================
