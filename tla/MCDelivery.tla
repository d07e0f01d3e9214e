----------------------------- MODULE MCDelivery -----------------------------
(***************************************************************************)
(* A reply of two segments and one of one, so that one process can leave a reply *)
(* in flight and the next can send another.  Crashes while serving and      *)
(* restarts are not counted; two mishaps may meet.                         *)
(***************************************************************************)
EXTENDS Delivery

CONSTANTS t1, t2
MCTurns == {t1, t2}
MCChunks == [t \in MCTurns |-> IF t = t1 THEN 2 ELSE 1]
=============================================================================
