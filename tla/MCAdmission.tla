------------------------------ MODULE MCAdmission ------------------------------
(***************************************************************************)
(* Admission for TLC: two sessions whose turns cost up to two thirds of    *)
(* the budget overshoot it in every way, over two windows; a backoff that  *)
(* doubles once and is capped, with a retry delay of zero, one below the   *)
(* base and one above the cap.                                             *)
(***************************************************************************)
EXTENDS Admission
=============================================================================
