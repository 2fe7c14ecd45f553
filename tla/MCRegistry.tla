------------------------------ MODULE MCRegistry ------------------------------
(***************************************************************************)
(* Registry for TLC: two sessions for one place, two concurrent closes of  *)
(* each, and one crash.                                                    *)
(***************************************************************************)
EXTENDS Registry, TLC

Symmetry == Permutations(Sessions) \cup Permutations(Closers)
=============================================================================
