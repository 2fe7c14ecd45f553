------------------------------ MODULE MCEventLog ------------------------------
(***************************************************************************)
(* EventLog for TLC: one poller that takes every type and one that filters *)
(* one of two types out, and a memory of two events, so that every poll    *)
(* may find its cursor in memory or not, and stop at its limit or not.     *)
(***************************************************************************)
EXTENDS EventLog, TLC

CONSTANTS p1, p2, caller, text, result

MCInclude == p1 :> {text, result} @@ p2 :> {result}
=============================================================================
