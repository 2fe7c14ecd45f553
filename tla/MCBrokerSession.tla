-------------------------- MODULE MCBrokerSession --------------------------
(***************************************************************************)
(* BrokerSession for TLC.  Calls of a kind are alike, and the tasks are    *)
(* model values, so the runs without liveness use their symmetry.          *)
(***************************************************************************)
EXTENDS BrokerSession, TLC

Symmetry ==
    Permutations(Senders) \cup Permutations(Interrupters)
        \cup Permutations(Closers) \cup Permutations(Callbacks)
=============================================================================
