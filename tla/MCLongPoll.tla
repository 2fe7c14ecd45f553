------------------------------ MODULE MCLongPoll ------------------------------
(***************************************************************************)
(* LongPoll for TLC.  Calls of a kind are alike, and model values.         *)
(***************************************************************************)
EXTENDS LongPoll, TLC

Symmetry ==
    Permutations(Senders) \cup Permutations(Interrupters)
        \cup Permutations(Closers) \cup Permutations(Callbacks)
=============================================================================
