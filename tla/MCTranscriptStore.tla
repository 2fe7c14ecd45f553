------------------------- MODULE MCTranscriptStore -------------------------
(***************************************************************************)
(* TranscriptStore for TLC: a session with two entries, a third and a      *)
(* title, in batches that overlap or name one twice, and the transcript of *)
(* its subagent.                                                           *)
(***************************************************************************)
EXTENDS TranscriptStore

MCKeys == {[session |-> "s", subpath |-> ""], [session |-> "s", subpath |-> "agent"]}
MCSafe(name) == name
MCBatches(k) ==
    IF k.subpath = ""
    THEN {<<"e1", "e2">>, <<"e2", "e3">>, <<"title", "e3">>, <<"e3", "e3">>}
    ELSE {<<"a1">>, <<"a1", "a2">>}
=============================================================================
