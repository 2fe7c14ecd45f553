------------------------------ MODULE MCPolicyPark ------------------------------
(***************************************************************************)
(* PolicyPark for TLC.  Requests meet in deny_all_for_turn() and           *)
(* sweep_expired(), which treat every request of a set alike, and in the   *)
(* overlay, where one adds and one reads: two requests show every way one  *)
(* can disturb another.  The rules are rows of policies/default.yaml, one  *)
(* of each kind; one request asks for a shell command or a page, the other *)
(* for the same, for another call of the tool, in another session of the   *)
(* policy, in one of another policy, or what a guard or a rule refuses.    *)
(***************************************************************************)
EXTENDS PolicyPark, TLC

CONSTANTS r1, r2, edit, status, push, curl, date, rm, rmAll, fetchA, fetchB,
          s1, s2, other

MCRequests == {r1, r2}
MCCalls == {edit, status, push, curl, date, rm, rmAll, fetchA, fetchB}
MCShell == {status, push, curl, date, rm, rmAll}
\* "git status", "git push", "curl ...", "echo $(date)", "rm -rf /", "rm *".
MCCommandOf ==
    status :> <<"g", "s">> @@ push :> <<"g", "p">> @@ curl :> <<"c">>
    @@ date :> <<"e", ")">> @@ rm :> <<"r", "-">> @@ rmAll :> <<"r", "*">>
MCToolOf == [c \in MCCalls |-> CASE c \in MCShell -> "Bash" [] c = edit -> "Edit"
                                 [] OTHER -> "WebFetch"]
MCPolicyOf == s1 :> "reviewed" @@ s2 :> "reviewed" @@ other :> "readonly"
Row(form, tool, match, verdict, guard) ==
    [form |-> form, tool |-> tool, match |-> match, decision |-> verdict, guard |-> guard]
BashArgs(match, verdict) == Row("args", "Bash", match, verdict, Unguarded)
Bash(verdict) == Row("tool", "Bash", MCShell, verdict, Unguarded)
All(verdict) == Row("glob", "", MCCalls, verdict, Unguarded)
Edit == Row("tool", "Edit", {edit}, "allow", "workspace_write")
Git == Row("args", "Bash", {status, push}, "allow", "no_push")
ReadOnly == << BashArgs({status}, "allow"),
               Row("tool", "WebFetch", {fetchA, fetchB}, "ask", Unguarded) >>
\* The file; one whose denial of pushes comes too late, which loads all the
\* same; and two that do not load.
MCFiles ==
    {[reviewed |-> list, readonly |-> ReadOnly] :
        list \in {<< Edit, Git, BashArgs({rm}, "deny"), BashArgs({curl}, "ask"),
                     Bash("ask") >>,
                  << BashArgs({status, push}, "allow"), BashArgs({push}, "deny") >>,
                  << Bash("allow"), BashArgs({rm}, "deny") >>,
                  << All("allow"), BashArgs({rm}, "deny") >>}}
MCDefault == [reviewed |-> "ask", readonly |-> "deny"]
MCObjections == [workspace_write |-> "deny", no_push |-> "ask"]
\* The file is in the workspace of s2 and not in that of s1.
MCObjectionable ==
    [workspace_write |-> {<<s1, edit>>}, no_push |-> {s1, s2, other} \X {push}]

Ask(s, c) == [session |-> s, call |-> c]
MCAsks ==
    {r1 :> a @@ r2 :> b :
        a \in {Ask(s1, curl), Ask(s1, fetchA)},
        b \in {Ask(s1, curl), Ask(s2, curl), Ask(other, curl),
               Ask(s1, fetchB), Ask(other, fetchB),
               Ask(s1, push), Ask(s1, rm), Ask(s1, edit), Ask(s2, edit)}}
    \cup {r1 :> Ask(s1, date) @@ r2 :> Ask(s1, date),
          r1 :> Ask(s1, rmAll) @@ r2 :> Ask(s2, rm)}
=============================================================================
