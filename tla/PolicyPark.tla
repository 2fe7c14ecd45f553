------------------------------- MODULE PolicyPark -------------------------------
(***************************************************************************)
(* The policy engine in front of PermissionPark: the rules of the policy a *)
(* session was given decide a call or send it to a client, and a client    *)
(* that resolves with remember="session" inserts a rule ahead of them.     *)
(*                                                                         *)
(* A pattern is the set of the calls it matches.  Every remembered rule    *)
(* allows, and all come before the policy's own, so their order says       *)
(* nothing and overlay_rules is a set of patterns.  It belongs to the      *)
(* Policy object, which every session of that policy evaluates.            *)
(***************************************************************************)
EXTENDS PermissionPark, Naturals, Sequences, SequencesExt

CONSTANTS
    Calls,         \* tool calls: a tool's name and its input
    ToolOf,        \* [Calls -> tools]
    ShellCalls,    \* calls of the tool "Bash" that have a command
    CommandOf,     \* [ShellCalls -> Seq of characters]: as many as tell the
                   \* commands apart, ")" and "*" among them
    Sessions,
    Policies,
    PolicyOf,      \* [Sessions -> Policies]: Session.permission_policy
    Files,         \* policy files: [Policies -> Seq of rules]
    Default,       \* [Policies -> decision]
    Objections,    \* [guards -> "deny" or "ask"]: what the guard turns "allow" into
    Objectionable  \* [guards -> SUBSET (Sessions \X Calls)]: when it does so

CONSTANT Asks      \* what the requests may ask: functions
                   \* [Requests -> [session : Sessions, call : Calls]]

Decisions == Verdicts \cup {"ask"}
Unguarded == "unguarded"

\* A rule: the calls its pattern matches, and what the pattern is like: a tool
\* ("Bash"), a glob ("mcp__*") or a tool with arguments ("Bash(git *)").
Rule == [match : SUBSET Calls, form : {"tool", "glob", "args"}, tool : STRING,
         decision : Decisions, guard : STRING]

ASSUME PolicyAssumption ==
    /\ ShellCalls \subseteq Calls
    /\ \A c \in ShellCalls : CommandOf[c] \in Seq(STRING)
    /\ PolicyOf \in [Sessions -> Policies]
    /\ Default \in [Policies -> Decisions]
    /\ Files \subseteq [Policies -> Seq(Rule)]
    /\ \A f \in Files : \A p \in Policies : \A i \in DOMAIN f[p] :
          f[p][i].form # "glob" =>
             \A c \in f[p][i].match : ToolOf[c] = f[p][i].tool
    /\ Asks \subseteq [Requests -> [session : Sessions, call : Calls]]

VARIABLES
    rules,      \* the policy file that was loaded
    asked,      \* what each request asks
    overlay,    \* [Policies -> the patterns of overlay_rules]
    remembered  \* history: requests resolved with remember="session"

policyVars == <<vars, rules, asked, overlay, remembered>>

----------------------------------------------------------------------------
(* The loader. *)

\* Mutant of WouldShadow: only a rule for the same tool is looked for.
WouldShadowSameTool(general, specific) ==
    /\ general.form = "tool" /\ specific.form = "args"
    /\ general.tool = specific.tool

\* _would_shadow(): rules without arguments are compared with those that have
\* some; one that ends in "*" is taken to match any tool.
WouldShadow(general, specific) ==
    /\ general.form # "args" /\ specific.form = "args"
    /\ general.form = "glob" \/ general.tool = specific.tool

\* _detect_shadowing() raises nothing.
Loads(list) ==
    \A i, j \in DOMAIN list : i < j => ~WouldShadow(list[i], list[j])

\* A broker whose policy file does not load does not start.
PolicyInit ==
    /\ Init
    /\ rules \in {f \in Files : \A p \in Policies : Loads(f[p])}
    /\ asked \in Asks
    /\ overlay = [p \in Policies |-> {}]
    /\ remembered = {}

PolicyAsked(r) == PolicyOf[asked[r].session]

----------------------------------------------------------------------------
(* Evaluation. *)

\* _apply_guard(): a guard takes an "allow" back, and nothing else.
ApplyGuard(rule, ask) ==
    IF /\ rule.decision = "allow" /\ rule.guard # Unguarded
       /\ <<ask.session, ask.call>> \in Objectionable[rule.guard]
    THEN Objections[rule.guard] ELSE rule.decision

\* Policy.evaluate() without the overlay: the first rule that matches.
RulesDecide(ask) ==
    LET p == PolicyOf[ask.session]
        hits == {i \in DOMAIN rules[p] : ask.call \in rules[p][i].match}
    IN  IF hits = {} THEN Default[p] ELSE ApplyGuard(rules[p][Min(hits)], ask)

\* Mutant of Evaluate: remembered rules come after the policy's own.
EvaluateOverlayLast(r) ==
    LET p == PolicyAsked(r)
    IN  IF /\ \E pattern \in overlay[p] : asked[r].call \in pattern
           /\ \A i \in DOMAIN rules[p] : asked[r].call \notin rules[p][i].match
        THEN "allow" ELSE RulesDecide(asked[r])

\* Policy.evaluate(): overlay_rules + rules.
Evaluate(r) ==
    IF \E pattern \in overlay[PolicyAsked(r)] : asked[r].call \in pattern
    THEN "allow" ELSE RulesDecide(asked[r])

\* The command of a pattern "Bash(...)": _matches() strips every ")" from its
\* end, not the last one only.
Stripped(command) ==
    SubSeq(command, 1,
           Max({0} \cup {i \in 1..Len(command) : command[i] # ")"}))

\* _matches() of such a pattern: a "*" at its end stands for any rest.
MatchesCommand(prefix, command) ==
    IF prefix # <<>> /\ Last(prefix) = "*"
    THEN IsPrefix(Front(prefix), command) ELSE command = prefix

\* The calls the rule remembered for a call matches: those of its tool, or,
\* for a shell command, what the command matches when it is read as a pattern.
RememberedPattern(call) ==
    IF call \notin ShellCalls THEN {c \in Calls : ToolOf[c] = ToolOf[call]}
    ELSE {c \in ShellCalls :
             MatchesCommand(Stripped(CommandOf[call]), CommandOf[c])}

----------------------------------------------------------------------------
(* The callback and resolve(), with the policy. *)

EvaluateAllowsOrDenies(r) ==
    /\ Evaluate(r) \in Verdicts
    /\ DecideByPolicy(r, Evaluate(r))
    /\ UNCHANGED <<rules, asked, overlay, remembered>>

EvaluateAsks(r, t) ==
    /\ Evaluate(r) = "ask"
    /\ Register(r, t)
    /\ UNCHANGED <<rules, asked, overlay, remembered>>

\* Mutant of Remember: overlay_rules is one list that all policies share.
RememberEverywhere(r) ==
    overlay' = [p \in Policies |->
                   overlay[p] \cup {RememberedPattern(asked[r].call)}]

\* The rule goes to the policy of the request's session.
Remember(r) ==
    overlay' = [overlay EXCEPT ![PolicyAsked(r)] =
                   @ \cup {RememberedPattern(asked[r].call)}]

\* resolve(), with remember="none" or "session".  A denial is not remembered.
ResolveAndRemember(r, v, remember) ==
    /\ Resolve(r, v)
    /\ IF remember /\ v = "allow"
       THEN Remember(r) /\ remembered' = remembered \cup {r}
       ELSE UNCHANGED <<overlay, remembered>>
    /\ UNCHANGED <<rules, asked>>

\* The rest of PermissionPark does not look at the policy.
CallbackGoesOn(r) ==
    /\ \/ Announce(r) \/ Wake(r) \/ TimeOut(r) \/ Answer(r) \/ CheckFails(r)
       \/ Expire(r) \/ TimerFires(r)
    /\ UNCHANGED <<rules, asked, overlay, remembered>>

BrokerDenies ==
    /\ SweepExpired \/ \E t \in Turns : DenyAllForTurn(t)
    /\ UNCHANGED <<rules, asked, overlay, remembered>>

PolicyNext ==
    \/ \E r \in Requests :
          \/ EvaluateAllowsOrDenies(r)
          \/ \E t \in Turns \cup {NoTurn} : EvaluateAsks(r, t)
          \/ \E v \in Verdicts, remember \in BOOLEAN :
                ResolveAndRemember(r, v, remember)
          \/ CallbackGoesOn(r)
    \/ BrokerDenies

PolicySpec == PolicyInit /\ [][PolicyNext]_policyVars
FairPolicySpec == PolicySpec /\ Fairness

----------------------------------------------------------------------------
(* Properties. *)

\* A command that ends in ")", as one with "$(...)" may: its pattern lacks it.
Clipped(call) ==
    /\ call \in ShellCalls /\ CommandOf[call] # <<>>
    /\ Last(CommandOf[call]) = ")"

\* What a client allowed for the session is not asked about again in it,
\* except for a command that ends in ")".
RememberedNotAsked ==
    [][\A r \in Requests : pc[r] = "unasked" /\ pc'[r] = "queued" =>
          ~\E q \in remembered :
              asked[q] = asked[r] /\ ~Clipped(asked[r].call)]_policyVars

\* Reasons a call is allowed without asking: the rules and guards of its
\* session's policy, or a call that a client allowed "for the session".  That
\* one is of the same policy, in whatever session, and of the same tool; for
\* "Bash" it is the same command, less its final ")"s, or one that ends in "*"
\* and whose text before it begins this one.
Reason(r) ==
    \/ RulesDecide(asked[r]) = "allow"
    \/ \E q \in remembered :
          /\ PolicyAsked(q) = PolicyAsked(r)
          /\ asked[r].call \in RememberedPattern(asked[q].call)

\* No call is allowed without a reason, whatever was remembered for other
\* policies and in which order calls, resolves and denials come.
AllowedForAReason ==
    \A r \in Requests : pc[r] = "decided" /\ answer[r] = "allow" => Reason(r)

\* No call that an argument rule of its policy denies is allowed at once by a
\* rule for the whole tool or for all tools, in any order of the file's rules;
\* only by an argument rule further up, or by a remembered decision.
DenialsReached ==
    \A r \in Requests : pc[r] = "decided" /\ answer[r] = "allow" =>
        LET list == rules[PolicyAsked(r)]
            Hits(i) == list[i].form = "args" /\ asked[r].call \in list[i].match
        IN  \A j \in DOMAIN list : Hits(j) /\ list[j].decision = "deny" =>
               \/ \E i \in DOMAIN list : i < j /\ Hits(i)
               \/ \E q \in remembered :
                     /\ PolicyAsked(q) = PolicyAsked(r)
                     /\ asked[r].call \in RememberedPattern(asked[q].call)
=============================================================================
