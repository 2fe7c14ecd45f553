-------------------------- MODULE PolicyPark_proofs --------------------------
(***************************************************************************)
(* Proofs about the permission broker, for any number of requests and      *)
(* turns.  By itself: IndInv is inductive; the promise to clients, the     *)
(* default denial and the refinement of OneShotDecision follow from it.    *)
(* With its policies: it is still that broker, so that what is proved of   *)
(* it carries over; it allows no call without a reason, for any rules,     *)
(* guards and sessions, nor one that a rule with arguments denies by a     *)
(* more general rule.                                                      *)
(***************************************************************************)
EXTENDS PolicyPark, FiniteSetTheorems, WellFoundedInduction, TLAPS

(* The broker. *)


\* Setting events changes no stage but "parked", and that one to "woken"
\* only for a request whose timer is not due.
LEMMA SetResolvedStages ==
    ASSUME NEW S, SetResolved(S), TypeOK
    PROVE  /\ pc' \in [Requests -> Stage]
           /\ \A r \in Requests :
                 \/ pc'[r] = pc[r]
                 \/ pc[r] = "parked" /\ pc'[r] = "woken" /\ r \in S /\ r \notin due
           /\ \A r \in Requests :
                 r \in S /\ r \notin due /\ pc[r] = "parked" => pc'[r] = "woken"
BY DEF SetResolved, TypeOK, Stage

\* The invariant holds when the broker starts.
LEMMA InitIndInv == Init => IndInv
BY DEF Init, IndInv, TypeOK, Sound, Stage, MaybeVerdict, Verdicts, NoTurn

\* Every step keeps it: one case per operation of the broker.
LEMMA NextIndInv == IndInv /\ [Next]_vars => IndInv'
<1> SUFFICES ASSUME IndInv, [Next]_vars PROVE IndInv'
  OBVIOUS
<1> USE DEF IndInv, TypeOK, Stage, MaybeVerdict, Verdicts
<1>1. ASSUME NEW r \in Requests, NEW v \in Verdicts, DecideByPolicy(r, v)
      PROVE  IndInv'
  BY <1>1 DEF DecideByPolicy, Sound
<1>2. ASSUME NEW r \in Requests, NEW t \in Turns \cup {NoTurn}, Register(r, t)
      PROVE  IndInv'
  BY <1>2 DEF Register, Sound
<1>3. ASSUME NEW r \in Requests, Announce(r) PROVE IndInv'
  BY <1>3 DEF Announce, Sound
<1>4. ASSUME NEW r \in Requests, Wake(r) PROVE IndInv'
  BY <1>4 DEF Wake, Sound
<1>5. ASSUME NEW r \in Requests, TimeOut(r) PROVE IndInv'
  BY <1>5 DEF TimeOut, Sound
<1>6. ASSUME NEW r \in Requests, Answer(r) PROVE IndInv'
  BY <1>6 DEF Answer, Sound
<1>7. ASSUME NEW r \in Requests, CheckFails(r) PROVE IndInv'
  BY <1>7 DEF CheckFails, Sound
<1>8. ASSUME NEW r \in Requests, NEW v \in Verdicts, Resolve(r, v) PROVE IndInv'
  <2>1. SetResolved({r})
    BY <1>8 DEF Resolve
  <2>2. TypeOK'
    BY <1>8, <2>1, SetResolvedStages DEF Resolve, SetResolved
  <2>3. ASSUME NEW q \in Requests PROVE Sound(q)'
    BY <1>8, <2>1, SetResolvedStages DEF Resolve, SetResolved, Sound
  <2> QED BY <2>2, <2>3
<1>9. ASSUME NEW S \in SUBSET Unresolved, DenyAll(S) PROVE IndInv'
  <2>1. SetResolved(S)
    BY <1>9 DEF DenyAll
  <2>2. TypeOK'
    BY <1>9, <2>1, SetResolvedStages DEF DenyAll, SetResolved, Unresolved
  <2>3. ASSUME NEW q \in Requests PROVE Sound(q)'
    BY <1>9, <2>1, SetResolvedStages DEF DenyAll, SetResolved, Sound, Unresolved
  <2> QED BY <2>2, <2>3
<1>10. ASSUME NEW t \in Turns, DenyAllForTurn(t) PROVE IndInv'
  BY <1>9, <1>10 DEF DenyAllForTurn
<1>11. ASSUME SweepExpired PROVE IndInv'
  BY <1>9, <1>11 DEF SweepExpired
<1>12. ASSUME NEW r \in Requests, Expire(r) PROVE IndInv'
  BY <1>12 DEF Expire, Sound
<1>13. ASSUME NEW r \in Requests, TimerFires(r) PROVE IndInv'
  BY <1>13 DEF TimerFires, Sound
<1>14. CASE UNCHANGED vars
  BY <1>14 DEF vars, Sound
<1> QED
  BY <1>1, <1>2, <1>3, <1>4, <1>5, <1>6, <1>7, <1>8, <1>10, <1>11, <1>12,
     <1>13, <1>14 DEF Next

\* Types, and the stage of every request agrees with its event, its decision
\* and what clients were told.
THEOREM Invariance == Spec => []IndInv
BY InitIndInv, NextIndInv, PTL DEF Spec

\* A client that was told "applied" has its verdict reach the CLI.
THEOREM PromiseKept == Spec => []ResolveHonoured
<1>1. IndInv => ResolveHonoured
  BY DEF IndInv, Sound, ResolveHonoured
<1> QED BY <1>1, Invariance, PTL

\* Nothing but a client's "allow" allows a parked request.
THEOREM DefaultDeny == Spec => []FailClosed
<1>1. IndInv => FailClosed
  BY DEF IndInv, Sound, FailClosed
<1> QED BY <1>1, Invariance, PTL

\* An answered request has left _pending.
THEOREM NoAnsweredRequestListed == Spec => []AnsweredNotPending
<1>1. IndInv => AnsweredNotPending
  BY DEF IndInv, Sound, AnsweredNotPending
<1> QED BY <1>1, Invariance, PTL

----------------------------------------------------------------------------
(* The broker implements the one-shot decision. *)

\* A step that changes neither what was promised nor what was answered is a
\* stutter of the abstract specification.
LEMMA Stutter ==
    ASSUME UNCHANGED answer, \A r \in Requests : Promised(r)' = Promised(r)
    PROVE  UNCHANGED OneShot!vars
BY DEF OneShot!vars

\* A step of one request that changes only what was promised of it.
LEMMA OnlyPromise ==
    ASSUME NEW r \in Requests, NEW v,
           Promised(r)' = v, \A q \in Requests \ {r} : Promised(q)' = Promised(q)
    PROVE  [q \in Requests |-> Promised(q)]'
              = [[q \in Requests |-> Promised(q)] EXCEPT ![r] = v]
OBVIOUS

\* Every step maps to a step of the abstract specification or to a stutter.
\* Promises are made by Resolve, kept by Answer, given up by CheckFails.
LEMMA StepImplementsOneShot ==
    IndInv /\ IndInv' /\ [Next]_vars => [OneShot!Next]_(OneShot!vars)
<1> SUFFICES ASSUME IndInv, IndInv', [Next]_vars
             PROVE  [OneShot!Next]_(OneShot!vars)
  OBVIOUS
<1> USE DEF IndInv, TypeOK, Stage, MaybeVerdict, Verdicts
<1> DEFINE Same(S) == \A q \in S : Promised(q)' = Promised(q)
<1>1. ASSUME NEW r \in Requests, NEW v \in Verdicts, DecideByPolicy(r, v)
      PROVE  OneShot!Next
  <2>1. /\ Promised(r) = "open" /\ answer[r] = "none"
        /\ Promised(r)' = "by policy" /\ Same(Requests \ {r})
        /\ answer' = [answer EXCEPT ![r] = v]
    BY <1>1 DEF DecideByPolicy, Sound, Promised
  <2>2. OneShot!DecideByPolicy(r, v)
    BY <2>1, OnlyPromise DEF OneShot!DecideByPolicy
  <2> QED BY <2>2 DEF OneShot!Next, OneShot!Verdicts
<1>2. ASSUME NEW r \in Requests, NEW v \in Verdicts, Resolve(r, v)
      PROVE  [OneShot!Next]_(OneShot!vars)
  <2>1. /\ SetResolved({r}) /\ UNCHANGED answer
        /\ r \in pending /\ r \notin isSet /\ r \notin due
        /\ told[r] = "none" /\ told' = [told EXCEPT ![r] = v]
    BY <1>2 DEF Resolve, Sound
  <2>2. Same(Requests \ {r})
    <3> SUFFICES ASSUME NEW q \in Requests \ {r} PROVE Promised(q)' = Promised(q)
      OBVIOUS
    <3>1. told'[q] = told[q] /\ pc'[q] = pc[q]
      BY <2>1, SetResolvedStages
    <3> QED BY <3>1 DEF Promised
  <2>3. CASE pc[r] = "failed"
    <3>1. Same(Requests)
      BY <2>1, <2>2, <2>3, SetResolvedStages DEF Promised
    <3> QED BY <2>1, <3>1, Stutter
  <2>4. CASE pc[r] # "failed"
    <3>0. /\ pc[r] \notin {"decided", "failed", "answered"}
          /\ pc'[r] \notin {"decided", "failed"} /\ told'[r] = v /\ v # "none"
      BY <2>1, <2>4, SetResolvedStages DEF Sound
    <3>1. /\ Promised(r) = "open" /\ answer[r] = "none"
          /\ Promised(r)' = v
      BY <2>1, <3>0 DEF Promised, Sound
    <3>2. OneShot!Promise(r, v)
      BY <2>1, <2>2, <3>1, OnlyPromise DEF OneShot!Promise
    <3> QED BY <3>2 DEF OneShot!Next, OneShot!Verdicts
  <2> QED BY <2>3, <2>4
<1>3. ASSUME NEW r \in Requests, Answer(r) PROVE OneShot!Next
  <2>1. /\ pc[r] = "unparking" /\ pc' = [pc EXCEPT ![r] = "answered"]
        /\ UNCHANGED told /\ answer[r] = "none"
    BY <1>3 DEF Answer, Sound
  <2>2. Promised(r) = IF told[r] = "none" THEN "open" ELSE told[r]
    BY <2>1 DEF Promised
  <2>3. Same(Requests)
    <3> SUFFICES ASSUME NEW q \in Requests PROVE Promised(q)' = Promised(q)
      OBVIOUS
    <3> QED BY <2>1 DEF Promised
  <2>4. answer' = [answer EXCEPT ![r] = IF told[r] = "none" THEN "deny" ELSE told[r]]
    <3>1. \/ decision[r] = "allow" /\ told[r] = "allow"
          \/ decision[r] = "deny" /\ told[r] \in {"none", "deny"}
          \/ decision[r] = "none" /\ told[r] = "none"
      BY DEF Sound
    <3> QED BY <1>3, <3>1 DEF Answer
  <2>5. OneShot!Keep(r)
    <3>1. Promised(r) \in Verdicts \cup {"open"}
      BY <2>2
    <3>2. answer' = [answer EXCEPT ![r] =
                        IF Promised(r) = "open" THEN "deny" ELSE Promised(r)]
      BY <2>2, <2>4
    <3> QED BY <2>1, <2>3, <3>1, <3>2 DEF OneShot!Keep, OneShot!Verdicts
  <2> QED BY <2>5 DEF OneShot!Next
<1>4. ASSUME NEW r \in Requests, CheckFails(r) PROVE OneShot!Next
  <2>1. /\ Same(Requests \ {r}) /\ Promised(r)' = "void" /\ answer[r] = "none"
        /\ answer' = [answer EXCEPT ![r] = "deny"]
    BY <1>4 DEF CheckFails, Sound, Promised
  <2>2. OneShot!Void(r)
    BY <2>1, OnlyPromise DEF OneShot!Void
  <2> QED BY <2>2 DEF OneShot!Next
<1>5. ASSUME NEW r \in Requests,
             \/ \E t \in Turns \cup {NoTurn} : Register(r, t)
             \/ Announce(r) \/ Wake(r) \/ TimeOut(r) \/ Expire(r) \/ TimerFires(r)
      PROVE  UNCHANGED OneShot!vars
  <2>1. UNCHANGED <<answer, told>>
    BY <1>5 DEF Register, Announce, Wake, TimeOut, Expire, TimerFires
  <2>2. ASSUME NEW q \in Requests
        PROVE  (pc'[q] = pc[q]) \/ ({pc[q], pc'[q]} \cap {"decided", "failed"} = {})
    BY <1>5 DEF Register, Announce, Wake, TimeOut, Expire, TimerFires
  <2>3. ASSUME NEW q \in Requests PROVE Promised(q)' = Promised(q)
    BY <2>1, <2>2 DEF Promised
  <2> QED BY <2>1, <2>3, Stutter
<1>6. ASSUME NEW S, DenyAll(S) PROVE UNCHANGED OneShot!vars
  <2>1. UNCHANGED <<answer, told>> /\ SetResolved(S)
    BY <1>6 DEF DenyAll
  <2>2. ASSUME NEW q \in Requests PROVE Promised(q)' = Promised(q)
    <3>1. \/ pc'[q] = pc[q]
          \/ pc[q] = "parked" /\ pc'[q] = "woken"
      BY <2>1, SetResolvedStages
    <3> QED BY <2>1, <3>1 DEF Promised
  <2> QED BY <2>1, <2>2, Stutter
<1>7. ASSUME NEW t \in Turns, DenyAllForTurn(t) PROVE UNCHANGED OneShot!vars
  BY <1>6, <1>7 DEF DenyAllForTurn
<1>8. ASSUME SweepExpired PROVE UNCHANGED OneShot!vars
  BY <1>6, <1>8 DEF SweepExpired
<1>9. ASSUME UNCHANGED vars PROVE UNCHANGED OneShot!vars
  BY <1>9, Stutter DEF vars, Promised
<1> QED BY <1>1, <1>2, <1>3, <1>4, <1>5, <1>7, <1>8, <1>9 DEF Next

\* At most one promise for a request, and the answer keeps it unless the
\* callback failed: PermissionPark implements OneShotDecision.
THEOREM Refinement == Spec => ImplementsOneShot
<1>1. Init => OneShot!Init
  BY DEF Init, OneShot!Init, Promised
<1> QED
  BY <1>1, Invariance, StepImplementsOneShot, PTL
     DEF Spec, OneShot!Spec, ImplementsOneShot

----------------------------------------------------------------------------
(* The broker and its policies. *)

\* Every step with a policy is a step of the broker.
LEMMA BrokerStep ==
    ASSUME [PolicyNext]_policyVars
    PROVE  [Next]_vars
<1>1. ASSUME NEW r \in Requests, EvaluateAllowsOrDenies(r) PROVE [Next]_vars
  BY <1>1 DEF EvaluateAllowsOrDenies, Next
<1>2. ASSUME NEW r \in Requests, NEW t \in Turns \cup {NoTurn}, EvaluateAsks(r, t)
      PROVE  [Next]_vars
  BY <1>2 DEF EvaluateAsks, Next
<1>3. ASSUME NEW r \in Requests, NEW v \in Verdicts, NEW remember \in BOOLEAN,
             ResolveAndRemember(r, v, remember)
      PROVE  [Next]_vars
  BY <1>3 DEF ResolveAndRemember, Next
<1>4. ASSUME NEW r \in Requests, CallbackGoesOn(r) PROVE [Next]_vars
  BY <1>4 DEF CallbackGoesOn, Next
<1>5. CASE BrokerDenies
  BY <1>5 DEF BrokerDenies, Next
<1>6. CASE UNCHANGED policyVars
  BY <1>6 DEF policyVars
<1> QED
  BY <1>1, <1>2, <1>3, <1>4, <1>5, <1>6 DEF PolicyNext

\* The broker with policies implements the broker that is given verdicts.
THEOREM PolicyParkIsPark == PolicySpec => Spec
<1>1. PolicyInit => Init
  BY DEF PolicyInit
<1>2. [PolicyNext]_policyVars => [Next]_vars
  BY BrokerStep
<1> QED
  BY <1>1, <1>2, PTL DEF PolicySpec, Spec

\* Whatever is remembered, the CLI gets the verdict a client was told is applied.
THEOREM PromiseKeptWithPolicy == PolicySpec => []ResolveHonoured
BY PolicyParkIsPark, PromiseKept, PTL

----------------------------------------------------------------------------
\* A remembered pattern was remembered for a call under its policy.
OverlayRemembered ==
    /\ overlay \in [Policies -> SUBSET SUBSET Calls]
    /\ remembered \subseteq Requests
    /\ asked \in [Requests -> [session : Sessions, call : Calls]]
    /\ rules \in Files /\ \A p \in Policies : Loads(rules[p])
    /\ \A p \in Policies : \A pattern \in overlay[p] :
          \E q \in remembered :
             PolicyAsked(q) = p /\ pattern = RememberedPattern(asked[q].call)

LEMMA PatternType ==
    ASSUME NEW c \in Calls PROVE RememberedPattern(c) \in SUBSET Calls
BY PolicyAssumption DEF RememberedPattern

\* Only resolve() changes the overlay, and it adds the request's own pattern.
LEMMA OverlayStep ==
    ASSUME OverlayRemembered, [PolicyNext]_policyVars
    PROVE  /\ OverlayRemembered'
           /\ asked' = asked /\ rules' = rules
           /\ remembered \subseteq remembered'
<1>1. CASE UNCHANGED <<rules, asked, overlay, remembered>>
  BY <1>1 DEF OverlayRemembered, PolicyAsked, Loads
<1>2. ASSUME NEW r \in Requests, Remember(r),
             remembered' = remembered \cup {r}, asked' = asked, rules' = rules
      PROVE  OverlayRemembered' /\ remembered \subseteq remembered'
  <2> DEFINE pattern == RememberedPattern(asked[r].call)
  <2>1. asked[r].session \in Sessions /\ asked[r].call \in Calls
    BY DEF OverlayRemembered
  <2>2. PolicyAsked(r) \in Policies
    BY <2>1, PolicyAssumption DEF PolicyAsked
  <2>3. pattern \in SUBSET Calls
    BY <2>1, PatternType
  <2>4. /\ overlay' \in [Policies -> SUBSET SUBSET Calls]
        /\ \A p \in Policies : \A x \in overlay'[p] :
              x \in overlay[p] \/ (p = PolicyAsked(r) /\ x = pattern)
    BY <1>2, <2>2, <2>3 DEF Remember, OverlayRemembered
  <2>5. \A q \in Requests : PolicyAsked(q)' = PolicyAsked(q)
    BY <1>2 DEF PolicyAsked
  <2>6. \A p \in Policies : \A x \in overlay'[p] :
           \E q \in remembered' :
              PolicyAsked(q)' = p /\ x = RememberedPattern(asked'[q].call)
    BY <1>2, <2>4, <2>5 DEF OverlayRemembered
  <2> QED
    BY <1>2, <2>4, <2>6 DEF OverlayRemembered, Loads
<1> QED
  BY <1>1, <1>2 DEF PolicyNext, policyVars, EvaluateAllowsOrDenies, EvaluateAsks,
     ResolveAndRemember, CallbackGoesOn, BrokerDenies

\* What Evaluate allows is allowed for a reason.
LEMMA EvaluateHasReason ==
    ASSUME OverlayRemembered, NEW r \in Requests, Evaluate(r) = "allow"
    PROVE  Reason(r)
<1>1. PolicyAsked(r) \in Policies
  BY PolicyAssumption DEF OverlayRemembered, PolicyAsked
<1> QED
  BY <1>1 DEF Evaluate, Reason, OverlayRemembered

\* Reasons do not go away.
LEMMA ReasonStays ==
    ASSUME NEW r \in Requests, Reason(r), asked' = asked, rules' = rules,
           remembered \subseteq remembered', remembered \subseteq Requests
    PROVE  Reason(r)'
BY DEF Reason, PolicyAsked, RulesDecide, ApplyGuard

\* Only EvaluateAllowsOrDenies(r) ends in "decided", and nothing changes the
\* answer after that.
LEMMA DecidedStep ==
    ASSUME TypeOK, [PolicyNext]_policyVars, NEW r \in Requests,
           pc'[r] = "decided"
    PROVE  \/ pc[r] = "decided" /\ answer'[r] = answer[r]
           \/ answer'[r] = Evaluate(r)
<1> USE DEF TypeOK
<1>1. ASSUME NEW q \in Requests, EvaluateAllowsOrDenies(q)
      PROVE  (pc[r] = "decided" /\ answer'[r] = answer[r])
                \/ answer'[r] = Evaluate(r)
  BY <1>1 DEF EvaluateAllowsOrDenies, DecideByPolicy
<1>2. ASSUME NEW q \in Requests, NEW t \in Turns \cup {NoTurn}, EvaluateAsks(q, t)
      PROVE  pc[r] = "decided" /\ answer'[r] = answer[r]
  BY <1>2 DEF EvaluateAsks, Register
<1>3. ASSUME NEW q \in Requests, NEW v \in Verdicts, Resolve(q, v)
      PROVE  pc[r] = "decided" /\ answer'[r] = answer[r]
  BY <1>3 DEF Resolve, SetResolved
<1>4. ASSUME NEW q \in Requests, CallbackGoesOn(q)
      PROVE  pc[r] = "decided" /\ answer'[r] = answer[r]
  BY <1>4 DEF CallbackGoesOn, Announce, Wake, TimeOut, Answer, CheckFails,
              Expire, TimerFires
<1>5. ASSUME BrokerDenies
      PROVE  pc[r] = "decided" /\ answer'[r] = answer[r]
  BY <1>5 DEF BrokerDenies, SweepExpired, DenyAllForTurn, DenyAll, SetResolved
<1>6. ASSUME UNCHANGED policyVars
      PROVE  pc[r] = "decided" /\ answer'[r] = answer[r]
  BY <1>6 DEF policyVars, vars
<1> QED
  BY <1>1, <1>2, <1>3, <1>4, <1>5, <1>6 DEF PolicyNext, ResolveAndRemember

LEMMA AllowedStep ==
    ASSUME OverlayRemembered, AllowedForAReason, TypeOK, [PolicyNext]_policyVars
    PROVE  AllowedForAReason'
<1> SUFFICES ASSUME NEW r \in Requests, pc'[r] = "decided", answer'[r] = "allow"
             PROVE  Reason(r)'
  BY DEF AllowedForAReason
<1>1. Reason(r)
  BY DecidedStep, EvaluateHasReason DEF AllowedForAReason
<1>2. /\ asked' = asked /\ rules' = rules
      /\ remembered \subseteq remembered' /\ remembered \subseteq Requests
  BY OverlayStep DEF OverlayRemembered
<1> QED
  BY <1>1, <1>2, ReasonStays

\* No call is allowed but for its policy's rules and guards, or because a client
\* allowed one "for the session" whose pattern matches it: under the same policy,
\* of the same tool, and for a command the same or one that "*" leaves open.
THEOREM NothingAllowedUnasked == PolicySpec => []AllowedForAReason
<1>1. PolicyInit => OverlayRemembered /\ AllowedForAReason
  BY PolicyAssumption DEF PolicyInit, Init, OverlayRemembered, AllowedForAReason
<1>2. IndInv => TypeOK
  BY DEF IndInv
<1>3. OverlayRemembered /\ AllowedForAReason /\ TypeOK /\ [PolicyNext]_policyVars
         => (OverlayRemembered /\ AllowedForAReason)'
  BY OverlayStep, AllowedStep
<1> QED
  BY <1>1, <1>2, <1>3, PolicyParkIsPark, Invariance, PTL DEF PolicySpec

----------------------------------------------------------------------------
\* Every set of numbers has a least one: inclusion orders the finite intervals
\* below its elements, and is well-founded.
LEMMA LeastExists ==
    ASSUME NEW T \in SUBSET Nat, T # {}
    PROVE  \E x \in T : \A y \in T : x <= y
<1> DEFINE Below == {0 .. x : x \in T}
<1>1. Below \subseteq FiniteSubsetsOf(Nat) /\ Below # {}
  <2>1. \A x \in T : 0 .. x \in SUBSET Nat
    OBVIOUS
  <2>2. \A x \in T : IsFiniteSet(0 .. x)
    BY FS_Interval
  <2> QED
    BY <2>1, <2>2 DEF FiniteSubsetsOf
<1>2. PICK S \in Below : \A R \in Below : <<R, S>> \notin StrictSubsetOrdering(Nat)
  <2> HIDE DEF Below
  <2> QED
    BY <1>1, FS_StrictSubsetOrderingWellFounded, WFMin
<1>3. PICK x \in T : S = 0 .. x
  BY <1>2
<1>4. ASSUME NEW y \in T, y < x PROVE FALSE
  <2>1. 0 .. y \subseteq S /\ 0 .. y # S
    BY <1>3, <1>4
  <2>2. 0 .. y \subseteq Nat /\ S \subseteq Nat
    BY <1>3
  <2>3. <<0 .. y, S>> \in StrictSubsetOrdering(Nat)
    BY <2>1, <2>2 DEF StrictSubsetOrdering
  <2> QED
    BY <1>2, <2>3
<1> QED
  BY <1>4

\* The rule that decides a call is the first that matches it.
LEMMA FirstMatch ==
    ASSUME NEW list \in Seq(Rule), NEW c, NEW j \in DOMAIN list, c \in list[j].match
    PROVE  LET hits == {i \in DOMAIN list : c \in list[i].match}
           IN  Min(hits) \in hits /\ Min(hits) <= j
<1> DEFINE hits == {i \in DOMAIN list : c \in list[i].match}
<1>1. hits \in SUBSET Nat /\ j \in hits
  OBVIOUS
<1>2. \E x \in hits : \A y \in hits : x <= y
  BY <1>1, LeastExists
<1>3. Min(hits) \in hits /\ \A y \in hits : Min(hits) <= y
  BY <1>2 DEF Min
<1> QED
  BY <1>1, <1>3

\* In a file that loads, a rule with arguments that denies a call is passed
\* over only for an earlier one with arguments.
LEMMA DenialFirst ==
    ASSUME NEW p \in Policies, rules \in Files, Loads(rules[p]),
           NEW c \in Calls, NEW j \in DOMAIN rules[p], c \in rules[p][j].match,
           rules[p][j].form = "args", rules[p][j].decision = "deny",
           NEW s \in Sessions, PolicyOf[s] = p,
           RulesDecide([session |-> s, call |-> c]) = "allow"
    PROVE  \E i \in DOMAIN rules[p] :
              i < j /\ rules[p][i].form = "args" /\ c \in rules[p][i].match
<1> DEFINE list == rules[p]
           hits == {i \in DOMAIN list : c \in list[i].match}
           i == Min(hits)
<1>1. list \in Seq(Rule)
  BY PolicyAssumption
<1>2. i \in hits /\ i <= j
  BY <1>1, FirstMatch
<1>3. ApplyGuard(list[i], [session |-> s, call |-> c]) = "allow"
  BY <1>2 DEF RulesDecide
<1>4. i # j
  BY <1>3 DEF ApplyGuard
<1>5. i < j
  <2> HIDE DEF i
  <2> QED
    BY <1>1, <1>2, <1>4
<1>6. list[i].form = "args"
  <2>1. ~WouldShadow(list[i], list[j])
    BY <1>2, <1>5 DEF Loads
  <2>2. \A k \in DOMAIN list : list[k].form # "glob" =>
           \A d \in list[k].match : ToolOf[d] = list[k].tool
    BY PolicyAssumption
  <2>3. list[i].form # "glob" => list[i].tool = ToolOf[c]
    BY <1>2, <2>2
  <2>4. list[j].tool = ToolOf[c]
    BY <2>2
  <2> QED
    BY <2>1, <2>3, <2>4 DEF WouldShadow
<1> QED
  BY <1>2, <1>5, <1>6

\* The same for what a session evaluates, which looks at the overlay first.
LEMMA DenialEvaluated ==
    ASSUME OverlayRemembered, NEW r \in Requests, Evaluate(r) = "allow",
           NEW j \in DOMAIN rules[PolicyAsked(r)],
           rules[PolicyAsked(r)][j].form = "args",
           asked[r].call \in rules[PolicyAsked(r)][j].match,
           rules[PolicyAsked(r)][j].decision = "deny"
    PROVE  \/ \E i \in DOMAIN rules[PolicyAsked(r)] :
                 /\ i < j /\ rules[PolicyAsked(r)][i].form = "args"
                 /\ asked[r].call \in rules[PolicyAsked(r)][i].match
           \/ \E q \in remembered :
                 /\ PolicyAsked(q) = PolicyAsked(r)
                 /\ asked[r].call \in RememberedPattern(asked[q].call)
<1> DEFINE p == PolicyAsked(r)
<1>1. p \in Policies /\ asked[r].session \in Sessions /\ asked[r].call \in Calls
  BY PolicyAssumption DEF OverlayRemembered, PolicyAsked
<1>2. CASE \E pattern \in overlay[p] : asked[r].call \in pattern
  BY <1>1, <1>2 DEF OverlayRemembered
<1>3. CASE ~\E pattern \in overlay[p] : asked[r].call \in pattern
  <2>1. RulesDecide(asked[r]) = "allow"
    BY <1>3 DEF Evaluate
  <2>2. asked[r] = [session |-> asked[r].session, call |-> asked[r].call]
    BY DEF OverlayRemembered
  <2>3. rules \in Files /\ Loads(rules[p]) /\ PolicyOf[asked[r].session] = p
    BY <1>1 DEF OverlayRemembered, PolicyAsked
  <2> QED
    BY <1>1, <2>1, <2>2, <2>3, DenialFirst
<1> QED
  BY <1>2, <1>3

LEMMA DenialStep ==
    ASSUME OverlayRemembered, DenialsReached, TypeOK, [PolicyNext]_policyVars
    PROVE  DenialsReached'
<1>1. /\ asked' = asked /\ rules' = rules
      /\ remembered \subseteq remembered' /\ remembered \subseteq Requests
  BY OverlayStep DEF OverlayRemembered
<1>2. ASSUME NEW r \in Requests, pc'[r] = "decided", answer'[r] = "allow"
      PROVE  \/ pc[r] = "decided" /\ answer[r] = "allow"
             \/ Evaluate(r) = "allow"
  BY <1>2, DecidedStep
<1>3. \A r \in Requests : PolicyAsked(r)' = PolicyAsked(r)
  BY <1>1 DEF PolicyAsked
<1>4. ASSUME NEW r \in Requests, pc'[r] = "decided", answer'[r] = "allow",
             NEW j \in DOMAIN rules[PolicyAsked(r)],
             rules[PolicyAsked(r)][j].form = "args",
             asked[r].call \in rules[PolicyAsked(r)][j].match,
             rules[PolicyAsked(r)][j].decision = "deny"
      PROVE  \/ \E i \in DOMAIN rules[PolicyAsked(r)] :
                   /\ i < j /\ rules[PolicyAsked(r)][i].form = "args"
                   /\ asked[r].call \in rules[PolicyAsked(r)][i].match
             \/ \E q \in remembered :
                   /\ PolicyAsked(q) = PolicyAsked(r)
                   /\ asked[r].call \in RememberedPattern(asked[q].call)
  <2>1. CASE Evaluate(r) = "allow"
    BY <1>4, <2>1, DenialEvaluated
  <2>2. CASE pc[r] = "decided" /\ answer[r] = "allow"
    BY <1>4, <2>2 DEF DenialsReached
  <2> QED
    BY <1>2, <1>4, <2>1, <2>2
<1>5. \A q \in remembered : q \in remembered' /\ PolicyAsked(q)' = PolicyAsked(q)
  BY <1>1, <1>3
<1> QED
  BY <1>1, <1>3, <1>4, <1>5 DEF DenialsReached

\* What the loader's shadowing check is good for: no rule for a whole tool, and
\* no glob, allows a call that a rule with arguments denies.
THEOREM DenialsAreReached == PolicySpec => []DenialsReached
<1>1. PolicyInit => OverlayRemembered /\ DenialsReached
  BY PolicyAssumption DEF PolicyInit, Init, OverlayRemembered, DenialsReached
<1>2. IndInv => TypeOK
  BY DEF IndInv
<1>3. OverlayRemembered /\ DenialsReached /\ TypeOK /\ [PolicyNext]_policyVars
         => (OverlayRemembered /\ DenialsReached)'
  BY OverlayStep, DenialStep
<1> QED
  BY <1>1, <1>2, <1>3, PolicyParkIsPark, Invariance, PTL DEF PolicySpec

----------------------------------------------------------------------------
\* Every remembered request has its pattern in the overlay of its policy.
RememberedInOverlay ==
    \A q \in remembered : RememberedPattern(asked[q].call) \in overlay[PolicyAsked(q)]

\* Patterns are never taken out again.
LEMMA RememberedStep ==
    ASSUME OverlayRemembered, RememberedInOverlay, [PolicyNext]_policyVars
    PROVE  RememberedInOverlay'
<1>1. CASE UNCHANGED <<rules, asked, overlay, remembered>>
  BY <1>1 DEF RememberedInOverlay, PolicyAsked
<1>2. ASSUME NEW r \in Requests, Remember(r),
             remembered' = remembered \cup {r}, asked' = asked
      PROVE  RememberedInOverlay'
  <2>1. \A q \in Requests : PolicyAsked(q)' = PolicyAsked(q) /\ PolicyAsked(q) \in Policies
    BY <1>2, PolicyAssumption DEF PolicyAsked, OverlayRemembered
  <2>2. /\ \A p \in Policies : overlay[p] \subseteq overlay'[p]
        /\ RememberedPattern(asked[r].call) \in overlay'[PolicyAsked(r)]
    BY <1>2, <2>1 DEF Remember, OverlayRemembered
  <2>3. ASSUME NEW q \in remembered'
        PROVE  RememberedPattern(asked[q].call) \in overlay'[PolicyAsked(q)]
    <3>1. q \in Requests /\ (q \in remembered \/ q = r)
      BY <1>2 DEF OverlayRemembered
    <3> QED
      BY <2>1, <2>2, <3>1 DEF RememberedInOverlay
  <2>4. \A q \in remembered' : q \in Requests
    BY <1>2 DEF OverlayRemembered
  <2> QED
    BY <1>2, <2>1, <2>3, <2>4 DEF RememberedInOverlay
<1> QED
  BY <1>1, <1>2 DEF PolicyNext, policyVars, EvaluateAllowsOrDenies, EvaluateAsks,
     ResolveAndRemember, CallbackGoesOn, BrokerDenies

\* A request is queued only when the policy says "ask".
LEMMA QueuedStep ==
    ASSUME TypeOK, [PolicyNext]_policyVars, NEW r \in Requests,
           pc[r] = "unasked", pc'[r] = "queued"
    PROVE  Evaluate(r) = "ask"
<1> USE DEF TypeOK
<1>1. ASSUME NEW q \in Requests, EvaluateAllowsOrDenies(q) PROVE FALSE
  BY <1>1 DEF EvaluateAllowsOrDenies, DecideByPolicy
<1>2. ASSUME NEW q \in Requests, NEW t \in Turns \cup {NoTurn}, EvaluateAsks(q, t)
      PROVE  Evaluate(r) = "ask"
  BY <1>2 DEF EvaluateAsks, Register
<1>3. ASSUME NEW q \in Requests, NEW v \in Verdicts, Resolve(q, v) PROVE FALSE
  BY <1>3 DEF Resolve, SetResolved
<1>4. ASSUME NEW q \in Requests, CallbackGoesOn(q) PROVE FALSE
  BY <1>4 DEF CallbackGoesOn, Announce, Wake, TimeOut, Answer, CheckFails,
              Expire, TimerFires
<1>5. ASSUME BrokerDenies PROVE FALSE
  BY <1>5 DEF BrokerDenies, SweepExpired, DenyAllForTurn, DenyAll, SetResolved
<1>6. ASSUME UNCHANGED policyVars PROVE FALSE
  BY <1>6 DEF policyVars, vars
<1> QED
  BY <1>1, <1>2, <1>3, <1>4, <1>5, <1>6 DEF PolicyNext, ResolveAndRemember

LEMMA WholeSubSeq ==
    ASSUME NEW w \in Seq(STRING)
    PROVE  SubSeq(w, 1, Len(w)) = w
OBVIOUS

\* Nothing is stripped from a command that does not end in ")".
LEMMA NothingStripped ==
    ASSUME NEW w \in Seq(STRING), w = <<>> \/ w[Len(w)] # ")"
    PROVE  Stripped(w) = w
<1> DEFINE S == {0} \cup {i \in 1..Len(w) : w[i] # ")"}
<1>1. Len(w) \in S /\ \A i \in S : i <= Len(w)
  <2>1. Len(w) \in Nat
    OBVIOUS
  <2>2. \A i \in S : i <= Len(w)
    BY <2>1
  <2>3. CASE Len(w) = 0
    BY <2>2, <2>3
  <2>4. CASE Len(w) # 0
    <3>1. w[Len(w)] # ")" /\ Len(w) \in 1..Len(w)
      BY <2>1, <2>4
    <3> QED
      BY <2>2, <3>1
  <2> QED
    BY <2>3, <2>4
<1>2. Max(S) = Len(w)
  <2>1. S \subseteq Nat
    OBVIOUS
  <2> HIDE DEF S
  <2>2. \E x \in S : \A i \in S : x >= i
    BY <1>1, <2>1
  <2>3. PICK m \in S : Max(S) = m /\ \A i \in S : m >= i
    BY <2>2, Zenon DEF Max
  <2>4. m \in Nat /\ Len(w) \in Nat /\ m >= Len(w) /\ m <= Len(w)
    BY <1>1, <2>1, <2>3
  <2> QED
    BY <2>3, <2>4
<1>3. SubSeq(w, 1, Len(w)) = w
  BY WholeSubSeq
<1> QED
  BY <1>2, <1>3 DEF Stripped

\* A sequence but for its last element is a prefix of it.
LEMMA FrontIsPrefix ==
    ASSUME NEW w \in Seq(STRING), w # <<>>
    PROVE  IsPrefix(Front(w), w)
<1>1. PICK n \in Nat : Len(w) = n + 1
  <2>1. Len(w) \in Nat /\ Len(w) # 0
    OBVIOUS
  <2>2. Len(w) - 1 \in Nat /\ Len(w) = (Len(w) - 1) + 1
    BY <2>1
  <2> QED
    BY <2>2
<1>2. PICK f \in Seq(STRING) : f = SubSeq(w, 1, n) /\ Len(f) = n
  <2>1. SubSeq(w, 1, n) \in Seq(STRING) /\ Len(SubSeq(w, 1, n)) = n
    BY <1>1
  <2> QED
    BY <2>1
<1>3. SubSeq(f, 1, Len(f)) = f
  BY WholeSubSeq
<1>4. Len(f) <= Len(w) /\ SubSeq(f, 1, Len(f)) = SubSeq(w, 1, Len(f))
  <2>1. Len(f) <= Len(w)
    BY <1>1, <1>2
  <2>2. f = SubSeq(w, 1, Len(f))
    BY <1>2, Zenon
  <2> QED
    BY <1>3, <2>1, <2>2, Zenon
<1>5. Front(w) = f
  <2>1. Len(w) - 1 = n
    BY <1>1
  <2> QED
    BY <1>2, <2>1 DEF Front
<1>6. IsPrefix(f, w)
  BY <1>4, Zenon DEF IsPrefix
<1> QED
  BY <1>5, <1>6

\* Read as a pattern, such a command matches itself.
LEMMA MatchesItself ==
    ASSUME NEW c \in Calls, ~Clipped(c)
    PROVE  c \in RememberedPattern(c)
<1>1. CASE c \notin ShellCalls
  BY <1>1 DEF RememberedPattern
<1>2. CASE c \in ShellCalls
  <2> DEFINE w == CommandOf[c]
  <2>1. w \in Seq(STRING)
    BY <1>2, PolicyAssumption
  <2>2. w = <<>> \/ w[Len(w)] # ")"
    BY <1>2 DEF Clipped, Last
  <2> HIDE DEF w
  <2>3. Stripped(w) = w
    BY <2>1, <2>2, NothingStripped
  <2>4. w # <<>> => IsPrefix(Front(w), w)
    BY <2>1, FrontIsPrefix
  <2>5. MatchesCommand(Stripped(w), w)
    BY <2>3, <2>4 DEF MatchesCommand
  <2> QED
    BY <1>2, <2>5 DEF RememberedPattern, w
<1> QED
  BY <1>1, <1>2

LEMMA NotAskedStep ==
    ASSUME OverlayRemembered, RememberedInOverlay, TypeOK, [PolicyNext]_policyVars,
           NEW r \in Requests, pc[r] = "unasked", pc'[r] = "queued",
           NEW q \in remembered, asked[q] = asked[r], ~Clipped(asked[r].call)
    PROVE  FALSE
<1>1. Evaluate(r) = "ask"
  BY QueuedStep
<1>2. q \in Requests /\ PolicyAsked(q) = PolicyAsked(r) /\ asked[r].call \in Calls
  BY DEF OverlayRemembered, PolicyAsked
<1>3. asked[r].call \in RememberedPattern(asked[q].call)
  BY <1>2, MatchesItself
<1>4. \E pattern \in overlay[PolicyAsked(r)] : asked[r].call \in pattern
  BY <1>2, <1>3 DEF RememberedInOverlay
<1> QED
  BY <1>1, <1>4 DEF Evaluate

\* What was allowed for the session is not asked again, but for commands that end
\* in ")".
THEOREM RememberedIsNotAsked == PolicySpec => RememberedNotAsked
<1>1. PolicyInit => OverlayRemembered /\ RememberedInOverlay
  BY PolicyAssumption DEF PolicyInit, OverlayRemembered, RememberedInOverlay
<1>2. IndInv => TypeOK
  BY DEF IndInv
<1>3. OverlayRemembered /\ RememberedInOverlay /\ [PolicyNext]_policyVars
         => (OverlayRemembered /\ RememberedInOverlay)'
  BY OverlayStep, RememberedStep
<1>4. OverlayRemembered /\ RememberedInOverlay /\ TypeOK /\ [PolicyNext]_policyVars
         => [\A r \in Requests : pc[r] = "unasked" /\ pc'[r] = "queued" =>
               ~\E q \in remembered :
                   asked[q] = asked[r] /\ ~Clipped(asked[r].call)]_policyVars
  BY NotAskedStep
<1> QED
  BY <1>1, <1>2, <1>3, <1>4, PolicyParkIsPark, Invariance, PTL
     DEF PolicySpec, RememberedNotAsked
=============================================================================
