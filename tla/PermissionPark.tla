--------------------------- MODULE PermissionPark ---------------------------
(***************************************************************************)
(* PermissionBroker of permissions.py: the can_use_tool callback that      *)
(* parks a tool request until a client resolves it, its turn ends, the     *)
(* reaper sweeps it or its timer fires.                                    *)
(*                                                                         *)
(* Everything runs on one asyncio event loop, so a step here is what one   *)
(* task does between two awaits.  A callback suspends at three places:     *)
(* the session lock before it announces the request, the wait for          *)
(* `resolved` under a timeout, and the session lock before it answers.     *)
(* The lock, the session's state and its assertions belong to module       *)
(* BrokerSession; here the lock is a delay and a failing assertion is one  *)
(* of the exceptions of CheckFails.                                        *)
(*                                                                         *)
(* Two facts of asyncio.  Setting the event of a task whose timer is not   *)
(* yet due puts the task's wake-up ahead of the timer: the task goes to    *)
(* "woken" and cannot time out any more.  When the timer is already due    *)
(* the two race: the task stays "parked" with its event set and either     *)
(* may come first.  expires_at is read before the timer is armed, so a     *)
(* timer never fires before its request has expired.                       *)
(***************************************************************************)
CONSTANTS
    Requests,   \* tool requests the CLI may make, each a PendingRequest
    Turns       \* turns the requests are made in

\* A request registered outside any turn is told apart from the others.
NoTurn == "none"
ASSUME TurnsAssumption == NoTurn \notin Turns

VARIABLES
    pc,        \* [Requests -> Stage]: where the callback of the request is
    pending,   \* keys of PermissionBroker._pending
    isSet,     \* requests whose `resolved` event is set
    due,       \* requests whose expires_at has passed
    turnOf,    \* the turn whose permission_requests lists the request
    decision,  \* PendingRequest.decision, its verdict
    told,      \* history: the verdict resolve() last replied "applied" for
    answer     \* what the callback returned to the CLI

vars == <<pc, pending, isSet, due, turnOf, decision, told, answer>>

Verdicts == {"allow", "deny"}
MaybeVerdict == Verdicts \cup {"none"}

Stage == {"unasked",    \* the CLI has not called can_use_tool
          "decided",    \* the policy decided, nothing was parked
          "queued",     \* registered, waiting for the session lock
          "parked",     \* in wait_for(resolved.wait())
          "woken",      \* resumed by the event, not yet run
          "timedOut",   \* cancelled by the timer, not yet run
          "unparking",  \* out of _pending, waiting for the session lock
          "answered",   \* returned its decision
          "failed"}     \* an exception was answered as a denial

\* PendingRequests, their two clocks and what clients and the CLI saw.
TypeOK ==
    /\ pc \in [Requests -> Stage]
    /\ pending \subseteq Requests
    /\ isSet \subseteq Requests
    /\ due \subseteq Requests
    /\ turnOf \in [Requests -> Turns \cup {NoTurn}]
    /\ decision \in [Requests -> MaybeVerdict]
    /\ told \in [Requests -> MaybeVerdict]
    /\ answer \in [Requests -> MaybeVerdict]

Init ==
    /\ pc = [r \in Requests |-> "unasked"]
    /\ pending = {} /\ isSet = {} /\ due = {}
    /\ turnOf = [r \in Requests |-> NoTurn]
    /\ decision = [r \in Requests |-> "none"]
    /\ told = [r \in Requests |-> "none"]
    /\ answer = [r \in Requests |-> "none"]

----------------------------------------------------------------------------
(* The callback. *)

\* The policy allows or denies: answered at once, nothing is parked.
DecideByPolicy(r, v) ==
    /\ pc[r] = "unasked"
    /\ pc' = [pc EXCEPT ![r] = "decided"]
    /\ answer' = [answer EXCEPT ![r] = v]
    /\ UNCHANGED <<pending, isSet, due, turnOf, decision, told>>

\* The policy says "ask": the request enters _pending and its turn's list,
\* when there is a turn, and the callback goes for the session lock.
Register(r, t) ==
    /\ pc[r] = "unasked"
    /\ pc' = [pc EXCEPT ![r] = "queued"]
    /\ pending' = pending \cup {r}
    /\ turnOf' = [turnOf EXCEPT ![r] = t]
    /\ UNCHANGED <<isSet, due, decision, told, answer>>

\* With the lock, the session is AWAITING_PERMISSION and the wait begins;
\* it ends at once when the request was resolved in the meantime.
Announce(r) ==
    /\ pc[r] = "queued"
    /\ pc' = [pc EXCEPT ![r] = IF r \in isSet THEN "woken" ELSE "parked"]
    /\ UNCHANGED <<pending, isSet, due, turnOf, decision, told, answer>>

\* Mutant of Wake: the `finally` forgets to take the request out of _pending.
WakeKeepsPending(r) ==
    /\ pc[r] = "woken" \/ (pc[r] = "parked" /\ r \in isSet)
    /\ pc' = [pc EXCEPT ![r] = "unparking"]
    /\ UNCHANGED <<pending, isSet, due, turnOf, decision, told, answer>>

\* The event ends the wait: the `finally` takes the request out of _pending.
Wake(r) ==
    /\ \/ pc[r] = "woken"
       \/ pc[r] = "parked" /\ r \in isSet
    /\ pc' = [pc EXCEPT ![r] = "unparking"]
    /\ pending' = pending \ {r}
    /\ UNCHANGED <<isSet, due, turnOf, decision, told, answer>>

\* Mutant of TimeOut: no answer in time counts as consent.
TimeOutAllows(r) ==
    /\ pc[r] = "timedOut"
    /\ pc' = [pc EXCEPT ![r] = "unparking"]
    /\ pending' = pending \ {r}
    /\ decision' = [decision EXCEPT ![r] = "allow"]
    /\ UNCHANGED <<isSet, due, turnOf, told, answer>>

\* The timeout ends the wait: its denial replaces any decision.
TimeOut(r) ==
    /\ pc[r] = "timedOut"
    /\ pc' = [pc EXCEPT ![r] = "unparking"]
    /\ pending' = pending \ {r}
    /\ decision' = [decision EXCEPT ![r] = "deny"]
    /\ UNCHANGED <<isSet, due, turnOf, told, answer>>

\* The callback records its decision, "deny" when it has none, and answers.
Answer(r) ==
    /\ pc[r] = "unparking"
    /\ LET verdict == IF decision[r] = "none" THEN "deny" ELSE decision[r]
       IN  /\ decision' = [decision EXCEPT ![r] = verdict]
           /\ answer' = [answer EXCEPT ![r] = verdict]
    /\ pc' = [pc EXCEPT ![r] = "answered"]
    /\ UNCHANGED <<pending, isSet, due, turnOf, told>>

\* An exception in decide(): the policy or its guard, a failing write of the
\* audit file or of the event log, an assertion of Session.transition.  The
\* wrapper answers a denial.  A request that was queued stays in _pending:
\* its removal is in a `finally` that had not begun.
CheckFails(r) ==
    /\ pc[r] \in {"unasked", "queued", "unparking"}
    /\ pc' = [pc EXCEPT ![r] = "failed"]
    /\ answer' = [answer EXCEPT ![r] = "deny"]
    /\ UNCHANGED <<pending, isSet, due, turnOf, decision, told>>

----------------------------------------------------------------------------
(* Who may resolve it. *)

\* Setting the events of the requests in S: see the head of the module.
SetResolved(S) ==
    /\ isSet' = isSet \cup S
    /\ pc' = [r \in Requests |->
                IF r \in S \ due /\ pc[r] = "parked" THEN "woken" ELSE pc[r]]

\* Mutant of Resolve: the expiry is not checked.
ResolveExpired(r, v) ==
    /\ r \in pending /\ r \notin isSet
    /\ decision' = [decision EXCEPT ![r] = v]
    /\ told' = [told EXCEPT ![r] = v]
    /\ SetResolved({r})
    /\ UNCHANGED <<pending, due, turnOf, answer>>

\* Mutant of Resolve: a resolved request whose callback has not run yet is
\* resolved again.
ResolveTwice(r, v) ==
    /\ r \in pending /\ r \notin due
    /\ decision' = [decision EXCEPT ![r] = v]
    /\ told' = [told EXCEPT ![r] = v]
    /\ SetResolved({r})
    /\ UNCHANGED <<pending, due, turnOf, answer>>

\* resolve(): refused for a request that is unknown, already resolved or
\* expired; otherwise the client is told that its verdict is applied.
Resolve(r, v) ==
    /\ r \in pending /\ r \notin isSet
    /\ r \notin due
    /\ decision' = [decision EXCEPT ![r] = v]
    /\ told' = [told EXCEPT ![r] = v]
    /\ SetResolved({r})
    /\ UNCHANGED <<pending, due, turnOf, answer>>

\* What a denial of the requests in S by the broker itself does.
DenyAll(S) ==
    /\ decision' = [r \in Requests |-> IF r \in S THEN "deny" ELSE decision[r]]
    /\ SetResolved(S)
    /\ UNCHANGED <<pending, due, turnOf, told, answer>>

Unresolved == pending \ isSet

\* deny_all_for_turn(): the turn's result arrived.
DenyAllForTurn(t) ==
    LET stragglers == {r \in Unresolved : turnOf[r] = t}
    IN  stragglers # {} /\ DenyAll(stragglers)

\* sweep_expired(), called by the reaper.
SweepExpired ==
    LET expired == Unresolved \cap due
    IN  expired # {} /\ DenyAll(expired)

----------------------------------------------------------------------------
(* Time. *)

\* The clock passes expires_at.
Expire(r) ==
    /\ r \in pending /\ r \notin due
    /\ due' = due \cup {r}
    /\ UNCHANGED <<pc, pending, isSet, turnOf, decision, told, answer>>

\* Mutant of TimerFires: the callback waits without a timeout.
TimerNeverFires(r) == FALSE /\ UNCHANGED vars

\* Mutant of TimerFires: the timer is armed before expires_at is read.
TimerFiresEarly(r) ==
    /\ pc[r] = "parked"
    /\ pc' = [pc EXCEPT ![r] = "timedOut"]
    /\ UNCHANGED <<pending, isSet, due, turnOf, decision, told, answer>>

\* The timer of wait_for cancels the wait; the callback runs later.
TimerFires(r) ==
    /\ pc[r] = "parked" /\ r \in due
    /\ pc' = [pc EXCEPT ![r] = "timedOut"]
    /\ UNCHANGED <<pending, isSet, due, turnOf, decision, told, answer>>

----------------------------------------------------------------------------
Next ==
    \/ \E r \in Requests :
          \/ \E v \in Verdicts : DecideByPolicy(r, v)
          \/ \E t \in Turns \cup {NoTurn} : Register(r, t)
          \/ Announce(r)
          \/ Wake(r)
          \/ TimeOut(r)
          \/ Answer(r)
          \/ CheckFails(r)
          \/ \E v \in Verdicts : Resolve(r, v)
          \/ Expire(r)
          \/ TimerFires(r)
    \/ \E t \in Turns : DenyAllForTurn(t)
    \/ SweepExpired

\* The event loop runs every task that is ready, time passes, and the holder
\* of the session lock releases it.
Fairness ==
    \A r \in Requests :
        /\ WF_vars(Announce(r)) /\ WF_vars(Wake(r)) /\ WF_vars(TimeOut(r))
        /\ WF_vars(Answer(r))
        /\ WF_vars(Expire(r)) /\ WF_vars(TimerFires(r))

Spec == Init /\ [][Next]_vars
FairSpec == Spec /\ Fairness

----------------------------------------------------------------------------
(* Properties. *)

\* A client that was told "applied" sees its verdict reach the CLI: no
\* timeout, sweep, turn end or second client replaces it.
ResolveHonoured ==
    \A r \in Requests :
        pc[r] = "answered" /\ told[r] # "none" => answer[r] = told[r]

\* A request that was parked is allowed only by a client's decision: expiry,
\* a sweep, the end of the turn and every exception deny it.
FailClosed ==
    \A r \in Requests :
        pc[r] \in {"answered", "failed"} /\ answer[r] = "allow" => told[r] = "allow"

\* An answered request is gone from _pending: no list shows it, and a later
\* resolve is refused.
AnsweredNotPending ==
    \A r \in Requests : pc[r] = "answered" => r \notin pending

\* Why they hold, as an inductive invariant.  A resolve that was "applied"
\* found the timer not due, so the callback was woken ahead of it (no told
\* request is "parked" or "timedOut"), and nothing touches the decision of a
\* request whose event is set but the timeout.
Sound(r) ==
    /\ pc[r] \in {"unasked", "decided"} =>
          r \notin pending /\ r \notin isSet /\ decision[r] = "none"
    /\ pc[r] \in {"unparking", "answered"} => r \notin pending
    /\ pc[r] \in {"parked", "timedOut"} => told[r] = "none"
    /\ pc[r] = "timedOut" => r \in due
    /\ told[r] # "none" => r \in isSet /\ decision[r] = told[r]
    /\ decision[r] = "allow" => told[r] = "allow"
    /\ pc[r] = "answered" => answer[r] = decision[r]
    /\ pc[r] = "failed" => answer[r] = "deny"
    /\ pc[r] \notin {"decided", "answered", "failed"} => answer[r] = "none"

IndInv == TypeOK /\ \A r \in Requests : Sound(r)

\* Every request that was parked is answered, resolved or not.
EveryRequestAnswered ==
    \A r \in Requests : pc[r] = "queued" ~> pc[r] \in {"answered", "failed"}

\* The broker implements the one-shot decision.
Promised(r) ==
    IF pc[r] = "decided" THEN "by policy"
    ELSE IF pc[r] = "failed" THEN "void"
    ELSE IF told[r] = "none" THEN "open" ELSE told[r]

OneShot == INSTANCE OneShotDecision
               WITH status <- [r \in Requests |-> Promised(r)]
ImplementsOneShot == OneShot!Spec
=============================================================================
