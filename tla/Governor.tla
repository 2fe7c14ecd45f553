-------------------------------- MODULE Governor --------------------------------
(***************************************************************************)
(* RateLimitGovernor of budget.py: the cooldown that one session's         *)
(* api_retry event imposes on every session.                               *)
(*                                                                         *)
(* cooldown_until is the time that is left until it, and `state` is told   *)
(* by `cooling`: the code sets and clears the two together, and clears     *)
(* them only when somebody asks, after the time has passed.  The backoff   *)
(* doubles with every rate limit in a row until it reaches its cap, where  *)
(* the count stops.  The module has no Next: its steps are parts of what   *)
(* sessions do, in module Admission.                                       *)
(***************************************************************************)
EXTENDS Naturals

CONSTANTS
    CooldownBase,      \* BROKER_COOLDOWN_BASE
    CooldownMax,       \* BROKER_COOLDOWN_MAX
    OverloadedDelay,   \* the cooldown of an "overloaded" retry
    Delays,            \* values of retry_delay_ms
    MaxConsecutive     \* bound: rate limits in a row that are told apart

ASSUME GovernorAssumption ==
    /\ CooldownBase \in Nat \ {0} /\ CooldownMax \in Nat
    /\ OverloadedDelay \in Nat \ {0} /\ Delays \subseteq Nat
    /\ MaxConsecutive \in Nat \ {0}
    /\ CooldownBase * 2 ^ (MaxConsecutive - 1) >= CooldownMax

VARIABLES
    cooling,       \* state is "cooldown" and cooldown_until is set
    remaining,     \* time until cooldown_until, 0 once it has passed
    consecutive,   \* consecutive_rate_limits
    authFailed     \* auth_failed

governorVars == <<cooling, remaining, consecutive, authFailed>>

GovernorInit ==
    /\ cooling = FALSE /\ remaining = 0 /\ consecutive = 0
    /\ authFailed = FALSE

Longer(a, b) == IF a >= b THEN a ELSE b
Shorter(a, b) == IF a <= b THEN a ELSE b

\* The longest cooldown after n rate limits in a row.
Backoff(n, delay) ==
    Shorter(CooldownMax, Longer(delay, CooldownBase * 2 ^ (n - 1)))

\* Mutant of InCooldown: the state is not compared with the time.
InCooldownByState == cooling

\* What is_in_cooldown() returns.
InCooldown == cooling /\ remaining > 0

\* is_in_cooldown(): a cooldown that is over is forgotten when it is asked.
IsInCooldown ==
    /\ cooling' = InCooldown
    /\ UNCHANGED <<remaining, consecutive, authFailed>>

\* assert_sendable(), when it raises nothing.
AssertSendable == ~authFailed /\ ~InCooldown /\ IsInCooldown

\* Mutant of OnTurnComplete: a turn that got through ends the cooldown.
OnTurnCompleteClears ==
    /\ cooling' = FALSE /\ remaining' = 0
    /\ consecutive' = 0
    /\ UNCHANGED authFailed

\* on_turn_complete(): whichever session's turn it was.
OnTurnComplete ==
    /\ cooling' = InCooldown
    /\ consecutive' = 0
    /\ UNCHANGED <<remaining, authFailed>>

----------------------------------------------------------------------------
(* handle_api_retry(), by error, and the is_in_cooldown() that follows it.  *)

\* Mutant of RateLimited: the jitter alone decides.
RateLimitedByJitter(delay) ==
    LET n == Shorter(consecutive + 1, MaxConsecutive)
    IN  /\ consecutive' = n
        /\ \E jitter \in 0..Backoff(n, delay) :
              remaining' = jitter /\ cooling' = (jitter > 0)
        /\ UNCHANGED authFailed

\* "rate_limit": full jitter below the backoff, and never below the delay.
RateLimited(delay) ==
    LET n == Shorter(consecutive + 1, MaxConsecutive)
    IN  /\ consecutive' = n
        /\ \E jitter \in 0..Backoff(n, delay) :
              /\ remaining' = Longer(delay, jitter)
              /\ cooling' = (remaining' # 0)
        /\ UNCHANGED authFailed

\* "overloaded": its own cooldown replaces the one there is.
Overloaded ==
    /\ cooling' = TRUE /\ remaining' = OverloadedDelay
    /\ UNCHANGED <<consecutive, authFailed>>

\* Authentication and billing errors: no turn starts any more.
AuthFails ==
    /\ authFailed' = TRUE
    /\ UNCHANGED <<cooling, remaining, consecutive>>

\* Any other error is only counted.
Informational == IsInCooldown

TimePasses ==
    /\ remaining > 0
    /\ remaining' = remaining - 1
    /\ UNCHANGED <<cooling, consecutive, authFailed>>
=============================================================================
