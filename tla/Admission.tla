------------------------------- MODULE Admission -------------------------------
(***************************************************************************)
(* Who may start a turn: the budget of Ledger and the cooldown of Governor *)
(* composed, as the sessions of the broker use them.  send() asks the      *)
(* governor and then the ledger; a result is recorded in the ledger and    *)
(* then reported to the governor, which hears nothing when the recording   *)
(* raises; an api_retry goes to the governor, in a turn or between two.    *)
(* When it is cooling after that, whoever's retry that was, a session in a *)
(* turn fails an assertion in its transition to COOLDOWN and is lost with  *)
(* the turn; one between two turns goes on.                                *)
(***************************************************************************)
EXTENDS Ledger, Governor

VARIABLES
    embargo    \* history: time until the latest retry's delay is over

admissionVars == <<vars, governorVars, embargo>>

AdmissionTypeOK ==
    /\ cooling \in BOOLEAN /\ authFailed \in BOOLEAN
    /\ remaining \in Nat /\ embargo \in Nat
    /\ consecutive \in Nat

AdmissionInit == Init /\ GovernorInit /\ embargo = 0

\* Mutant of StartTurn: the ledger is asked alone.
StartTurnUngoverned(s) == Send(s) /\ UNCHANGED <<governorVars, embargo>>

\* send(): _assert_sendable() and the start of the turn.
StartTurn(s) ==
    /\ AssertSendable
    /\ Send(s)
    /\ UNCHANGED embargo

\* create_session(), or a send() the ledger refuses: the governor was asked.
AskGovernor ==
    /\ up /\ AssertSendable
    /\ UNCHANGED <<vars, embargo>>

\* A result, recorded.
EndTurn(s, c) ==
    /\ Result(s, c)
    /\ OnTurnComplete
    /\ UNCHANGED embargo

\* A result whose record cannot be written, or a turn that has no result.
LoseTurn(s) ==
    /\ Abandon(s) \/ \E c \in 0..MaxCost : ResultNotWritten(s, c)
    /\ UNCHANGED <<governorVars, embargo>>

\* The turn of a retry's session, if it has one, is lost with the session when
\* the transition fails.
Lost(s, lost) == IF lost /\ s \in busy THEN Abandon(s) ELSE UNCHANGED vars

\* api_retry in session s.
Retry(s) ==
    /\ up
    /\ \/ \E delay \in Delays :
             RateLimited(delay) /\ embargo' = delay /\ Lost(s, cooling')
       \/ Overloaded /\ embargo' = OverloadedDelay /\ Lost(s, TRUE)
       \/ AuthFails /\ UNCHANGED embargo /\ Lost(s, TRUE)
       \/ Informational /\ UNCHANGED embargo /\ Lost(s, cooling')

Tick ==
    /\ TimePasses
    /\ embargo' = IF embargo > 0 THEN embargo - 1 ELSE 0
    /\ UNCHANGED vars

\* The broker is killed: what the governor knew is gone.
Die ==
    /\ \/ Crash
       \/ \E s \in Sessions, c \in 0..MaxCost : CrashAfterWrite(s, c)
    /\ cooling' = FALSE /\ remaining' = 0 /\ consecutive' = 0
    /\ authFailed' = FALSE /\ embargo' = 0

AdmissionNext ==
    \/ \E s \in Sessions :
          \/ StartTurn(s)
          \/ \E c \in 0..MaxCost : EndTurn(s, c)
          \/ LoseTurn(s)
          \/ Retry(s)
    \/ AskGovernor
    \/ Tick
    \/ Die
    \/ (Restart \/ WindowRolls) /\ UNCHANGED <<governorVars, embargo>>

AdmissionSpec ==
    AdmissionInit /\ [][AdmissionNext]_admissionVars /\ WF_admissionVars(Tick)

----------------------------------------------------------------------------
(* Properties. *)

\* As long as the broker runs, no session starts a turn before the delay of
\* the latest retry is over, whichever session was told to wait, whatever the
\* jitter, and though turns of other sessions end in between.
NoTurnBeforeRetryAfter ==
    [][\A s \in busy' \ busy : embargo = 0]_admissionVars

\* Why: the cooldown lasts as long as that delay at least, and is not forgotten
\* before.
AdmissionInv ==
    /\ AdmissionTypeOK
    /\ embargo <= remaining
    /\ embargo > 0 => cooling

\* Once no retry prolongs it, a cooldown ends and none comes back, however many
\* retries there were and whatever turns end, start and are lost meanwhile:
\* what ends it is the time, and nobody needs to clear it.
CooldownEnds ==
    <>[][remaining' <= remaining]_admissionVars => <>[]~InCooldown
=============================================================================
