-------------------------- MODULE OneShotDecision --------------------------
(***************************************************************************)
(* What the permission broker promises about each tool request, without    *)
(* saying how: the policy may decide it on the spot; otherwise it is open  *)
(* until a client is promised a verdict, at most once, and the promise is  *)
(* what the CLI is answered.  A request nobody was promised is denied.     *)
(* The broker may give a request up (an exception inside it): then the     *)
(* answer is a denial, whatever was promised.                              *)
(***************************************************************************)
CONSTANT Requests

VARIABLES
    status,   \* [Requests -> Status]
    answer    \* [Requests -> what the CLI was answered]

vars == <<status, answer>>

Verdicts == {"allow", "deny"}
Status == {"open", "by policy", "void"} \cup Verdicts

TypeOK ==
    /\ status \in [Requests -> Status]
    /\ answer \in [Requests -> Verdicts \cup {"none"}]

Init ==
    /\ status = [r \in Requests |-> "open"]
    /\ answer = [r \in Requests |-> "none"]

\* The policy decides without asking anyone.
DecideByPolicy(r, v) ==
    /\ status[r] = "open" /\ answer[r] = "none"
    /\ status' = [status EXCEPT ![r] = "by policy"]
    /\ answer' = [answer EXCEPT ![r] = v]

\* A client is told that its verdict is applied.
Promise(r, v) ==
    /\ status[r] = "open" /\ answer[r] = "none"
    /\ status' = [status EXCEPT ![r] = v]
    /\ UNCHANGED answer

\* The CLI is answered with the promise, or denied when there is none.
Keep(r) ==
    /\ status[r] \in Verdicts \cup {"open"} /\ answer[r] = "none"
    /\ answer' = [answer EXCEPT ![r] = IF status[r] = "open" THEN "deny" ELSE status[r]]
    /\ UNCHANGED status

\* The broker fails on this request: it is denied.
Void(r) ==
    /\ answer[r] = "none"
    /\ status' = [status EXCEPT ![r] = "void"]
    /\ answer' = [answer EXCEPT ![r] = "deny"]

Next ==
    \E r \in Requests :
        \/ \E v \in Verdicts : DecideByPolicy(r, v) \/ Promise(r, v)
        \/ Keep(r)
        \/ Void(r)

Spec == Init /\ [][Next]_vars
=============================================================================
