------------------------------- MODULE LongPoll -------------------------------
(***************************************************************************)
(* The long polls of a session, on top of BrokerSession: session_send with *)
(* wait_ms (_await_settled, _send_snapshot) and session_poll with wait_ms  *)
(* (poll_async) wait on one asyncio.Event per session, session.wakeup.     *)
(*                                                                         *)
(* Every waiter looks, clears the event and waits, with no await between,  *)
(* so it never finds the event set; and set() wakes all who wait, whether  *)
(* the event is cleared afterwards or not.  Hence what the event amounts   *)
(* to is who waits: wait.  A woken task runs before the loop turns to a    *)
(* timer, a new call or the next message: messages find nobody "woken".    *)
(*                                                                         *)
(* Of the log, a poller's cursor tells whether there is something past it: *)
(* `news` of the CLI or of a permission, or a change of status only.       *)
(***************************************************************************)
EXTENDS BrokerSession

CONSTANT Pollers   \* callers of session_poll, each polling on from its cursor

ASSUME PollersAssumption == Pollers \cap Senders = {}

VARIABLES
    wait,     \* of senders and pollers: "out", "asleep", "woken"
    ahead,    \* [Pollers -> what the log has past the cursor]
    last      \* [Senders -> the query whose result is the last in the log
              \*  since the sender's turn started, or NoTurn]

pollVars == <<wait, ahead, last>>
longVars == <<vars, pollVars>>

Waiters == Senders \cup Pollers

\* Waiters, and what is ahead of the pollers.
LongTypeOK ==
    /\ wait \in [Waiters -> {"out", "asleep", "woken"}]
    /\ ahead \in [Pollers -> {"nothing", "status", "news"}]
    /\ last \in [Senders -> Senders \cup {NoTurn}]

LongInit ==
    /\ Init
    /\ wait = [w \in Waiters |-> "out"]
    /\ ahead = [p \in Pollers |-> "nothing"]
    /\ last = [s \in Senders |-> NoTurn]

----------------------------------------------------------------------------
(* What a step of BrokerSession does to the waiters and to the log. *)

Asleep(w) == wait[w] = "asleep"

\* Mutant of WakeIf: one waiter is woken.
WakeOneIf(sets) ==
    IF sets /\ \E w \in Waiters : Asleep(w)
    THEN \E w \in Waiters : Asleep(w) /\ wait' = [wait EXCEPT ![w] = "woken"]
    ELSE UNCHANGED wait

\* session.wakeup.set(), if the step comes to it.
WakeIf(sets) ==
    wait' = IF sets THEN [w \in Waiters |-> IF Asleep(w) THEN "woken" ELSE wait[w]]
            ELSE wait

\* Events of a message or a permission; a transition logs one of its own.
Logs == ahead' = [p \in Pollers |-> "news"]
LogsStatus ==
    ahead' = [p \in Pollers |-> IF state' # state /\ ahead[p] = "nothing"
                                THEN "status" ELSE ahead[p]]

\* Every waiter that was woken has run.
LoopIdle == \A w \in Waiters : wait[w] # "woken"

----------------------------------------------------------------------------
(* Who sets the event: the consumer at the end of each message and of its  *)
(* stream; in its `except` only if the session is in ERROR already, for    *)
(* otherwise the transition raises; callbacks; a close that ends a turn.   *)

\* Mutants of Handled and Ended: the event is not set there.
HandledSilently == FALSE
EndedSilently == FALSE

Handled == cons' = "receiving"
Ended == cons' = "done"

\* What normalise() makes of a message may be no event at all.
Report ==
    /\ Listening /\ LoopIdle
    /\ \/ Logs
       \/ UNCHANGED ahead
    /\ WakeIf(TRUE)
    /\ UNCHANGED <<vars, last>>

MessageLogged ==
    /\ LoopIdle
    /\ Logs
    /\ \/ InitMessage /\ WakeIf(Handled) /\ UNCHANGED last
       \/ McpErrorMessage /\ WakeIf(Ended) /\ UNCHANGED last
       \/ (\E limited \in BOOLEAN : RetryMessage(limited)) /\ WakeIf(Handled)
             /\ UNCHANGED last
       \/ AuthMessage /\ WakeIf(Handled \/ (Ended /\ state # "error")) /\ UNCHANGED last
       \/ /\ ResultMessage /\ WakeIf(Handled)
          /\ last' = [s \in Senders |-> IF tstate[s] = "none" THEN NoTurn ELSE Head(cliq)]

MessageHandled ==
    /\ \/ (InitLocked \/ CooldownLocked \/ ResultLocked) /\ WakeIf(Handled)
       \/ McpErrorLocked /\ WakeIf(Ended)
       \/ AuthLocked /\ WakeIf(Handled \/ (Ended /\ state # "error"))
       \/ EndLocked /\ WakeIf(TRUE)
       \/ ErrorLocked /\ WakeIf(state = "error")
       \/ ConsumerCancelled /\ WakeIf(FALSE)
    /\ LogsStatus /\ UNCHANGED last

StreamOver ==
    /\ LoopIdle
    /\ \/ StreamEnds /\ WakeIf(Ended)
       \/ StreamRaises /\ WakeIf(Ended /\ state = "error")
    /\ LogsStatus /\ UNCHANGED last

\* decide(): the request is logged before the lock is taken, the event set
\* after it, also when the transition raised and a denial is recorded.
Callback(c) ==
    \/ Ask(c) /\ Logs /\ WakeIf(Free) /\ UNCHANGED last
    \/ /\ ParkLocked(c) /\ WakeIf(TRUE) /\ UNCHANGED last
       /\ IF pc'[c] = "raised" THEN Logs ELSE LogsStatus
    \/ (Unpark(c) \/ UnparkLocked(c)) /\ UNCHANGED last
          /\ IF pc'[c] \in {"done", "raised"}
             THEN Logs /\ WakeIf(TRUE)
             ELSE UNCHANGED <<wait, ahead>>

Closing(k) ==
    \/ Abandon(k) /\ WakeIf(TRUE) /\ UNCHANGED <<ahead, last>>
    \/ (Close(k) \/ Joined(k) \/ Disconnected(k) \/ CloseLocked(k))
          /\ LogsStatus /\ UNCHANGED <<wait, last>>

\* Steps that leave the event alone.
Unheard ==
    /\ \/ GraceEnds \/ CooldownExpires
       \/ \E s \in Senders : Send(s) \/ SendLocked(s) \/ QueryRaises(s)
       \/ \E i \in Interrupters : InterruptNext(i)
       \/ \E c \in Callbacks : Resolve(c)
    /\ LogsStatus /\ UNCHANGED <<wait, last>>

----------------------------------------------------------------------------
(* session_send after its query() *)

TurnOver(s) == tstate[s] # "running"

\* Mutant of Settled: a request is seen by the session's state alone.
SettledByState(s) ==
    \/ TurnOver(s)
    \/ state = "awaiting_permission"
    \/ state \in {"cooldown", "error"}
    \/ state = "idle" /\ turn = NoTurn

\* The conditions of _await_settled().
Settled(s) ==
    \/ TurnOver(s)
    \/ state = "awaiting_permission"
    \/ pending # {}
    \/ state \in {"cooldown", "error"}
    \/ state = "idle" /\ turn = NoTurn

\* The result that _send_snapshot() returns, if any.
ResultFor(s) == IF state = "idle" /\ TurnOver(s) THEN last[s] ELSE NoTurn

SendWaits(s) ==
    /\ QueryReturns(s)
    /\ \/ UNCHANGED wait
       \/ ~Settled(s) /\ wait' = [wait EXCEPT ![s] = "asleep"]
    /\ UNCHANGED <<ahead, last>>

SendLooks(s) ==
    /\ wait[s] = "woken"
    /\ wait' = [wait EXCEPT ![s] = IF Settled(s) THEN "out" ELSE "asleep"]
    /\ UNCHANGED <<vars, ahead, last>>

SendTimesOut(s) ==
    /\ Asleep(s) /\ LoopIdle
    /\ wait' = [wait EXCEPT ![s] = "out"]
    /\ UNCHANGED <<vars, ahead, last>>

----------------------------------------------------------------------------
(* session_poll *)

\* The snapshot, which a limit may cut short; the caller goes on from there.
Returns(p) ==
    /\ wait' = [wait EXCEPT ![p] = "out"]
    /\ \E rest \in {"nothing", ahead[p]} : ahead' = [ahead EXCEPT ![p] = rest]

PollEnds(p) == ahead[p] # "nothing" \/ state = "awaiting_permission"

Poll(p) ==
    /\ wait[p] = "out" \/ wait[p] = "woken"
    /\ IF PollEnds(p) THEN Returns(p)
       ELSE wait' = [wait EXCEPT ![p] = "asleep"] /\ UNCHANGED ahead
    /\ UNCHANGED <<vars, last>>

PollWaitEnds(p) ==
    /\ Asleep(p) /\ LoopIdle
    /\ Returns(p)
    /\ UNCHANGED <<vars, last>>

----------------------------------------------------------------------------
LongNext ==
    \/ Report \/ MessageLogged \/ MessageHandled \/ StreamOver
    \/ \E c \in Callbacks : Callback(c)
    \/ \E k \in Closers : Closing(k)
    \/ Unheard
    \/ \E s \in Senders : SendWaits(s) \/ SendLooks(s) \/ SendTimesOut(s)
    \/ \E p \in Pollers : Poll(p) \/ PollWaitEnds(p)

LongSpec == LongInit /\ [][LongNext]_longVars

\* A waiter that was woken runs; no deadline of a wait needs to pass.
LongFairSpec ==
    /\ LongSpec /\ Fairness
    /\ \A s \in Senders : WF_longVars(SendLooks(s))

----------------------------------------------------------------------------
(* Properties. *)

\* Nobody sleeps through what a parked request or a message brings, although
\* every waiter clears the event for all: a poller that sleeps with news past
\* its cursor has a handler still to wake it, unless the consumer is gone.
NewsWakesPollers ==
    \A p \in Pollers : Asleep(p) /\ ahead[p] = "news" =>
        cons # "receiving" \/ \E c \in Callbacks : pc[c] = "wants park"

\* No session_send sleeps while a request waits for the decision of its
\* caller, whatever the session's state says: of two parked requests the first
\* resolved moves it to RUNNING.
AskedSendersAwake ==
    \A c \in Callbacks : pc[c] = "parked" => \A s \in Senders : ~Asleep(s)

\* Why: a request that is to be parked is pending, and no send goes to sleep
\* while one is; and every step that brings news goes on to the event.
LongInv ==
    /\ LongTypeOK /\ cliq \in Seq(Senders)
    /\ \A c \in Callbacks : pc[c] \in {"wants park", "parked"} => c \in pending
    /\ NewsWakesPollers /\ AskedSendersAwake

\* No session_send sleeps once its turn is over, by a result, the end of the
\* stream or an interrupt, except in a session that fails or is being closed.
Failing == state \in Terminal \/ cons = "wants error"
OverSendersAwake ==
    \A s \in Senders : Asleep(s) /\ TurnOver(s) =>
        cons = "wants result" \/ Failing \/ Ending

\* The result a session_send returns is its own query's, not one that came
\* earlier or later in the same log.  Needs a prompt query(), and that no
\* interrupt has timed out, as BilledForOwnQuery does.
ResultIsOwn ==
    [][~Expired => \A s \in Senders :
          (pc'[s] = "done" /\ wait'[s] = "out" /\ (pc[s] # "done" \/ wait[s] # "out"))
              => ResultFor(s)' \in {s, NoTurn}]_longVars

\* A session_send whose turn has been completed returns, without its deadline,
\* except in a session that fails or is being closed.
CompletedSendersReturn ==
    \A s \in Senders :
        (tstate[s] = "completed" /\ wait[s] # "out")
            ~> (wait[s] = "out" \/ Failing \/ Ending)
=============================================================================
