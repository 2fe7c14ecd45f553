---------------------------- MODULE BrokerSession ----------------------------
(***************************************************************************)
(* One session of the broker: Session of registry.py and the coroutines of *)
(* core.py and permissions.py that drive it.  The consumer task, calls of  *)
(* send, interrupt and close_session, and permission callbacks share the   *)
(* session on one asyncio event loop.  The CLI behind the SDK client is    *)
(* the environment.                                                        *)
(*                                                                         *)
(* A step is what one task does between two awaits.  session.lock is       *)
(* asyncio.Lock: first come first served, and taking it when nobody holds  *)
(* or wants it does not yield, so the critical section then belongs to the *)
(* step that comes to it.  lockq is the lock: its head holds the lock or   *)
(* has been woken to take it, the others wait.  Only send() keeps it       *)
(* across an await, the one of client.query().                             *)
(*                                                                         *)
(* Session.transition() assigns the state first and asserts its invariants *)
(* afterwards, so a failing assertion raises with the new state in place.  *)
(*                                                                         *)
(* Left out: the event log and session.wakeup, which no step here reads,   *)
(* costs beyond who is billed, and the policy (a callback here is one that *)
(* parks).                                                                 *)
(***************************************************************************)
EXTENDS Naturals, Sequences, FiniteSets

CONSTANTS
    Senders,       \* calls of send(); each makes at most the turn it names
    Interrupters,  \* calls of interrupt()
    Closers,       \* calls of close_session()
    Callbacks,     \* calls of can_use_tool that the policy parks
    PromptQuery    \* TRUE: the CLI answers, asks or dies, and an interrupt's
                   \* deadline passes, only while nobody holds the lock, as
                   \* when query() returns at once.  FALSE: whenever it likes

ASSUME PromptQueryAssumption == PromptQuery \in BOOLEAN

\* Calls of different kinds are different calls.
ASSUME CallsAssumption ==
    /\ Senders \cap (Interrupters \cup Closers \cup Callbacks) = {}
    /\ Interrupters \cap (Closers \cup Callbacks) = {}
    /\ Closers \cap Callbacks = {}

VARIABLES
    state,       \* Session.state
    turn,        \* Session.current_turn
    tstate,      \* [Senders -> Turn.state], "none" before the turn is made
    recorded,    \* how often a turn was appended to turn_history
    bills,       \* <<turn, query>>: the ledger charged turn for query's result
    lockq,       \* session.lock
    ran,         \* tasks that ran since the head of lockq was woken
    cons,        \* stage of the consumer task
    pc,          \* stage of every call
    pending,     \* callbacks with a request in PermissionBroker._pending
    isSet,       \* callbacks whose request is resolved
    turnOf,      \* the turn whose permission_requests lists the callback's
    meta,        \* the state in the session's meta.json
    cooling,     \* RateLimitGovernor.is_in_cooldown()
    authFailed,  \* RateLimitGovernor's auth_failed
    cliUp,       \* the CLI's message stream is open
    cliq         \* queries the CLI was given and has not answered

vars == <<state, turn, tstate, recorded, bills, lockq, ran, cons, pc, pending,
          isSet, turnOf, meta, cooling, authFailed, cliUp, cliq>>

Running == {"running", "awaiting_permission"}
Terminal == {"error", "closed"}
State == {"creating", "idle", "cooldown"} \cup Running \cup Terminal
NoTurn == "none"
Consumer == "consumer"
Tasks == Senders \cup Interrupters \cup Closers \cup Callbacks

\* The queue of the lock tells them apart.
ASSUME ConsumerAssumption == Consumer \notin Tasks

\* turn tells them apart.
ASSUME NoTurnAssumption == NoTurn \notin Senders

\* Stages: a name in "wants ..." waits for session.lock.
ConsumerStage == {"receiving", "wants init", "wants mcp error", "wants cooldown",
                  "wants auth error", "wants result", "wants end", "wants error",
                  "cancelled", "done"}
Stage == {"ready", "done", "raised", "timed out",
          "wants send", "querying",
          "interrupting", "polling", "wants timeout", "wants idle",
          "abandoning", "joining", "disconnecting", "wants closed",
          "wants park", "parked", "wants unpark"}

\* States, stages and identifiers.
TypeOK ==
    /\ state \in State /\ meta \in State
    /\ turn \in Senders \cup {NoTurn}
    /\ tstate \in [Senders -> {"none", "running", "completed", "interrupted"}]
    /\ recorded \in [Senders -> Nat]
    /\ bills \subseteq Senders \X Senders
    /\ lockq \in Seq(Tasks \cup {Consumer})
    /\ ran \subseteq Tasks \cup {Consumer}
    /\ cons \in ConsumerStage
    /\ pc \in [Tasks -> Stage]
    /\ pending \subseteq Callbacks /\ isSet \subseteq Callbacks
    /\ turnOf \in [Callbacks -> Senders \cup {NoTurn}]
    /\ cooling \in BOOLEAN /\ authFailed \in BOOLEAN /\ cliUp \in BOOLEAN
    /\ cliq \in Seq(Senders)

\* create_session() up to the start of the consumer: the client is connected.
Init ==
    /\ state = "creating" /\ meta = "creating"
    /\ turn = NoTurn
    /\ tstate = [s \in Senders |-> "none"]
    /\ recorded = [s \in Senders |-> 0]
    /\ bills = {}
    /\ lockq = <<>> /\ ran = {}
    /\ cons = "receiving"
    /\ pc = [p \in Tasks |-> "ready"]
    /\ pending = {} /\ isSet = {}
    /\ turnOf = [c \in Callbacks |-> NoTurn]
    /\ cooling = FALSE /\ authFailed = FALSE
    /\ cliUp = TRUE /\ cliq = <<>>

TurnVars == <<turn, tstate, recorded, bills>>
RequestVars == <<pending, isSet, turnOf>>
Governor == <<cooling, authFailed>>
Cli == <<cliUp, cliq>>

----------------------------------------------------------------------------
(* The state machine and the lock. *)

HasActiveTurn == turn # NoTurn /\ tstate[turn] = "running"

\* _assert_invariants() after a transition to `new`, by any task but send.
AssertFails(new) ==
    /\ new # state
    /\ \/ new \in Running /\ ~HasActiveTurn
       \/ new \notin Running \cup {"creating"} /\ HasActiveTurn
       \/ new \in Terminal /\ cons # "done"

Free == lockq = <<>>
Goto(p, stage) == pc' = [pc EXCEPT ![p] = stage]
Queue(p, stage) == lockq' = Append(lockq, p) /\ Goto(p, stage)
\* The queue once p has given up its place, if it has one.
Without(q, p) ==
    IF \E i \in 1..Len(q) : q[i] = p
    THEN LET i == CHOOSE j \in 1..Len(q) : q[j] = p
         IN  SubSeq(q, 1, i - 1) \o SubSeq(q, i + 1, Len(q))
    ELSE q
\* p, at `stage`, has been woken to take the lock.
Granted(p, stage) == pc[p] = stage /\ ~Free /\ Head(lockq) = p

\* The last conjunct of a step of task p.  A task woken for the lock is in the
\* ready queue of the event loop: until it runs, the task that woke it cannot
\* run again, and any other task at most once, if it was in the queue before.
Woken(q) == q # <<>> /\ ~(Head(q) \in Senders /\ pc'[Head(q)] = "querying")
Runs(p) ==
    /\ p \notin ran
    /\ ran' = IF ~Woken(lockq') THEN {}
              ELSE IF Head(lockq') = Head(lockq) /\ ran # {} THEN ran \cup {p}
              ELSE {p}

\* Set the events of the requests in S.
Resolved(S) == isSet' = isSet \cup S
Unresolved == pending \ isSet

----------------------------------------------------------------------------
(* The consumer task.  `rest` is the queue behind it once it has the lock. *)

ConsumerGoes(stage, rest) == cons' = stage /\ lockq' = rest
ConsumerQueues(stage) == cons' = stage /\ lockq' = Append(lockq, Consumer)
ConsumerGranted(stage) == cons = stage /\ ~Free /\ Head(lockq) = Consumer

\* An exception while the session is in state `new`: the `except` of
\* _consume() takes the lock, again at the end of the queue, and moves to
\* ERROR.  The task ends there, by return or because that transition raises.
ConsumerFails(new, rest) ==
    IF rest = <<>>
    THEN state' = "error" /\ ConsumerGoes("done", rest)
    ELSE state' = new /\ ConsumerGoes("wants error", Append(rest, Consumer))

ConsumerTransition(new, rest) ==
    IF AssertFails(new)
    THEN ConsumerFails(new, rest)
    ELSE state' = new /\ ConsumerGoes("receiving", rest)

Listening == cons = "receiving" /\ cliUp

\* SystemMessage init: IDLE if the session was still being created.
InitSection(rest) ==
    /\ state' = IF state = "creating" THEN "idle" ELSE state
    /\ meta' = state'
    /\ ConsumerGoes("receiving", rest)

InitMessage ==
    /\ Listening
    /\ \/ Free /\ InitSection(<<>>)
       \/ ~Free /\ ConsumerQueues("wants init") /\ UNCHANGED <<state, meta>>
    /\ UNCHANGED <<pc, TurnVars, RequestVars, Governor, Cli>>
    /\ Runs(Consumer)

InitLocked ==
    /\ ConsumerGranted("wants init") /\ InitSection(Tail(lockq))
    /\ UNCHANGED <<pc, TurnVars, RequestVars, Governor, Cli>>
    /\ Runs(Consumer)

\* SystemMessage init with mcp_server_errors: ERROR, and an exception anyway.
McpErrorMessage ==
    /\ Listening
    /\ \/ Free /\ ConsumerFails("error", <<>>)
       \/ ~Free /\ ConsumerQueues("wants mcp error") /\ UNCHANGED state
    /\ UNCHANGED <<pc, meta, TurnVars, RequestVars, Governor, Cli>>
    /\ Runs(Consumer)

McpErrorLocked ==
    /\ ConsumerGranted("wants mcp error") /\ ConsumerFails("error", Tail(lockq))
    /\ UNCHANGED <<pc, meta, TurnVars, RequestVars, Governor, Cli>>
    /\ Runs(Consumer)

\* SystemMessage api_retry: the governor notes it; in cooldown, the session
\* moves to COOLDOWN whatever it was doing.
RetryMessage(limited) ==
    /\ Listening
    /\ cooling' = (cooling \/ limited)
    /\ \/ ~cooling' /\ UNCHANGED <<state, cons, lockq>>
       \/ cooling' /\ Free /\ ConsumerTransition("cooldown", <<>>)
       \/ cooling' /\ ~Free /\ ConsumerQueues("wants cooldown") /\ UNCHANGED state
    /\ UNCHANGED <<pc, meta, TurnVars, RequestVars, authFailed, Cli>>
    /\ Runs(Consumer)

CooldownLocked ==
    /\ ConsumerGranted("wants cooldown")
    /\ ConsumerTransition("cooldown", Tail(lockq))
    /\ UNCHANGED <<pc, meta, TurnVars, RequestVars, Governor, Cli>>
    /\ Runs(Consumer)

\* api_retry with an authentication error: to ERROR, where the assertion about
\* the live consumer fails; already in ERROR, on to the cooldown check.
AuthSection(rest) ==
    IF state # "error" THEN ConsumerFails("error", rest)
    ELSE IF ~cooling THEN ConsumerGoes("receiving", rest) /\ UNCHANGED state
    ELSE IF rest = <<>> THEN ConsumerTransition("cooldown", rest)
    ELSE ConsumerGoes("wants cooldown", Append(rest, Consumer)) /\ UNCHANGED state

AuthMessage ==
    /\ Listening
    /\ authFailed' = TRUE
    /\ \/ Free /\ AuthSection(<<>>)
       \/ ~Free /\ ConsumerQueues("wants auth error") /\ UNCHANGED state
    /\ UNCHANGED <<pc, meta, TurnVars, RequestVars, cooling, Cli>>
    /\ Runs(Consumer)

AuthLocked ==
    /\ ConsumerGranted("wants auth error") /\ AuthSection(Tail(lockq))
    /\ UNCHANGED <<pc, meta, TurnVars, RequestVars, Governor, Cli>>
    /\ Runs(Consumer)

\* ResultMessage: the current turn is completed, recorded and billed and its
\* requests denied; then, with the lock, the turn is retired.
ResultSection(rest) ==
    /\ turn' = NoTurn
    /\ state' = IF state \in Running \/ (state = "cooldown" /\ ~cooling)
                THEN "idle" ELSE state
    /\ meta' = state'
    /\ ConsumerGoes("receiving", rest)

\* The CLI answers the oldest query it was given.
CliWorks == cliUp /\ cliq # <<>> /\ (PromptQuery => Free)

ResultMessage ==
    /\ Listening /\ CliWorks
    /\ cliq' = Tail(cliq)
    /\ IF turn = NoTurn
       THEN UNCHANGED <<tstate, recorded, bills, isSet>>
       ELSE /\ tstate' = [tstate EXCEPT ![turn] = "completed"]
            /\ recorded' = [recorded EXCEPT ![turn] = @ + 1]
            /\ bills' = bills \cup {<<turn, Head(cliq)>>}
            /\ Resolved({c \in Unresolved : turnOf[c] = turn})
    /\ \/ Free /\ ResultSection(<<>>)
       \/ ~Free /\ ConsumerQueues("wants result") /\ UNCHANGED <<state, turn, meta>>
    /\ UNCHANGED <<pc, pending, turnOf, Governor, cliUp>>
    /\ Runs(Consumer)

ResultLocked ==
    /\ ConsumerGranted("wants result") /\ ResultSection(Tail(lockq))
    /\ UNCHANGED <<pc, tstate, recorded, bills, RequestVars, Governor, Cli>>
    /\ Runs(Consumer)


\* The stream ends: a running turn is interrupted, the session IDLE, and the
\* consumer task is over.
EndSection(rest) ==
    /\ IF state \in Running
       THEN /\ tstate' = IF turn = NoTurn THEN tstate
                         ELSE [tstate EXCEPT ![turn] = "interrupted"]
            /\ turn' = NoTurn
            /\ state' = "idle"
       ELSE UNCHANGED <<tstate, turn, state>>
    /\ ConsumerGoes("done", rest)

StreamEnds ==
    /\ Listening /\ (PromptQuery => Free)
    /\ cliUp' = FALSE
    /\ \/ Free /\ EndSection(<<>>)
       \/ ~Free /\ ConsumerQueues("wants end") /\ UNCHANGED <<tstate, turn, state>>
    /\ UNCHANGED <<pc, meta, recorded, bills, RequestVars, Governor, cliq>>
    /\ Runs(Consumer)

EndLocked ==
    /\ ConsumerGranted("wants end") /\ EndSection(Tail(lockq))
    /\ UNCHANGED <<pc, meta, recorded, bills, RequestVars, Governor, Cli>>
    /\ Runs(Consumer)

\* The stream raises: the subprocess died, a message could not be handled.
StreamRaises ==
    /\ Listening /\ (PromptQuery => Free)
    /\ cliUp' = FALSE
    /\ \/ Free /\ ConsumerFails(state, <<>>)
       \/ ~Free /\ ConsumerQueues("wants error") /\ UNCHANGED state
    /\ UNCHANGED <<pc, meta, TurnVars, RequestVars, Governor, cliq>>
    /\ Runs(Consumer)

ErrorLocked ==
    /\ ConsumerGranted("wants error")
    /\ state' = "error" /\ ConsumerGoes("done", Tail(lockq))
    /\ UNCHANGED <<pc, meta, TurnVars, RequestVars, Governor, Cli>>
    /\ Runs(Consumer)

\* The task was cancelled by close_session().
ConsumerCancelled ==
    /\ cons = "cancelled"
    /\ ConsumerGoes("done", Without(lockq, Consumer))
    /\ UNCHANGED <<state, pc, meta, TurnVars, RequestVars, Governor, Cli>>
    /\ Runs(Consumer)

\* The grace period of create_session() ends without an init message.
GraceEnds ==
    /\ state = "creating" /\ Free
    /\ state' = "idle"
    /\ UNCHANGED <<ran, lockq, cons, pc, meta, TurnVars, RequestVars, Governor, Cli>>

----------------------------------------------------------------------------
(* send *)

\* Mutant of Sendable: a session in a turn is not refused.
SendableWhileBusy ==
    /\ state \notin Terminal \cup {"cooldown"}
    /\ ~authFailed /\ ~cooling

\* Mutant of Sendable: a session that ended is not refused.
SendableOnceClosed ==
    /\ state \notin Running \cup {"cooldown"}
    /\ ~authFailed /\ ~cooling

\* _assert_sendable(): a session being created is not refused.
Sendable ==
    /\ state \notin Running \cup Terminal \cup {"cooldown"}
    /\ ~authFailed /\ ~cooling

\* The critical section up to `await client.query()`; q is the lock's queue
\* with s at its head.
SendSection(s, q) ==
    IF Sendable
    THEN /\ turn' = s
         /\ tstate' = [tstate EXCEPT ![s] = "running"]
         /\ state' = "running"
         /\ cliq' = Append(cliq, s)
         /\ lockq' = q /\ Goto(s, "querying")
    ELSE /\ UNCHANGED <<turn, tstate, state, cliq>>
         /\ lockq' = Tail(q) /\ Goto(s, "raised")

Send(s) ==
    /\ pc[s] = "ready"
    /\ \/ Free /\ SendSection(s, <<s>>)
       \/ ~Free /\ Queue(s, "wants send") /\ UNCHANGED <<turn, tstate, state, cliq>>
    /\ UNCHANGED <<recorded, bills, cons, meta, RequestVars, Governor, cliUp>>
    /\ Runs(s)

SendLocked(s) ==
    /\ Granted(s, "wants send") /\ SendSection(s, lockq)
    /\ UNCHANGED <<recorded, bills, cons, meta, RequestVars, Governor, cliUp>>
    /\ Runs(s)

QueryReturns(s) ==
    /\ pc[s] = "querying"
    /\ lockq' = Tail(lockq) /\ Goto(s, "done")
    /\ UNCHANGED <<state, cons, meta, TurnVars, RequestVars, Governor, Cli>>
    /\ Runs(s)

\* Mutant of QueryRaises: the exception leaves the lock taken.
QueryRaisesLocked(s) ==
    /\ pc[s] = "querying"
    /\ cliq' = Without(cliq, s)
    /\ Goto(s, "raised")
    /\ UNCHANGED <<state, lockq, cons, meta, TurnVars, RequestVars, Governor, cliUp>>
    /\ Runs(s)

\* query() raises: the CLI did not get the query, the turn stays running.
QueryRaises(s) ==
    /\ pc[s] = "querying"
    /\ cliq' = Without(cliq, s)
    /\ lockq' = Tail(lockq) /\ Goto(s, "raised")
    /\ UNCHANGED <<state, cons, meta, TurnVars, RequestVars, Governor, cliUp>>
    /\ Runs(s)

----------------------------------------------------------------------------
(* interrupt *)

\* In AWAITING_PERMISSION every pending request is denied, then the CLI is
\* told to stop.  In a state without a turn the call returns.
Interrupt(i) ==
    /\ pc[i] = "ready"
    /\ \/ /\ state \notin Running
          /\ Goto(i, "done") /\ UNCHANGED isSet
       \/ /\ state = "running"
          /\ Goto(i, "interrupting") /\ UNCHANGED isSet
       \/ /\ state = "awaiting_permission" /\ pending \cap isSet = {}
          /\ Resolved(pending) /\ Goto(i, "interrupting")
    /\ UNCHANGED <<state, lockq, cons, meta, TurnVars, pending, turnOf, Governor, Cli>>
    /\ Runs(i)

\* resolve() refuses a request that is already resolved or expired, and the
\* call ends there, some requests denied and the CLI not told.
InterruptRefused(i) ==
    /\ pc[i] = "ready" /\ state = "awaiting_permission"
    /\ \E S \in SUBSET Unresolved : S # pending /\ Resolved(S)
    /\ Goto(i, "raised")
    /\ UNCHANGED <<state, lockq, cons, meta, TurnVars, pending, turnOf, Governor, Cli>>
    /\ Runs(i)

InterruptReturns(i) ==
    /\ pc[i] = "interrupting" /\ Goto(i, "polling")
    /\ UNCHANGED <<state, lockq, cons, meta, TurnVars, RequestVars, Governor, Cli>>
    /\ Runs(i)

InterruptRaises(i) ==
    /\ pc[i] = "interrupting" /\ Goto(i, "raised")
    /\ UNCHANGED <<state, lockq, cons, meta, TurnVars, RequestVars, Governor, Cli>>
    /\ Runs(i)

\* With the lock, at the end of interrupt(): IDLE, unless the session ended.
IdleSection(i, rest) ==
    /\ lockq' = rest
    /\ IF state \in Terminal THEN UNCHANGED state ELSE state' = "idle"
    /\ Goto(i, IF state \notin Terminal /\ AssertFails("idle") THEN "raised" ELSE "done")

\* Mutant of PollSettled: the turn is retired without waiting for its end.
PollAtOnce(i) ==
    /\ pc[i] = "polling"
    /\ turn' = NoTurn
    /\ tstate' = IF turn = NoTurn THEN tstate
                 ELSE [tstate EXCEPT ![turn] = "interrupted"]
    /\ \/ /\ Free /\ UNCHANGED lockq
          /\ state' = IF state \in Terminal THEN state ELSE "idle"
          /\ Goto(i, "done")
       \/ ~Free /\ Queue(i, "wants idle") /\ UNCHANGED state
    /\ UNCHANGED <<recorded, bills, cons, meta, RequestVars, Governor, Cli>>
    /\ Runs(i)

\* A look at the state every 50 ms: once the session has left its turn, what
\* is left of the turn is retired and, with the lock, the session is IDLE.
PollSettled(i) ==
    /\ pc[i] = "polling" /\ state \notin Running
    /\ turn' = NoTurn
    /\ tstate' = IF turn = NoTurn THEN tstate
                 ELSE [tstate EXCEPT ![turn] = "interrupted"]
    /\ \/ /\ Free /\ UNCHANGED lockq
          /\ state' = IF state \in Terminal THEN state ELSE "idle"
          /\ Goto(i, "done")
       \/ ~Free /\ Queue(i, "wants idle") /\ UNCHANGED state
    /\ UNCHANGED <<recorded, bills, cons, meta, RequestVars, Governor, Cli>>
    /\ Runs(i)

IdleLocked(i) ==
    /\ Granted(i, "wants idle") /\ IdleSection(i, Tail(lockq))
    /\ UNCHANGED <<cons, meta, TurnVars, RequestVars, Governor, Cli>>
    /\ Runs(i)

\* Mutant of PollTimesOut: the poll has no deadline.
PollForever(i) == pc[i] = "polling" /\ FALSE /\ UNCHANGED vars

\* Ten seconds later the session is still in a turn: ERROR, and the call raises.
PollTimesOut(i) ==
    /\ pc[i] = "polling" /\ state \in Running /\ (PromptQuery => Free)
    /\ \/ Free /\ state' = "error" /\ Goto(i, "timed out") /\ UNCHANGED lockq
       \/ ~Free /\ Queue(i, "wants timeout") /\ UNCHANGED state
    /\ UNCHANGED <<cons, meta, TurnVars, RequestVars, Governor, Cli>>
    /\ Runs(i)

TimeoutLocked(i) ==
    /\ Granted(i, "wants timeout")
    /\ state' = "error" /\ lockq' = Tail(lockq) /\ Goto(i, "timed out")
    /\ UNCHANGED <<cons, meta, TurnVars, RequestVars, Governor, Cli>>
    /\ Runs(i)

----------------------------------------------------------------------------
(* close_session *)

\* Mutant of CancelConsumer: the consumer task is left running.
LeaveConsumer(k) == Goto(k, "disconnecting") /\ UNCHANGED cons

\* Cancel the consumer, if it is not done, and wait for it.
CancelConsumer(k) ==
    IF cons = "done"
    THEN Goto(k, "disconnecting") /\ UNCHANGED cons
    ELSE Goto(k, "joining") /\ cons' = "cancelled"

\* A closed session is reported closed.  _abandon_turn() leaves a session
\* without a turn alone; otherwise it denies every pending request and
\* interrupts the CLI.
Close(k) ==
    /\ pc[k] = "ready"
    /\ \/ state = "closed" /\ Goto(k, "done") /\ UNCHANGED <<isSet, cons>>
       \/ state \in Running /\ Resolved(Unresolved) /\ Goto(k, "abandoning")
          /\ UNCHANGED cons
       \/ state \notin Running \cup {"closed"} /\ CancelConsumer(k) /\ UNCHANGED isSet
    /\ UNCHANGED <<state, lockq, meta, TurnVars, pending, turnOf, Governor, Cli>>
    /\ Runs(k)

\* Mutant of Abandon: the retired turn stays the current one.
AbandonKeepsTurn(k) ==
    /\ pc[k] = "abandoning"
    /\ IF turn = NoTurn
       THEN UNCHANGED TurnVars
       ELSE /\ tstate' = [tstate EXCEPT ![turn] = "interrupted"]
            /\ recorded' = [recorded EXCEPT ![turn] = @ + 1]
            /\ UNCHANGED <<turn, bills>>
    /\ CancelConsumer(k)
    /\ UNCHANGED <<state, lockq, meta, RequestVars, Governor, Cli>>
    /\ Runs(k)

\* The interrupt returned, raised, or five seconds passed: retire the turn.
Abandon(k) ==
    /\ pc[k] = "abandoning"
    /\ IF turn = NoTurn
       THEN UNCHANGED TurnVars
       ELSE /\ tstate' = [tstate EXCEPT ![turn] = "interrupted"]
            /\ recorded' = [recorded EXCEPT ![turn] = @ + 1]
            /\ turn' = NoTurn
            /\ UNCHANGED bills
    /\ CancelConsumer(k)
    /\ UNCHANGED <<state, lockq, meta, RequestVars, Governor, Cli>>
    /\ Runs(k)

Joined(k) ==
    /\ pc[k] = "joining" /\ cons = "done" /\ Goto(k, "disconnecting")
    /\ UNCHANGED <<state, lockq, cons, meta, TurnVars, RequestVars, Governor, Cli>>
    /\ Runs(k)

\* With the lock: CLOSED, and meta.json says so unless the transition raised.
CloseSection(k, rest) ==
    /\ lockq' = rest
    /\ state' = "closed"
    /\ IF AssertFails("closed")
       THEN Goto(k, "raised") /\ UNCHANGED meta
       ELSE Goto(k, "done") /\ meta' = "closed"

Disconnected(k) ==
    /\ pc[k] = "disconnecting"
    /\ cliUp' = FALSE
    /\ \/ Free /\ CloseSection(k, <<>>)
       \/ ~Free /\ Queue(k, "wants closed") /\ UNCHANGED <<state, meta>>
    /\ UNCHANGED <<cons, TurnVars, RequestVars, Governor, cliq>>
    /\ Runs(k)

CloseLocked(k) ==
    /\ Granted(k, "wants closed") /\ CloseSection(k, Tail(lockq))
    /\ UNCHANGED <<cons, TurnVars, RequestVars, Governor, Cli>>
    /\ Runs(k)

----------------------------------------------------------------------------
(* can_use_tool, for a request that is parked, and resolve *)

\* With the lock: AWAITING_PERMISSION.  Without a running turn the assertion
\* fails and the callback answers a denial; its request stays in _pending.
ParkSection(c, rest) ==
    /\ lockq' = rest
    /\ state' = "awaiting_permission"
    /\ Goto(c, IF AssertFails("awaiting_permission") THEN "raised" ELSE "parked")

Ask(c) ==
    /\ pc[c] = "ready" /\ CliWorks
    /\ pending' = pending \cup {c}
    /\ turnOf' = [turnOf EXCEPT ![c] = turn]
    /\ \/ Free /\ ParkSection(c, <<>>)
       \/ ~Free /\ Queue(c, "wants park") /\ UNCHANGED state
    /\ UNCHANGED <<isSet, cons, meta, TurnVars, Governor, Cli>>
    /\ Runs(c)

ParkLocked(c) ==
    /\ Granted(c, "wants park") /\ ParkSection(c, Tail(lockq))
    /\ UNCHANGED <<cons, meta, TurnVars, RequestVars, Governor, Cli>>
    /\ Runs(c)

\* A client resolves the request.
Resolve(c) ==
    /\ c \in Unresolved /\ Resolved({c})
    /\ UNCHANGED <<ran, state, lockq, cons, pc, meta, TurnVars, pending, turnOf, Governor, Cli>>

\* The request was resolved or its time is up: out of _pending and, with the
\* lock, back to RUNNING if the session is still awaiting a permission.
UnparkSection(c, rest) ==
    /\ lockq' = rest
    /\ IF state = "awaiting_permission"
       THEN /\ state' = "running"
            /\ Goto(c, IF AssertFails("running") THEN "raised" ELSE "done")
       ELSE Goto(c, "done") /\ UNCHANGED state

Unpark(c) ==
    /\ pc[c] = "parked"
    /\ pending' = pending \ {c}
    /\ \/ Free /\ UnparkSection(c, <<>>)
       \/ ~Free /\ Queue(c, "wants unpark") /\ UNCHANGED state
    /\ UNCHANGED <<isSet, turnOf, cons, meta, TurnVars, Governor, Cli>>
    /\ Runs(c)

UnparkLocked(c) ==
    /\ Granted(c, "wants unpark") /\ UnparkSection(c, Tail(lockq))
    /\ UNCHANGED <<cons, meta, TurnVars, RequestVars, Governor, Cli>>
    /\ Runs(c)

----------------------------------------------------------------------------
\* The cooldown of the governor, shared by all sessions, expires.
CooldownExpires ==
    /\ cooling /\ cooling' = FALSE
    /\ UNCHANGED <<ran, state, lockq, cons, pc, meta, TurnVars, RequestVars, authFailed, Cli>>

ConsumerNext ==
    \/ InitMessage \/ InitLocked
    \/ McpErrorMessage \/ McpErrorLocked
    \/ \E limited \in BOOLEAN : RetryMessage(limited)
    \/ CooldownLocked
    \/ AuthMessage \/ AuthLocked
    \/ ResultMessage \/ ResultLocked
    \/ StreamEnds \/ EndLocked
    \/ StreamRaises \/ ErrorLocked
    \/ ConsumerCancelled

SendNext(s) == Send(s) \/ SendLocked(s) \/ QueryReturns(s) \/ QueryRaises(s)

InterruptNext(i) ==
    \/ Interrupt(i) \/ InterruptRefused(i)
    \/ InterruptReturns(i) \/ InterruptRaises(i)
    \/ PollSettled(i) \/ IdleLocked(i)
    \/ PollTimesOut(i) \/ TimeoutLocked(i)

CloseNext(k) == Close(k) \/ Abandon(k) \/ Joined(k) \/ Disconnected(k) \/ CloseLocked(k)

CallbackNext(c) ==
    Ask(c) \/ ParkLocked(c) \/ Resolve(c) \/ Unpark(c) \/ UnparkLocked(c)

Next ==
    \/ ConsumerNext
    \/ GraceEnds
    \/ \E s \in Senders : SendNext(s)
    \/ \E i \in Interrupters : InterruptNext(i)
    \/ \E k \in Closers : CloseNext(k)
    \/ \E c \in Callbacks : CallbackNext(c)
    \/ CooldownExpires

Spec == Init /\ [][Next]_vars

\* Fairness: the event loop runs every task that is ready; the awaits on the
\* client end (query, and interrupt and disconnect, which close bounds or
\* which fail with the CLI); deadlines pass.  Nothing is assumed of the CLI's
\* messages, of clients or of new calls.
ConsumerSteps ==
    \/ InitLocked \/ McpErrorLocked \/ CooldownLocked \/ AuthLocked
    \/ ResultLocked \/ EndLocked \/ ErrorLocked \/ ConsumerCancelled
CallSteps(p) ==
    \/ p \in Senders /\ (SendLocked(p) \/ QueryReturns(p) \/ QueryRaises(p))
    \/ p \in Interrupters /\
          \/ InterruptReturns(p) \/ InterruptRaises(p)
          \/ PollSettled(p) \/ IdleLocked(p) \/ PollTimesOut(p) \/ TimeoutLocked(p)
    \/ p \in Closers /\
          (Abandon(p) \/ Joined(p) \/ Disconnected(p) \/ CloseLocked(p))
    \/ p \in Callbacks /\ (ParkLocked(p) \/ Unpark(p) \/ UnparkLocked(p))

Fairness == WF_vars(ConsumerSteps) /\ \A p \in Tasks : WF_vars(CallSteps(p))
FairSpec == Spec /\ Fairness

----------------------------------------------------------------------------
(* Properties. *)

\* A close has got past the turn, to the consumer.
Ending == \E k \in Closers : pc[k] \notin {"ready", "abandoning"}

\* An interrupt waited its ten seconds in vain and moved the session to ERROR.
Expired == \E i \in Interrupters : pc[i] = "timed out"

\* No two turns are running, and an idle session has none: send() refuses a
\* busy session under the lock, and whoever moves the session to IDLE without
\* a result has retired the turn first.  Until a close cancels the consumer:
\* of a session that fails it may leave COOLDOWN, and an interrupt that waits
\* for the lock moves that to IDLE, over a turn.  Needs a prompt query().
OneTurnAtATime ==
    ~Ending =>
        /\ \A s \in Senders : tstate[s] = "running" => turn = s
        /\ state = "idle" => turn = NoTurn

\* A turn is charged for the result of its own query, hence at most once: the
\* result handler bills current_turn whatever query the result answers, so no
\* turn may start while an older query is unanswered.  One may once an
\* interrupt has timed out: the session is in ERROR with its query unanswered,
\* and a rate limit revives it.  Needs a prompt query().
BilledForOwnQuery == ~Expired => \A b \in bills : b[1] = b[2]

\* turn_history holds a turn at most once, although the result handler and any
\* number of closes append current_turn to it, each on its own side of an
\* await.  Needs a prompt query().
RecordedOnce == \A s \in Senders : recorded[s] <= 1

\* A closed session never serves again, whatever is in flight when it closes:
\* calls queued for the lock, callbacks, messages, the poll of an interrupt.
ClosedNeverServes ==
    [][state = "closed" => state' \in Terminal /\ turn' \in {turn, NoTurn}]_vars

\* A session that is closed, in memory or by its meta.json, has no consumer
\* task, and a close has waited for it before it disconnects the client: the
\* SDK's stream is never read by two, and nobody writes after the close.
ConsumerGone ==
    /\ state = "closed" \/ meta = "closed" => cons = "done"
    /\ \A k \in Closers : pc[k] \in {"disconnecting", "wants closed"} => cons = "done"

\* A task is in the queue of the lock, once, exactly while it waits for the
\* lock or keeps it across query(): every way out of a critical section, by
\* return, exception or cancellation, gives the lock back.
Waiting(p) ==
    pc[p] \in {"wants send", "querying", "wants timeout", "wants idle",
               "wants closed", "wants park", "wants unpark"}
LockOK ==
    /\ \A i, j \in 1..Len(lockq) : lockq[i] = lockq[j] => i = j
    /\ \A p \in Tasks : Waiting(p) <=> \E i \in 1..Len(lockq) : lockq[i] = p
    /\ \A p \in Tasks : pc[p] = "querying" => lockq[1] = p
    /\ cons = "cancelled" \/
          (cons \notin {"receiving", "done"} <=>
              \E i \in 1..Len(lockq) : lockq[i] = Consumer)

IndInv == TypeOK /\ LockOK /\ ConsumerGone

\* What write_meta() of a close leaves on disk is final: no late message
\* handler overwrites the "closed" a later close_session() looks for.
ClosedOnDisk == [][meta = "closed" => meta' = "closed"]_vars

\* Every call that began returns or raises: nobody waits for ever for the
\* lock, for the consumer, for a decision or for the end of a turn.
EveryCallReturns ==
    \A p \in Tasks : pc[p] # "ready" ~> pc[p] \in {"done", "raised", "timed out"}

\* What _abandon_turn() is for: a close never trips over a running turn.  (It
\* does when the turn was running in a session that had left RUNNING.)
CloseSucceeds == \A k \in Closers : pc[k] # "raised"
=============================================================================
