------------------------------- MODULE Registry -------------------------------
(***************************************************************************)
(* The sessions of a broker over their lifetimes: create_session() and     *)
(* close_session() of core.py, SessionRegistry of registry.py, the Reaper, *)
(* and meta.json with recover_on_startup() of session_store.py, across     *)
(* crashes and restarts of the broker.                                     *)
(*                                                                         *)
(* What a session does between creation and closing is BrokerSession; here *)
(* it is abstracted to what the registry and the reaper can tell apart.    *)
(* session.lock is held across an await by the reaper only: any other task *)
(* takes it, works and gives it back in one step, at any time it is free.  *)
(***************************************************************************)
EXTENDS Naturals, FiniteSets

CONSTANTS
    Sessions,      \* identifiers; each is created once
    Closers,       \* calls of close_session(): each is made once of a session
    MaxSessions,   \* BROKER_MAX_SESSIONS
    MaxCrashes     \* bound: how often the broker is killed

ASSUME RegistryAssumption ==
    /\ IsFiniteSet(Sessions)
    /\ MaxSessions \in Nat /\ MaxCrashes \in Nat

VARIABLES
    up,          \* the broker is running
    crashes,     \* how often it was killed
    state,       \* [Sessions -> Session.state], "none" without such an object
    listed,      \* the keys of SessionRegistry._sessions
    inTurn,      \* sessions whose current turn is running
    consuming,   \* sessions whose consumer task is alive
    connected,   \* sessions with a CLI subprocess
    stale,       \* sessions last active longer ago than the TTL of their state
    revived,     \* sessions that have been in ERROR and left it
    cpc,         \* [Sessions -> stage of its create_session()]
    kpc,         \* [Sessions -> [Closers -> stage of that close_session()]]
    todo,        \* the sessions the reaper has yet to visit in this sweep
    visiting,    \* the session whose lock the reaper holds
    meta         \* what each meta.json says: live, or a terminal state

vars == <<up, crashes, state, listed, inTurn, consuming, connected, stale,
          revived, cpc, kpc, todo, visiting, meta>>

Live == {"creating", "idle", "running", "cooldown"}
Terminal == {"error", "closed"}
Nobody == "nobody"

\* States, stages and sets of sessions.
TypeOK ==
    /\ up \in BOOLEAN /\ crashes \in 0..MaxCrashes
    /\ state \in [Sessions -> Live \cup Terminal \cup {"none"}]
    /\ listed \subseteq Sessions /\ inTurn \subseteq Sessions
    /\ consuming \subseteq Sessions /\ connected \subseteq Sessions
    /\ stale \subseteq Sessions /\ revived \subseteq Sessions
    /\ todo \subseteq Sessions
    /\ cpc \in [Sessions -> {"ready", "connecting", "waiting", "over"}]
    /\ kpc \in [Sessions ->
                  [Closers -> {"ready", "disconnecting", "wants lock", "over"}]]
    /\ visiting \in Sessions \cup {Nobody}
    /\ meta \in [Sessions -> Terminal \cup {"live", "none", "torn"}]

Init ==
    /\ up = TRUE /\ crashes = 0
    /\ state = [s \in Sessions |-> "none"]
    /\ listed = {} /\ inTurn = {} /\ consuming = {} /\ connected = {}
    /\ stale = {} /\ revived = {}
    /\ cpc = [s \in Sessions |-> "ready"]
    /\ kpc = [s \in Sessions |-> [k \in Closers |-> "ready"]]
    /\ todo = {} /\ visiting = Nobody
    /\ meta = [s \in Sessions |-> "none"]

Broker == <<up, crashes>>
Reaper == <<todo, visiting>>
Calls == <<cpc, kpc>>

\* session.lock can be taken.
Unlocked(s) == visiting # s
\* The registry's lock: create_session() keeps it while the client connects.
RegistryLocked == \E s \in Sessions : cpc[s] = "connecting"
CountLive == Cardinality({s \in listed : state[s] \notin Terminal})

\* transition(): the state, and last_active_at.
Moves(s, new) ==
    /\ state' = [state EXCEPT ![s] = new]
    /\ stale' = stale \ {s}
WritesMeta(s) ==
    meta' = [meta EXCEPT ![s] = IF state'[s] \in Live THEN "live" ELSE state'[s]]

----------------------------------------------------------------------------
(* create_session *)

\* Mutant of Create: the registry's lock is only held for the check.
CreateUnlocked(s) ==
    /\ up /\ cpc[s] = "ready"
    /\ cpc' = [cpc EXCEPT ![s] = IF CountLive < MaxSessions THEN "connecting"
                                 ELSE "over"]
    /\ UNCHANGED <<Broker, state, listed, inTurn, consuming, connected, stale,
                   revived, kpc, Reaper, meta>>

\* With the registry's lock, the live sessions are counted.
Create(s) ==
    /\ up /\ cpc[s] = "ready" /\ ~RegistryLocked
    /\ cpc' = [cpc EXCEPT ![s] = IF CountLive < MaxSessions THEN "connecting"
                                 ELSE "over"]
    /\ UNCHANGED <<Broker, state, listed, inTurn, consuming, connected, stale,
                   revived, kpc, Reaper, meta>>

\* The client is connected: the session is registered, its consumer started
\* and meta.json written.
Connected(s) ==
    /\ up /\ cpc[s] = "connecting"
    /\ cpc' = [cpc EXCEPT ![s] = "waiting"]
    /\ Moves(s, "creating") /\ WritesMeta(s)
    /\ listed' = listed \cup {s}
    /\ connected' = connected \cup {s} /\ consuming' = consuming \cup {s}
    /\ UNCHANGED <<Broker, inTurn, revived, kpc, Reaper>>

\* connect() raises, and so does the call: nothing is registered.
ConnectFails(s) ==
    /\ up /\ cpc[s] = "connecting"
    /\ cpc' = [cpc EXCEPT ![s] = "over"]
    /\ UNCHANGED <<Broker, state, listed, inTurn, consuming, connected, stale,
                   revived, kpc, Reaper, meta>>

\* The grace period is over without an init message.
GraceEnds(s) ==
    /\ cpc[s] = "waiting" /\ state[s] = "creating" /\ Unlocked(s)
    /\ Moves(s, "idle")
    /\ cpc' = [cpc EXCEPT ![s] = "over"]
    /\ UNCHANGED <<Broker, listed, inTurn, consuming, connected, revived, kpc,
                   Reaper, meta>>

\* create_session() sees that the session has left CREATING.
Created(s) ==
    /\ cpc[s] = "waiting" /\ state[s] # "creating"
    /\ cpc' = [cpc EXCEPT ![s] = "over"]
    /\ UNCHANGED <<Broker, state, listed, inTurn, consuming, connected, stale,
                   revived, kpc, Reaper, meta>>

----------------------------------------------------------------------------
(* What happens to a session in between. *)

\* The init message, written to meta.json whatever the state.
InitMessage(s) ==
    /\ s \in consuming /\ Unlocked(s)
    /\ IF state[s] = "creating" THEN Moves(s, "idle") ELSE UNCHANGED <<state, stale>>
    /\ WritesMeta(s)
    /\ UNCHANGED <<Broker, listed, inTurn, consuming, connected, revived, Calls,
                   Reaper>>

\* Mutant of Send: the session is checked without its lock.
SendUnlocked(s) ==
    /\ s \in listed /\ state[s] \in {"creating", "idle"}
    /\ Moves(s, "running") /\ inTurn' = inTurn \cup {s}
    /\ UNCHANGED <<Broker, listed, consuming, connected, revived, Calls, Reaper, meta>>

\* send() starts a turn.
Send(s) ==
    /\ s \in listed /\ state[s] \in {"creating", "idle"} /\ Unlocked(s)
    /\ Moves(s, "running") /\ inTurn' = inTurn \cup {s}
    /\ UNCHANGED <<Broker, listed, consuming, connected, revived, Calls, Reaper, meta>>

\* A result: the one of the turn, or a late one of a turn that was interrupted,
\* which only ends a cooldown.
Result(s) ==
    /\ s \in consuming /\ Unlocked(s)
    /\ s \in inTurn \/ state[s] = "cooldown"
    /\ IF state[s] \in {"running", "cooldown"} THEN Moves(s, "idle")
       ELSE UNCHANGED <<state, stale>>
    /\ WritesMeta(s)
    /\ inTurn' = inTurn \ {s}
    /\ UNCHANGED <<Broker, listed, consuming, connected, revived, Calls, Reaper>>

\* The message stream ends, and the consumer and the turn with it.
StreamEnds(s) ==
    /\ s \in consuming /\ Unlocked(s)
    /\ consuming' = consuming \ {s}
    /\ IF state[s] = "running"
       THEN Moves(s, "idle") /\ inTurn' = inTurn \ {s}
       ELSE UNCHANGED <<state, stale, inTurn>>
    /\ UNCHANGED <<Broker, listed, connected, revived, Calls, Reaper, meta>>

\* A rate limit: COOLDOWN between two turns; in a turn an assertion fails and
\* takes the consumer with it (Fails).
RateLimited(s) ==
    /\ s \in consuming \ inTurn /\ state[s] \in Live \ {"cooldown"} /\ Unlocked(s)
    /\ Moves(s, "cooldown")
    /\ UNCHANGED <<Broker, listed, inTurn, consuming, connected, revived, Calls,
                   Reaper, meta>>

\* The consumer ends with an exception, or an interrupt has timed out and the
\* consumer lives on.  meta.json is not told.
Fails(s) ==
    /\ Unlocked(s) /\ state[s] \in Live
    /\ Moves(s, "error")
    /\ \/ s \in consuming /\ consuming' = consuming \ {s}
       \/ state[s] = "running" /\ UNCHANGED consuming
    /\ UNCHANGED <<Broker, listed, inTurn, connected, revived, Calls, Reaper, meta>>

\* A failed session comes back: its CLI is alive and asks for a permission,
\* AWAITING before any assertion, or its consumer is and hears of a rate limit.
Revives(s) ==
    /\ state[s] = "error" /\ Unlocked(s)
    /\ \/ s \in connected /\ Moves(s, "running")
       \/ s \in consuming \ inTurn /\ Moves(s, "cooldown")
    /\ revived' = revived \cup {s}
    /\ UNCHANGED <<Broker, listed, inTurn, consuming, connected, Calls, Reaper, meta>>

----------------------------------------------------------------------------
(* close_session, called by clients *)

\* The look at the state; then the turn of a running session is abandoned and
\* the consumer cancelled, here in one step.  Another call of the same session
\* passes as long as none has reached CLOSED.
Close(s, k) ==
    /\ up /\ kpc[s][k] = "ready" /\ s \in listed
    /\ IF state[s] = "closed"
       THEN kpc' = [kpc EXCEPT ![s][k] = "over"] /\ UNCHANGED <<inTurn, consuming>>
       ELSE /\ kpc' = [kpc EXCEPT ![s][k] = "disconnecting"]
            /\ inTurn' = IF state[s] = "running" THEN inTurn \ {s} ELSE inTurn
            /\ consuming' = consuming \ {s}
    /\ UNCHANGED <<Broker, state, listed, connected, stale, revived, cpc, Reaper, meta>>

Disconnected(s, k) ==
    /\ kpc[s][k] = "disconnecting"
    /\ kpc' = [kpc EXCEPT ![s][k] = "wants lock"]
    /\ connected' = connected \ {s}
    /\ UNCHANGED <<Broker, state, listed, inTurn, consuming, stale, revived, cpc,
                   Reaper, meta>>

\* With the session's lock: CLOSED and meta.json, for the second time if another
\* call was here before; or, if a turn is running, an exception between the two.
CloseLocked(s, k) ==
    /\ kpc[s][k] = "wants lock" /\ Unlocked(s)
    /\ kpc' = [kpc EXCEPT ![s][k] = "over"]
    /\ Moves(s, "closed") /\ revived' = revived \ {s}
    /\ IF s \in inTurn THEN UNCHANGED meta ELSE WritesMeta(s)
    /\ UNCHANGED <<Broker, listed, inTurn, consuming, connected, cpc, Reaper>>

----------------------------------------------------------------------------
(* The reaper *)

\* A time to live runs out: the idle one or, since it ended, the retention.
Ages(s) ==
    /\ s \in listed \ stale /\ state[s] \in Terminal \cup {"idle"}
    /\ stale' = stale \cup {s}
    /\ UNCHANGED <<Broker, state, listed, inTurn, consuming, connected, revived,
                   Calls, Reaper, meta>>

Sweeping == todo # {} \/ visiting # Nobody

Wakes ==
    /\ up /\ ~Sweeping /\ listed # {}
    /\ todo' = listed
    /\ UNCHANGED <<Broker, state, listed, inTurn, consuming, connected, stale,
                   revived, Calls, visiting, meta>>

\* The next session, with its lock: nothing to do, or one to drop, whose
\* client is left alone.
Visits(s) ==
    /\ visiting = Nobody /\ s \in todo /\ ~(state[s] = "idle" /\ s \in stale)
    /\ todo' = todo \ {s}
    /\ listed' = IF state[s] \in Terminal /\ s \in stale THEN listed \ {s} ELSE listed
    /\ UNCHANGED <<Broker, state, inTurn, consuming, connected, stale, revived,
                   Calls, visiting, meta>>

\* One to close: close_session() with the lock held, up to the first await.
Reaps(s) ==
    /\ visiting = Nobody /\ s \in todo /\ state[s] = "idle" /\ s \in stale
    /\ todo' = todo \ {s} /\ visiting' = s
    /\ consuming' = consuming \ {s}
    /\ UNCHANGED <<Broker, state, listed, inTurn, connected, stale, revived, Calls,
                   meta>>

\* The client is disconnected.  close_session() then waits for session.lock,
\* which its caller holds: the reaper takes no step any more.
ReapDisconnects(s) ==
    /\ visiting = s /\ s \in connected
    /\ connected' = connected \ {s}
    /\ UNCHANGED <<Broker, state, listed, inTurn, consuming, stale, revived, Calls,
                   Reaper, meta>>

----------------------------------------------------------------------------
(* Crash and restart *)

\* The calls that were running end with the process.
Lost(stage) == IF stage = "ready" THEN "ready" ELSE "over"

Dies ==
    /\ up /\ crashes < MaxCrashes
    /\ up' = FALSE /\ crashes' = crashes + 1
    /\ state' = [s \in Sessions |-> "none"]
    /\ listed' = {} /\ inTurn' = {} /\ consuming' = {} /\ connected' = {}
    /\ stale' = {} /\ revived' = {}
    /\ cpc' = [s \in Sessions |-> Lost(cpc[s])]
    /\ kpc' = [s \in Sessions |-> [k \in Closers |-> Lost(kpc[s][k])]]
    /\ todo' = {} /\ visiting' = Nobody

\* A close that may be writing the meta.json of s, whatever that says.
Closing(s) ==
    s \notin inTurn /\ Unlocked(s) /\ \E k \in Closers : kpc[s][k] = "wants lock"

\* The broker is killed, perhaps while it writes the meta.json of a session a
\* create, a message handler or a close is working on: write_text() truncates.
Crash ==
    /\ Dies
    /\ \/ UNCHANGED meta
       \/ \E s \in Sessions :
             /\ s \in consuming \/ cpc[s] = "connecting" \/ Closing(s)
             /\ meta' = [meta EXCEPT ![s] = "torn"]

\* Mutant of Recovered: every file is rewritten.
RecoveredAll(S) ==
    [s \in Sessions |-> IF s \in S /\ meta[s] # "none" THEN "error" ELSE meta[s]]

\* Mutant of Recovered: recover_on_startup() is not called.
RecoveredNone(S) == meta

\* The files once recover_on_startup() has been through the directories in S:
\* a session that was alive is now in error.
Recovered(S) == [s \in Sessions |-> IF s \in S /\ meta[s] = "live" THEN "error"
                                    ELSE meta[s]]

\* The broker starts.
Restart ==
    /\ ~up /\ \A s \in Sessions : meta[s] # "torn"
    /\ up' = TRUE
    /\ meta' = Recovered(Sessions)
    /\ UNCHANGED <<crashes, state, listed, inTurn, consuming, connected, stale,
                   revived, Calls, Reaper>>

\* A torn meta.json stops it, after any of the others were rewritten.
RestartFails ==
    /\ ~up /\ \E s \in Sessions : meta[s] = "torn"
    /\ \E S \in SUBSET Sessions : meta' = Recovered(S)
    /\ UNCHANGED <<Broker, state, listed, inTurn, consuming, connected, stale,
                   revived, Calls, Reaper>>

\* The broker is killed while recover_on_startup() rewrites one of them.
RestartDies ==
    /\ ~up
    /\ \E S \in SUBSET Sessions : \E s \in Sessions \ S :
          meta[s] = "live" /\ meta' = [Recovered(S) EXCEPT ![s] = "torn"]
    /\ UNCHANGED <<Broker, state, listed, inTurn, consuming, connected, stale,
                   revived, Calls, Reaper>>

CreateNext(s) ==
    Create(s) \/ Connected(s) \/ ConnectFails(s) \/ GraceEnds(s) \/ Created(s)
TurnNext(s) ==
    \/ InitMessage(s) \/ Send(s) \/ Result(s) \/ StreamEnds(s)
    \/ RateLimited(s) \/ Fails(s) \/ Revives(s)
CloseNext(s) ==
    \E k \in Closers : Close(s, k) \/ Disconnected(s, k) \/ CloseLocked(s, k)
ReaperNext ==
    \/ Wakes
    \/ \E s \in Sessions : Visits(s) \/ Reaps(s) \/ ReapDisconnects(s)

Next ==
    \/ \E s \in Sessions : CreateNext(s) \/ TurnNext(s) \/ CloseNext(s) \/ Ages(s)
    \/ ReaperNext
    \/ Crash \/ Restart \/ RestartFails \/ RestartDies

Spec == Init /\ [][Next]_vars

\* Fairness: connect() and disconnect() return or raise, tasks that can run
\* do, and the reaper's timer fires.  Nothing is assumed of clients, of the
\* CLI's messages or of a restart.
Fairness ==
    /\ \A s \in Sessions :
          /\ WF_vars(Connected(s) \/ ConnectFails(s) \/ GraceEnds(s) \/ Created(s))
          /\ \A k \in Closers : WF_vars(Disconnected(s, k) \/ CloseLocked(s, k))
    /\ WF_vars(ReaperNext)
FairSpec == Spec /\ Fairness

----------------------------------------------------------------------------
(* Properties. *)

\* Sessions that are live or about to be never exceed BROKER_MAX_SESSIONS,
\* although the count is taken before the await of connect() and the session
\* registered after it: the registry's lock spans both.  Not counted: sessions
\* that had failed, given up their place, and came back.
Occupied ==
    {s \in listed \ revived : state[s] \in Live}
        \cup {s \in Sessions : cpc[s] = "connecting"}
WithinLimit == Cardinality(Occupied) <= MaxSessions

\* Why: the registry's lock has one holder, and what is being created has left
\* no trace yet.
RegistryOK ==
    /\ \A s, t \in Sessions :
          cpc[s] = "connecting" /\ cpc[t] = "connecting" => s = t
    /\ \A s \in Sessions : cpc[s] \in {"ready", "connecting"} =>
          /\ s \notin listed /\ state[s] = "none"
          /\ \A k \in Closers : kpc[s][k] = "ready"

\* The reaper never takes a session from under a turn: what it saw under the
\* lock, that the session is idle, is still so at every await of its close, and
\* an idle session is one without a turn.
ReaperSparesTurns ==
    /\ visiting # Nobody => state[visiting] = "idle"
    /\ \A s \in inTurn : state[s] \in {"running", "error", "closed"}

\* The inductive invariant.
IndInv == TypeOK /\ RegistryOK /\ WithinLimit /\ ReaperSparesTurns

\* A meta.json that calls a session live is about a session of this broker
\* process, never one that died with an earlier one.
DiskIsHonest ==
    up => \A s \in Sessions : meta[s] = "live" => state[s] # "none"

\* A session reported closed stays closed on disk, across crashes, restarts and
\* the message handlers and closes that write meta.json too.  One thing takes it
\* away: a kill in the middle of the write of another close of that session,
\* which had passed the look at its state before the first came to CLOSED.
ClosedOnDisk ==
    [][\A s \in Sessions : meta[s] = "closed" =>
          \/ meta'[s] = "closed"
          \/ ~up' /\ Closing(s) /\ meta'[s] = "torn"]_vars

\* Whatever it meets, the reaper comes to the end of its sweep.  (Not so: it
\* waits for ever for the lock it holds, once it has an idle session to close.)
SweepEnds == Sweeping ~> ~Sweeping
=============================================================================
