# A TLA+ model of the Claude broker

The broker (`src/src/broker/`) is one Python process on one asyncio event loop.
It keeps up to `BROKER_MAX_SESSIONS` sessions, each an SDK client with a CLI
subprocess behind it; MCP clients send prompts to them, poll their events,
answer their permission requests, interrupt and close them. This directory
models what can go wrong in that: coroutines that interleave at awaits, one
lock per session and one for the registry, timers, a CLI that answers when it
likes, files written without a sync, kills and restarts.

Line numbers below are those of `src/src/broker/`; documents are `src/docs/`.

## 1. The system

| Component | State | Operations | Talks to |
|---|---|---|---|
| `BrokerCore` (core.py) | none of its own | create, send, poll, interrupt, close, fork; the consumer task `_consume` of each session | everything below |
| long polls (core.py 385-430, 470-500) | waiters on `session.wakeup` | `_await_settled`, `_send_snapshot`, `poll_async` | event log, consumer, callbacks |
| `Session` (registry.py 81-171) | `state`, `current_turn`, `turn_history`, `lock`, `wakeup`, `consumer_task` | `transition()`: assigns, then asserts | event log |
| `SessionRegistry` (registry.py 184-225) | `_sessions`, a lock | `register`, `remove`, `count_live` | create, reaper |
| `PermissionBroker` (permissions.py 288-587) | `_pending`, each request's `resolved` event and deadline | `can_use_tool` callback, `resolve`, `deny_all_for_turn`, `sweep_expired` | policy, session lock, event log |
| `PolicyEngine`, `Policy` (permissions.py 32-271) | rules, `overlay_rules` | `evaluate`, the loader's shadowing check | callback, resolve |
| `EventLog` (event_log.py) | tail in memory, cursor, `events.jsonl` | `append`, `poll`, `load_from_disk` | consumer, pollers |
| `CostLedger` (budget.py 41-166) | total of the window, `ledger.jsonl` | `record_turn`, `replay`, `check_global_budget` | result handler, send |
| `RateLimitGovernor` (budget.py 169-266) | `cooldown_until`, count of rate limits, `auth_failed` | `handle_api_retry`, `on_turn_complete`, `assert_sendable` | message handler, send, create |
| `Reaper` (reaper.py) | none | `_sweep` every interval | session locks, close, registry |
| `SessionPersistence` (session_store.py 137-182) | `meta.json` per session | `write_meta`, `recover_on_startup` | create, handlers, close |
| `FilesystemSessionStore` (session_store.py 44-134) | a JSONL transcript per key | `append`, `load`, `delete` | the SDK |
| normalise.py, mcp_server.py, config.py, workspace.py, errors.py, healthcheck.py, `__main__.py` | none | mapping, validation, wiring | |

How they interact: everything runs on the event loop, so what a task does
between two awaits is atomic. The awaits that matter are `session.lock`, the
registry's lock (kept across `connect()`), the client's calls (`query()` is
awaited with the session lock held), the wait of a permission callback and the
sleeps of `interrupt()`. The SDK calls `can_use_tool` in tasks of its own. The
files are read at start-up only, except by pollers whose cursor has left memory.

What is hard about it: who holds the lock when the CLI reacts; a close that has
to get past a turn, a parked request and a consumer that itself wants the lock;
`transition()` whose failing assertion raises with the new state in place;
timers that race answers; a check made before an await and used after it; a
kill in the middle of a line or of a `write_text()`. The hazards in
`PROJECT.json` list these at their lines.

What makes each component correct:

- session: one turn at a time; a result is charged to the turn that asked for
  it; a close ends, stops the consumer and is final;
- long polls: nobody sleeps through what it waits for, although all share one
  event that each clears; a caller gets the result of its own query;
- permission broker: exactly one answer, the one a client was told is applied;
  silence, errors and the end of the turn deny; nothing is allowed without a
  reason in the policy or a client's word, and in a policy file that loads no
  denial is hidden behind a broader rule;
- event log: who follows the cursor misses and repeats nothing;
- ledger and governor: spending past the budget is bounded, and so is what file
  and total may differ by; no turn starts before the delay the API asked for,
  and cooldowns end;
- transcripts: as long as the file can be read, what was mirrored is there to
  resume from, once, but for a bounded loss per write that stops short;
- registry, reaper, persistence: the cap holds; no turn is reaped; the disk
  never claims a session that is gone, nor loses that one was closed, unless a
  kill tears the write of a second close.

## 2. Modules

| Module | Models | Remarks |
|---|---|---|
| `OneShotDecision` | what the permission broker promises: one decision per request, made once | abstract specification |
| `PermissionPark` | the callback and all who may resolve it | implements `OneShotDecision` through `Promised` |
| `PolicyPark` | the loader's shadowing check, the policy engine in front of `PermissionPark`, and `remember="session"` | extends it; its steps are `PermissionPark`'s with one more conjunct |
| `BrokerSession` | one session: consumer, send, interrupt, close, callbacks, the lock | the core |
| `LongPoll` | the waits of `session_send` and `session_poll` on the session's wakeup event | extends `BrokerSession`; its steps are that module's with one more conjunct |
| `EventLog` | log, file, pollers and the snapshot of `session_send` | |
| `Ledger` | the budget over windows, crashes and failing writes | |
| `Governor` | the cooldown and its backoff | operators without a `Next` |
| `Admission` | `Ledger` and `Governor` composed as send, result and retry use them | |
| `Registry` | creation, closing, the reaper, `meta.json`, kills and restarts, over many sessions | sessions abstracted |
| `TranscriptStore` | the SDK's transcripts: batches, repeated batches, writes that stop anywhere | |
| `MC...` | the instances TLC checks | |
| `..._proofs` | theorems checked by TLAPS | |

A step of a module is what one task does between two awaits, and is named for
the function it is in; `PROJECT.json` maps every definition to its lines. A
definition whose comment calls it a *mutant* is a plausible bug of the code,
used in no specification: it exists to see that a property notices.

### PermissionPark and PolicyPark

`pc` follows a callback through `decide()`: registered and queued for the lock,
parked in `wait_for`, woken or timed out, answering. `pending` is the keys of
`_pending`, `isSet` the events, `due` the deadlines that have passed. Two facts
of asyncio decide the races and are spelled out at the head of the module: an
event that is set before the timer is due wakes the task ahead of the timer,
and one that is set afterwards races it. `resolve()` is refused in the second
case; sweeps and the end of a turn are not.

`PolicyPark` adds what each request asks, the rules and guards, and
`overlay_rules`. A pattern is the set of calls it matches. All remembered rules
allow and all come first, so their order is immaterial and the overlay is a set,
one per *policy*, which is where the code keeps it. For remembered shell
commands, matching is modelled by what it does: `RememberedPattern` takes every
`)` off the end of the command, as `rest.rstrip(")")` (line 85) does, and then
reads a `*` at its end as "any rest" (lines 89-92). A command is a sequence of
as many characters as tell the instance's commands apart; one call remembers
`rm *`, another asks for `rm -rf /`, a third ends in `)`. A rule also has its form
(a tool, a glob, a tool with arguments), which is all that
`_would_shadow()` looks at; a file that `Loads` rejects is no initial state.
`WouldShadow` compares rules without arguments to rules with some, and nothing
else: the second file of the instance has a denial of pushes behind a permission
for all of git, and loads.

### BrokerSession

`lockq` is `session.lock`: an asyncio lock is first come first served and taking
a free one does not yield, so a section that finds it free belongs to the
caller's step, and otherwise is a step of its own (`...Locked`). The stages of
the consumer (`cons`) and of the calls (`pc`) name the await each is at.
`AssertFails` is `_assert_invariants()`; an action whose transition fails raises
with the state changed, which is how a rate limit in a turn ends in ERROR.
The CLI is the environment: it answers queries in order, calls back, retries,
ends its stream or fails.

`PromptQuery` is the one assumption that is not the code's: `query()` returns
before the CLI reacts to the prompt. It writes one line to a pipe, so this is
what happens in practice, but nothing ensures it. Without it a result may arrive
while its `send()` still holds the lock; then an interrupt that polls at that
moment retires a turn whose result is on its way. `OneTurnAtATime`,
`BilledForOwnQuery`, `RecordedOnce`, `OverSendersAwake` and `ResultIsOwn` are
checked and proved with it; everything else holds without it.

Two of these hold with an exception that the code makes, and that the instance
is too small to need: there may be two turns once a close has gone past the turn
(`Ending`), and a result may be charged to a later turn once an interrupt has
timed out (`Expired`, for which a call at the stage "timed out" stays there).
Section 3 has the two schedules; they were found where the invariants could not
be proved.

### LongPoll

The waiters of a session share `session.wakeup`. Each looks, clears the event
and waits, without an await in between, so no waiter ever finds it set, and
`set()` wakes all that wait at that moment, whether or not it is cleared
afterwards. What the event amounts to is therefore who waits: `wait` of a sender
or a poller is "out", "asleep" or "woken". Woken tasks are ready and run before
the loop turns to a timer, to a new message or to a new call (`LoopIdle`).
`WakeIf` stands where the code calls `set()`: at the end of each message and of
the stream, in the consumer's `except` only if the transition to ERROR did not
raise, in callbacks after the lock, and in the abandoning of a turn; not in
`interrupt()`, not in the rest of a close, not when a session fails. Of the log
it keeps what is past each poller's cursor (`ahead`) and the last result since
a sender's turn began (`last`); what the poll returns of it is `EventLog`'s.

### EventLog

`append()` puts an event in memory, writes it, and moves the cursor only then;
`AppendFails` is a write that raises between, `Crash` a kill in the middle of a
line. `From` is memory or the file, of which `Selected` takes what is past the
cursor and passes the filter (`Only`). Payloads are left out, an event is its
number, index and type.

### Ledger, Governor, Admission

The file is the sum a replay reads from it per window, and its last line, which
may lack a newline (`openLine`). `StopShort` is a write that raises or is killed
before its first byte, within the record, or ahead of the newline: then a replay
reads the record (`last`) although `record_turn()` counted nothing. The record
behind an open line makes no JSON with it, and both are lost. `Result` writes
then counts, and the kill between is `CrashAfterWrite`. Amounts are integers.
`Sessions` are those that may have a turn in flight, which may be more than
`BROKER_MAX_SESSIONS`: a session in ERROR whose consumer lives has given up its
place and may still bill a turn. The governor keeps the time left until
`cooldown_until`; `is_in_cooldown()` forgets a cooldown only when asked, and
jitter is any value below the backoff. In `Admission`, `on_turn_complete()` is
skipped when recording raises (it comes after it, core.py 144 and 150). A retry
may come in a turn or between two, and sets or prolongs the cooldown in both
cases; when the governor cools after it, its own doing or another's, a session
in a turn is lost with that turn (the transition to COOLDOWN fails its
assertion), and one between two turns goes on.
`embargo` is a history variable, the time until the latest retry's delay ends.
The window is computed once, when the ledger is made (budget.py 57), so the
total is that of all windows since: `since` is the window the broker was started
in, and `DriftBounded` compares the total with a replay from there. `torn` counts
the writes that stopped short in this run of the broker, and one more if it was
started on an open line.

### Registry

Sessions are abstracted to what the registry, the reaper and `meta.json` tell
apart: "running" stands for awaiting a permission too, the abandoning of a turn
by a close is one step (its interleavings are in `BrokerSession`), and only the
reaper keeps `session.lock` across an await. Each identifier is created once,
and closed by each of the `Closers` once, in any interleaving: both may pass the
look at the state (core.py 620), and the second writes a `meta.json` that says
closed already. So the runs end, which is why the deadlock check is off there.
`recover_on_startup()` may be killed as well, in its own `write_text()`
(`RestartDies`). A session that failed and came back (`revived`) is outside the
cap, as `count_live()` leaves it out.

### TranscriptStore

`append()` has no await, but a full disk makes it raise and a kill makes it stop,
after any part of what it writes. `WriteTears` is that: before the next entry,
ahead of its newline (the entry is there, and its line open), or in the middle,
possibly of a character, for entries are written with `ensure_ascii=False`. The
next `append()` writes on from there, so its first entry shares the line, and
the two make no JSON. A batch that was not acknowledged is repeated by the SDK,
in whole, and `append()` skips what it finds in the file by uuid. Entries stand
for their uuids; those in `Unkeyed` have none and are written each time.
`Kept` are the entries whose lines are whole; `Loaded` is what `load()` returns
of them, which is nothing once a line does not decode, for the iteration over
the lines then raises outside the `try`.

## 3. What TLC checks

| Run | Instance | Shows |
|---|---|---|
| `park` | two requests in or out of a turn, 20 pairs of calls, a policy file and three with a misplaced denial, of which one loads | `ResolveHonoured`: applied means answered so. `FailClosed`, `AnsweredNotPending`, `EveryRequestAnswered`, and the refinement `ImplementsOneShot`. `AllowedForAReason`: remembering reaches no other policy, tool or command, but for what a command that ends in `*` begins. `RememberedNotAsked`. `DenialsReached`: what `_would_shadow()` is good for. `IndInv`: the inductive invariant behind them |
| `session_prompt` | `LongPoll` with two sends, interrupts and closes each, one callback | `OneTurnAtATime`, `BilledForOwnQuery`, `RecordedOnce`; `OverSendersAwake`: no send sleeps once its turn is over; `ResultIsOwn`: none returns another query's result |
| `session_live` | `LongPoll` with one call of each kind, and a slow `query()` | `EveryCallReturns` and `CompletedSendersReturn`, under fairness; the lock is always given back, and a close stops the consumer before it disconnects (`IndInv`, `ConsumerGone`) |
| `long_poll` | a send, a poller, two callbacks, an interrupt and a close, and a slow `query()` | `NewsWakesPollers`, `AskedSendersAwake`: who waits is woken. `ClosedNeverServes`. `LongInv`: the inductive invariant |
| `event_log` | two pollers, one filtering, memory of two, four events, one failing write, a kill | `PollersMissNothing`, `TranscriptComplete`, `EveryEventDelivered` |
| `admission` | two sessions, costs up to 2 of a budget of 3, two windows, two writes that stop short, backoff that doubles once | `OvershootBounded`, `DriftBounded`, `NoTurnBeforeRetryAfter`, `CooldownEnds`, and the inductive invariants `IndInv` and `AdmissionInv` |
| `registry` | two sessions for one place, two calls of close for each, one kill | `WithinLimit`, `ReaperSparesTurns`, `DiskIsHonest`, `ClosedOnDisk`, `IndInv` |
| `transcript` | a session and its subagent, batches that overlap or repeat an entry, two torn writes, files of up to five lines when an append begins | `NothingTwice`, `LossBounded` (two entries per torn write, of a file that can be read), `IndInv` |
| `session_uncloseable`, `event_log_sender`, `registry_sweep`, `transcript_resume` | the instances of their modules, with what the counterexample needs | the disagreements below |

Why the bounds are enough. Permission requests meet only in operations that
treat all of a set alike and in the overlay, where one writes and one reads: two
show every pair of roles. In a session, two closes show one racing another, two
sends a turn and its successor, two interrupts one that outlives the turn it was
meant for. That is not enough by itself: without the exceptions of section 2,
three sends, two interrupts and a close break `OneTurnAtATime`, three interrupts
break `BilledForOwnQuery`, and two of each break neither. What is checked there
is therefore proved for any number of calls; before that, the parts of
`SessionInv` were checked with three sends, two interrupts and a close, with two
sends and three interrupts, and with two of everything. A memory of two with
four events has cursors in memory, before it and at its edge, and limits of one
and two cut each answer or not. Costs of up to two thirds of the budget
overshoot it by one turn and by both; two writes that stop short leave an open
line that is read, one that is not, and one that is written on. Two sessions for
one place is the cap with a competitor, and two closes are the one that wrote
`meta.json` and the one that writes it again. Of those who wait for the wakeup
event two compete for it, and it takes two requests for the state to hide one.
Two torn writes put a fragment on a fragment, which is the longest a line gets
that matters: a third is garbage on garbage. TLC found no counterexample in
these; what is proved besides holds for all sizes.

Fairness, where liveness is checked: the event loop runs each task that can run,
timers fire and the clock goes on, and the client's calls return or raise (a
close bounds its interrupt by a timeout, core.py 592). `LongFairSpec` adds that
a waiter that was woken runs, and not that its deadline passes. Nothing is
assumed of MCP clients, of messages from the CLI, or of new calls. A poller of
`EveryEventDelivered` is one that goes on polling.

### Disagreements found

Four runs end in a violation; each states what a document, comment or docstring
says.

- `session_uncloseable`: a close of an idle session can raise. It looks for a
  running turn once, then awaits the consumer and `disconnect()`; a send in
  between starts a turn that nobody ends.
- `event_log_sender`: `session_send` returns at most 200 events of the turn and
  a cursor past all of them; a caller that goes on from there misses the rest.
- `registry_sweep`: the reaper awaits `close_session()` with the session's lock
  in its hands, which `close_session()` takes; the sweep never ends.
- `transcript_resume`: a write that stops in the middle of a character leaves
  bytes that do not decode; the exception comes from the iteration over the
  lines, outside the `try` that skips torn lines, and neither `load()` nor
  `append()` gets past them again.

The model contains more that no run states, since the code is what it follows;
most are listed as hazards:

- two turns at a time, when a close cancels the consumer while that waits for
  the lock to set ERROR. A retry comes while a `query()` has the lock; its
  transition to COOLDOWN fails, the consumer queues again, and the close ends it
  there, with COOLDOWN left behind. The cooldown over, an interrupt idles the
  session, a send starts a turn, and a second interrupt that had queued behind
  it sets IDLE over that turn;
- a result charged to another turn, when an interrupt times out. It leaves ERROR
  and a query without an answer; a second interrupt finds the session out of its
  turn and retires it; a retry takes the session to COOLDOWN, a third interrupt
  to IDLE; the cooldown over, a send starts a turn, and the first turn's late
  result is taken for its own;
- a rate limit in a turn kills the session, although docs/05-budget-ratelimit.md
  says turns in flight are not interrupted;
- a session that fails does not wake its waiters, which
  docs/03-session-broker.md:130 says it does; an interrupt does not either, and
  leaves it to the next message;
- a session in ERROR can be revived, by a permission request or a rate limit;
  the reaper drops ERROR sessions without closing their subprocess;
- a callback whose transition raises has answered "deny", but its request stays
  in `_pending`, and a client that resolves it is told it was applied;
- what one session remembers is remembered for every session of its policy, and
  beyond its end (docs/04-permission-broker.md:195-197 says: for the session, and
  dropped when it is closed);
- a denial behind a broader rule with arguments is not detected
  (docs/operator-guide.md:37 says shadowed denials are rejected);
- and a remembered command that ends in `*` allows every command it begins, as
  `rm *` does `rm -rf x`: what was allowed once is read as a pattern;
- the ledger drifts from the total when the write of a record stops ahead of its
  newline, or a record is written behind one that stopped within
  (docs/05-budget-ratelimit.md:73 says it cannot drift);
- two closes of a session may both pass the look at its state; the second
  rewrites a `meta.json` that says closed, and a kill may tear that write;
- the budget window is that of the start of the broker, for as long as it runs;
- an overloaded retry may cut a longer cooldown short;
- a torn `meta.json` keeps the broker from starting;
- the transcript store is a directory of its own for each session (core.py:179),
  so a session that resumes another one finds it empty, although
  docs/03-session-broker.md:194-195 has it as what makes resuming after a
  restart work.

## 4. What is proved

TLAPS checks every theorem from the named assumptions of the modules (constants
are numbers or sets of the right kind, finite where they are counted) alone.

- `PolicyPark_proofs`, the broker: `IndInv` is inductive, and `ResolveHonoured`,
  `FailClosed`, `AnsweredNotPending` and the refinement of `OneShotDecision`
  follow. The strengthening is `Sound`: `ResolveHonoured` alone says nothing of
  a request that is still parked. A resolve that was accepted found the timer
  not due, so the callback was woken ahead of it; hence a request a client was
  told about is never "parked" or "timedOut", and the timeout, the only one who
  writes a decision over another, does not touch it.
- `PolicyPark_proofs`, its policies: every step with policies is a step of
  `PermissionPark`, so these theorems carry over; `AllowedForAReason`, from the
  invariant that each pattern of an overlay was remembered for a request of that
  policy, and `RememberedNotAsked` from its converse, with the lemma that a
  command that does not end in `)` matches its own pattern, also one that ends in
  `*` (`MatchesItself`); and `DenialsReached`. The
  last needs that the first match exists, that is that sets of numbers have a
  least element, which is derived from the well-foundedness of finite sets,
  because induction over data is out of reach.
- `BrokerSession_proofs`: `ConsumerGone` and `ClosedOnDisk`, for any number of
  calls and any `query()`. The end of the consumer is stable; a close passes
  "joining" only after it, and only a close makes a session CLOSED or writes it.
  `LockIsGivenBack` and `SessionInvariance` (`IndInv`): each step leaves the
  lock's queue alone, joins it or leaves its head, and only the cancelled
  consumer leaves from the middle. `ClosedIsClosed` (`ClosedNeverServes`): what
  would revive a closed session is a callback that still waits for the lock to
  park. The strengthening is about order: the CLI's stream is over before a
  close queues for the lock, so no callback comes behind the close, and those
  ahead of it have had the lock. It rests on the queue being first come first
  served, which `asyncio.Lock` is.
- `Turns_proofs`: `OneTurnAtATime`, `BilledForOwnQuery` and `RecordedOnce`, for
  any number of calls, when `query()` is prompt. None is inductive: an interrupt
  that saw its turn end still waits for the lock to set IDLE, and somebody may
  have started another turn meanwhile. `SessionInv` says why nobody has. To the
  lock's invariant it adds who may be where while the lock is handed over: with
  a prompt `query()` a lock that is not free was taken in a turn or in the fall
  to ERROR (`Handover`); an interrupt that waits to set IDLE found the session
  out of its turn, and if that is cooling, the consumer is ahead of it in the
  queue with ERROR in its hands (`Polls`); in between nobody passes
  `_assert_sendable()`. So a session is idle only without a turn (`Turns`), and
  the CLI owes at most the answer to the current one (`Queries`). The last two
  stop where `Ending` and `Expired` begin.
- `LongPoll_proofs`: a session with long polls is still a session
  (`LongPollIsSession`), so that what is proved of it carries over; `LongInv`,
  and with it `NewsWakesPollers` and `AskedSendersAwake`. The strengthening is
  that a request on its way to being parked is in `_pending`, which is what a
  waiter looks at before it goes to sleep. With a prompt `query()`,
  `OverSendersAwake`: whoever ends a turn either wakes its sender in the same
  step, or is the consumer, who handles the result and wakes all when it has the
  lock. And `ResultIsOwn`: the last result since a turn began is of that turn,
  as no other query was outstanding then.
- `EventLog_proofs`: `TypeOK`, `PollersMissNothing` and `TranscriptComplete`,
  for any memory, limits, filters and batches. As long as no write fails, each
  event's index is its place, the file is the log and memory its end
  (`Numbering`, `Holding`), so that both ways to serve a poll give the same
  events past the cursor, in order; and the cursor that `poll()` returns is past
  exactly those it returns (`SelectedWell`).
- `Admission_proofs`, the ledger: `OvershootBounded`. By itself it is not
  inductive: the exposure is. Turns in flight were started below the budget,
  each may cost `MaxCost`, and a replay of the window reads what was counted, and
  one record that ended uncounted (between write and count, or ahead of its
  newline), which is one less in flight. `DriftBounded`: a record that is written
  whole adds the same to the total and to what a replay reads, since the window
  it is booked to is not before the one the broker was started in; one that stops
  short or is written behind such a one adds to one side only, and pays for it
  with `torn`; and a replay at a restart reads one window, nothing being booked
  later.
- `Admission_proofs`, with the governor: the ledger is still the
  ledger, so its theorems carry over; `AdmissionInv` (the cooldown covers the
  latest delay) is inductive for any delays, base and cap, and gives
  `NoTurnBeforeRetryAfter`.
- `Registry_proofs`: `WithinLimit` and `ReaperSparesTurns`. The cap needs that
  the registry's lock has a single holder across `connect()`, since the place
  is counted before and taken after it. `DiskIsHonest` and `ClosedOnDisk`, from
  `DiskInv`: once a close has begun the session has no consumer, and before it
  is connected no `meta.json`, so nobody but another close writes behind a close.
- `TranscriptStore_proofs`: `NothingTwice`, because the uuids an `append()` has
  seen cover those of its file, and `LossBounded`, which speaks of files that can
  be read (`transcript_resume` shows the others). The bound is not inductive: an
  open line has cost nothing yet and may still cost two entries, its own and
  the one that is written behind it. `Credit` counts it in advance.

Two definitions recurse over numbers: what a replay reads (`Replayed`) and what a
filter keeps (`Only`). Induction takes an operator as its parameter, which the
provers cannot instantiate, so what these compute is derived from the numbers'
order: a set that holds of the first and passes from each to the next has no
least number outside it (`Upwards`, `Downwards`, `LeastExists`). In the same way
`SelectSeq` is out of their reach, which is why the log is filtered by `Only`.

Model-checked only: liveness (`EveryCallReturns`, `CompletedSendersReturn`,
`EveryRequestAnswered`, `EveryEventDelivered`, `CooldownEnds`), which is beyond
the prover. Every safety property that a run checks and finds to hold is proved.

## 5. What is not modelled

- The MCP facade, configuration, preflight, workspace checks, error classes,
  health check and entry point: validation and wiring without state that lasts.
- `normalise()`: a stateless mapping; batches of events are `EventLog`'s input.
- `fork_session`, `resume`: creations with other arguments (a fork looks at its
  parent before it awaits the registry's lock); the read-only calls.
- The synchronous `poll()` and `_poll_wait()` of core.py: the facade does not
  reach them.
- The audit file: written and never read; its failing write is `CheckFails`.
- Per-session and per-model totals of the ledger: sums of the same amounts.

The facade, configuration, workspace checks and `normalise()` have no state that
outlives a call and no await at which they could be overtaken; what they could
get wrong is their mapping of inputs, which is for unit tests.

## 6. Plan

1. What a theorem could still say of the hazards that no property covers: that
   names of transcripts do not collide, and which `meta.json` a start survives.
2. `fork_session` and `resume` in `Registry`, with the parent's state.
