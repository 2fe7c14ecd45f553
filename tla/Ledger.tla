-------------------------------- MODULE Ledger --------------------------------
(***************************************************************************)
(* CostLedger of budget.py: the global spend of a budget window, kept in   *)
(* memory, appended to ledger.jsonl after every turn and replayed at       *)
(* startup; and the check that refuses a new turn once the budget is       *)
(* spent.  The sessions' turns are in flight at the same time, and the     *)
(* broker learns what a turn cost when it is over.                         *)
(*                                                                         *)
(* The file is abstracted to what a replay reads from it: the sum of its   *)
(* records per window, and the record on its last line, which may lack a   *)
(* newline.  An unreadable line is skipped, and no record is younger than  *)
(* the clock.  Amounts are integers: rounding to six decimals is left out. *)
(***************************************************************************)
EXTENDS Naturals, FiniteSets

CONSTANTS
    Sessions,    \* those that may have a turn in flight at a time: the places
                 \* of the registry, and sessions in ERROR that gave theirs up
    MaxCost,     \* the most one turn can cost, by the SDK's own budget
    Budget,      \* BROKER_GLOBAL_BUDGET_USD
    MaxWindow,   \* bound: windows the clock goes through
    MaxTorn      \* bound: writes that stop short while the broker runs

ASSUME LedgerAssumption ==
    /\ IsFiniteSet(Sessions)
    /\ MaxCost \in Nat /\ MaxWindow \in Nat /\ MaxTorn \in Nat
    /\ Budget \in Nat \ {0}

VARIABLES
    spent,     \* CostLedger._global_spent
    since,     \* CostLedger._window_started_at: the window it was started in
    booked,    \* [window -> the sum of its records on lines that end]
    openLine,  \* the file's last line has no newline
    last,      \* the record that a replay reads of such a line
    now,       \* the window of the clock
    up,        \* the broker is running
    busy,      \* sessions with a turn in flight
    torn       \* history: writes that stopped short and left a line open, one
               \* from before the broker was started included

file == <<booked, openLine, last>>
vars == <<spent, since, file, now, up, busy, torn>>

Windows == 0..MaxWindow
\* A line that is no record costs nothing.
NoRecord == [at |-> 0, cost |-> 0]

TypeOK ==
    /\ spent \in Nat
    /\ booked \in [Windows -> Nat]
    /\ last \in [at : Windows, cost : 0..MaxCost]
    /\ now \in Windows /\ since \in Windows
    /\ openLine \in BOOLEAN /\ up \in BOOLEAN
    /\ torn \in Nat
    /\ busy \subseteq Sessions

Init ==
    /\ spent = 0 /\ booked = [w \in Windows |-> 0]
    /\ openLine = FALSE /\ last = NoRecord /\ now = 0 /\ up = TRUE /\ busy = {}
    /\ since = 0 /\ torn = 0

\* A record of cost c and its newline are written.  On an open line it makes
\* no JSON with what is there, and takes that with it.
WriteLine(c) ==
    /\ booked' = IF openLine THEN booked ELSE [booked EXCEPT ![now] = @ + c]
    /\ openLine' = FALSE /\ last' = NoRecord
    /\ UNCHANGED torn

\* The write stops: before its first byte, within the record, or ahead of its
\* newline, where a replay can read the record, unless it is on an open line.
StopShort(c) ==
    \/ UNCHANGED <<file, torn>>
    \/ /\ torn < MaxTorn /\ torn' = torn + 1
       /\ openLine' = TRUE
       /\ \/ last' = NoRecord
          \/ ~openLine /\ last' = [at |-> now, cost |-> c]
       /\ UNCHANGED booked

\* Mutant of Send: the ledger is not consulted.
SendUnchecked(s) ==
    /\ up /\ s \notin busy
    /\ busy' = busy \cup {s}
    /\ UNCHANGED <<spent, since, file, now, up, torn>>

\* A turn starts: check_global_budget() found some of the budget left.
Send(s) ==
    /\ up /\ s \notin busy
    /\ spent < Budget
    /\ busy' = busy \cup {s}
    /\ UNCHANGED <<spent, since, file, now, up, torn>>

\* Mutant of Result: the total in memory is not updated.
ResultOnlyBooked(s, c) ==
    /\ up /\ s \in busy
    /\ busy' = busy \ {s}
    /\ WriteLine(c)
    /\ UNCHANGED <<spent, since, now, up>>

\* A turn's result: record_turn() writes the record, then counts it.
Result(s, c) ==
    /\ up /\ s \in busy
    /\ busy' = busy \ {s}
    /\ WriteLine(c)
    /\ spent' = spent + c
    /\ UNCHANGED <<since, now, up>>

\* Mutant of ResultNotWritten: the turn is counted although it is not written.
ResultCountedFirst(s, c) ==
    /\ up /\ s \in busy
    /\ busy' = busy \ {s}
    /\ StopShort(c)
    /\ spent' = spent + c
    /\ UNCHANGED <<since, now, up>>

\* The write raises: the turn is over, not counted, and its session fails.
ResultNotWritten(s, c) ==
    /\ up /\ s \in busy
    /\ busy' = busy \ {s}
    /\ StopShort(c)
    /\ UNCHANGED <<spent, since, now, up>>

\* An interrupted turn, or one whose session closed or failed, costs nothing.
Abandon(s) ==
    /\ up /\ s \in busy
    /\ busy' = busy \ {s}
    /\ UNCHANGED <<spent, since, file, now, up, torn>>

\* The broker is killed, perhaps while it writes the record of a turn.
Crash ==
    /\ up /\ up' = FALSE
    /\ busy' = {}
    /\ \/ UNCHANGED <<file, torn>>
       \/ busy # {} /\ \E c \in 0..MaxCost : StopShort(c)
    /\ UNCHANGED <<spent, since, now>>

\* It is killed between writing a record and counting it.
CrashAfterWrite(s, c) ==
    /\ up /\ s \in busy /\ up' = FALSE
    /\ busy' = {}
    /\ WriteLine(c)
    /\ UNCHANGED <<spent, since, now>>

\* What a replay from a window reads of the last line: replay() skips what is
\* older than _window_started_at.
LastLine(start) == IF last.at >= start THEN last.cost ELSE 0

\* The broker starts: replay() of the window of the clock.
Restart ==
    /\ ~up /\ up' = TRUE
    /\ since' = now
    /\ spent' = booked[now] + LastLine(now)
    /\ torn' = IF openLine THEN 1 ELSE 0
    /\ UNCHANGED <<file, now, busy>>

\* The clock enters the next window.  _window_started_at stays, and so does
\* the total.
WindowRolls ==
    /\ now < MaxWindow
    /\ now' = now + 1
    /\ UNCHANGED <<spent, since, file, up, busy, torn>>

Next ==
    \/ \E s \in Sessions :
          \/ Send(s)
          \/ \E c \in 0..MaxCost :
                Result(s, c) \/ ResultNotWritten(s, c) \/ CrashAfterWrite(s, c)
          \/ Abandon(s)
    \/ Crash
    \/ Restart
    \/ WindowRolls

Spec == Init /\ [][Next]_vars

----------------------------------------------------------------------------
(* Properties. *)

\* The turns in flight when the budget runs out are the only overshoot: each
\* session may end one more.
Limit == Budget + Cardinality(Sessions) * MaxCost

\* However the turns of the sessions interleave, and whatever crashes and
\* failing writes happen between, the broker never counts past that limit.
OvershootBounded == spent < Limit

\* Why: every turn in flight was started under the budget, and no replay of
\* the window reads past the limit: what it reads was counted, or was written
\* by a turn in flight that ended uncounted, once at most since the last line
\* that ends.
IndInv ==
    /\ TypeOK
    /\ spent + Cardinality(busy) * MaxCost < Limit
    /\ booked[now] + LastLine(now) < Limit
    /\ up => booked[now] <= spent
    /\ ~up => busy = {}
    /\ \A w \in Windows : w > now => booked[w] = 0
    /\ last.at <= now
    /\ ~openLine => last.cost = 0

\* What a replay reads that starts at a window.
Replayed(start) ==
    LET sum[w \in 0..(MaxWindow + 1)] ==
            IF w > MaxWindow THEN 0 ELSE booked[w] + sum[w + 1]
    IN  sum[start] + LastLine(start)

\* The total in memory and the file drift apart by writes that stop short, and
\* by those alone.  The file may be ahead by the one record that was written
\* but for its newline, which is not counted, and behind by two records for
\* each such write: that one, once counted at a restart, and the record behind
\* it on its line.  The total is that of all windows since the broker was
\* started.
DriftBounded ==
    up => /\ Replayed(since) <= spent + last.cost
          /\ spent <= Replayed(since) + 2 * MaxCost * torn
=============================================================================
