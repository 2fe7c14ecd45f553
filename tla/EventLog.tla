------------------------------- MODULE EventLog -------------------------------
(***************************************************************************)
(* EventLog of event_log.py and the clients that follow it by cursor:      *)
(* pollers, through session_poll, and senders, through the snapshot that   *)
(* session_send answers with.                                              *)
(*                                                                         *)
(* The log keeps a bounded tail of the events in memory and all of them in *)
(* events.jsonl; a poll is served from memory when its cursor is there and *)
(* from the file otherwise.  append() puts an event in memory, writes its  *)
(* line and only then moves the cursor, so a failing write (full disk, no  *)
(* file handle) leaves the event in memory under an index that the next    *)
(* event gets again, and perhaps part of a line in the file.  The process  *)
(* may also be killed in the middle of a write.                            *)
(*                                                                         *)
(* Every call is one step: all run on the event loop, and none awaits.     *)
(***************************************************************************)
EXTENDS Naturals, Sequences, Functions

CONSTANTS
    Types,         \* event types
    Pollers,       \* clients that poll, each with the filter it passes
    Include,       \* [Pollers -> SUBSET Types]: that filter
    Senders,       \* clients that send a prompt and wait
    MemoryLimit,   \* events kept in memory
    Limits,        \* values of poll's `limit` argument
    DefaultLimit,  \* its default, the one of the send snapshot
    MaxBatch,      \* bound: events normalised from one message
    MaxEvents,     \* bound: events ever made, and sent to a sender that sends again
    MaxFailures    \* bound: failing writes

ASSUME LimitsAssumption ==
    /\ MemoryLimit \in Nat \ {0} /\ DefaultLimit \in Nat \ {0}
    /\ Limits \subseteq Nat \ {0}
    /\ MaxBatch \in Nat /\ MaxEvents \in Nat /\ MaxFailures \in Nat

ASSUME ClientsAssumption ==
    /\ Pollers \cap Senders = {}
    /\ \A p \in Pollers : Include[p] \subseteq Types

VARIABLES
    events,     \* EventLog._events
    cursor,     \* EventLog._cursor
    file,       \* the lines of events.jsonl
    openLine,   \* the last line has no newline yet
    up,         \* the process is running
    committed,  \* history: events whose append succeeded
    made,       \* history: number of events made
    failures,   \* history: number of failed writes
    position,       \* [Pollers \cup Senders -> the cursor the client would pass]
    got,        \* what each client was sent, from index 0 on
    start       \* [Senders -> start_cursor of the turn it waits for]

vars == <<events, cursor, file, openLine, up, committed, made, failures,
          position, got, start>>

Clients == Pollers \cup Senders
NotSending == MaxEvents + 1
Event == [id : 1..MaxEvents, index : 0..(MaxEvents - 1), type : Types]
\* A line json.loads() rejects.
Torn == [id |-> 0]
Readable(line) == line.id # 0

TypeOK ==
    /\ events \in Seq(Event) /\ committed \in Seq(Event)
    /\ file \in Seq(Event \cup {Torn})
    /\ cursor \in 0..MaxEvents /\ made \in 0..MaxEvents
    /\ failures \in 0..MaxFailures
    /\ openLine \in BOOLEAN /\ up \in BOOLEAN
    /\ position \in [Clients -> 0..MaxEvents]
    /\ got \in [Clients -> Seq(Event)]
    /\ start \in [Senders -> 0..MaxEvents \cup {NotSending}]

Init ==
    /\ events = <<>> /\ file = <<>> /\ committed = <<>>
    /\ cursor = 0 /\ made = 0 /\ failures = 0
    /\ openLine = FALSE /\ up = TRUE
    /\ position = [c \in Clients |-> 0]
    /\ got = [c \in Clients |-> <<>>]
    /\ start = [s \in Senders |-> NotSending]

----------------------------------------------------------------------------
(* Appending. *)

Batches == UNION {[1..n -> Types] : n \in 1..MaxBatch}

\* Mutant of Numbered: indices start at one.
NumberedFromOne(batch, n) ==
    [k \in 1..n |-> [id |-> made + k, index |-> cursor + k, type |-> batch[k]]]

\* The first n events of a batch, with the indices append() gives them.
Numbered(batch, n) ==
    [k \in 1..n |-> [id |-> made + k, index |-> cursor + k - 1, type |-> batch[k]]]

\* _trim_memory(): the newest MemoryLimit events stay.
Trimmed(es) ==
    IF Len(es) > MemoryLimit
    THEN SubSeq(es, Len(es) - MemoryLimit + 1, Len(es)) ELSE es

\* The file once the lines of es, then part of one more if `torn`, have been
\* written.  What follows an unfinished line becomes part of it, unreadable.
Written(es, torn) ==
    file \o (IF openLine /\ es # <<>> THEN Tail(es) ELSE es)
         \o (IF torn /\ ~(openLine /\ es = <<>>) THEN <<Torn>> ELSE <<>>)
LeftOpen(es, torn) == torn \/ (openLine /\ es = <<>>)

LogAppend(batch) ==
    LET new == Numbered(batch, Len(batch))
    IN  /\ up /\ made + Len(batch) <= MaxEvents
        /\ events' = Trimmed(events \o new)
        /\ file' = Written(new, FALSE) /\ openLine' = LeftOpen(new, FALSE)
        /\ cursor' = cursor + Len(batch)
        /\ committed' = committed \o new
        /\ made' = made + Len(batch)
    /\ UNCHANGED <<up, failures, position, got, start>>

\* The write of the batch's event n + 1 raises, having written nothing of its
\* line or a part: the event is in memory, the cursor stays, nothing is trimmed.
AppendFails(batch, n, torn) ==
    LET new == Numbered(batch, n)
    IN  /\ up /\ made + n + 1 <= MaxEvents /\ failures < MaxFailures
        /\ events' = events \o Numbered(batch, n + 1)
        /\ file' = Written(new, torn) /\ openLine' = LeftOpen(new, torn)
        /\ cursor' = cursor + n
        /\ committed' = committed \o new
        /\ made' = made + n + 1
        /\ failures' = failures + 1
    /\ UNCHANGED <<up, position, got, start>>

\* Mutant of Crash: the file is kept open, and its buffer dies with the process.
CrashLosesBuffer(batch, n, torn) ==
    /\ up /\ made + n < MaxEvents
    /\ up' = FALSE
    /\ events' = <<>>
    /\ file' = SubSeq(file, 1, Len(file) - 1)
    /\ UNCHANGED <<openLine, made, cursor, committed, failures, position, got, start>>

\* The process is killed, perhaps while it writes event n + 1 of a batch.
Crash(batch, n, torn) ==
    /\ up /\ made + n < MaxEvents
    /\ up' = FALSE
    /\ events' = <<>>
    /\ file' = Written(Numbered(batch, n), torn)
    /\ openLine' = LeftOpen(Numbered(batch, n), torn)
    /\ made' = made + n
    /\ UNCHANGED <<cursor, committed, failures, position, got, start>>

----------------------------------------------------------------------------
(* Reading. *)

\* The elements of es that are in S, in their order.  (SelectSeq, with a set for
\* its test: TLAPS knows nothing of operators that are passed on.)
Only(es, S) ==
    LET kept[n \in 0..Len(es)] ==
            IF n = 0 THEN <<>>
            ELSE IF es[n] \in S THEN Append(kept[n - 1], es[n]) ELSE kept[n - 1]
    IN  kept[Len(es)]

\* Mutant of From: what was trimmed from memory is not read back from the file.
FromMemory(c) == events

\* Where _get_events_from() looks for what is past a cursor.
From(c) == IF events # <<>> /\ c >= events[1].index THEN events ELSE file

\* The events poll() returns; a line that is torn is no event.
Selected(c, limit, include) ==
    LET found == Only(From(c), {e \in Event : e.index >= c /\ e.type \in include})
    IN  SubSeq(found, 1, IF Len(found) > limit THEN limit ELSE Len(found))

\* Mutant of NextCursor: it counts events instead of following the index.
NextCursorByCount(c, selected) == c + Len(selected)

\* Past the last event returned; unchanged when there is none.
NextCursor(c, selected) ==
    IF selected = <<>> THEN c ELSE selected[Len(selected)].index + 1

\* session_poll, when it has something to return: the client passes the
\* cursor of the answer back verbatim.
Poll(p, limit) ==
    \E selected \in {Selected(position[p], limit, Include[p])} :
        /\ up /\ selected # <<>>
        /\ got' = [got EXCEPT ![p] = @ \o selected]
        /\ position' = [position EXCEPT ![p] = NextCursor(@, selected)]
    /\ UNCHANGED <<events, cursor, file, openLine, up, committed, made, failures, start>>

\* session_send by a client that has seen the log up to its end.
Send(s) ==
    /\ up /\ start[s] = NotSending /\ position[s] = cursor
    /\ Len(got[s]) < MaxEvents
    /\ start' = [start EXCEPT ![s] = cursor]
    /\ UNCHANGED <<events, cursor, file, openLine, up, committed, made, failures, position, got>>

\* _send_snapshot(): the events since the turn began, and the log's cursor.
SendReturns(s) ==
    /\ up /\ start[s] # NotSending
    /\ got' = [got EXCEPT ![s] = @ \o Selected(start[s], DefaultLimit, Types)]
    /\ position' = [position EXCEPT ![s] = cursor]
    /\ start' = [start EXCEPT ![s] = NotSending]
    /\ UNCHANGED <<events, cursor, file, openLine, up, committed, made, failures>>

----------------------------------------------------------------------------
Next ==
    \/ \E batch \in Batches :
          \/ LogAppend(batch)
          \/ \E n \in 0..(Len(batch) - 1), torn \in BOOLEAN :
                AppendFails(batch, n, torn) \/ Crash(batch, n, torn)
    \/ \E p \in Pollers, limit \in Limits : Poll(p, limit)
    \/ \E s \in Senders : Send(s) \/ SendReturns(s)

\* A poller that goes on polling.
Fairness == \A p \in Pollers : WF_vars(\E limit \in Limits : Poll(p, limit))

Spec == Init /\ [][Next]_vars
FairSpec == Spec /\ Fairness

----------------------------------------------------------------------------
(* Properties. *)

Clean == failures = 0

Increasing(es) == \A i, j \in DOMAIN es : i < j => es[i].index < es[j].index

\* Client c was sent the events of these types below its cursor: all of them,
\* each once, in order, and nothing else.
Served(c, include) ==
    /\ Increasing(got[c])
    /\ Range(got[c]) =
          {e \in Range(committed) : e.index < position[c] /\ e.type \in include}

\* As long as no write fails, a poller has been sent every event of its types
\* below its cursor, once and in order, whatever its limit, whichever part of
\* the log was in memory when it polled and whatever its filter passed over.
PollersMissNothing ==
    Clean => \A p \in Pollers : Served(p, Include[p])

\* The same of a client that goes on from the cursor session_send returns.
\* (It may miss events: the snapshot is cut at the default limit, its cursor
\* is not.)
SendersMissNothing == Clean => \A s \in Senders : Served(s, Types)

\* load_from_disk(): the lines up to the first one that is torn.
Transcript ==
    SubSeq(file, 1, CHOOSE n \in 0..Len(file) :
        /\ \A i \in 1..n : Readable(file[i])
        /\ n < Len(file) => ~Readable(file[n + 1]))

\* As long as no write fails, whenever the process is killed, the transcript
\* read back from the file begins with every event that was appended.
TranscriptComplete ==
    Clean => /\ Len(Transcript) >= Len(committed)
             /\ SubSeq(Transcript, 1, Len(committed)) = committed

\* A poller that goes on polling is sent every event of its types, unless the
\* process is killed or a write fails.
EveryEventDelivered ==
    \A p \in Pollers : \A i \in 1..MaxEvents :
        (\E e \in Range(committed) : e.id = i /\ e.type \in Include[p])
            ~> ((\E e \in Range(got[p]) : e.id = i) \/ ~up \/ ~Clean)
=============================================================================
