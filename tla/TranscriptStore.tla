--------------------------- MODULE TranscriptStore ---------------------------
(***************************************************************************)
(* FilesystemSessionStore of session_store.py: the SDK mirrors a session's *)
(* transcript in batches, which it repeats when append() fails, and reads  *)
(* it back to resume the session.  One JSONL file per key.                 *)
(*                                                                         *)
(* append() has no await, so nothing runs between its lines; but a full    *)
(* disk makes it raise, and a kill makes it stop, after any part of its    *)
(* output.  Either leaves a prefix of the batch with, at its end, a line   *)
(* that has no newline: a fragment.  The next append() writes on from      *)
(* there, so its first entry shares the line of the fragment.              *)
(***************************************************************************)
EXTENDS Naturals, Sequences, FiniteSets

CONSTANTS
    Keys,        \* SessionKeys: records of a session and a subpath
    NoSubpath,   \* the subpath of a session's own transcript
    NoJob,       \* no append() is under way
    Safe(_),     \* _safe(): the fragment of a file name for a name
    Entries,     \* transcript entries; equal when their uuids are
    Unkeyed,     \* those without a uuid
    Batches(_),  \* what the SDK may hand to one append() for a key
    MaxTears,    \* bound: writes that fail or are killed
    MaxLines     \* bound: lines of a file when an append begins

\* Lines that hold no entry: no JSON, and bytes that end in the middle of a
\* character (entries are written with ensure_ascii=False).
Garbage == "garbage"
Undecodable == "undecodable"

ASSUME KeysAssumption == \A k \in Keys : k = [session |-> k.session, subpath |-> k.subpath]
ASSUME EntriesAssumption ==
    /\ Unkeyed \subseteq Entries
    /\ Garbage \notin Entries /\ Undecodable \notin Entries
    /\ \A k \in Keys : Batches(k) \subseteq Seq(Entries) \ {<<>>}
ASSUME JobAssumption == NoJob \notin [key : Keys, rest : Seq(Entries), all : SUBSET Entries]
ASSUME BoundsAssumption == MaxTears \in Nat /\ MaxLines \in Nat
\* Names of sessions and subagents that _safe() makes alike share a file.
ASSUME SafeAssumption ==
    \A k, l \in Keys :
        /\ Safe(k.session) = Safe(l.session) => k.session = l.session
        /\ Safe(k.subpath) = Safe(l.subpath) => k.subpath = l.subpath

\* _path()
PathOf(k) == IF k.subpath = NoSubpath THEN <<Safe(k.session)>>
             ELSE <<Safe(k.session), Safe(k.subpath)>>

Paths == {PathOf(k) : k \in Keys}
Line == Entries \cup {Garbage, Undecodable}
Job == [key : Keys, rest : Seq(Entries), all : SUBSET Entries]

VARIABLES
    file,     \* [Paths -> Seq(Line)], <<>> for a file that is not there
    open,     \* files whose last line has no newline
    job,      \* the append() under way: its key and the rest of its batch
    seen,     \* its `seen`, the uuids it will not write
    acked,    \* [Keys -> entries of the appends that returned]
    tears     \* writes that failed or were killed

vars == <<file, open, job, seen, acked, tears>>

\* Lines, and an append that is somewhere in its batch.
TypeOK ==
    /\ file \in [Paths -> Seq(Line)]
    /\ open \in SUBSET Paths
    /\ job \in Job \cup {NoJob}
    /\ seen \in SUBSET (Entries \ Unkeyed)
    /\ acked \in [Keys -> SUBSET Entries]
    /\ tears \in Nat

Init ==
    /\ file = [p \in Paths |-> <<>>]
    /\ open = {}
    /\ job = NoJob /\ seen = {}
    /\ acked = [k \in Keys |-> {}]
    /\ tears = 0

----------------------------------------------------------------------------
(* The file. *)

Lines(p) == {file[p][i] : i \in 1..Len(file[p])}

\* Reading decodes: load() and append() raise at a broken character.
Readable(p) == Undecodable \notin Lines(p)

\* The entries whose lines are whole.
Kept(k) == Lines(PathOf(k)) \cap Entries

\* load() skips the lines that are no JSON, and raises at a broken character,
\* outside its try: then there is nothing to resume from.
Loaded(k) == IF Readable(PathOf(k)) THEN Kept(k) ELSE {}

\* Mutant of Uuids: the last line of a file is not looked at.
UuidsButLast(p) ==
    {file[p][i] : i \in 1..(Len(file[p]) - 1)} \cap (Entries \ Unkeyed)

\* _uuids()
Uuids(p) == Lines(p) \cap (Entries \ Unkeyed)

\* Mutant of Written: the file is opened to be written anew.
WrittenOver(p, line) == IF p \in open THEN <<Garbage>> ELSE <<line>>

\* The file p once `line` was written to it: on the line of a fragment, if
\* there is one, where two make no JSON.
Written(p, line) ==
    IF p \in open
    THEN [file[p] EXCEPT ![Len(file[p])] =
            IF Undecodable \in {@, line} THEN Undecodable ELSE Garbage]
    ELSE Append(file[p], line)

----------------------------------------------------------------------------
(* append(), delete() *)

AppendBegins(k) ==
    /\ job = NoJob
    /\ Readable(PathOf(k)) /\ Len(file[PathOf(k)]) <= MaxLines
    /\ \E b \in Batches(k) :
          job' = [key |-> k, rest |-> b, all |-> {b[i] : i \in 1..Len(b)}]
    /\ seen' = Uuids(PathOf(k))
    /\ UNCHANGED <<file, open, acked, tears>>

\* Mutant of WriteEntry: a uuid is not noted once it is written.
WriteEntryForgets ==
    /\ job # NoJob /\ job.rest # <<>>
    /\ LET p == PathOf(job.key)
       IN  IF Head(job.rest) \in seen
           THEN UNCHANGED <<file, open>>
           ELSE /\ file' = [file EXCEPT ![p] = Written(p, Head(job.rest))]
                /\ open' = open \ {p}
    /\ job' = [job EXCEPT !.rest = Tail(@)]
    /\ UNCHANGED <<seen, acked, tears>>

\* The next entry, if its uuid was not seen, and the newline after it.
WriteEntry ==
    /\ job # NoJob /\ job.rest # <<>>
    /\ LET p == PathOf(job.key)
           e == Head(job.rest)
       IN  IF e \in seen
           THEN UNCHANGED <<file, open, seen>>
           ELSE /\ file' = [file EXCEPT ![p] = Written(p, e)]
                /\ open' = open \ {p}
                /\ seen' = IF e \in Unkeyed THEN seen ELSE seen \cup {e}
    /\ job' = [job EXCEPT !.rest = Tail(@)]
    /\ UNCHANGED <<acked, tears>>

AppendReturns ==
    /\ job # NoJob /\ job.rest = <<>>
    /\ acked' = [acked EXCEPT ![job.key] = @ \cup job.all]
    /\ job' = NoJob /\ seen' = {}
    /\ UNCHANGED <<file, open, tears>>

\* The write stops before the entry, within it, or ahead of its newline.
WriteTears ==
    /\ job # NoJob /\ job.rest # <<>> /\ Head(job.rest) \notin seen
    /\ tears < MaxTears /\ tears' = tears + 1
    /\ LET p == PathOf(job.key)
       IN  \/ UNCHANGED <<file, open>>
           \/ \E fragment \in {Garbage, Undecodable, Head(job.rest)} :
                 /\ file' = [file EXCEPT ![p] = Written(p, fragment)]
                 /\ open' = open \cup {p}
    /\ job' = NoJob /\ seen' = {}
    /\ UNCHANGED acked

Delete(k) ==
    /\ job = NoJob
    /\ file' = [file EXCEPT ![PathOf(k)] = <<>>]
    /\ open' = open \ {PathOf(k)}
    /\ acked' = [l \in Keys |-> IF PathOf(l) = PathOf(k) THEN {} ELSE acked[l]]
    /\ UNCHANGED <<job, seen, tears>>

Next ==
    \/ \E k \in Keys : AppendBegins(k) \/ Delete(k)
    \/ WriteEntry \/ AppendReturns \/ WriteTears

Spec == Init /\ [][Next]_vars

----------------------------------------------------------------------------
(* Properties. *)

\* No entry with a uuid is loaded twice, however often and in whatever pieces
\* its batch was delivered: what append() sees in the file is all load() finds.
NothingTwice ==
    \A p \in Paths : \A i, j \in 1..Len(file[p]) :
        file[p][i] = file[p][j] /\ file[p][i] \in Entries \ Unkeyed => i = j

\* Entries that were mirrored are there to resume from, as long as load() can
\* read the file: a torn write costs two of them at most, the entry whose newline
\* is missing (a repeated batch skips it as seen) and the one that is written
\* behind it.  A write torn inside a character costs all of them instead, and
\* every later append fails too (ResumeNeverFails).
LossBounded ==
    \A k \in Keys :
        Readable(PathOf(k)) => Cardinality(acked[k] \ Loaded(k)) <= 2 * tears

\* While an append goes on, it knows of every uuid in its file.
SeenCovers == job # NoJob => Uuids(PathOf(job.key)) \subseteq seen

\* Entries that were mirrored, or that the append under way takes for such.
Dealt(k) ==
    acked[k] \cup
        IF job # NoJob /\ job.key = k
        THEN seen \cup (job.all \ {job.rest[i] : i \in 1..Len(job.rest)}) ELSE {}

\* Of those, the ones without a whole line; a line without its newline has cost
\* nothing yet, and may still cost two.
Cost(k) == IF PathOf(k) \in open THEN 2 ELSE 0
Credit == \A k \in Keys : Cardinality(Dealt(k) \ Kept(k)) + Cost(k) <= 2 * tears

Finite ==
    /\ \A k \in Keys : IsFiniteSet(acked[k])
    /\ IsFiniteSet(seen)
    /\ job # NoJob => IsFiniteSet(job.all)

IndInv ==
    /\ TypeOK /\ Finite /\ SeenCovers /\ NothingTwice /\ Credit
    /\ \A p \in open : file[p] # <<>>

\* What session_store.py promises of torn lines: they do not fail a resume.
ResumeNeverFails == \A k \in Keys : Readable(PathOf(k))
=============================================================================
