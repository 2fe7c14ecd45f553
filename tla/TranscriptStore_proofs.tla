------------------------- MODULE TranscriptStore_proofs -------------------------
(***************************************************************************)
(* Proofs about the transcript store: no entry is loaded twice, and as     *)
(* long as a file can be read every torn write has cost it at most two     *)
(* mirrored ones, for any keys, batches and numbers of appends.            *)
(*                                                                         *)
(* The bound alone is not inductive: a line without its newline has cost   *)
(* nothing so far, and may cost two entries later.  Cost is that reserve.  *)
(***************************************************************************)
EXTENDS TranscriptStore, FiniteSetTheorems, SequenceTheorems, TLAPS

\* Each key has a file of its own.
LEMMA PathsApart ==
    ASSUME NEW k \in Keys, NEW l \in Keys, PathOf(k) = PathOf(l)
    PROVE  k = l
<1>1. Safe(k.session) = Safe(l.session)
  BY DEF PathOf
<1>2. (k.subpath = NoSubpath) <=> (l.subpath = NoSubpath)
  BY DEF PathOf
<1>3. k.subpath # NoSubpath => Safe(k.subpath) = Safe(l.subpath)
  BY <1>2 DEF PathOf
<1>4. k.session = l.session /\ k.subpath = l.subpath
  BY <1>1, <1>2, <1>3, SafeAssumption
<1>5. QED
  BY <1>4, KeysAssumption

\* What a sequence holds is finite.
LEMMA RangeFinite ==
    ASSUME NEW S, NEW s \in Seq(S)
    PROVE  IsFiniteSet({s[i] : i \in 1 .. Len(s)})
<1> DEFINE T == {s[i] : i \in 1 .. Len(s)}
<1>1. s \in Surjection(1 .. Len(s), T)
  BY DEF Surjection
<1>2. IsFiniteSet(1 .. Len(s))
  BY FS_Interval
<1>3. QED
  BY <1>1, <1>2, FS_Surjection

\* A set that grows by an element.
LEMMA GrowsByOne ==
    ASSUME NEW A, IsFiniteSet(A), NEW x
    PROVE  /\ IsFiniteSet(A \cup {x})
           /\ Cardinality(A) \in Nat /\ Cardinality(A \cup {x}) \in Nat
           /\ Cardinality(A \cup {x}) <= Cardinality(A) + 1
<1>1. IsFiniteSet(A \cup {x})
  BY FS_AddElement
<1>2. Cardinality(A) \in Nat /\ Cardinality(A \cup {x}) \in Nat
  BY <1>1, FS_CardinalityType
<1>3. CASE x \in A
  <2>1. A \cup {x} = A
    BY <1>3
  <2>2. Cardinality(A \cup {x}) = Cardinality(A)
    BY <2>1
  <2>3. QED
    BY <1>1, <1>2, <2>2
<1>4. CASE x \notin A
  <2>1. Cardinality(A \cup {x}) = IF x \in A THEN Cardinality(A) ELSE Cardinality(A) + 1
    BY FS_AddElement
  <2>2. QED
    BY <1>1, <1>2, <1>4, <2>1
<1>5. QED
  BY <1>1, <1>2, <1>3, <1>4

\* A set that grows by two elements at most.
LEMMA GrowsByTwo ==
    ASSUME NEW A, IsFiniteSet(A), NEW x, NEW y, NEW B, B \subseteq A \cup {x, y}
    PROVE  IsFiniteSet(B) /\ Cardinality(A) \in Nat /\ Cardinality(B) \in Nat
           /\ Cardinality(B) <= Cardinality(A) + 2
           /\ (B \subseteq A \cup {x} => Cardinality(B) <= Cardinality(A) + 1)
           /\ (B \subseteq A => Cardinality(B) <= Cardinality(A))
<1>1. /\ IsFiniteSet(A \cup {x})
      /\ Cardinality(A) \in Nat /\ Cardinality(A \cup {x}) \in Nat
      /\ Cardinality(A \cup {x}) <= Cardinality(A) + 1
  BY GrowsByOne
<1>2. /\ IsFiniteSet((A \cup {x}) \cup {y})
      /\ Cardinality((A \cup {x}) \cup {y}) \in Nat
      /\ Cardinality((A \cup {x}) \cup {y}) <= Cardinality(A \cup {x}) + 1
  BY <1>1, GrowsByOne
<1>3. B \subseteq (A \cup {x}) \cup {y}
  OBVIOUS
<1>4. IsFiniteSet(B) /\ Cardinality(B) <= Cardinality((A \cup {x}) \cup {y})
  BY <1>2, <1>3, FS_Subset
<1>5. Cardinality(B) \in Nat
  BY <1>4, FS_CardinalityType
<1>6. B \subseteq A \cup {x} => Cardinality(B) <= Cardinality(A \cup {x})
  BY <1>1, FS_Subset
<1>7. B \subseteq A => Cardinality(B) <= Cardinality(A)
  BY FS_Subset
<1>8. QED
  BY <1>1, <1>2, <1>4, <1>5, <1>6, <1>7

----------------------------------------------------------------------------
(* A line is written to a file. *)

\* On a line of its own it is added; on that of a fragment, both are lost.
LEMMA WrittenLines ==
    ASSUME file \in [Paths -> Seq(Line)], NEW p \in Paths, NEW line \in Line,
           p \in open => file[p] # <<>>
    PROVE  LET f == file[p]
               w == Written(p, line)
           IN  /\ w \in Seq(Line) /\ w # <<>>
               /\ p \notin open =>
                     /\ Len(w) = Len(f) + 1 /\ w[Len(w)] = line
                     /\ \A i \in 1 .. Len(f) : w[i] = f[i]
               /\ p \in open =>
                     /\ Len(w) = Len(f) /\ Len(f) >= 1
                     /\ w[Len(w)] \in {Garbage, Undecodable}
                     /\ \A i \in 1 .. (Len(f) - 1) : w[i] = f[i]
<1> DEFINE f == file[p]
           w == Written(p, line)
<1>1. f \in Seq(Line)
  OBVIOUS
<1>2. CASE p \notin open
  <2>1. w = Append(f, line)
    BY <1>2 DEF Written
  <2>2. QED
    BY <1>1, <1>2, <2>1, AppendProperties
<1>3. CASE p \in open
  <2>1. f # <<>> /\ Len(f) \in Nat /\ Len(f) >= 1
    BY <1>1, <1>3, EmptySeq
  <2>2. PICK x \in {Garbage, Undecodable} : w = [f EXCEPT ![Len(f)] = x]
    BY <1>3 DEF Written
  <2>3. x \in Line
    BY <2>2 DEF Line
  <2>4. w \in Seq(Line) /\ Len(w) = Len(f)
    BY <1>1, <2>1, <2>2, <2>3, ExceptSeq
  <2>5. w[Len(f)] = x /\ \A i \in 1 .. (Len(f) - 1) : w[i] = f[i]
    BY <1>1, <2>1, <2>2
  <2>6. QED
    BY <1>3, <2>1, <2>2, <2>4, <2>5, EmptySeq
<1>4. QED
  BY <1>2, <1>3

\* What that does to the entries of the file.
LEMMA WrittenEntries ==
    ASSUME file \in [Paths -> Seq(Line)], NEW p \in Paths, NEW line \in Line,
           p \in open => file[p] # <<>>,
           file' = [file EXCEPT ![p] = Written(p, line)]
    PROVE  /\ file' \in [Paths -> Seq(Line)] /\ file'[p] # <<>>
           /\ \A q \in Paths : q # p => file'[q] = file[q]
           /\ Lines(p)' \cap Entries \subseteq Lines(p) \cup {line}
           /\ p \notin open => Lines(p) \cup {line} \subseteq Lines(p)'
           /\ p \in open => /\ Lines(p)' \cap Entries \subseteq Lines(p)
                            /\ Lines(p) \cap Entries \subseteq
                                  Lines(p)' \cup {file[p][Len(file[p])]}
<1> DEFINE f == file[p]
           w == Written(p, line)
<1>1. f \in Seq(Line) /\ Len(f) \in Nat /\ DOMAIN f = 1 .. Len(f)
  OBVIOUS
<1>2. w \in Seq(Line) /\ w # <<>> /\ file'[p] = w
  BY WrittenLines
<1>3. Lines(p)' = {w[i] : i \in 1 .. Len(w)} /\ Lines(p) = {f[i] : i \in 1 .. Len(f)}
  BY <1>2 DEF Lines
<1>4. CASE p \notin open
  <2> HIDE DEF w
  <2>1. /\ Len(w) = Len(f) + 1 /\ w[Len(w)] = line
        /\ \A i \in 1 .. Len(f) : w[i] = f[i]
    BY <1>4, WrittenLines DEF w
  <2>2. {w[i] : i \in 1 .. Len(w)} = {f[i] : i \in 1 .. Len(f)} \cup {line}
    <3>1. \A i \in 1 .. Len(w) : i = Len(w) \/ i \in 1 .. Len(f)
      BY <1>1, <2>1
    <3>2. Len(w) \in 1 .. Len(w) /\ \A i \in 1 .. Len(f) : i \in 1 .. Len(w)
      BY <1>1, <2>1
    <3>3. QED
      BY <2>1, <3>1, <3>2
  <2>3. QED
    BY <1>2, <1>3, <1>4, <2>2
<1>5. CASE p \in open
  <2> HIDE DEF w
  <2>1. /\ Len(w) = Len(f) /\ Len(f) >= 1
        /\ w[Len(w)] \in {Garbage, Undecodable}
        /\ \A i \in 1 .. (Len(f) - 1) : w[i] = f[i]
    BY <1>5, WrittenLines DEF w
  <2>2. Garbage \notin Entries /\ Undecodable \notin Entries
    BY EntriesAssumption
  <2>3. \A i \in 1 .. Len(w) : w[i] \in Entries => i \in 1 .. (Len(f) - 1) /\ w[i] = f[i]
    BY <1>1, <2>1, <2>2
  <2>4. \A i \in 1 .. Len(f) : f[i] = f[Len(f)] \/ f[i] = w[i]
    BY <1>1, <2>1
  <2>5. QED
    BY <1>1, <1>2, <1>3, <1>5, <2>1, <2>3, <2>4
<1>6. QED
  BY <1>4, <1>5

\* No entry becomes a second one.
LEMMA WrittenOnce ==
    ASSUME file \in [Paths -> Seq(Line)], NEW p \in Paths, NEW line \in Line,
           p \in open => file[p] # <<>>, NothingTwice,
           file' = [file EXCEPT ![p] = Written(p, line)],
           line \in Entries \ Unkeyed => line \notin Lines(p)
    PROVE  NothingTwice'
<1> DEFINE f == file[p]
           w == Written(p, line)
<1>1. f \in Seq(Line) /\ Len(f) \in Nat
  OBVIOUS
<1>2. w \in Seq(Line) /\ file'[p] = w /\ \A q \in Paths : q # p => file'[q] = file[q]
  BY WrittenLines
<1>3. Garbage \notin Entries /\ Undecodable \notin Entries
  BY EntriesAssumption
<1>4. \A i \in 1 .. Len(f) : f[i] = line => line \notin Entries \ Unkeyed
  BY DEF Lines
<1>5. ASSUME NEW i \in 1 .. Len(w), NEW j \in 1 .. Len(w), w[i] = w[j],
             w[i] \in Entries \ Unkeyed
      PROVE  i = j
  <2> HIDE DEF w
  <2>1. CASE p \notin open
    <3>1. /\ Len(w) = Len(f) + 1 /\ w[Len(w)] = line
          /\ \A n \in 1 .. Len(f) : w[n] = f[n]
      BY <2>1, WrittenLines DEF w
    <3>2. \A n, m \in 1 .. Len(f) : f[n] = f[m] /\ f[n] \in Entries \ Unkeyed => n = m
      BY DEF NothingTwice
    <3>3. QED
      BY <1>1, <1>4, <1>5, <3>1, <3>2
  <2>2. CASE p \in open
    <3>1. /\ Len(w) = Len(f) /\ Len(f) >= 1
          /\ w[Len(w)] \in {Garbage, Undecodable}
          /\ \A n \in 1 .. (Len(f) - 1) : w[n] = f[n]
      BY <2>2, WrittenLines DEF w
    <3>2. \A n, m \in 1 .. Len(f) : f[n] = f[m] /\ f[n] \in Entries \ Unkeyed => n = m
      BY DEF NothingTwice
    <3>3. QED
      BY <1>1, <1>3, <1>5, <3>1, <3>2
  <2>3. QED
    BY <2>1, <2>2
<1>6. QED
  BY <1>2, <1>5 DEF NothingTwice

----------------------------------------------------------------------------
(* The invariant. *)

LEMMA PathsTyped == \A k \in Keys : PathOf(k) \in Paths
BY DEF Paths

LEMMA InitIndInv == Init => IndInv
<1> SUFFICES ASSUME Init PROVE IndInv
  OBVIOUS
<1>1. TypeOK /\ Finite
  BY EmptySeq, FS_EmptySet DEF Init, TypeOK, Finite
<1>2. SeenCovers /\ NothingTwice
  BY DEF Init, SeenCovers, NothingTwice
<1>3. Credit
  <2>1. ASSUME NEW k \in Keys PROVE Cardinality(Dealt(k) \ Kept(k)) + Cost(k) <= 2 * tears
    <3>1. Dealt(k) \ Kept(k) = {} /\ Cost(k) = 0 /\ tears = 0
      BY DEF Init, Dealt, Cost
    <3>2. QED
      BY <3>1, FS_EmptySet
  <2>2. QED
    BY <2>1 DEF Credit
<1>4. QED
  BY <1>1, <1>2, <1>3 DEF Init, IndInv

\* What an append deals with is finite.
LEMMA DealtFinite ==
    ASSUME Finite, NEW k \in Keys
    PROVE  /\ IsFiniteSet(Dealt(k) \ Kept(k))
           /\ Cardinality(Dealt(k) \ Kept(k)) \in Nat
<1>1. CASE job # NoJob /\ job.key = k
  <2>1. IsFiniteSet(seen \cup job.all) /\ IsFiniteSet(acked[k])
    BY <1>1, FS_Union DEF Finite
  <2>2. IsFiniteSet(acked[k] \cup (seen \cup job.all))
    BY <2>1, FS_Union
  <2>3. Dealt(k) \ Kept(k) \subseteq acked[k] \cup (seen \cup job.all)
    BY DEF Dealt
  <2>4. IsFiniteSet(Dealt(k) \ Kept(k))
    BY <2>2, <2>3, FS_Subset
  <2>5. QED
    BY <2>4, FS_CardinalityType
<1>2. CASE ~(job # NoJob /\ job.key = k)
  <2>1. Dealt(k) \ Kept(k) \subseteq acked[k] /\ IsFiniteSet(acked[k])
    BY <1>2 DEF Dealt, Finite
  <2>2. IsFiniteSet(Dealt(k) \ Kept(k))
    BY <2>1, FS_Subset
  <2>3. QED
    BY <2>2, FS_CardinalityType
<1>3. QED
  BY <1>1, <1>2

\* A step that loses nothing of a key keeps its credit.
LEMMA CreditKept ==
    ASSUME IndInv, NEW k \in Keys,
           Dealt(k)' \ Kept(k)' \subseteq Dealt(k) \ Kept(k),
           Cost(k)' = Cost(k), tears' = tears
    PROVE  Cardinality(Dealt(k) \ Kept(k))' + Cost(k)' <= 2 * tears'
<1> DEFINE A == Dealt(k) \ Kept(k)
           B == Dealt(k)' \ Kept(k)'
<1>1. IsFiniteSet(A) /\ Cardinality(A) \in Nat
  BY DealtFinite DEF IndInv
<1>2. Cardinality(B) <= Cardinality(A) /\ Cardinality(B) \in Nat
  <2> HIDE DEF A, B
  <2>1. B \subseteq A
    BY DEF A, B
  <2>2. QED
    BY <1>1, <2>1, FS_Subset, FS_CardinalityType
<1>3. Cardinality(A) + Cost(k) <= 2 * tears /\ tears \in Nat /\ Cost(k) \in Nat
  BY DEF IndInv, Credit, TypeOK, Cost
<1>4. QED
  <2> HIDE DEF A, B
  <2>1. Cardinality(B) + Cost(k)' <= 2 * tears'
    BY <1>1, <1>2, <1>3
  <2>2. QED
    BY <2>1 DEF B

LEMMA BeginsKeeps ==
    ASSUME IndInv, NEW k \in Keys, AppendBegins(k)
    PROVE  IndInv'
<1> DEFINE p == PathOf(k)
<1>1. PICK b \in Batches(k) :
         /\ job' = [key |-> k, rest |-> b, all |-> {b[i] : i \in 1 .. Len(b)}]
         /\ job = NoJob /\ seen' = Uuids(p)
         /\ UNCHANGED <<file, open, acked, tears>>
  BY DEF AppendBegins
<1>2. b \in Seq(Entries) /\ b # <<>>
  BY EntriesAssumption
<1>3. p \in Paths /\ file[p] \in Seq(Line)
  BY PathsTyped DEF IndInv, TypeOK
<1>4. job' \in Job /\ job' # NoJob /\ IsFiniteSet(job'.all)
  BY <1>1, <1>2, RangeFinite, JobAssumption DEF Job
<1>5. seen' \subseteq Lines(p) /\ IsFiniteSet(seen') /\ seen' \in SUBSET (Entries \ Unkeyed)
  <2>1. IsFiniteSet(Lines(p))
    BY <1>3, RangeFinite DEF Lines
  <2>2. seen' \subseteq Lines(p)
    BY <1>1 DEF Uuids
  <2>3. QED
    BY <1>1, <2>1, <2>2, FS_Subset DEF Uuids
<1>6. TypeOK' /\ Finite'
  BY <1>1, <1>4, <1>5 DEF IndInv, TypeOK, Finite, Job
<1>7. SeenCovers' /\ NothingTwice'
  BY <1>1 DEF IndInv, SeenCovers, NothingTwice, Uuids, Lines
<1>8. ASSUME NEW l \in Keys
      PROVE  Cardinality(Dealt(l) \ Kept(l))' + Cost(l)' <= 2 * tears'
  <2>1. Kept(l)' = Kept(l) /\ Cost(l)' = Cost(l) /\ tears' = tears
    BY <1>1 DEF Kept, Lines, Cost
  <2>2. Dealt(l) = acked[l]
    BY <1>1 DEF Dealt
  <2>3. job'.all = {job'.rest[i] : i \in 1 .. Len(job'.rest)} /\ job'.key = k
    BY <1>1
  <2>4. Dealt(l)' \subseteq acked[l] \cup Kept(l)
    BY <1>1, <1>5, <2>3 DEF Dealt, Kept
  <2>5. QED
    BY <2>1, <2>2, <2>4, CreditKept
<1>9. (\A q \in open : file[q] # <<>>)'
  BY <1>1 DEF IndInv
<1>10. QED
  BY <1>6, <1>7, <1>8, <1>9 DEF IndInv, Credit

LEMMA ReturnsKeeps ==
    ASSUME IndInv, AppendReturns
    PROVE  IndInv'
<1>1. job # NoJob /\ job \in Job /\ job.key \in Keys /\ job.all \in SUBSET Entries
  BY DEF AppendReturns, IndInv, TypeOK, Job
<1>2. /\ job.rest = <<>> /\ job' = NoJob /\ seen' = {}
      /\ acked' = [acked EXCEPT ![job.key] = @ \cup job.all]
      /\ UNCHANGED <<file, open, tears>>
  BY DEF AppendReturns
<1>3. acked \in [Keys -> SUBSET Entries]
  BY DEF IndInv, TypeOK
<1>4. TypeOK'
  BY <1>1, <1>2 DEF IndInv, TypeOK
<1>5. Finite'
  <2>1. IsFiniteSet(acked[job.key] \cup job.all)
    BY <1>1, FS_Union DEF IndInv, Finite
  <2>2. QED
    BY <1>1, <1>2, <1>3, <2>1, FS_EmptySet DEF IndInv, Finite
<1>6. SeenCovers' /\ NothingTwice'
  BY <1>2 DEF IndInv, SeenCovers, NothingTwice
<1>7. ASSUME NEW l \in Keys
      PROVE  Cardinality(Dealt(l) \ Kept(l))' + Cost(l)' <= 2 * tears'
  <2>1. Kept(l)' = Kept(l) /\ Cost(l)' = Cost(l) /\ tears' = tears
    BY <1>2 DEF Kept, Lines, Cost
  <2>2. {job.rest[i] : i \in 1 .. Len(job.rest)} = {}
    BY <1>2
  <2>3. Dealt(l)' \subseteq Dealt(l)
    BY <1>1, <1>2, <1>3, <2>2 DEF Dealt
  <2>4. QED
    BY <2>1, <2>3, CreditKept
<1>8. (\A q \in open : file[q] # <<>>)'
  BY <1>2 DEF IndInv
<1>9. QED
  BY <1>4, <1>5, <1>6, <1>7, <1>8 DEF IndInv, Credit

\* A step that loses two entries of a key at most pays for them, with the
\* reserve of its file or with a torn write.
LEMMA CreditSpent ==
    ASSUME IndInv, NEW k \in Keys, NEW x, NEW y, tears' \in Nat,
           \/ /\ Dealt(k)' \ Kept(k)' \subseteq Dealt(k) \ Kept(k)
              /\ Cost(k)' + 2 * tears <= Cost(k) + 2 * tears'
           \/ /\ Dealt(k)' \ Kept(k)' \subseteq (Dealt(k) \ Kept(k)) \cup {x, y}
              /\ Cost(k)' + 2 + 2 * tears <= Cost(k) + 2 * tears'
    PROVE  Cardinality(Dealt(k) \ Kept(k))' + Cost(k)' <= 2 * tears'
<1> DEFINE A == Dealt(k) \ Kept(k)
           B == Dealt(k)' \ Kept(k)'
<1>1. IsFiniteSet(A)
  BY DealtFinite DEF IndInv
<1>2. B \subseteq A \cup {x, y}
  OBVIOUS
<1>3. Cardinality(A) + Cost(k) <= 2 * tears /\ tears \in Nat
      /\ Cost(k) \in Nat /\ Cost(k)' \in Nat
  BY DEF IndInv, Credit, TypeOK, Cost
<1>4. \/ B \subseteq A /\ Cost(k)' + 2 * tears <= Cost(k) + 2 * tears'
      \/ Cost(k)' + 2 + 2 * tears <= Cost(k) + 2 * tears'
  OBVIOUS
<1>5. Cardinality(B) + Cost(k)' <= 2 * tears'
  <2> HIDE DEF A, B
  <2>1. /\ Cardinality(A) \in Nat /\ Cardinality(B) \in Nat
        /\ Cardinality(B) <= Cardinality(A) + 2
        /\ B \subseteq A => Cardinality(B) <= Cardinality(A)
    BY <1>1, <1>2, GrowsByTwo
  <2>2. QED
    BY <1>3, <1>4, <2>1
<1>6. QED
  BY <1>5

\* The append under way and the file it writes to.
LEMMA JobTyped ==
    ASSUME IndInv, job # NoJob, job.rest # <<>>
    PROVE  /\ job \in Job /\ job.key \in Keys /\ PathOf(job.key) \in Paths
           /\ Head(job.rest) \in Entries /\ Tail(job.rest) \in Seq(Entries)
           /\ {job.rest[i] : i \in 1 .. Len(job.rest)} =
                 {Head(job.rest)} \cup
                 {Tail(job.rest)[i] : i \in 1 .. Len(Tail(job.rest))}
           /\ file \in [Paths -> Seq(Line)] /\ open \in SUBSET Paths /\ tears \in Nat
           /\ PathOf(job.key) \in open => file[PathOf(job.key)] # <<>>
           /\ Head(job.rest) \in Unkeyed \/ Head(job.rest) \in seen
              \/ Head(job.rest) \notin Lines(PathOf(job.key))
<1> DEFINE r == job.rest
<1>1. job \in Job /\ job.key \in Keys /\ r \in Seq(Entries) /\ PathOf(job.key) \in Paths
  BY PathsTyped DEF IndInv, TypeOK, Job
<1>2. Head(r) \in Entries /\ Tail(r) \in Seq(Entries)
  BY <1>1, HeadTailProperties
<1>3. {r[i] : i \in 1 .. Len(r)} = {Head(r)} \cup {Tail(r)[i] : i \in 1 .. Len(Tail(r))}
  <2> HIDE DEF r
  <2>1. /\ Len(r) \in Nat /\ Len(r) >= 1 /\ Len(Tail(r)) = Len(r) - 1
        /\ Head(r) = r[1] /\ \A i \in 1 .. Len(Tail(r)) : Tail(r)[i] = r[i + 1]
    BY <1>1, EmptySeq, HeadTailProperties DEF r
  <2>2. \A i \in 1 .. Len(r) : i = 1 \/ ((i - 1) \in 1 .. Len(Tail(r)) /\ Tail(r)[i - 1] = r[i])
    BY <2>1
  <2>3. \A i \in 1 .. Len(Tail(r)) : (i + 1) \in 1 .. Len(r)
    BY <2>1
  <2>4. 1 \in 1 .. Len(r)
    BY <2>1
  <2>5. {r[i] : i \in 1 .. Len(r)} \subseteq
           {Head(r)} \cup {Tail(r)[i] : i \in 1 .. Len(Tail(r))}
    BY <2>1, <2>2
  <2>6. {Tail(r)[i] : i \in 1 .. Len(Tail(r))} \subseteq {r[i] : i \in 1 .. Len(r)}
    BY <2>1, <2>3
  <2>7. Head(r) \in {r[i] : i \in 1 .. Len(r)}
    BY <2>1, <2>4
  <2>8. QED
    BY <2>5, <2>6, <2>7
<1>4. file \in [Paths -> Seq(Line)] /\ open \in SUBSET Paths /\ tears \in Nat
      /\ (PathOf(job.key) \in open => file[PathOf(job.key)] # <<>>)
  BY DEF IndInv, TypeOK
<1>5. Head(r) \in Unkeyed \/ Head(r) \in seen \/ Head(r) \notin Lines(PathOf(job.key))
  BY <1>2 DEF IndInv, SeenCovers, Uuids
<1>6. QED
  BY <1>1, <1>2, <1>3, <1>4, <1>5

LEMMA WriteKeeps ==
    ASSUME IndInv, WriteEntry
    PROVE  IndInv'
<1>0. PICK k \in Keys, e \in Entries, p \in Paths :
         k = job.key /\ e = Head(job.rest) /\ p = PathOf(k)
  BY JobTyped DEF WriteEntry
<1> USE <1>0
<1>1. /\ job # NoJob /\ job.rest # <<>>
      /\ job' = [job EXCEPT !.rest = Tail(@)]
      /\ acked' = acked /\ tears' = tears
  BY DEF WriteEntry
<1>2. /\ job \in Job /\ k \in Keys /\ p \in Paths
      /\ e \in Entries /\ Tail(job.rest) \in Seq(Entries)
      /\ file \in [Paths -> Seq(Line)] /\ open \in SUBSET Paths /\ tears \in Nat
      /\ p \in open => file[p] # <<>>
      /\ e \in Unkeyed \/ e \in seen \/ e \notin Lines(p)
  BY <1>1, JobTyped
<1>3. {job.rest[i] : i \in 1 .. Len(job.rest)} =
         {e} \cup {Tail(job.rest)[i] : i \in 1 .. Len(Tail(job.rest))}
  BY <1>1, JobTyped
<1>4. job' \in Job /\ job' # NoJob /\ job'.key = k /\ job'.all = job.all
      /\ job'.rest = Tail(job.rest)
  BY <1>1, <1>2, JobAssumption DEF Job
<1>5. seen' \subseteq seen \cup {e} /\ seen' \in SUBSET (Entries \ Unkeyed)
      /\ IsFiniteSet(seen')
  <2>1. seen' = seen \/ (e \notin Unkeyed /\ seen' = seen \cup {e})
    BY DEF WriteEntry
  <2>2. IsFiniteSet(seen) /\ seen \in SUBSET (Entries \ Unkeyed)
    BY DEF IndInv, Finite, TypeOK
  <2>3. IsFiniteSet(seen \cup {e})
    BY <2>2, FS_AddElement
  <2>4. QED
    BY <1>2, <2>1, <2>2, <2>3
<1>6. Finite'
  BY <1>1, <1>4, <1>5 DEF IndInv, Finite
<1>7. ASSUME NEW l \in Keys
      PROVE  /\ Dealt(l)' \subseteq Dealt(l) \cup {e}
             /\ e \in seen \/ l # k => Dealt(l)' \subseteq Dealt(l)
  BY <1>1, <1>3, <1>4, <1>5 DEF Dealt
<1>8. CASE e \in seen
  <2>1. UNCHANGED <<file, open, seen>>
    BY <1>8 DEF WriteEntry
  <2>2. TypeOK' /\ NothingTwice' /\ SeenCovers' /\ (\A q \in open : file[q] # <<>>)'
    BY <1>1, <1>4, <2>1
       DEF IndInv, TypeOK, NothingTwice, SeenCovers, Uuids, Lines
  <2>3. ASSUME NEW l \in Keys
        PROVE  Cardinality(Dealt(l) \ Kept(l))' + Cost(l)' <= 2 * tears'
    <3>1. Kept(l)' = Kept(l) /\ Cost(l)' = Cost(l)
      BY <2>1 DEF Kept, Lines, Cost
    <3>2. QED
      BY <1>1, <1>7, <1>8, <3>1, CreditKept
  <2>4. QED
    BY <1>6, <2>2, <2>3 DEF IndInv, Credit
<1>9. CASE e \notin seen
  <2>1. /\ file' = [file EXCEPT ![p] = Written(p, e)] /\ open' = open \ {p}
        /\ seen' = IF e \in Unkeyed THEN seen ELSE seen \cup {e}
    BY <1>9 DEF WriteEntry
  <2>2. e \in Line
    BY <1>2 DEF Line
  <2>3. /\ file' \in [Paths -> Seq(Line)] /\ file'[p] # <<>>
        /\ \A q \in Paths : q # p => file'[q] = file[q]
        /\ Lines(p)' \cap Entries \subseteq Lines(p) \cup {e}
        /\ p \notin open => Lines(p) \cup {e} \subseteq Lines(p)'
        /\ p \in open => Lines(p) \cap Entries \subseteq
                            Lines(p)' \cup {file[p][Len(file[p])]}
    <3>1. file' = [file EXCEPT ![p] = Written(p, e)] /\ (p \in open => file[p] # <<>>)
      BY <1>2, <2>1
    <3>2. /\ file' \in [Paths -> Seq(Line)] /\ file'[p] # <<>>
          /\ \A q \in Paths : q # p => file'[q] = file[q]
          /\ Lines(p)' \cap Entries \subseteq Lines(p) \cup {e}
          /\ p \notin open => Lines(p) \cup {e} \subseteq Lines(p)'
          /\ p \in open => /\ Lines(p)' \cap Entries \subseteq Lines(p)
                           /\ Lines(p) \cap Entries \subseteq
                                 Lines(p)' \cup {file[p][Len(file[p])]}
      <4> HIDE <1>0
      <4>1. QED
        BY <1>2, <2>2, <3>1, WrittenEntries
    <3>3. QED
      BY <3>2
  <2>4. NothingTwice'
    BY <1>2, <1>9, <2>1, <2>2, WrittenOnce DEF IndInv
  <2>5. SeenCovers'
    <3>1. PathOf(job.key)' = p
      BY <1>4
    <3>2. Uuids(p)' \subseteq (Uuids(p) \cup {e}) \cap (Entries \ Unkeyed)
      BY <2>3 DEF Uuids
    <3>3. Uuids(p) \subseteq seen
      BY <1>1 DEF IndInv, SeenCovers
    <3>4. Uuids(p)' \subseteq seen'
      BY <2>1, <3>2, <3>3
    <3>5. QED
      BY <3>1, <3>4 DEF SeenCovers
  <2>6. TypeOK'
    BY <1>1, <1>4, <1>5, <2>1, <2>3 DEF IndInv, TypeOK
  <2>7. (\A q \in open : file[q] # <<>>)'
    BY <1>2, <2>1, <2>3 DEF IndInv
  <2>8. ASSUME NEW l \in Keys
        PROVE  Cardinality(Dealt(l) \ Kept(l))' + Cost(l)' <= 2 * tears'
    <3>1. CASE l # k
      <4>1. PathOf(l) # p /\ PathOf(l) \in Paths
        BY <1>2, <3>1, PathsApart, PathsTyped
      <4>2. Kept(l)' = Kept(l) /\ Cost(l)' = Cost(l)
        BY <2>1, <2>3, <4>1 DEF Kept, Lines, Cost
      <4>3. QED
        BY <1>1, <1>7, <3>1, <4>2, CreditKept
    <3>2. CASE l = k /\ p \notin open
      <4>1. Kept(l) \cup {e} \subseteq Kept(l)' /\ Cost(l)' = Cost(l)
        BY <1>2, <2>1, <2>3, <3>2 DEF Kept, Cost
      <4>2. Dealt(l)' \ Kept(l)' \subseteq Dealt(l) \ Kept(l)
        BY <1>7, <4>1
      <4>3. QED
        BY <1>1, <4>1, <4>2, CreditKept
    <3>3. CASE l = k /\ p \in open
      <4> PICK last : last = file[p][Len(file[p])]
        OBVIOUS
      <4>1. Cost(l) = 2 /\ Cost(l)' = 0
        BY <2>1, <3>3 DEF Cost
      <4>2. Kept(l) \subseteq Kept(l)' \cup {last}
        BY <2>3, <3>3 DEF Kept
      <4>3. Dealt(l)' \ Kept(l)' \subseteq (Dealt(l) \ Kept(l)) \cup {e, last}
        BY <1>7, <4>2
      <4>4. tears' \in Nat /\ Cost(l)' + 2 + 2 * tears <= Cost(l) + 2 * tears'
        BY <1>1, <1>2, <4>1
      <4>5. QED
        BY <4>3, <4>4, CreditSpent
    <3>4. QED
      BY <3>1, <3>2, <3>3
  <2>9. QED
    BY <1>6, <2>4, <2>5, <2>6, <2>7, <2>8 DEF IndInv, Credit
<1>10. QED
  BY <1>8, <1>9

LEMMA TearsKeeps ==
    ASSUME IndInv, WriteTears
    PROVE  IndInv'
<1>0. PICK k \in Keys, e \in Entries, p \in Paths :
         k = job.key /\ e = Head(job.rest) /\ p = PathOf(k)
  BY JobTyped DEF WriteTears
<1> USE <1>0
<1>1. /\ job # NoJob /\ job.rest # <<>> /\ e \notin seen
      /\ job' = NoJob /\ seen' = {} /\ acked' = acked /\ tears' = tears + 1
  BY DEF WriteTears
<1>2. /\ k \in Keys /\ p \in Paths /\ e \in Entries
      /\ file \in [Paths -> Seq(Line)] /\ open \in SUBSET Paths /\ tears \in Nat
      /\ p \in open => file[p] # <<>>
      /\ e \in Unkeyed \/ e \in seen \/ e \notin Lines(p)
  BY <1>1, JobTyped
<1>3. Finite' /\ SeenCovers'
  BY <1>1, FS_EmptySet DEF IndInv, Finite, SeenCovers
<1>4. \A l \in Keys : Dealt(l)' \subseteq Dealt(l)
  BY <1>1 DEF Dealt
<1>5. CASE UNCHANGED <<file, open>>
  <2>1. TypeOK' /\ NothingTwice' /\ (\A q \in open : file[q] # <<>>)'
    <3>1. TypeOK'
      BY <1>1, <1>2, <1>5 DEF IndInv, TypeOK
    <3>2. NothingTwice'
      BY <1>5 DEF IndInv, NothingTwice
    <3>3. QED
      BY <1>5, <3>1, <3>2 DEF IndInv
  <2>2. ASSUME NEW l \in Keys
        PROVE  Cardinality(Dealt(l) \ Kept(l))' + Cost(l)' <= 2 * tears'
    <3>1. Kept(l)' = Kept(l) /\ Cost(l)' = Cost(l) /\ Cost(l) \in Nat
      BY <1>5 DEF Kept, Lines, Cost
    <3>2. Dealt(l)' \ Kept(l)' \subseteq Dealt(l) \ Kept(l)
      BY <1>4, <3>1
    <3>3. tears' \in Nat /\ Cost(l)' + 2 * tears <= Cost(l) + 2 * tears'
      BY <1>1, <1>2, <3>1
    <3>4. QED
      BY <3>2, <3>3, CreditSpent
  <2>3. QED
    BY <1>3, <2>1, <2>2 DEF IndInv, Credit
<1>6. ASSUME NEW fragment \in {Garbage, Undecodable, e},
             file' = [file EXCEPT ![p] = Written(p, fragment)],
             open' = open \cup {p}
      PROVE  IndInv'
  <2>1. fragment \in Line
    BY <1>2 DEF Line
  <2>2. /\ file' \in [Paths -> Seq(Line)] /\ file'[p] # <<>>
        /\ \A q \in Paths : q # p => file'[q] = file[q]
        /\ p \notin open => Lines(p) \cup {fragment} \subseteq Lines(p)'
        /\ p \in open => Lines(p) \cap Entries \subseteq
                            Lines(p)' \cup {file[p][Len(file[p])]}
    BY <1>2, <1>6, <2>1, WrittenEntries
  <2>3. fragment \in Entries \ Unkeyed => fragment \notin Lines(p)
    BY <1>1, <1>2, EntriesAssumption
  <2>4. NothingTwice'
    BY <1>2, <1>6, <2>1, <2>3, WrittenOnce DEF IndInv
  <2>5. TypeOK' /\ (\A q \in open : file[q] # <<>>)'
    BY <1>1, <1>2, <1>6, <2>2 DEF IndInv, TypeOK
  <2>6. ASSUME NEW l \in Keys
        PROVE  Cardinality(Dealt(l) \ Kept(l))' + Cost(l)' <= 2 * tears'
    <3>0. tears' \in Nat /\ tears' = tears + 1 /\ tears \in Nat
      BY <1>1, <1>2
    <3>1. CASE l # k
      <4>1. PathOf(l) # p /\ PathOf(l) \in Paths
        BY <1>2, <3>1, PathsApart, PathsTyped
      <4>2. Kept(l)' = Kept(l) /\ Cost(l)' = Cost(l) /\ Cost(l) \in Nat
        BY <1>6, <2>2, <4>1 DEF Kept, Lines, Cost
      <4>3. Dealt(l)' \ Kept(l)' \subseteq Dealt(l) \ Kept(l)
        BY <1>4, <4>2
      <4>4. QED
        BY <3>0, <4>2, <4>3, CreditSpent
    <3>2. CASE l = k /\ p \notin open
      <4>1. Kept(l) \subseteq Kept(l)' /\ Cost(l) = 0 /\ Cost(l)' = 2
        BY <1>6, <2>2, <3>2 DEF Kept, Cost
      <4>2. Dealt(l)' \ Kept(l)' \subseteq Dealt(l) \ Kept(l)
        BY <1>4, <4>1
      <4>3. QED
        BY <3>0, <4>1, <4>2, CreditSpent
    <3>3. CASE l = k /\ p \in open
      <4> PICK last : last = file[p][Len(file[p])]
        OBVIOUS
      <4>1. Cost(l) = 2 /\ Cost(l)' = 2
        BY <1>6, <3>3 DEF Cost
      <4>2. Kept(l) \subseteq Kept(l)' \cup {last}
        BY <2>2, <3>3 DEF Kept
      <4>3. Dealt(l)' \ Kept(l)' \subseteq (Dealt(l) \ Kept(l)) \cup {e, last}
        BY <1>4, <4>2
      <4>4. Cost(l)' + 2 + 2 * tears <= Cost(l) + 2 * tears'
        BY <3>0, <4>1
      <4>5. QED
        BY <3>0, <4>3, <4>4, CreditSpent
    <3>4. QED
      BY <3>1, <3>2, <3>3
  <2>7. QED
    BY <1>3, <2>4, <2>5, <2>6 DEF IndInv, Credit
<1>7. QED
  BY <1>5, <1>6 DEF WriteTears

LEMMA DeleteKeeps ==
    ASSUME IndInv, NEW k \in Keys, Delete(k)
    PROVE  IndInv'
<1> DEFINE p == PathOf(k)
<1>1. /\ job = NoJob /\ UNCHANGED <<job, seen, tears>>
      /\ file' = [file EXCEPT ![p] = <<>>] /\ open' = open \ {p}
      /\ acked' = [l \in Keys |-> IF PathOf(l) = p THEN {} ELSE acked[l]]
  BY DEF Delete
<1>2. /\ file \in [Paths -> Seq(Line)] /\ acked \in [Keys -> SUBSET Entries]
      /\ p \in Paths /\ tears \in Nat
  BY PathsTyped DEF IndInv, TypeOK
<1>3. file' \in [Paths -> Seq(Line)] /\ file'[p] = <<>>
      /\ \A q \in Paths : q # p => file'[q] = file[q]
  BY <1>1, <1>2, EmptySeq
<1>4. TypeOK' /\ Finite' /\ SeenCovers'
  BY <1>1, <1>2, <1>3, FS_EmptySet DEF IndInv, TypeOK, Finite, SeenCovers
<1>5. NothingTwice' /\ (\A q \in open : file[q] # <<>>)'
  <2>1. Len(file'[p]) = 0
    BY <1>3, EmptySeq
  <2>2. NothingTwice'
    <3>1. ASSUME NEW q \in Paths, NEW i \in 1 .. Len(file'[q]), NEW j \in 1 .. Len(file'[q]),
                 file'[q][i] = file'[q][j], file'[q][i] \in Entries \ Unkeyed
          PROVE  i = j
      <4>1. q # p
        BY <2>1, <3>1
      <4>2. file'[q] = file[q]
        BY <1>3, <4>1
      <4>3. QED
        BY <3>1, <4>2 DEF IndInv, NothingTwice
    <3>2. QED
      BY <3>1 DEF NothingTwice
  <2>3. QED
    BY <1>1, <1>2, <1>3, <2>2 DEF IndInv, TypeOK
<1>6. ASSUME NEW l \in Keys
      PROVE  Cardinality(Dealt(l) \ Kept(l))' + Cost(l)' <= 2 * tears'
  <2>0. PathOf(l) \in Paths /\ Cost(l) \in Nat
    BY PathsTyped DEF Cost
  <2>1. CASE PathOf(l) = p
    <3>1. Dealt(l)' = {} /\ Cost(l)' = 0
      BY <1>1, <2>1 DEF Dealt, Cost
    <3>2. Dealt(l)' \ Kept(l)' \subseteq Dealt(l) \ Kept(l)
      BY <3>1
    <3>3. tears' \in Nat /\ Cost(l)' + 2 * tears <= Cost(l) + 2 * tears'
      BY <1>1, <1>2, <2>0, <3>1
    <3>4. QED
      BY <3>2, <3>3, CreditSpent
  <2>2. CASE PathOf(l) # p
    <3>1. Dealt(l)' = Dealt(l) /\ Cost(l)' = Cost(l) /\ Kept(l)' = Kept(l)
      BY <1>1, <1>3, <2>0, <2>2 DEF Dealt, Cost, Kept, Lines
    <3>2. QED
      BY <1>1, <3>1, CreditKept
  <2>3. QED
    BY <2>1, <2>2
<1>7. QED
  BY <1>4, <1>5, <1>6 DEF IndInv, Credit

LEMMA StepIndInv == IndInv /\ [Next]_vars => IndInv'
<1> SUFFICES ASSUME IndInv, [Next]_vars PROVE IndInv'
  OBVIOUS
<1>1. ASSUME NEW k \in Keys, AppendBegins(k) PROVE IndInv'
  BY <1>1, BeginsKeeps
<1>2. ASSUME NEW k \in Keys, Delete(k) PROVE IndInv'
  BY <1>2, DeleteKeeps
<1>3. CASE WriteEntry
  BY <1>3, WriteKeeps
<1>4. CASE AppendReturns
  BY <1>4, ReturnsKeeps
<1>5. CASE WriteTears
  BY <1>5, TearsKeeps
<1>6. CASE UNCHANGED vars
  BY <1>6 DEF vars, IndInv, TypeOK, Finite, SeenCovers, NothingTwice, Credit,
              Uuids, Lines, Dealt, Kept, Cost
<1>7. QED
  BY <1>1, <1>2, <1>3, <1>4, <1>5, <1>6 DEF Next

----------------------------------------------------------------------------
(* Theorems. *)

\* Whatever the SDK appends, repeats and deletes, and wherever a write stops,
\* the store is in a state of IndInv.
THEOREM StoreInvariance == Spec => []IndInv
<1>1. Init => IndInv
  BY InitIndInv
<1>2. IndInv /\ [Next]_vars => IndInv'
  BY StepIndInv
<1>3. QED
  BY <1>1, <1>2, PTL DEF Spec

\* load() returns no entry with a uuid twice, whatever was repeated or torn.
THEOREM NothingLoadedTwice == Spec => []NothingTwice
<1>1. IndInv => NothingTwice
  BY DEF IndInv
<1>2. QED
  BY <1>1, StoreInvariance, PTL

\* A torn write costs a transcript that can still be read two of the entries
\* mirrored to it, at most, and later appends cost it none.  One that cannot be
\* read is lost as a whole.
THEOREM LossIsBounded == Spec => []LossBounded
<1>1. IndInv => LossBounded
  <2> SUFFICES ASSUME IndInv, NEW k \in Keys, Readable(PathOf(k))
               PROVE  Cardinality(acked[k] \ Loaded(k)) <= 2 * tears
    BY DEF LossBounded
  <2>1. Loaded(k) = Kept(k)
    BY DEF Loaded
  <2>2. IsFiniteSet(Dealt(k) \ Kept(k)) /\ Cardinality(Dealt(k) \ Kept(k)) \in Nat
    BY DealtFinite DEF IndInv
  <2>3. acked[k] \ Loaded(k) \subseteq Dealt(k) \ Kept(k)
    BY <2>1 DEF Dealt
  <2>4. /\ IsFiniteSet(acked[k] \ Loaded(k))
        /\ Cardinality(acked[k] \ Loaded(k)) <= Cardinality(Dealt(k) \ Kept(k))
    BY <2>2, <2>3, FS_Subset
  <2>5. /\ Cardinality(Dealt(k) \ Kept(k)) + Cost(k) <= 2 * tears
        /\ Cost(k) \in Nat /\ tears \in Nat
    BY DEF IndInv, Credit, TypeOK, Cost
  <2>6. Cardinality(acked[k] \ Loaded(k)) \in Nat
    BY <2>4, FS_CardinalityType
  <2>7. QED
    BY <2>2, <2>4, <2>5, <2>6
<1>2. QED
  BY <1>1, StoreInvariance, PTL
=============================================================================
