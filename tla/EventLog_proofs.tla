---------------------------- MODULE EventLog_proofs ----------------------------
(***************************************************************************)
(* Proofs about the event log, for any memory, limits, filters, batches    *)
(* and clients: who follows the cursor misses nothing, and the file holds  *)
(* all that was appended.                                                  *)
(***************************************************************************)
EXTENDS EventLog, SequenceTheorems, FiniteSetTheorems, WellFoundedInduction, TLAPS

(* Sequences that are filtered. *)

\* Some numbers have a least one.
LEMMA LeastExists ==
    ASSUME NEW T \in SUBSET Nat, T # {}
    PROVE  \E x \in T : \A y \in T : x <= y
<1> DEFINE Below == {0 .. x : x \in T}
<1>1. Below \subseteq FiniteSubsetsOf(Nat) /\ Below # {}
  <2>1. \A x \in T : 0 .. x \in SUBSET Nat
    OBVIOUS
  <2>2. \A x \in T : IsFiniteSet(0 .. x)
    BY FS_Interval
  <2> QED
    BY <2>1, <2>2 DEF FiniteSubsetsOf
<1>2. PICK S \in Below : \A R \in Below : <<R, S>> \notin StrictSubsetOrdering(Nat)
  <2> HIDE DEF Below
  <2> QED
    BY <1>1, FS_StrictSubsetOrderingWellFounded, WFMin
<1>3. PICK x \in T : S = 0 .. x
  BY <1>2
<1>4. ASSUME NEW y \in T, y < x PROVE FALSE
  <2>1. 0 .. y \subseteq S /\ 0 .. y # S
    BY <1>3, <1>4
  <2>2. 0 .. y \subseteq Nat /\ S \subseteq Nat
    BY <1>3
  <2>3. <<0 .. y, S>> \in StrictSubsetOrdering(Nat)
    BY <2>1, <2>2 DEF StrictSubsetOrdering
  <2> QED
    BY <1>2, <2>3
<1> QED
  BY <1>4

\* What holds of zero, and of a number when it holds of the one before, holds
\* of all up to a bound.
LEMMA Upwards ==
    ASSUME NEW L \in Nat, NEW S \in SUBSET (0 .. L), 0 \in S,
           \A n \in 1 .. L : n - 1 \in S => n \in S
    PROVE  S = 0 .. L
<1> SUFFICES ASSUME (0 .. L) \ S # {} PROVE FALSE
  OBVIOUS
<1>1. (0 .. L) \ S \in SUBSET Nat
  OBVIOUS
<1>2. PICK x \in (0 .. L) \ S : \A y \in (0 .. L) \ S : x <= y
  BY <1>1, LeastExists
<1>3. x \in 1 .. L /\ x - 1 \in 0 .. L /\ ~(x <= x - 1)
  BY <1>2
<1> QED
  BY <1>2, <1>3

\* One step of Only's recursion.
Kept(es, S, k, n) ==
    IF n = 0 THEN <<>>
    ELSE IF es[n] \in S THEN Append(k[n - 1], es[n]) ELSE k[n - 1]
KeptBy(es, S, k) == [n \in 0 .. Len(es) |-> Kept(es, S, k, n)]

\* The recursive function exists.
LEMMA KeptExists ==
    ASSUME NEW X, NEW es \in Seq(X), NEW S
    PROVE  \E k : k = KeptBy(es, S, k)
<1> DEFINE L == Len(es)
           UpTo(m, k) == /\ k = [n \in 0 .. L |-> k[n]]
                         /\ \A n \in 0 .. m : k[n] = Kept(es, S, k, n)
           T == {m \in 0 .. L : \E k : UpTo(m, k)}
<1>0. L \in Nat
  OBVIOUS
<1>1. 0 \in T
  <2> DEFINE k == [n \in 0 .. L |-> <<>>]
  <2>1. \A n \in 0 .. 0 : k[n] = Kept(es, S, k, n)
    BY <1>0 DEF Kept
  <2>2. UpTo(0, k)
    BY <2>1
  <2> QED
    BY <1>0, <2>2
<1>2. ASSUME NEW m \in 1 .. L, m - 1 \in T PROVE m \in T
  <2>1. PICK k : UpTo(m - 1, k)
    BY <1>2
  <2> DEFINE h == [n \in 0 .. L |-> IF n = m THEN Kept(es, S, k, m) ELSE k[n]]
  <2>2. ASSUME NEW n \in 0 .. m PROVE h[n] = Kept(es, S, h, n)
    <3>1. n \in 0 .. L /\ m \in 0 .. L
      BY <1>0
    <3>2. n # 0 => n - 1 \in 0 .. L /\ n - 1 # m /\ h[n - 1] = k[n - 1]
      BY <1>0
    <3>3. Kept(es, S, h, n) = Kept(es, S, k, n)
      BY <3>2 DEF Kept
    <3>4. h[n] = IF n = m THEN Kept(es, S, k, m) ELSE k[n]
      BY <3>1
    <3>5. n # m => n \in 0 .. (m - 1)
      BY <1>0
    <3> HIDE DEF h
    <3> QED
      BY <2>1, <3>3, <3>4, <3>5
  <2>3. h = [n \in 0 .. L |-> h[n]]
    OBVIOUS
  <2>4. \E g : UpTo(m, g)
    BY <2>2, <2>3
  <2> HIDE DEF UpTo
  <2> QED
    BY <1>0, <2>4
<1>3. T = 0 .. L
  <2>1. T \in SUBSET (0 .. L)
    OBVIOUS
  <2> HIDE DEF T
  <2> QED
    BY <1>0, <1>1, <1>2, <2>1, Upwards
<1>4. PICK k : UpTo(L, k)
  BY <1>0, <1>3
<1> QED
  BY <1>4 DEF KeptBy

\* The elements of a sequence with one more, and their order.
LEMMA OneMore ==
    ASSUME NEW Y, NEW r \in Seq(Y), NEW e \in Y
    PROVE  /\ Append(r, e) \in Seq(Y)
           /\ Range(Append(r, e)) = Range(r) \cup {e}
           /\ Increasing(r) /\ (\A i \in DOMAIN r : r[i].index < e.index)
                => Increasing(Append(r, e))
<1> DEFINE a == Append(r, e)
<1>1. /\ a \in Seq(Y) /\ DOMAIN a = 1 .. (Len(r) + 1) /\ DOMAIN r = 1 .. Len(r)
      /\ Len(r) \in Nat
      /\ \A i \in 1 .. Len(r) : a[i] = r[i]
      /\ a[Len(r) + 1] = e
  OBVIOUS
<1> HIDE DEF a
<1>2. \A i \in DOMAIN a : i \in DOMAIN r \/ i = Len(r) + 1
  BY <1>1
<1>3. \A i \in DOMAIN r : i \in DOMAIN a
  BY <1>1
<1>4. Len(r) + 1 \in DOMAIN a
  BY <1>1
<1>5. Range(a) = Range(r) \cup {e}
  BY <1>1, <1>2, <1>3, <1>4 DEF Range
<1>6. ASSUME Increasing(r), \A i \in DOMAIN r : r[i].index < e.index
      PROVE  Increasing(a)
  <2> SUFFICES ASSUME NEW i \in DOMAIN a, NEW j \in DOMAIN a, i < j
               PROVE  a[i].index < a[j].index
    BY DEF Increasing
  <2>1. i \in DOMAIN r /\ a[i] = r[i]
    BY <1>1
  <2>2. CASE j \in DOMAIN r
    BY <1>1, <1>6, <2>1, <2>2 DEF Increasing
  <2>3. CASE j = Len(r) + 1
    BY <1>1, <1>6, <2>1, <2>3
  <2> QED
    BY <1>2, <2>2, <2>3
<1> QED
  BY <1>1, <1>5, <1>6 DEF a

\* What Only has kept of the first n elements.
KeptWell(X, es, S, n, r) ==
    /\ r \in Seq(X \cap S)
    /\ Range(r) = {es[j] : j \in 1 .. n} \cap S
    /\ Increasing(es) => Increasing(r)

LEMMA KeptStep ==
    ASSUME NEW X, NEW es \in Seq(X), NEW S, NEW n \in 1 .. Len(es), NEW r,
           KeptWell(X, es, S, n - 1, r)
    PROVE  KeptWell(X, es, S, n, IF es[n] \in S THEN Append(r, es[n]) ELSE r)
<1>1. /\ Len(es) \in Nat /\ n \in Nat /\ DOMAIN es = 1 .. Len(es) /\ es[n] \in X
      /\ \A j \in 1 .. (n - 1) : j \in DOMAIN es /\ j \in 1 .. n /\ j < n
      /\ \A j \in 1 .. n : j \in 1 .. (n - 1) \/ j = n
      /\ n \in 1 .. n /\ n \in DOMAIN es
  OBVIOUS
<1>2. CASE es[n] \in S
  <2> DEFINE a == Append(r, es[n])
  <2>1. r \in Seq(X \cap S) /\ es[n] \in X \cap S
    BY <1>1, <1>2 DEF KeptWell
  <2>2. a \in Seq(X \cap S)
    BY <2>1, OneMore
  <2>3. Range(a) = Range(r) \cup {es[n]}
    BY <2>1, OneMore
  <2>4. Increasing(es) => \A i \in DOMAIN r : r[i].index < es[n].index
    <3> SUFFICES ASSUME Increasing(es), NEW i \in DOMAIN r
                 PROVE  r[i].index < es[n].index
      OBVIOUS
    <3>1. PICK j \in 1 .. (n - 1) : es[j] = r[i]
      BY DEF KeptWell, Range
    <3> QED
      BY <1>1, <3>1 DEF Increasing
  <2>5. Increasing(es) => Increasing(a)
    BY <2>1, <2>4, OneMore DEF KeptWell
  <2> HIDE DEF a
  <2>6. Range(a) = {es[j] : j \in 1 .. n} \cap S
    <3>1. {es[j] : j \in 1 .. n} = {es[j] : j \in 1 .. (n - 1)} \cup {es[n]}
      BY <1>1
    <3> QED
      BY <1>2, <2>3, <3>1 DEF KeptWell
  <2>7. KeptWell(X, es, S, n, a)
    BY <2>2, <2>5, <2>6 DEF KeptWell
  <2> QED
    BY <1>2, <2>7 DEF a
<1>3. CASE es[n] \notin S
  <2>1. {es[j] : j \in 1 .. n} = {es[j] : j \in 1 .. (n - 1)} \cup {es[n]}
    BY <1>1
  <2>2. KeptWell(X, es, S, n, r)
    BY <1>3, <2>1 DEF KeptWell
  <2> QED
    BY <1>3, <2>2
<1> QED
  BY <1>2, <1>3

\* Of a sequence Only keeps what is in the set, in its order.
LEMMA OnlyKeeps ==
    ASSUME NEW X, NEW es \in Seq(X), NEW S
    PROVE  /\ Only(es, S) \in Seq(X \cap S)
           /\ Range(Only(es, S)) = Range(es) \cap S
           /\ Increasing(es) => Increasing(Only(es, S))
<1> DEFINE L == Len(es)
           k == CHOOSE h : h = KeptBy(es, S, h)
           T == {n \in 0 .. L : KeptWell(X, es, S, n, k[n])}
<1>0. L \in Nat /\ DOMAIN es = 1 .. L
  OBVIOUS
<1>1. k = KeptBy(es, S, k)
  BY KeptExists
<1>2. \A n \in 0 .. L : k[n] = Kept(es, S, k, n)
  <2> HIDE DEF k
  <2> QED
    BY <1>1 DEF KeptBy
<1>3. Only(es, S) = k[L]
  BY DEF Only, KeptBy, Kept
<1> HIDE DEF k
<1>4. 0 \in T
  <2>1. k[0] = <<>>
    BY <1>0, <1>2 DEF Kept
  <2>2. <<>> \in Seq(X \cap S) /\ DOMAIN <<>> = {}
    OBVIOUS
  <2>3. KeptWell(X, es, S, 0, <<>>)
    BY <2>2 DEF KeptWell, Increasing, Range
  <2> QED
    BY <1>0, <2>1, <2>3
<1>5. ASSUME NEW n \in 1 .. L, n - 1 \in T PROVE n \in T
  <2>1. KeptWell(X, es, S, n - 1, k[n - 1]) /\ n \in 0 .. L /\ n # 0
    BY <1>0, <1>5
  <2>2. k[n] = IF es[n] \in S THEN Append(k[n - 1], es[n]) ELSE k[n - 1]
    BY <1>2, <2>1 DEF Kept
  <2>3. KeptWell(X, es, S, n, IF es[n] \in S THEN Append(k[n - 1], es[n]) ELSE k[n - 1])
    BY <2>1, KeptStep
  <2> QED
    BY <2>1, <2>2, <2>3
<1>6. KeptWell(X, es, S, L, k[L])
  <2>1. T \in SUBSET (0 .. L)
    OBVIOUS
  <2>2. T = 0 .. L
    <3> HIDE DEF T
    <3> QED
      BY <1>0, <1>4, <1>5, <2>1, Upwards
  <2> QED
    BY <1>0, <2>2
<1> HIDE DEF L
<1> QED
  BY <1>0, <1>3, <1>6 DEF KeptWell, Range

----------------------------------------------------------------------------
(* What the log's operators return. *)

Lines == Event \cup {Torn}

\* A batch is a sequence of types.
LEMMA BatchType ==
    ASSUME NEW batch \in Batches
    PROVE  /\ batch \in Seq(Types) /\ Len(batch) \in Nat \ {0}
           /\ \A k \in 1 .. Len(batch) : batch[k] \in Types
<1>1. PICK m \in 1 .. MaxBatch : batch \in [1 .. m -> Types]
  BY DEF Batches
<1>2. m \in Nat \ {0}
  BY LimitsAssumption
<1> QED
  BY <1>1, <1>2

\* The events of a batch get the indices from the cursor on.
LEMMA NumberedType ==
    ASSUME NEW batch \in Batches, NEW n \in 0 .. Len(batch), TypeOK,
           cursor <= made, made + n <= MaxEvents
    PROVE  /\ Numbered(batch, n) \in Seq(Event) /\ Len(Numbered(batch, n)) = n
           /\ \A k \in 1 .. n : Numbered(batch, n)[k].index = cursor + k - 1
<1>1. /\ n \in Nat /\ cursor \in Nat /\ made \in Nat /\ MaxEvents \in Nat
      /\ \A k \in 1 .. n : batch[k] \in Types
  BY BatchType, LimitsAssumption DEF TypeOK
<1>2. \A k \in 1 .. n :
         [id |-> made + k, index |-> cursor + k - 1, type |-> batch[k]] \in Event
  BY <1>1 DEF Event
<1> QED
  BY <1>1, <1>2 DEF Numbered

LEMMA WrittenType ==
    ASSUME TypeOK, NEW es \in Seq(Event), NEW torn \in BOOLEAN
    PROVE  Written(es, torn) \in Seq(Lines) /\ LeftOpen(es, torn) \in BOOLEAN
<1>1. file \in Seq(Lines) /\ es \in Seq(Lines)
  BY SeqMonotonic DEF TypeOK, Lines
<1>2. es # <<>> => Tail(es) \in Seq(Lines)
  BY <1>1
<1>3. <<Torn>> \in Seq(Lines) /\ <<>> \in Seq(Lines)
  BY DEF Lines
<1>4. (IF openLine /\ es # <<>> THEN Tail(es) ELSE es) \in Seq(Lines)
  BY <1>1, <1>2
<1>5. (IF torn /\ ~(openLine /\ es = <<>>) THEN <<Torn>> ELSE <<>>) \in Seq(Lines)
  BY <1>3
<1>6. Written(es, torn) \in Seq(Lines)
  BY <1>1, <1>4, <1>5, ConcatProperties DEF Written
<1> QED
  BY <1>6 DEF LeftOpen

\* The memory holds the newest of what it held.
EndOf(es, all) ==
    /\ Len(es) <= Len(all)
    /\ \A i \in 1 .. Len(es) : es[i] = all[i + (Len(all) - Len(es))]

LEMMA TrimmedIsEnd ==
    ASSUME NEW X, NEW es \in Seq(X)
    PROVE  Trimmed(es) \in Seq(X) /\ EndOf(Trimmed(es), es)
<1>1. Len(es) \in Nat /\ MemoryLimit \in Nat \ {0} /\ \A i \in 1 .. Len(es) : es[i] \in X
  BY LimitsAssumption
<1>2. CASE Len(es) > MemoryLimit
  <2> DEFINE m == Len(es) - MemoryLimit + 1
             t == SubSeq(es, m, Len(es))
  <2>1. m \in Int /\ Len(es) \in Int /\ \A i \in m .. Len(es) : es[i] \in X
    BY <1>1, <1>2
  <2>2. m <= Len(es) /\ Len(es) - m + 1 = MemoryLimit /\ Len(es) - MemoryLimit = m - 1
    BY <1>1, <1>2
  <2> HIDE DEF m
  <2>3. t \in Seq(X) /\ Len(t) = MemoryLimit /\ \A i \in 1 .. MemoryLimit : t[i] = es[m + i - 1]
    BY <2>1, <2>2, SubSeqProperties
  <2>4. Trimmed(es) = t
    BY <1>2 DEF Trimmed, m
  <2> HIDE DEF t
  <2>5. \A i \in 1 .. MemoryLimit : i + (Len(es) - MemoryLimit) = m + i - 1
    BY <1>1, <2>1, <2>2
  <2>6. EndOf(t, es)
    <3>1. \A i \in 1 .. Len(t) : t[i] = es[i + (Len(es) - Len(t))]
      BY <2>3, <2>5
    <3> QED
      BY <1>1, <1>2, <2>3, <3>1 DEF EndOf
  <2> QED
    BY <2>3, <2>4, <2>6
<1>3. CASE ~(Len(es) > MemoryLimit)
  BY <1>1, <1>3 DEF Trimmed, EndOf
<1> QED
  BY <1>2, <1>3

\* What a poll selects: the events past the cursor it was given and below the
\* one it returns.
LEMMA SelectedWell ==
    ASSUME TypeOK, NEW c \in Nat, NEW limit \in Nat \ {0}, NEW include
    PROVE  LET selected == Selected(c, limit, include)
               next == NextCursor(c, selected)
           IN  /\ selected \in Seq(Event)
               /\ next \in Nat /\ c <= next
               /\ next = c \/ next <= MaxEvents
               /\ Increasing(From(c)) =>
                     /\ Increasing(selected)
                     /\ Range(selected) =
                          {e \in Range(From(c)) \cap Event :
                              c <= e.index /\ e.index < next /\ e.type \in include}
<1> DEFINE S == {e \in Event : e.index >= c /\ e.type \in include}
           found == Only(From(c), S)
           n == IF Len(found) > limit THEN limit ELSE Len(found)
           sel == SubSeq(found, 1, n)
           next == NextCursor(c, sel)
<1>1. From(c) \in Seq(Lines)
  BY SeqMonotonic DEF TypeOK, From, Lines
<1>2. /\ found \in Seq(Lines \cap S) /\ Range(found) = Range(From(c)) \cap S
      /\ Increasing(From(c)) => Increasing(found)
  <2> HIDE DEF S
  <2> QED
    BY <1>1, OnlyKeeps
<1>3. found \in Seq(S)
  <2>1. Lines \cap S = S
    BY DEF Lines
  <2> QED
    BY <1>2, <2>1
<1>4. Selected(c, limit, include) = sel
  BY DEF Selected
<1> HIDE DEF found
<1>5. /\ Len(found) \in Nat /\ n \in Nat /\ n <= Len(found) /\ DOMAIN found = 1 .. Len(found)
      /\ \A i \in 1 .. n : found[i] \in S
      /\ n = 0 => Len(found) = 0
  <2> HIDE DEF S
  <2> QED
    BY <1>3
<1>6. sel \in Seq(S) /\ Len(sel) = n /\ \A i \in 1 .. n : sel[i] = found[i]
  <2> HIDE DEF S, n
  <2>1. n >= 1 => n - 1 + 1 = n
    BY <1>5
  <2>2. \A i \in 1 .. n : 1 + i - 1 = i
    BY <1>5
  <2>3. /\ sel \in Seq(S) /\ Len(sel) = IF 1 <= n THEN n - 1 + 1 ELSE 0
        /\ \A i \in 1 .. (n - 1 + 1) : sel[i] = found[1 + i - 1]
    BY <1>5, SubSeqProperties
  <2> QED
    BY <1>5, <2>1, <2>2, <2>3
<1> HIDE DEF n, sel
<1>7. \A e \in S : e \in Event /\ e.index \in Nat /\ e.index < MaxEvents /\ c <= e.index
  BY LimitsAssumption DEF Event
<1>8. sel \in Seq(Event)
  <2>1. S \subseteq Event
    OBVIOUS
  <2> QED
    BY <1>6, <2>1, SeqMonotonic
<1>9. CASE n = 0
  <2>1. sel = <<>> /\ found = <<>> /\ next = c
    <3>1. sel = <<>> /\ found = <<>>
      BY <1>3, <1>5, <1>6, <1>9
    <3> QED
      BY <3>1 DEF NextCursor
  <2>2. Increasing(sel) /\ Range(sel) = {}
    BY <2>1 DEF Increasing, Range
  <2>3. {e \in Range(From(c)) \cap Event :
            c <= e.index /\ e.index < next /\ e.type \in include} = {}
    <3>1. \A e \in Event : e.index \in Nat
      BY LimitsAssumption DEF Event
    <3> QED
      BY <2>1, <3>1
  <2> QED
    BY <1>4, <1>8, <2>1, <2>2, <2>3
<1>10. CASE n # 0
  <2>1. next = found[n].index + 1 /\ found[n] \in S /\ n \in DOMAIN found
    <3>1. sel # <<>> /\ n \in 1 .. n /\ sel[n] = found[n]
      BY <1>5, <1>6, <1>10
    <3>2. next = found[n].index + 1
      BY <1>6, <3>1 DEF NextCursor
    <3> QED
      BY <1>5, <3>1, <3>2
  <2> HIDE DEF next
  <2>2. next \in Nat /\ c <= next /\ next <= MaxEvents /\ found[n].index \in Nat
    BY <1>7, <2>1, LimitsAssumption
  <2>3. ASSUME Increasing(found) PROVE Increasing(sel)
    <3>1. DOMAIN sel = 1 .. n
      BY <1>6
    <3>2. \A i \in 1 .. n : i \in DOMAIN found
      BY <1>5
    <3> QED
      BY <1>6, <2>3, <3>1, <3>2 DEF Increasing
  <2>4. ASSUME Increasing(found)
        PROVE  Range(sel) = {e \in Range(found) : e.index < next}
    <3>1. DOMAIN sel = 1 .. n /\ \A i \in 1 .. n : i \in DOMAIN found
      BY <1>5, <1>6
    <3>2. \A i \in DOMAIN found : found[i].index \in Nat
      BY <1>3, <1>5, <1>7
    <3>3. \A i \in 1 .. n : found[i].index < next
      <4>1. \A i \in 1 .. n : i < n \/ i = n
        BY <1>5
      <4> QED
        BY <2>1, <2>2, <2>4, <3>1, <3>2, <4>1 DEF Increasing
    <3>4. \A i \in DOMAIN found : found[i].index < next => i \in 1 .. n
      <4>1. \A i \in DOMAIN found : i \in 1 .. n \/ n < i
        BY <1>5
      <4> QED
        BY <2>1, <2>2, <2>4, <3>1, <3>2, <4>1 DEF Increasing
    <3> QED
      BY <1>6, <3>1, <3>3, <3>4 DEF Range
  <2>5. {e \in Range(found) : e.index < next} =
          {e \in Range(From(c)) \cap Event :
              c <= e.index /\ e.index < next /\ e.type \in include}
    <3>1. \A e \in Event : e.index >= c <=> c <= e.index
      BY LimitsAssumption DEF Event
    <3> QED
      BY <1>2, <3>1
  <2> QED
    BY <1>2, <1>4, <1>8, <2>2, <2>3, <2>4, <2>5 DEF next
<1> QED
  BY <1>9, <1>10

----------------------------------------------------------------------------
(* The types. *)

Typed == TypeOK /\ cursor <= made

LEMMA AppendTyped ==
    ASSUME Typed, NEW batch \in Batches, LogAppend(batch)
    PROVE  Typed'
<1> DEFINE new == Numbered(batch, Len(batch))
<1>1. /\ cursor \in Nat /\ made \in Nat /\ cursor <= made /\ MaxEvents \in Nat
      /\ Len(batch) \in Nat /\ made + Len(batch) <= MaxEvents /\ TypeOK
      /\ Len(batch) \in 0 .. Len(batch)
  BY BatchType, LimitsAssumption DEF Typed, TypeOK, LogAppend
<1>2. new \in Seq(Event)
  BY <1>1, NumberedType
<1> HIDE DEF new
<1>3. /\ events' = Trimmed(events \o new) /\ committed' = committed \o new
      /\ file' = Written(new, FALSE) /\ openLine' = LeftOpen(new, FALSE)
      /\ cursor' = cursor + Len(batch) /\ made' = made + Len(batch)
      /\ UNCHANGED <<up, failures, position, got, start>>
  BY DEF LogAppend, new
<1>4. events' \in Seq(Event) /\ committed' \in Seq(Event)
  <2>1. events \o new \in Seq(Event) /\ committed \o new \in Seq(Event)
    BY <1>1, <1>2, ConcatProperties DEF TypeOK
  <2> QED
    BY <1>3, <2>1, TrimmedIsEnd
<1>5. file' \in Seq(Lines) /\ openLine' \in BOOLEAN
  BY <1>1, <1>2, <1>3, WrittenType
<1>6. cursor' \in 0 .. MaxEvents /\ made' \in 0 .. MaxEvents /\ cursor' <= made'
  BY <1>1, <1>3
<1> QED
  BY <1>1, <1>3, <1>4, <1>5, <1>6 DEF Typed, TypeOK, Lines

LEMMA FailureTyped ==
    ASSUME Typed, NEW batch \in Batches, NEW n \in 0 .. (Len(batch) - 1),
           NEW torn \in BOOLEAN, AppendFails(batch, n, torn)
    PROVE  Typed'
<1> DEFINE new == Numbered(batch, n)
           more == Numbered(batch, n + 1)
<1>1. /\ cursor \in Nat /\ made \in Nat /\ cursor <= made /\ MaxEvents \in Nat
      /\ n \in Nat /\ made + (n + 1) <= MaxEvents /\ made + n <= MaxEvents /\ TypeOK
      /\ n \in 0 .. Len(batch) /\ n + 1 \in 0 .. Len(batch)
  BY BatchType, LimitsAssumption DEF Typed, TypeOK, AppendFails
<1>2. new \in Seq(Event) /\ more \in Seq(Event)
  BY <1>1, NumberedType
<1> HIDE DEF new, more
<1>3. /\ events' = events \o more /\ committed' = committed \o new
      /\ file' = Written(new, torn) /\ openLine' = LeftOpen(new, torn)
      /\ cursor' = cursor + n /\ made' = made + n + 1
      /\ failures < MaxFailures /\ failures' = failures + 1
      /\ UNCHANGED <<up, position, got, start>>
  BY DEF AppendFails, new, more
<1>4. events' \in Seq(Event) /\ committed' \in Seq(Event)
  BY <1>1, <1>2, <1>3, ConcatProperties DEF TypeOK
<1>5. file' \in Seq(Lines) /\ openLine' \in BOOLEAN
  BY <1>1, <1>2, <1>3, WrittenType
<1>6. /\ cursor' \in 0 .. MaxEvents /\ made' \in 0 .. MaxEvents /\ cursor' <= made'
      /\ failures' \in 0 .. MaxFailures
  BY <1>1, <1>3, LimitsAssumption DEF TypeOK
<1> QED
  BY <1>1, <1>3, <1>4, <1>5, <1>6 DEF Typed, TypeOK, Lines

LEMMA CrashTyped ==
    ASSUME Typed, NEW batch \in Batches, NEW n \in 0 .. (Len(batch) - 1),
           NEW torn \in BOOLEAN, Crash(batch, n, torn)
    PROVE  Typed'
<1> DEFINE new == Numbered(batch, n)
<1>1. /\ cursor \in Nat /\ made \in Nat /\ cursor <= made /\ MaxEvents \in Nat
      /\ n \in Nat /\ made + n <= MaxEvents /\ TypeOK /\ n \in 0 .. Len(batch)
  BY BatchType, LimitsAssumption DEF Typed, TypeOK, Crash
<1>2. new \in Seq(Event)
  BY <1>1, NumberedType
<1> HIDE DEF new
<1>3. /\ events' = <<>> /\ up' = FALSE
      /\ file' = Written(new, torn) /\ openLine' = LeftOpen(new, torn)
      /\ made' = made + n
      /\ UNCHANGED <<cursor, committed, failures, position, got, start>>
  BY DEF Crash, new
<1>4. events' \in Seq(Event)
  BY <1>3
<1>5. file' \in Seq(Lines) /\ openLine' \in BOOLEAN /\ up' \in BOOLEAN
  BY <1>1, <1>2, <1>3, WrittenType
<1>6. made' \in 0 .. MaxEvents /\ cursor' <= made'
  BY <1>1, <1>3
<1> QED
  BY <1>1, <1>3, <1>4, <1>5, <1>6 DEF Typed, TypeOK, Lines

LEMMA ReadTyped ==
    ASSUME Typed,
           \/ \E p \in Pollers, limit \in Limits : Poll(p, limit)
           \/ \E s \in Senders : Send(s) \/ SendReturns(s)
    PROVE  Typed'
<1>1. TypeOK /\ MaxEvents \in Nat /\ NotSending = MaxEvents + 1
  BY LimitsAssumption DEF Typed, NotSending
<1>2. ASSUME NEW c \in Clients, NEW es \in Seq(Event), NEW n \in 0 .. MaxEvents,
             got' = [got EXCEPT ![c] = @ \o es], position' = [position EXCEPT ![c] = n],
             start' \in [Senders -> 0 .. MaxEvents \cup {NotSending}],
             UNCHANGED <<events, cursor, file, openLine, up, committed, made, failures>>
      PROVE  Typed'
  <2>1. got[c] \o es \in Seq(Event)
    BY <1>1, ConcatProperties DEF TypeOK
  <2>2. got' \in [Clients -> Seq(Event)] /\ position' \in [Clients -> 0 .. MaxEvents]
    BY <1>1, <1>2, <2>1 DEF TypeOK
  <2> QED
    BY <1>1, <1>2, <2>2 DEF Typed, TypeOK
<1>3. ASSUME NEW p \in Pollers, NEW limit \in Limits, Poll(p, limit) PROVE Typed'
  <2> DEFINE es == Selected(position[p], limit, Include[p])
  <2>1. p \in Clients /\ position[p] \in Nat /\ position[p] <= MaxEvents
        /\ limit \in Nat \ {0}
    BY <1>1, LimitsAssumption DEF Clients, TypeOK
  <2>2. es \in Seq(Event) /\ NextCursor(position[p], es) \in 0 .. MaxEvents
    BY <1>1, <2>1, SelectedWell
  <2>3. /\ got' = [got EXCEPT ![p] = @ \o es]
        /\ position' = [position EXCEPT ![p] = NextCursor(@, es)]
        /\ UNCHANGED <<events, cursor, file, openLine, up, committed, made, failures, start>>
    BY <1>3 DEF Poll
  <2> HIDE DEF es
  <2> DEFINE n == NextCursor(position[p], es)
  <2>4. position' = [position EXCEPT ![p] = n] /\ n \in 0 .. MaxEvents
    BY <2>2, <2>3
  <2> HIDE DEF n
  <2>5. start' \in [Senders -> 0 .. MaxEvents \cup {NotSending}]
    BY <1>1, <2>3 DEF TypeOK
  <2> QED
    BY <1>2, <2>1, <2>2, <2>3, <2>4, <2>5
<1>4. ASSUME NEW s \in Senders, Send(s) PROVE Typed'
  <2>1. start' \in [Senders -> 0 .. MaxEvents \cup {NotSending}]
    BY <1>1, <1>4 DEF Send, TypeOK
  <2> QED
    BY <1>1, <1>4, <2>1 DEF Send, Typed, TypeOK
<1>5. ASSUME NEW s \in Senders, SendReturns(s) PROVE Typed'
  <2> DEFINE es == Selected(start[s], DefaultLimit, Types)
  <2>1. s \in Clients /\ start[s] \in Nat /\ DefaultLimit \in Nat \ {0}
        /\ cursor \in 0 .. MaxEvents
    BY <1>1, <1>5, LimitsAssumption DEF Clients, TypeOK, SendReturns
  <2>2. es \in Seq(Event)
    BY <1>1, <2>1, SelectedWell
  <2>3. /\ got' = [got EXCEPT ![s] = @ \o es]
        /\ position' = [position EXCEPT ![s] = cursor]
        /\ start' = [start EXCEPT ![s] = NotSending]
        /\ UNCHANGED <<events, cursor, file, openLine, up, committed, made, failures>>
    BY <1>5 DEF SendReturns
  <2> HIDE DEF es
  <2>4. start' \in [Senders -> 0 .. MaxEvents \cup {NotSending}]
    BY <1>1, <2>3 DEF TypeOK
  <2> QED
    BY <1>2, <2>1, <2>2, <2>3, <2>4
<1> QED
  BY <1>3, <1>4, <1>5

LEMMA TypedStep == Typed /\ [Next]_vars => Typed'
<1> SUFFICES ASSUME Typed, [Next]_vars PROVE Typed'
  OBVIOUS
<1>1. CASE UNCHANGED vars
  BY <1>1 DEF Typed, TypeOK, vars
<1>2. CASE Next
  BY <1>2, AppendTyped, FailureTyped, CrashTyped, ReadTyped DEF Next
<1> QED
  BY <1>1, <1>2

LEMMA TypedStart == Init => Typed
<1> SUFFICES ASSUME Init PROVE Typed
  OBVIOUS
<1>1. 0 \in 0 .. MaxEvents /\ 0 \in 0 .. MaxFailures /\ 0 <= 0
  BY LimitsAssumption
<1>2. /\ events \in Seq(Event) /\ committed \in Seq(Event)
      /\ file \in Seq(Event \cup {Torn})
  BY DEF Init
<1>3. position \in [Clients -> 0 .. MaxEvents] /\ got \in [Clients -> Seq(Event)]
  <2>1. <<>> \in Seq(Event)
    OBVIOUS
  <2> QED
    BY <1>1, <2>1 DEF Init
<1>4. start \in [Senders -> 0 .. MaxEvents \cup {NotSending}]
  BY DEF Init
<1>5. openLine \in BOOLEAN /\ up \in BOOLEAN
  BY Zenon DEF Init
<1> QED
  BY <1>1, <1>2, <1>3, <1>4, <1>5 DEF Init, Typed, TypeOK

\* The log's state is what its types say, for any bounds.
THEOREM LogTypes == Spec => []TypeOK
<1>1. Typed => TypeOK
  BY DEF Typed
<1> QED
  BY <1>1, TypedStart, TypedStep, PTL DEF Spec

----------------------------------------------------------------------------
(* Nothing is missed. *)

\* As long as no write fails: the cursor counts the events, each has its index,
\* and memory and file hold what they must.
Numbering ==
    /\ cursor = Len(committed)
    /\ \A i \in DOMAIN committed : committed[i].index = i - 1
Holding ==
    up => /\ file = committed /\ openLine = FALSE
          /\ EndOf(events, committed)

\* Clients are behind the cursor.
Following == \A p \in Pollers : position[p] <= cursor /\ Served(p, Include[p])

\* The file, read back, is as long as what was appended.
ReadsTo(n) ==
    /\ Len(committed) <= n /\ n <= Len(file)
    /\ \A i \in 1 .. n : Readable(file[i])
    /\ n < Len(file) => ~Readable(file[n + 1])
Preserved ==
    /\ \E n \in Nat : ReadsTo(n)
    /\ \A i \in 1 .. Len(committed) : file[i] = committed[i]

LogInv == Typed /\ (Clean => Numbering /\ Holding /\ Following /\ Preserved)

LEMMA IndexIsPlace ==
    ASSUME TypeOK, Numbering
    PROVE  Increasing(committed)
<1>1. Len(committed) \in Nat /\ DOMAIN committed = 1 .. Len(committed)
  BY DEF TypeOK
<1> QED
  BY <1>1 DEF Numbering, Increasing

\* What a poll reads, from memory or from the file, is in order and has all
\* events past its cursor.
LEMMA FromIsAll ==
    ASSUME TypeOK, Numbering, Holding, up, NEW c \in Nat
    PROVE  /\ Increasing(From(c))
           /\ \A e \in Event :
                 c <= e.index => (e \in Range(From(c)) <=> e \in Range(committed))
<1>1. /\ Len(committed) \in Nat /\ DOMAIN committed = 1 .. Len(committed)
      /\ Len(events) \in Nat /\ DOMAIN events = 1 .. Len(events)
      /\ \A i \in 1 .. Len(committed) : committed[i].index = i - 1
      /\ file = committed
  <2>1. /\ Len(committed) \in Nat /\ DOMAIN committed = 1 .. Len(committed)
        /\ Len(events) \in Nat /\ DOMAIN events = 1 .. Len(events)
    BY DEF TypeOK
  <2>2. \A i \in DOMAIN committed : committed[i].index = i - 1
    BY DEF Numbering
  <2> QED
    BY <2>1, <2>2 DEF Holding
<1>2. CASE ~(events # <<>> /\ c >= events[1].index)
  <2>1. From(c) = committed
    BY <1>1, <1>2 DEF From
  <2> QED
    BY <2>1, IndexIsPlace
<1>3. CASE events # <<>> /\ c >= events[1].index
  <2>1. From(c) = events
    BY <1>3 DEF From
  <2> DEFINE d == Len(committed) - Len(events)
  <2>2. d \in Nat /\ \A i \in 1 .. Len(events) : events[i] = committed[i + d]
    BY <1>1 DEF Holding, EndOf
  <2>3. \A i \in 1 .. Len(events) : i + d \in 1 .. Len(committed) /\ events[i].index = i + d - 1
    BY <1>1, <2>2
  <2>4. Increasing(events)
    BY <1>1, <2>2, <2>3 DEF Increasing
  <2>5. events[1].index = d
    <3>1. 1 \in 1 .. Len(events)
      BY <1>1, <1>3 DEF TypeOK
    <3> QED
      BY <2>2, <2>3, <3>1
  <2>6. \A i \in 1 .. Len(committed) : c <= committed[i].index =>
           i - d \in 1 .. Len(events) /\ (i - d) + d = i
    BY <1>1, <1>3, <2>2, <2>5
  <2> HIDE DEF d
  <2>7. ASSUME NEW e, c <= e.index, e \in Range(committed) PROVE e \in Range(events)
    <3>1. PICK i \in 1 .. Len(committed) : committed[i] = e
      BY <1>1, <2>7 DEF Range
    <3>2. i - d \in 1 .. Len(events) /\ events[i - d] = e
      BY <2>2, <2>6, <2>7, <3>1
    <3> QED
      BY <1>1, <3>2 DEF Range
  <2>8. ASSUME NEW e, e \in Range(events) PROVE e \in Range(committed)
    BY <1>1, <2>2, <2>3, <2>8 DEF Range
  <2> QED
    BY <2>1, <2>4, <2>7, <2>8
<1> QED
  BY <1>2, <1>3

\* The elements of two sequences, one after the other.
LEMMA OneAfterOther ==
    ASSUME NEW X, NEW s \in Seq(X), NEW t \in Seq(X)
    PROVE  /\ Range(s \o t) = Range(s) \cup Range(t)
           /\ Increasing(s) /\ Increasing(t)
              /\ (\A x \in Range(s), y \in Range(t) : x.index < y.index)
                => Increasing(s \o t)
<1> DEFINE u == s \o t
           m == Len(s)
           n == Len(t)
<1>1. /\ m \in Nat /\ n \in Nat /\ DOMAIN s = 1 .. m /\ DOMAIN t = 1 .. n
      /\ DOMAIN u = 1 .. (m + n)
      /\ \A i \in 1 .. (m + n) : u[i] = IF i <= m THEN s[i] ELSE t[i - m]
  OBVIOUS
<1> HIDE DEF u, m, n
<1>2. /\ \A i \in 1 .. m : i \in 1 .. (m + n) /\ u[i] = s[i]
      /\ \A i \in 1 .. n : i + m \in 1 .. (m + n) /\ u[i + m] = t[i]
      /\ \A i \in 1 .. (m + n) :
            \/ i \in 1 .. m /\ u[i] = s[i]
            \/ ~(i <= m) /\ i - m \in 1 .. n /\ u[i] = t[i - m]
  BY <1>1
<1>3. Range(u) = Range(s) \cup Range(t)
  BY RangeConcatenation DEF u
<1>4. ASSUME Increasing(s), Increasing(t),
             \A x \in Range(s), y \in Range(t) : x.index < y.index
      PROVE  Increasing(u)
  <2> SUFFICES ASSUME NEW i \in 1 .. (m + n), NEW j \in 1 .. (m + n), i < j
               PROVE  u[i].index < u[j].index
    BY <1>1 DEF Increasing
  <2>1. CASE i \in 1 .. m /\ j \in 1 .. m
    BY <1>1, <1>2, <1>4, <2>1 DEF Increasing
  <2>2. CASE i \in 1 .. m /\ ~(j <= m)
    <3>1. s[i] \in Range(s) /\ t[j - m] \in Range(t)
      <4>1. i \in DOMAIN s /\ j - m \in DOMAIN t
        BY <1>1, <1>2, <2>2
      <4> QED
        BY <4>1 DEF Range
    <3>2. u[i] = s[i] /\ u[j] = t[j - m]
      BY <1>2, <2>2
    <3> QED
      BY <1>4, <3>1, <3>2
  <2>3. CASE ~(i <= m)
    <3>1. ~(j <= m) /\ i - m \in 1 .. n /\ j - m \in 1 .. n /\ i - m < j - m
      BY <1>1, <2>3
    <3>2. u[i] = t[i - m] /\ u[j] = t[j - m]
      BY <1>2, <2>3, <3>1
    <3> QED
      BY <1>1, <1>4, <3>1, <3>2 DEF Increasing
  <2> QED
    BY <1>1, <1>2, <2>1, <2>2, <2>3
<1> QED
  BY <1>3, <1>4 DEF u

\* A poll goes on where its client's cursor is.
LEMMA PollFollows ==
    ASSUME LogInv, Clean, NEW p \in Pollers, NEW limit \in Limits, Poll(p, limit)
    PROVE  Following'
<1> DEFINE c == position[p]
           es == Selected(c, limit, Include[p])
           next == NextCursor(c, es)
<1>1. /\ TypeOK /\ Numbering /\ Holding /\ Following /\ up
      /\ p \in Clients /\ c \in Nat /\ limit \in Nat \ {0} /\ c <= cursor
      /\ Served(p, Include[p])
  BY LimitsAssumption DEF LogInv, Typed, Poll, Clients, TypeOK, Following
<1>2. /\ got' = [got EXCEPT ![p] = @ \o es]
      /\ position' = [position EXCEPT ![p] = NextCursor(@, es)]
      /\ UNCHANGED <<cursor, committed>>
  BY DEF Poll
<1>3. /\ es \in Seq(Event) /\ next \in Nat /\ c <= next
      /\ Increasing(es)
      /\ Range(es) = {e \in Range(From(c)) \cap Event :
                         c <= e.index /\ e.index < next /\ e.type \in Include[p]}
  BY <1>1, SelectedWell, FromIsAll
<1>4. es # <<>>
  BY DEF Poll
<1> HIDE DEF es
<1>5. position'[p] = next /\ got'[p] = got[p] \o es
      /\ \A q \in Pollers \ {p} : position'[q] = position[q] /\ got'[q] = got[q]
  BY <1>1, <1>2 DEF TypeOK, Clients
<1>6. next <= cursor
  <2>1. PICK i \in 1 .. Len(es) : next = es[i].index + 1
    BY <1>3, <1>4 DEF NextCursor
  <2>2. es[i] \in Range(es)
    BY <1>3, <2>1 DEF Range
  <2>3. es[i] \in Range(committed)
    BY <1>1, <1>3, <2>2, FromIsAll
  <2> QED
    BY <1>1, <2>1, <2>3 DEF Range, Numbering, TypeOK
<1> HIDE DEF next
<1>7. \A e \in Event : e.index \in Nat
  BY LimitsAssumption DEF Event
<1>8. Range(committed) \subseteq Event /\ Range(got[p]) \subseteq Range(committed)
      /\ got[p] \in Seq(Event)
  <2>1. committed \in Seq(Event) /\ got[p] \in Seq(Event)
    BY <1>1 DEF TypeOK
  <2>2. Range(committed) \in SUBSET Event
    BY <2>1, RangeOfSeq
  <2>3. Range(got[p]) \subseteq Range(committed)
    BY <1>1 DEF Served
  <2> QED
    BY <2>1, <2>2, <2>3
<1>9. Range(es) = {e \in Range(committed) :
                      c <= e.index /\ e.index < next /\ e.type \in Include[p]}
  BY <1>1, <1>3, <1>8, FromIsAll
<1> HIDE DEF c
<1>10. Range(got[p]) = {e \in Range(committed) : e.index < c /\ e.type \in Include[p]}
       /\ Increasing(got[p])
  BY <1>1 DEF Served, c
<1>11. /\ Range(got'[p]) = {e \in Range(committed) : e.index < next /\ e.type \in Include[p]}
       /\ Increasing(got'[p])
  <2>1. \A x \in Range(got[p]), y \in Range(es) : x.index < y.index
    BY <1>1, <1>7, <1>8, <1>9, <1>10
  <2>2. Range(got'[p]) = Range(got[p]) \cup Range(es) /\ Increasing(got'[p])
    BY <1>3, <1>5, <1>8, <1>10, <2>1, OneAfterOther
  <2>3. \A e \in Event : e.index < next <=> e.index < c \/ (c <= e.index /\ e.index < next)
    BY <1>1, <1>3, <1>7
  <2> QED
    BY <1>8, <1>9, <1>10, <2>2, <2>3
<1>12. Served(p, Include[p])'
  BY <1>2, <1>5, <1>11 DEF Served
<1>13. ASSUME NEW q \in Pollers \ {p} PROVE position'[q] <= cursor' /\ Served(q, Include[q])'
  BY <1>1, <1>2, <1>5, <1>13 DEF Following, Served
<1> QED
  BY <1>2, <1>5, <1>6, <1>12, <1>13 DEF Following

\* What is appended keeps its place, and the end of what is held stays the end.
LEMMA EndGrows ==
    ASSUME NEW X, NEW es \in Seq(X), NEW all \in Seq(X), NEW new \in Seq(X),
           EndOf(es, all)
    PROVE  EndOf(es \o new, all \o new)
<1> DEFINE e == es \o new
           a == all \o new
<1>1. /\ Len(es) \in Nat /\ Len(all) \in Nat /\ Len(new) \in Nat
      /\ Len(e) = Len(es) + Len(new) /\ Len(a) = Len(all) + Len(new)
      /\ \A i \in 1 .. Len(e) : e[i] = IF i <= Len(es) THEN es[i] ELSE new[i - Len(es)]
      /\ \A i \in 1 .. Len(a) : a[i] = IF i <= Len(all) THEN all[i] ELSE new[i - Len(all)]
  OBVIOUS
<1>2. Len(es) <= Len(all) /\ \A i \in 1 .. Len(es) : es[i] = all[i + (Len(all) - Len(es))]
  BY DEF EndOf
<1> HIDE DEF e, a
<1>3. Len(a) - Len(e) = Len(all) - Len(es) /\ Len(e) <= Len(a)
  BY <1>1, <1>2
<1>4. ASSUME NEW i \in 1 .. Len(e) PROVE e[i] = a[i + (Len(all) - Len(es))]
  <2> DEFINE d == Len(all) - Len(es)
  <2>1. d \in Nat /\ Len(all) = Len(es) + d /\ i + d \in 1 .. Len(a) /\ i \in Nat
    BY <1>1, <1>2, <1>3
  <2>2. CASE i <= Len(es)
    <3>1. i \in 1 .. Len(es) /\ i + d <= Len(all)
      BY <1>1, <2>1, <2>2
    <3> QED
      BY <1>1, <1>2, <2>1, <2>2, <3>1
  <2>3. CASE ~(i <= Len(es))
    <3>1. ~(i + d <= Len(all)) /\ i + d - Len(all) = i - Len(es)
      BY <1>1, <2>1, <2>3
    <3> HIDE DEF d
    <3>2. a[i + d] = new[i + d - Len(all)] /\ e[i] = new[i - Len(es)]
      BY <1>1, <2>1, <2>3, <3>1
    <3> QED
      BY <3>1, <3>2 DEF d
  <2> QED
    BY <2>2, <2>3
<1>5. EndOf(e, a)
  BY <1>3, <1>4 DEF EndOf
<1> QED
  BY <1>5 DEF e, a

LEMMA EndOfEnd ==
    ASSUME NEW X, NEW es \in Seq(X), NEW all \in Seq(X), NEW part \in Seq(X),
           EndOf(es, all), EndOf(part, es)
    PROVE  EndOf(part, all)
<1> DEFINE d == Len(all) - Len(es)
           f == Len(es) - Len(part)
<1>1. Len(es) \in Nat /\ Len(all) \in Nat /\ Len(part) \in Nat
  OBVIOUS
<1>2. d \in Nat /\ f \in Nat /\ Len(part) <= Len(all) /\ Len(all) - Len(part) = d + f
  BY <1>1 DEF EndOf
<1>3. ASSUME NEW i \in 1 .. Len(part) PROVE part[i] = all[i + (d + f)]
  <2>1. i + f \in 1 .. Len(es) /\ (i + f) + d = i + (d + f)
    BY <1>1, <1>2
  <2> QED
    BY <2>1 DEF EndOf
<1> HIDE DEF d, f
<1> QED
  BY <1>2, <1>3 DEF EndOf

\* An event is not a fragment.
LEMMA EventsAreReadable ==
    /\ \A e \in Event : Readable(e)
    /\ ~Readable(Torn)
BY DEF Event, Readable, Torn

\* An append that succeeds.
LEMMA AppendKeeps ==
    ASSUME LogInv, Clean, NEW batch \in Batches, LogAppend(batch)
    PROVE  (Numbering /\ Holding /\ Following /\ Preserved)'
<1> DEFINE new == Numbered(batch, Len(batch))
           m == Len(committed)
           n == Len(batch)
<1>1. /\ TypeOK /\ Numbering /\ Holding /\ Following /\ Preserved /\ up /\ cursor <= made
      /\ file = committed /\ openLine = FALSE /\ EndOf(events, committed)
  BY DEF LogInv, Typed, LogAppend, Holding
<1>2. /\ n \in Nat \ {0} /\ n \in 0 .. n /\ made + n <= MaxEvents
  BY BatchType DEF LogAppend
<1>3. /\ new \in Seq(Event) /\ Len(new) = n
      /\ \A k \in 1 .. n : new[k].index = cursor + k - 1
  BY <1>1, <1>2, NumberedType
<1> HIDE DEF new
<1>4. /\ events' = Trimmed(events \o new) /\ committed' = committed \o new
      /\ file' = Written(new, FALSE) /\ openLine' = LeftOpen(new, FALSE)
      /\ cursor' = cursor + n
      /\ UNCHANGED <<up, failures, position, got, start>>
  BY DEF LogAppend, new
<1> HIDE DEF n
<1>5. file' = committed \o new /\ openLine' = FALSE
  <2>1. Written(new, FALSE) = file \o new \o <<>>
    BY <1>1 DEF Written
  <2>2. file \o new \in Seq(Event)
    BY <1>1, <1>3, ConcatProperties DEF TypeOK
  <2>3. (file \o new) \o <<>> = file \o new
    BY <2>2, ConcatEmptySeq
  <2>4. LeftOpen(new, FALSE) = FALSE
    BY <1>1 DEF LeftOpen
  <2> QED
    BY <1>1, <1>4, <2>1, <2>3, <2>4
<1>6. /\ committed \in Seq(Event) /\ events \in Seq(Event) /\ m \in Nat
      /\ DOMAIN committed = 1 .. m /\ cursor = m
      /\ \A i \in 1 .. m : committed[i].index = i - 1
  <2>1. committed \in Seq(Event) /\ events \in Seq(Event)
    BY <1>1 DEF TypeOK
  <2>2. m \in Nat /\ DOMAIN committed = 1 .. m
    BY <2>1
  <2> QED
    BY <1>1, <2>1, <2>2 DEF Numbering
<1>7. /\ committed' \in Seq(Event) /\ Len(committed') = m + n
      /\ DOMAIN committed' = 1 .. (m + n)
      /\ \A i \in 1 .. (m + n) : committed'[i] = IF i <= m THEN committed[i] ELSE new[i - m]
  <2>1. /\ committed \o new \in Seq(Event) /\ Len(committed \o new) = m + n
        /\ \A i \in 1 .. (m + n) :
              (committed \o new)[i] = IF i <= m THEN committed[i] ELSE new[i - m]
    BY <1>3, <1>6, ConcatProperties
  <2> QED
    BY <1>4, <2>1
<1> HIDE DEF m
<1>8. Numbering'
  <2>1. ASSUME NEW i \in 1 .. (m + n) PROVE committed'[i].index = i - 1
    <3>1. CASE i <= m
      BY <1>6, <1>7, <3>1
    <3>2. CASE ~(i <= m)
      <4>1. i - m \in 1 .. n /\ cursor + (i - m) - 1 = i - 1
        BY <1>2, <1>6, <3>2
      <4> QED
        BY <1>3, <1>7, <3>2, <4>1
    <3> QED
      BY <3>1, <3>2
  <2> QED
    BY <1>4, <1>6, <1>7, <2>1 DEF Numbering
<1>9. Holding'
  <2> DEFINE all == committed \o new
             es == events \o new
  <2>1. es \in Seq(Event) /\ all \in Seq(Event)
    BY <1>3, <1>6, ConcatProperties
  <2>2. EndOf(es, all)
    BY <1>1, <1>3, <1>6, EndGrows
  <2> HIDE DEF all, es
  <2>3. Trimmed(es) \in Seq(Event) /\ EndOf(Trimmed(es), es)
    BY <2>1, TrimmedIsEnd
  <2>4. EndOf(Trimmed(es), all)
    BY <2>1, <2>2, <2>3, EndOfEnd
  <2>5. events' = Trimmed(es) /\ committed' = all
    BY <1>4 DEF es, all
  <2>6. EndOf(events', committed')
    BY <2>4, <2>5
  <2> QED
    BY <1>4, <1>5, <2>6 DEF Holding, EndOf
<1>10. Following'
  <2>1. ASSUME NEW p \in Pollers PROVE position'[p] <= cursor' /\ Served(p, Include[p])'
    <3>1. /\ position[p] \in Nat /\ position[p] <= cursor /\ Served(p, Include[p])
          /\ position' = position /\ got' = got /\ cursor' = cursor + n
      BY <1>1, <1>4 DEF Following, TypeOK, Clients
    <3>2. \A e : e \in Range(committed') /\ e.index < position[p]
                  <=> e \in Range(committed) /\ e.index < position[p]
      <4>1. Range(committed') = Range(committed) \cup Range(new)
        BY <1>3, <1>4, <1>6, RangeConcatenation
      <4>2. \A e \in Range(new) : ~(e.index < position[p])
        <5>1. \A k \in 1 .. n : new[k].index \in Nat /\ position[p] <= new[k].index
          BY <1>2, <1>3, <1>6, <3>1
        <5>2. DOMAIN new = 1 .. n
          BY <1>3
        <5>3. \A a, b \in Nat : a <= b => ~(b < a)
          OBVIOUS
        <5> QED
          BY <3>1, <5>1, <5>2, <5>3 DEF Range
      <4> QED
        BY <4>1, <4>2
    <3>3. Served(p, Include[p])'
      BY <3>1, <3>2 DEF Served
    <3> QED
      BY <1>2, <1>6, <3>1, <3>3
  <2> QED
    BY <2>1 DEF Following
<1>11. Preserved'
  <2>0. file' = committed'
    BY <1>4, <1>5
  <2>1. \A i \in 1 .. Len(committed') : Readable(file'[i])
    <3>1. \A i \in 1 .. Len(committed') : committed'[i] \in Event
      BY <1>7
    <3> QED
      BY <2>0, <3>1, EventsAreReadable
  <2>2. Len(committed') \in Nat
    BY <1>2, <1>6, <1>7
  <2>3. ReadsTo(Len(committed))'
    BY <2>0, <2>1, <2>2 DEF ReadsTo
  <2> QED
    BY <2>0, <2>2, <2>3 DEF Preserved
<1> QED
  BY <1>8, <1>9, <1>10, <1>11

\* A kill leaves what had been appended, and no more than a fragment behind
\* what can be read.
LEMMA CrashKeeps ==
    ASSUME LogInv, Clean, NEW batch \in Batches, NEW n \in 0 .. (Len(batch) - 1),
           NEW torn \in BOOLEAN, Crash(batch, n, torn)
    PROVE  (Numbering /\ Holding /\ Following /\ Preserved)'
<1> DEFINE new == Numbered(batch, n)
           rest == IF torn THEN <<Torn>> ELSE <<>>
<1>1. /\ TypeOK /\ Numbering /\ Holding /\ Following /\ up /\ cursor <= made
      /\ file = committed /\ openLine = FALSE
  BY DEF LogInv, Typed, Crash, Holding
<1>2. n \in Nat /\ n \in 0 .. Len(batch) /\ made + n <= MaxEvents
  BY <1>1, BatchType, LimitsAssumption DEF Crash, TypeOK
<1>3. new \in Seq(Event) /\ Len(new) = n
  BY <1>1, <1>2, NumberedType
<1> HIDE DEF new
<1>4. /\ up' = FALSE /\ file' = Written(new, torn)
      /\ UNCHANGED <<cursor, committed, failures, position, got, start>>
  BY DEF Crash, new
<1>5. Numbering' /\ Holding' /\ Following'
  BY <1>1, <1>4 DEF Numbering, Holding, Following, Served
<1>0. PICK m \in Nat : m = Len(committed)
  BY <1>1 DEF TypeOK
<1>6. committed \in Seq(Event) /\ m \in Nat /\ committed \in Seq(Lines) /\ new \in Seq(Lines)
  BY <1>1, <1>3, SeqMonotonic DEF TypeOK, Lines
<1>7. file' = (committed \o new) \o rest
  BY <1>1, <1>4 DEF Written
<1>8. rest \in Seq(Lines) /\ Len(rest) \in 0 .. 1 /\ \A i \in 1 .. Len(rest) : rest[i] = Torn
  <2>1. CASE torn
    <3>1. rest = <<Torn>> /\ Torn \in Lines
      BY <2>1 DEF Lines
    <3> HIDE DEF rest
    <3> QED
      BY <3>1
  <2>2. CASE ~torn
    BY <2>2
  <2> QED
    BY <2>1, <2>2
<1> HIDE DEF rest
<1> DEFINE all == committed \o new
<1>9. /\ all \in Seq(Lines) /\ Len(all) = m + n
      /\ \A i \in 1 .. (m + n) : all[i] = IF i <= m THEN committed[i] ELSE new[i - m]
  BY <1>0, <1>3, <1>6, ConcatProperties
<1> HIDE DEF all
<1>10. /\ Len(file') = m + n + Len(rest)
       /\ \A i \in 1 .. (m + n + Len(rest)) :
             file'[i] = IF i <= m + n THEN all[i] ELSE rest[i - (m + n)]
  <2>1. file' = all \o rest
    BY <1>7 DEF all
  <2>2. /\ Len(all \o rest) = Len(all) + Len(rest)
        /\ \A i \in 1 .. (Len(all) + Len(rest)) :
              (all \o rest)[i] = IF i <= Len(all) THEN all[i] ELSE rest[i - Len(all)]
    BY <1>8, <1>9, ConcatProperties
  <2> QED
    BY <1>9, <2>1, <2>2
<1>11. \A i \in 1 .. (m + n) : all[i] \in Event
  <2>1. \A i \in 1 .. m : committed[i] \in Event
    BY <1>0, <1>6
  <2>2. \A i \in 1 .. n : new[i] \in Event
    BY <1>3
  <2>3. \A i \in 1 .. (m + n) : i \in 1 .. m \/ (~(i <= m) /\ i - m \in 1 .. n)
    BY <1>2, <1>6
  <2>4. \A i \in 1 .. m : i <= m
    BY <1>6
  <2> QED
    BY <1>9, <2>1, <2>2, <2>3, <2>4
<1>12. ReadsTo(m + n)'
  <2>1. m <= m + n /\ m + n <= Len(file') /\ m + n \in Nat
    BY <1>2, <1>6, <1>8, <1>10
  <2>2. \A i \in 1 .. (m + n) : Readable(file'[i])
    <3>1. \A i \in 1 .. (m + n) : i <= m + n /\ i \in 1 .. (m + n + Len(rest))
      BY <1>2, <1>6, <1>8
    <3> QED
      BY <1>10, <1>11, <3>1, EventsAreReadable
  <2>3. m + n < Len(file') => ~Readable(file'[m + n + 1])
    <3> SUFFICES ASSUME m + n < Len(file') PROVE ~Readable(file'[m + n + 1])
      OBVIOUS
    <3>1. Len(rest) = 1 /\ ~(m + n + 1 <= m + n) /\ m + n + 1 - (m + n) = 1
          /\ m + n + 1 \in 1 .. (m + n + Len(rest))
      BY <1>2, <1>6, <1>8, <1>10
    <3>2. rest[1] = Torn
      BY <1>8, <3>1
    <3>3. file'[m + n + 1] = rest[m + n + 1 - (m + n)]
      BY <1>10, <3>1
    <3> QED
      BY <3>1, <3>2, <3>3, EventsAreReadable
  <2>4. Len(committed') = m
    BY <1>0, <1>4
  <2> QED
    BY <2>1, <2>2, <2>3, <2>4 DEF ReadsTo
<1>13. \A i \in 1 .. m : file'[i] = committed[i]
  <2>1. \A i \in 1 .. m : i <= m /\ i <= m + n /\ i \in 1 .. (m + n)
                          /\ i \in 1 .. (m + n + Len(rest))
    BY <1>2, <1>6, <1>8
  <2> QED
    BY <1>9, <1>10, <2>1
<1>14. Preserved'
  BY <1>0, <1>2, <1>4, <1>6, <1>12, <1>13 DEF Preserved
<1> QED
  BY <1>5, <1>14

LEMMA LogStep == LogInv /\ [Next]_vars => LogInv'
<1> SUFFICES ASSUME LogInv, [Next]_vars PROVE LogInv'
  OBVIOUS
<1>1. Typed'
  BY TypedStep DEF LogInv
<1>2. Clean' => Clean
  <2>1. failures \in Nat
    BY LimitsAssumption DEF LogInv, Typed, TypeOK
  <2>2. failures' = failures \/ failures' = failures + 1
    BY DEF Next, LogAppend, AppendFails, Crash, Poll, Send, SendReturns, vars
  <2> QED
    BY <2>1, <2>2 DEF Clean
<1> SUFFICES ASSUME Clean, Clean' PROVE (Numbering /\ Holding /\ Following /\ Preserved)'
  BY <1>1, <1>2 DEF LogInv
<1>10. Numbering /\ Holding /\ Following /\ Preserved /\ TypeOK
  BY DEF LogInv, Typed
<1>3. ASSUME NEW batch \in Batches, LogAppend(batch)
      PROVE  (Numbering /\ Holding /\ Following /\ Preserved)'
  BY <1>3, AppendKeeps
<1>4. ASSUME NEW batch \in Batches, NEW n \in 0 .. (Len(batch) - 1), NEW torn \in BOOLEAN,
             Crash(batch, n, torn)
      PROVE  (Numbering /\ Holding /\ Following /\ Preserved)'
  BY <1>4, CrashKeeps
<1>5. ASSUME NEW batch \in Batches, NEW n \in 0 .. (Len(batch) - 1), NEW torn \in BOOLEAN,
             AppendFails(batch, n, torn)
      PROVE  FALSE
  BY <1>5 DEF AppendFails, Clean
<1>6. ASSUME NEW p \in Pollers, NEW limit \in Limits, Poll(p, limit)
      PROVE  (Numbering /\ Holding /\ Following /\ Preserved)'
  <2>1. Following'
    BY <1>6, PollFollows
  <2>2. UNCHANGED <<events, cursor, file, openLine, up, committed>>
    BY <1>6 DEF Poll
  <2>3. Numbering' /\ Holding' /\ Preserved'
    BY <1>10, <2>2 DEF Numbering, Holding, Preserved, ReadsTo, EndOf
  <2> QED
    BY <2>1, <2>3
<1>7. ASSUME NEW s \in Senders, Send(s) \/ SendReturns(s)
      PROVE  (Numbering /\ Holding /\ Following /\ Preserved)'
  <2>1. UNCHANGED <<events, cursor, file, openLine, up, committed>>
    BY <1>7 DEF Send, SendReturns
  <2>2. \A p \in Pollers : position'[p] = position[p] /\ got'[p] = got[p]
    <3>1. \A p \in Pollers : p # s /\ p \in Clients
      BY ClientsAssumption DEF Clients
    <3> QED
      BY <1>7, <1>10, <3>1 DEF Send, SendReturns, TypeOK
  <2>3. Following'
    BY <1>10, <2>1, <2>2 DEF Following, Served
  <2>4. Numbering' /\ Holding' /\ Preserved'
    BY <1>10, <2>1 DEF Numbering, Holding, Preserved, ReadsTo, EndOf
  <2> QED
    BY <2>3, <2>4
<1>8. CASE UNCHANGED vars
  <2>1. UNCHANGED <<events, cursor, file, openLine, up, committed, position, got>>
    BY <1>8 DEF vars
  <2> QED
    BY <1>10, <2>1 DEF Numbering, Holding, Following, Served, Preserved, ReadsTo, EndOf
<1> QED
  BY <1>3, <1>4, <1>5, <1>6, <1>7, <1>8 DEF Next

LEMMA LogStart == Init => LogInv
<1> SUFFICES ASSUME Init PROVE LogInv
  OBVIOUS
<1>1. /\ committed = <<>> /\ file = <<>> /\ events = <<>> /\ cursor = 0 /\ openLine = FALSE
      /\ Len(<<>>) = 0 /\ DOMAIN <<>> = {} /\ 1 .. 0 = {}
  BY DEF Init
<1>2. Numbering /\ Holding
  BY <1>1 DEF Numbering, Holding, EndOf
<1>3. Following
  <2>1. \A p \in Pollers : position[p] = 0 /\ got[p] = <<>>
    BY DEF Init, Clients
  <2>2. Range(<<>>) = {} /\ Increasing(<<>>)
    BY <1>1 DEF Range, Increasing
  <2> QED
    BY <1>1, <2>1, <2>2 DEF Following, Served
<1>4. Preserved
  <2>1. ReadsTo(0)
    BY <1>1 DEF ReadsTo
  <2> QED
    BY <1>1, <2>1 DEF Preserved
<1> QED
  BY <1>2, <1>3, <1>4, TypedStart DEF LogInv

\* Whatever its limit and its filter, and wherever the events it asks for are,
\* a poller that passes the cursor back misses and repeats nothing, unless a
\* write fails.
THEOREM CursorsMissNothing == Spec => []PollersMissNothing
<1>1. LogInv => PollersMissNothing
  BY DEF LogInv, Following, PollersMissNothing
<1> QED
  BY <1>1, LogStart, LogStep, PTL DEF Spec

\* The transcript read back begins with what was appended, whenever the process
\* was killed, unless a write fails.
THEOREM TranscriptHoldsAll == Spec => []TranscriptComplete
<1>1. LogInv => TranscriptComplete
  <2> SUFFICES ASSUME LogInv, Clean
               PROVE  /\ Len(Transcript) >= Len(committed)
                      /\ SubSeq(Transcript, 1, Len(committed)) = committed
    BY DEF TranscriptComplete
  <2> DEFINE Ends(n) == /\ \A i \in 1 .. n : Readable(file[i])
                        /\ n < Len(file) => ~Readable(file[n + 1])
             n == CHOOSE k \in 0 .. Len(file) : Ends(k)
             m == Len(committed)
  <2>1. Preserved /\ committed \in Seq(Event) /\ file \in Seq(Lines)
    BY DEF LogInv, Typed, TypeOK, Lines
  <2>2. m \in Nat /\ Len(file) \in Nat /\ \A i \in 1 .. m : committed[i] \in Event
    BY <2>1
  <2> HIDE DEF m
  <2>3. PICK k \in Nat : ReadsTo(k)
    BY <2>1 DEF Preserved
  <2>4. k \in 0 .. Len(file) /\ m <= k /\ Ends(k)
    BY <2>2, <2>3 DEF ReadsTo, m
  <2>5. n \in 0 .. Len(file) /\ Ends(n)
    BY <2>4
  <2>6. Transcript = SubSeq(file, 1, n)
    BY DEF Transcript
  <2> HIDE DEF n
  <2>7. m <= n
    <3> SUFFICES ASSUME n < m PROVE FALSE
      BY <2>2, <2>5
    <3>1. n + 1 \in 1 .. k /\ n < Len(file)
      BY <2>2, <2>4, <2>5
    <3> QED
      BY <2>3, <2>5, <3>1 DEF ReadsTo
  <2>8. n \in Nat /\ n <= Len(file) /\ \A i \in 1 .. n : file[i] \in Lines /\ 1 + i - 1 = i
    BY <2>1, <2>2, <2>5
  <2>9. /\ Transcript \in Seq(Lines) /\ Len(Transcript) = n
        /\ \A i \in 1 .. n : Transcript[i] = file[i]
    BY <2>1, <2>6, <2>8
  <2>10. \A i \in 1 .. m : i \in 1 .. n /\ Transcript[i] = committed[i]
    BY <2>1, <2>2, <2>7, <2>8, <2>9 DEF Preserved, m
  <2>11. SubSeq(Transcript, 1, m) = committed
    <3> HIDE DEF Transcript
    <3> DEFINE t == SubSeq(Transcript, 1, m)
    <3>1. \A i \in 1 .. m : Transcript[i] \in Event /\ 1 + i - 1 = i
      BY <2>2, <2>10
    <3>2. t \in Seq(Event) /\ Len(t) = m /\ \A i \in 1 .. m : t[i] = committed[i]
      BY <2>2, <2>8, <2>9, <2>10, <3>1
    <3> HIDE DEF t
    <3>3. t = committed
      BY <2>1, <3>2, SeqEqual DEF m
    <3> QED
      BY <3>3 DEF t
  <2> QED
    BY <2>2, <2>7, <2>8, <2>9, <2>11 DEF m
<1> QED
  BY <1>1, LogStart, LogStep, PTL DEF Spec
=============================================================================
