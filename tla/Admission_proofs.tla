--------------------------- MODULE Admission_proofs ---------------------------
(***************************************************************************)
(* Proofs about the ledger, for every number of sessions, price, budget    *)
(* and clock: it never counts past the budget plus one turn per session,   *)
(* and drifts from what a replay of its file would count by the writes     *)
(* that stopped short, and by two records for each at most.  And about who *)
(* may start a turn: composed with the governor the ledger is still the    *)
(* ledger, so that its theorems carry over, and no turn starts before the  *)
(* delay of the latest retry is over.                                      *)
(***************************************************************************)
EXTENDS Admission, FiniteSetTheorems, WellFoundedInduction, TLAPS

(* The ledger. *)

\* What the turns in flight may still cost.
Exposure == Cardinality(busy) * MaxCost

\* A set of sessions is finite, and as large as Sessions at most.
LEMMA BusyIsFinite ==
    ASSUME NEW B \in SUBSET Sessions
    PROVE  /\ IsFiniteSet(B)
           /\ Cardinality(B) \in Nat /\ Cardinality(Sessions) \in Nat
           /\ Cardinality(B) <= Cardinality(Sessions)
BY LedgerAssumption, FS_Subset, FS_CardinalityType

\* Products with MaxCost: they are numbers, and grow with the first factor.
LEMMA CostGrows ==
    ASSUME NEW m \in Nat, NEW n \in Nat, m <= n
    PROVE  /\ m * MaxCost \in Nat /\ n * MaxCost \in Nat
           /\ m * MaxCost <= n * MaxCost
           /\ (m + 1) * MaxCost = m * MaxCost + MaxCost
<1>1. MaxCost \in Nat
  BY LedgerAssumption
<1>2. PICK d \in Nat : n = m + d
  <2>1. n - m \in Nat /\ n = m + (n - m)
    OBVIOUS
  <2> QED
    BY <2>1
<1>3. \A a, b \in Nat : a * b \in Nat
  OBVIOUS
<1>4. (m + d) * MaxCost = m * MaxCost + d * MaxCost
  BY <1>1
<1>5. (m + 1) * MaxCost = m * MaxCost + MaxCost
  BY <1>1
<1> QED
  BY <1>1, <1>2, <1>3, <1>4, <1>5

\* A turn in flight accounts for MaxCost, and the limit is a number.
LEMMA OneTurnLess ==
    ASSUME TypeOK, NEW s \in busy
    PROVE  /\ Cardinality(busy \ {s}) * MaxCost \in Nat
           /\ Exposure = Cardinality(busy \ {s}) * MaxCost + MaxCost
<1>1. busy \in SUBSET Sessions /\ busy \ {s} \in SUBSET Sessions
  BY DEF TypeOK
<1>2. Cardinality(busy) = Cardinality(busy \ {s}) + 1
  <2>1. Cardinality(busy \ {s}) = Cardinality(busy) - 1
    BY <1>1, BusyIsFinite, FS_RemoveElement
  <2> QED
    BY <1>1, <2>1, BusyIsFinite
<1>3. Cardinality(busy \ {s}) \in Nat
  BY <1>1, BusyIsFinite
<1> QED
  BY <1>2, <1>3, CostGrows DEF Exposure

LEMMA Numbers ==
    ASSUME TypeOK
    PROVE  /\ Exposure \in Nat /\ Limit \in Nat
           /\ Budget <= Limit /\ Budget \in Nat \ {0} /\ MaxCost \in Nat
           /\ Limit = Budget + Cardinality(Sessions) * MaxCost
           /\ Cardinality(Sessions) * MaxCost \in Nat
<1>1. busy \in SUBSET Sessions
  BY DEF TypeOK
<1>2. /\ Cardinality(busy) * MaxCost \in Nat
      /\ Cardinality(Sessions) * MaxCost \in Nat
  BY <1>1, BusyIsFinite, CostGrows
<1> QED
  BY <1>2, LedgerAssumption DEF Exposure, Limit

\* The initial states satisfy the invariant.
LEMMA InitInv == Init => IndInv
<1> SUFFICES ASSUME Init PROVE IndInv
  OBVIOUS
<1>1. TypeOK
  <2>1. 0 \in Windows /\ 0 \in Nat /\ since \in Windows /\ 0 \in 0..MaxCost
    BY LedgerAssumption DEF Windows, Init
  <2>2. booked \in [Windows -> Nat]
    BY DEF Init
  <2>3. openLine \in BOOLEAN /\ up \in BOOLEAN
    BY Zenon DEF Init
  <2>4. last \in [at : Windows, cost : 0..MaxCost]
    BY <2>1 DEF Init, NoRecord
  <2> QED
    BY <2>1, <2>2, <2>3, <2>4 DEF Init, TypeOK
<1>2. Exposure = 0
  <2>1. Cardinality(busy) = 0
    BY FS_EmptySet DEF Init
  <2> QED
    BY <2>1, LedgerAssumption DEF Exposure
<1>3. now \in Windows /\ spent = 0 /\ booked[now] = 0
  BY <1>1 DEF Init, TypeOK
<1>4. spent + Cardinality(busy) * MaxCost < Limit
  BY <1>1, <1>2, <1>3, Numbers DEF Exposure
<1>5. booked[now] + LastLine(now) < Limit /\ booked[now] <= spent
  <2>1. LastLine(now) = 0
    BY DEF LastLine, Init, NoRecord
  <2> QED
    BY <1>1, <1>3, <2>1, Numbers
<1>6. last.at <= now /\ last.cost = 0
  BY DEF Init, NoRecord
<1> QED
  BY <1>1, <1>4, <1>5, <1>6 DEF IndInv, Init

\* What a replay reads of the last line is a number, none when the line ends.
LEMMA LastLineBounds ==
    ASSUME IndInv
    PROVE  /\ last.at \in Nat /\ last.cost \in Nat /\ last.cost <= MaxCost
           /\ LastLine(now) = last.cost \/ LastLine(now) = 0
           /\ LastLine(now) \in Nat /\ LastLine(now) <= MaxCost
           /\ ~openLine => LastLine(now) = 0
<1>1. last \in [at : Windows, cost : 0..MaxCost] /\ MaxCost \in Nat /\ MaxWindow \in Nat /\ now \in Windows
  BY LedgerAssumption DEF IndInv, TypeOK
<1>2. last.at \in Windows /\ last.cost \in 0..MaxCost
  BY <1>1
<1>3. last.at \in Nat /\ last.cost \in Nat /\ last.cost <= MaxCost /\ now \in Nat
  BY <1>1, <1>2 DEF Windows
<1>4. ~openLine => last.cost = 0
  BY DEF IndInv
<1>5. CASE last.at >= now
  <2>1. LastLine(now) = last.cost
    BY <1>5 DEF LastLine
  <2> QED
    BY <1>1, <1>3, <1>4, <2>1
<1>6. CASE ~(last.at >= now)
  <2>1. LastLine(now) = 0
    BY <1>6 DEF LastLine
  <2> QED
    BY <1>1, <1>3, <1>4, <2>1
<1> QED
  BY <1>5, <1>6

\* The same after a step, from what the step makes of the last line.
LEMMA NextLastLine ==
    ASSUME NEW c \in 0..MaxCost, NEW w \in Windows, now' = w,
           \/ last' = NoRecord
           \/ last' = [at |-> now', cost |-> c]
    PROVE  /\ last' \in [at : Windows, cost : 0..MaxCost]
           /\ last'.at \in Nat /\ last'.at <= now'
           /\ LastLine(now)' \in Nat /\ LastLine(now)' <= c
           /\ last' = NoRecord => LastLine(now)' = 0 /\ last'.cost = 0
<1>1. /\ w \in Nat /\ c \in Nat /\ 0 \in Windows /\ 0 \in 0..MaxCost
      /\ 0 <= w /\ 0 <= c
  BY LedgerAssumption DEF Windows
<1>2. CASE last' = NoRecord
  <2>1. last'.at = 0 /\ last'.cost = 0
    BY <1>2 DEF NoRecord
  <2>2. last' \in [at : Windows, cost : 0..MaxCost]
    BY <1>1, <1>2 DEF NoRecord
  <2>3. LastLine(now)' = 0
    BY <2>1 DEF LastLine
  <2> QED
    BY <1>1, <2>1, <2>2, <2>3
<1>3. CASE last' = [at |-> now', cost |-> c] /\ last' # NoRecord
  <2>1. last'.at = w /\ last'.cost = c
    BY <1>3
  <2>2. last' \in [at : Windows, cost : 0..MaxCost]
    BY <1>3
  <2>3. w >= w
    BY <1>1
  <2>4. LastLine(now)' = c
    BY <2>1, <2>3 DEF LastLine
  <2> QED
    BY <1>1, <1>3, <2>1, <2>2, <2>4
<1> QED
  BY <1>2, <1>3

\* And after a step that leaves the line and the clock alone.
LEMMA SameLastLine ==
    ASSUME last' = last, now' = now
    PROVE  LastLine(now)' = LastLine(now)
BY DEF LastLine

\* A turn starts only while the total is under the budget.
LEMMA SendKeeps ==
    ASSUME IndInv, NEW s \in Sessions, Send(s)
    PROVE  IndInv'
<1> USE DEF IndInv, Send, file
<1>1. TypeOK'
  BY DEF TypeOK
<1>2. Exposure' <= Cardinality(Sessions) * MaxCost
  <2>1. busy' \in SUBSET Sessions
    BY <1>1 DEF TypeOK
  <2> QED
    BY <2>1, BusyIsFinite, CostGrows DEF Exposure
<1>3. spent' + Exposure' < Limit'
  <2>1. spent \in Nat /\ spent < Budget /\ Limit' = Limit /\ spent' = spent
    BY DEF TypeOK, Limit
  <2>2. Exposure' \in Nat
    <3>1. busy' \in SUBSET Sessions
      BY <1>1 DEF TypeOK
    <3> QED
      BY <3>1, BusyIsFinite, CostGrows DEF Exposure
  <2> QED
    BY <1>2, <2>1, <2>2, Numbers
<1> QED
  BY <1>1, <1>3 DEF Exposure, Limit, LastLine

\* The file while a record is written, whether the write stops or not: its
\* types, and how much more a replay of the clock's window reads.
LEMMA FileBounds ==
    ASSUME IndInv, NEW c \in 0..MaxCost, now' = now,
           WriteLine(c) \/ StopShort(c) \/ UNCHANGED <<file, torn>>
    PROVE  /\ booked' \in [Windows -> Nat] /\ openLine' \in BOOLEAN
           /\ last' \in [at : Windows, cost : 0..MaxCost] /\ torn' \in Nat
           /\ booked'[now] + LastLine(now)' <= booked[now] + LastLine(now) + c
           /\ booked'[now] <= booked[now] + c
           /\ \A w \in Windows : w > now => booked'[w] = 0
           /\ last'.at <= now
           /\ ~openLine' => last'.cost = 0
           /\ ~WriteLine(c) => booked' = booked
<1>1. /\ booked \in [Windows -> Nat] /\ now \in Windows /\ now \in Nat /\ torn \in Nat
      /\ openLine \in BOOLEAN /\ last \in [at : Windows, cost : 0..MaxCost]
      /\ c \in Nat /\ booked[now] \in Nat /\ MaxCost \in Nat /\ last.at \in Nat
      /\ 0 \in Windows /\ 0 \in 0..MaxCost /\ last.at <= now
      /\ LastLine(now) \in Nat
  BY LedgerAssumption, LastLineBounds DEF IndInv, TypeOK, Windows
<1>2. CASE WriteLine(c)
  <2>1. last' = NoRecord /\ openLine' = FALSE /\ torn' = torn
    BY <1>2 DEF WriteLine
  <2>2. LastLine(now)' = 0 /\ last'.at = 0 /\ last'.cost = 0
    BY <2>1 DEF LastLine, NoRecord
  <2>3. booked' = booked \/ booked' = [booked EXCEPT ![now] = @ + c]
    BY <1>2 DEF WriteLine
  <2>4. /\ booked' \in [Windows -> Nat] /\ booked'[now] <= booked[now] + c
        /\ \A w \in Windows : w > now => booked'[w] = 0
    BY <1>1, <2>3 DEF IndInv
  <2>5. booked'[now] \in Nat
    BY <1>1, <2>4
  <2> QED
    <3>1. last' \in [at : Windows, cost : 0..MaxCost]
      BY <1>1, <2>1 DEF NoRecord
    <3>2. booked'[now] + LastLine(now)' <= booked[now] + LastLine(now) + c
      BY <1>1, <2>2, <2>4, <2>5
    <3>3. openLine' \in BOOLEAN /\ torn' \in Nat /\ last'.at <= now
      <4>1. last'.at = 0 /\ 0 <= now
        BY <1>1, <2>2
      <4> QED
        BY <1>1, <2>1, <4>1
    <3> QED
      BY <1>2, <2>1, <2>2, <2>4, <3>1, <3>2, <3>3
<1>3. CASE UNCHANGED <<file, torn>>
  BY <1>1, <1>3 DEF file, IndInv, LastLine, WriteLine
<1>4. CASE /\ torn' = torn + 1 /\ openLine' = TRUE /\ UNCHANGED booked
           /\ \/ last' = NoRecord
              \/ ~openLine /\ last' = [at |-> now, cost |-> c]
  <2>1. /\ last' \in [at : Windows, cost : 0..MaxCost]
        /\ last'.at \in Nat /\ last'.at <= now'
        /\ LastLine(now)' \in Nat /\ LastLine(now)' <= c
    BY <1>1, <1>4, NextLastLine
  <2>2. booked' = booked /\ torn' \in Nat /\ openLine' = TRUE
    BY <1>1, <1>4
  <2>3. booked[now] + LastLine(now)' <= booked[now] + LastLine(now) + c
    BY <1>1, <2>1
  <2>4. \A w \in Windows : w > now => booked[w] = 0
    BY DEF IndInv
  <2> QED
    BY <1>1, <2>1, <2>2, <2>3, <2>4
<1> QED
  BY <1>2, <1>3, <1>4 DEF StopShort

\* A turn ends, or the broker with it, and its record is written, or in part,
\* or not: what it cost leaves the exposure before anybody reads it.
LEMMA TurnEndKeeps ==
    ASSUME IndInv, NEW s \in Sessions,
           \/ \E c \in 0..MaxCost :
                 Result(s, c) \/ ResultNotWritten(s, c) \/ CrashAfterWrite(s, c)
           \/ Abandon(s)
    PROVE  IndInv'
<1>1. s \in busy /\ up
  BY DEF Result, CrashAfterWrite, ResultNotWritten, Abandon
<1>10. TypeOK /\ spent \in Nat /\ booked[now] \in Nat /\ now \in Windows
  BY DEF IndInv, TypeOK
<1>11. /\ Exposure \in Nat /\ Limit \in Nat /\ Limit' = Limit
      /\ spent + Exposure < Limit /\ booked[now] <= spent
      /\ booked[now] + LastLine(now) < Limit
  BY <1>1, <1>10, Numbers DEF IndInv, Exposure, Limit
<1>12. /\ Cardinality(busy \ {s}) * MaxCost \in Nat
      /\ Exposure = Cardinality(busy \ {s}) * MaxCost + MaxCost
  BY <1>1, <1>10, OneTurnLess
<1>13. MaxCost \in Nat /\ 0 \in 0..MaxCost
  BY LedgerAssumption
<1>2. PICK c \in 0..MaxCost :
         \/ Result(s, c) \/ ResultNotWritten(s, c) \/ CrashAfterWrite(s, c)
         \/ Abandon(s)
  BY <1>13
<1>3. /\ c \in Nat /\ c <= MaxCost
      /\ now' = now /\ since' = since /\ up' \in BOOLEAN
      /\ busy' = busy \ {s} \/ (busy' = {} /\ ~up')
      /\ WriteLine(c) \/ StopShort(c) \/ UNCHANGED <<file, torn>>
      /\ spent' = spent \/ spent' = spent + c
      /\ up' => spent' = spent + c \/ booked' = booked
  <2>1. c \in Nat /\ c <= MaxCost
    BY <1>13
  <2>2. CASE Result(s, c)
    BY <1>1, <2>1, <2>2, Zenon DEF Result
  <2>3. CASE ResultNotWritten(s, c)
    <3>1. booked' = booked
      BY <2>3 DEF ResultNotWritten, StopShort, file
    <3> QED
      BY <1>1, <2>1, <2>3, <3>1, Zenon DEF ResultNotWritten
  <2>4. CASE CrashAfterWrite(s, c)
    BY <2>1, <2>4, Zenon DEF CrashAfterWrite
  <2>5. CASE Abandon(s)
    <3>1. booked' = booked
      BY <2>5 DEF Abandon, file
    <3> QED
      BY <1>1, <2>1, <2>5, <3>1, Zenon DEF Abandon
  <2> QED
    BY <1>2, <2>2, <2>3, <2>4, <2>5
<1>4. /\ booked' \in [Windows -> Nat] /\ openLine' \in BOOLEAN
      /\ last' \in [at : Windows, cost : 0..MaxCost] /\ torn' \in Nat
      /\ booked'[now] + LastLine(now)' <= booked[now] + LastLine(now) + c
      /\ booked'[now] <= booked[now] + c
      /\ \A w \in Windows : w > now => booked'[w] = 0
      /\ last'.at <= now
      /\ ~openLine' => last'.cost = 0
      /\ ~WriteLine(c) => booked' = booked
  BY <1>3, FileBounds
<1>5. TypeOK'
  <2>1. spent' \in Nat /\ busy' \subseteq Sessions
    BY <1>3, <1>10 DEF TypeOK
  <2>2. now' \in Windows /\ since' \in Windows
    BY <1>3, <1>10 DEF TypeOK
  <2> QED
    BY <1>3, <1>4, <2>1, <2>2 DEF TypeOK
<1>6. PICK e \in Nat : Exposure' = e /\ e + MaxCost <= Exposure /\ MaxCost <= Exposure
  <2>1. CASE busy' = busy \ {s}
    <3>1. Exposure' = Cardinality(busy \ {s}) * MaxCost
      BY <2>1 DEF Exposure
    <3> QED
      BY <1>12, <1>13, <3>1
  <2>2. CASE busy' = {}
    <3>1. Cardinality(busy') = 0
      BY <2>2, FS_EmptySet
    <3>2. Exposure' = 0
      BY <1>13, <3>1 DEF Exposure
    <3> QED
      BY <1>12, <1>13, <3>2
  <2> QED
    BY <1>3, <2>1, <2>2
<1>7. spent' + Exposure' < Limit'
  <2>1. PICK d \in 0..MaxCost : spent' = spent + d
    BY <1>3, <1>10, <1>13
  <2>2. spent + d + e < Limit
    BY <1>6, <1>10, <1>11, <1>13
  <2> QED
    BY <1>6, <1>11, <2>1, <2>2
<1>8. booked'[now'] + LastLine(now)' < Limit'
  <2>1. now' = now
    BY <1>3
  <2>2. LastLine(now) \in Nat /\ MaxCost <= Exposure
    BY <1>6, LastLineBounds
  <2>3. booked'[now] \in Nat /\ LastLine(now)' \in Nat
    <3>1. last'.cost \in Nat /\ last'.at \in Nat /\ booked'[now] \in Nat
      BY <1>4, <1>10, <1>13 DEF Windows
    <3> QED
      BY <1>3, <3>1 DEF LastLine
  <2>4. CASE openLine = FALSE
    <3>1. LastLine(now) = 0
      BY <2>4, LastLineBounds
    <3> QED
      BY <1>3, <1>4, <1>10, <1>11, <1>13, <2>1, <2>2, <2>3, <3>1
  <2>5. CASE openLine = TRUE
    <3>1. booked'[now] + LastLine(now)' <= booked[now] + LastLine(now)
      <4>1. CASE WriteLine(c)
        <5>1. booked' = booked /\ LastLine(now)' = 0
          BY <2>5, <4>1 DEF WriteLine, LastLine, NoRecord
        <5> QED
          BY <1>10, <2>2, <5>1
      <4>2. CASE UNCHANGED <<file, torn>>
        BY <1>3, <1>10, <2>2, <4>2 DEF file, LastLine
      <4>3. CASE StopShort(c) /\ last' = NoRecord
        <5>1. LastLine(now)' = 0 /\ booked' = booked
          BY <4>3 DEF StopShort, file, LastLine, NoRecord
        <5> QED
          BY <1>10, <2>2, <5>1
      <4> QED
        BY <1>3, <2>5, <4>1, <4>2, <4>3 DEF StopShort
    <3> QED
      BY <1>10, <1>11, <2>1, <2>2, <2>3, <3>1
  <2> QED
    BY <1>10, <2>4, <2>5 DEF TypeOK
<1>9. up' => booked'[now'] <= spent'
  <2>1. booked'[now] \in Nat
    BY <1>4, <1>10
  <2> QED
    BY <1>3, <1>4, <1>10, <1>11, <2>1
<1>14. ~up' => busy' = {}
  BY <1>2, <1>1 DEF Result, ResultNotWritten, CrashAfterWrite, Abandon
<1> QED
  BY <1>3, <1>4, <1>5, <1>7, <1>8, <1>9, <1>14 DEF IndInv, Exposure

\* A crash ends every turn, and may find one's record half written.
LEMMA CrashKeeps ==
    ASSUME IndInv, Crash
    PROVE  IndInv'
<1>1. /\ TypeOK /\ spent \in Nat /\ now \in Windows /\ booked[now] \in Nat
      /\ busy \in SUBSET Sessions
  BY DEF IndInv, TypeOK
<1>2. /\ Exposure \in Nat /\ Limit \in Nat /\ Limit' = Limit
      /\ spent + Exposure < Limit /\ booked[now] + LastLine(now) < Limit
      /\ booked[now] <= spent /\ MaxCost \in Nat /\ 0 \in 0..MaxCost
  BY <1>1, Numbers, LedgerAssumption DEF IndInv, Exposure, Limit, Crash
<1>3. UNCHANGED <<spent, since, now>> /\ up' = FALSE /\ busy' = {}
  BY DEF Crash
<1>4. PICK c \in 0..MaxCost :
         UNCHANGED <<file, torn>> \/ (busy # {} /\ StopShort(c))
  BY <1>2 DEF Crash
<1>5. /\ booked' \in [Windows -> Nat] /\ openLine' \in BOOLEAN
      /\ last' \in [at : Windows, cost : 0..MaxCost] /\ torn' \in Nat
      /\ \A w \in Windows : w > now => booked'[w] = 0
      /\ last'.at <= now
      /\ ~openLine' => last'.cost = 0
  BY <1>3, <1>4, FileBounds
<1>6. TypeOK'
  BY <1>1, <1>3, <1>5 DEF TypeOK
<1>7. spent' + Cardinality(busy') * MaxCost < Limit'
  <2>1. Cardinality(busy') = 0
    BY <1>3, FS_EmptySet
  <2>2. Cardinality(busy') * MaxCost = 0
    BY <1>2, <2>1
  <2> QED
    BY <1>1, <1>2, <1>3, <2>2
<1>8. booked'[now'] + LastLine(now)' < Limit'
  <2>1. now' = now
    BY <1>3
  <2>2. CASE UNCHANGED <<file, torn>>
    BY <1>1, <1>2, <2>1, <2>2 DEF file, LastLine
  <2>3. CASE busy # {} /\ StopShort(c)
    <3>1. PICK s : s \in busy
      BY <2>3
    <3>2. MaxCost <= Exposure
      <4>1. /\ Cardinality(busy \ {s}) * MaxCost \in Nat
            /\ Exposure = Cardinality(busy \ {s}) * MaxCost + MaxCost
        BY <1>1, <3>1, OneTurnLess
      <4> QED
        BY <1>2, <4>1
    <3>3. booked' = booked
      BY <2>3 DEF StopShort, file
    <3>4. c \in Nat /\ c <= MaxCost
      BY <1>2
    <3>5. \/ UNCHANGED <<file, torn>> \/ last' = NoRecord
          \/ last' = [at |-> now, cost |-> c]
      BY <2>3 DEF StopShort
    <3>6. LastLine(now)' \in Nat /\ (LastLine(now)' <= c \/ UNCHANGED <<file, torn>>)
      <4>1. last'.cost \in Nat /\ last'.at \in Nat
        BY <1>2, <1>5 DEF Windows
      <4>2. LastLine(now)' \in Nat
        BY <1>3, <4>1 DEF LastLine
      <4> QED
        BY <1>3, <3>4, <3>5, <4>2 DEF LastLine, NoRecord
    <3>7. booked[now] + c < Limit
      BY <1>1, <1>2, <3>2, <3>4
    <3> QED
      BY <1>1, <1>2, <2>1, <2>2, <3>3, <3>4, <3>6, <3>7
  <2> QED
    BY <1>4, <2>2, <2>3
<1> QED
  BY <1>3, <1>5, <1>6, <1>7, <1>8 DEF IndInv

\* A restart counts what the file says; the clock leaves the total alone and
\* enters a window without records.
LEMMA BrokerKeeps ==
    ASSUME IndInv, Restart \/ WindowRolls
    PROVE  IndInv'
<1>10. /\ TypeOK /\ spent \in Nat /\ now \in Windows
      /\ \A w \in Windows : booked[w] \in Nat
  BY DEF IndInv, TypeOK
<1>11. /\ Exposure \in Nat /\ Limit \in Nat /\ Limit' = Limit /\ 0 < Limit
      /\ spent + Exposure < Limit /\ booked[now] + LastLine(now) < Limit
      /\ LastLine(now) \in Nat
  BY <1>10, Numbers, LastLineBounds DEF IndInv, Exposure, Limit
<1>14. busy' = {} => Exposure' = 0
  BY FS_EmptySet, LedgerAssumption DEF Exposure
<1>2. ASSUME Restart
      PROVE  IndInv'
  <2>1. TypeOK'
    <3>1. spent' \in Nat /\ torn' \in Nat
      BY <1>2, <1>10, <1>11 DEF Restart
    <3> QED
      BY <1>2, <1>10, <3>1 DEF Restart, TypeOK, file
  <2>2. spent' + Exposure' < Limit'
    BY <1>2, <1>10, <1>11, <1>14 DEF Restart, IndInv
  <2>3. booked'[now'] <= spent' /\ booked'[now'] + LastLine(now)' < Limit'
    BY <1>2, <1>10, <1>11 DEF Restart, file, LastLine
  <2> QED
    BY <1>2, <2>1, <2>2, <2>3 DEF IndInv, Restart, Exposure, file
<1>3. ASSUME WindowRolls
      PROVE  IndInv'
  <2>1. TypeOK' /\ now' = now + 1
    BY <1>3, <1>10, LedgerAssumption DEF WindowRolls, TypeOK, Windows, file
  <2>2. spent' + Exposure' < Limit'
    BY <1>3, <1>11 DEF WindowRolls, Exposure
  <2>3. booked'[now'] = 0 /\ (\A w \in Windows : w > now' => booked'[w] = 0)
    <3>1. now' \in Windows /\ now' > now /\ booked' = booked
      BY <1>3, <1>10, <2>1, LedgerAssumption DEF WindowRolls, Windows, TypeOK, file
    <3>2. \A w \in Windows : w > now => booked[w] = 0
      BY DEF IndInv
    <3>3. \A w \in Windows : w > now' => w > now
      BY <1>10, <2>1, LedgerAssumption DEF Windows
    <3> QED
      BY <3>1, <3>2, <3>3
  <2>4. last' = last /\ last.at \in Nat /\ last.at <= now /\ now \in Nat
    BY <1>3, <1>10, LastLineBounds, LedgerAssumption DEF WindowRolls, file, IndInv, Windows
  <2>5. LastLine(now)' = 0
    BY <2>1, <2>4 DEF LastLine
  <2>6. booked'[now'] <= spent' /\ booked'[now'] + LastLine(now)' < Limit'
    BY <1>3, <1>10, <1>11, <2>3, <2>5 DEF WindowRolls
  <2> QED
    BY <1>3, <2>1, <2>2, <2>3, <2>4, <2>6 DEF IndInv, WindowRolls, Exposure, file
<1> QED
  BY <1>2, <1>3

\* Every step preserves the invariant.
LEMMA StepInv == IndInv /\ [Next]_vars => IndInv'
<1> SUFFICES ASSUME IndInv, [Next]_vars PROVE IndInv'
  OBVIOUS
<1>1. ASSUME NEW s \in Sessions, Send(s) PROVE IndInv'
  BY <1>1, SendKeeps
<1>2. ASSUME NEW s \in Sessions,
             \/ \E c \in 0..MaxCost :
                   Result(s, c) \/ ResultNotWritten(s, c) \/ CrashAfterWrite(s, c)
             \/ Abandon(s)
      PROVE  IndInv'
  BY <1>2, TurnEndKeeps
<1>3. CASE Crash
  BY <1>3, CrashKeeps
<1>4. CASE Restart \/ WindowRolls
  BY <1>4, BrokerKeeps
<1>5. CASE UNCHANGED vars
  BY <1>5 DEF vars, file, IndInv, TypeOK, Limit, LastLine
<1> QED
  BY <1>1, <1>2, <1>3, <1>4, <1>5 DEF Next

\* The ledger's invariant: turns in flight were started under the budget, and
\* no replay of the window reads past the limit, also not the record of a write
\* that stopped ahead of its newline and was not counted.
THEOREM LedgerInvariance == Spec => []IndInv
<1> QED
  BY InitInv, StepInv, PTL DEF Spec

\* check_global_budget() bounds the total: whatever the interleaving of turns,
\* crashes and failing writes, it stays below the budget plus one turn for each
\* session.
THEOREM BudgetHolds == Spec => []OvershootBounded
<1>1. IndInv => OvershootBounded
  <2> SUFFICES ASSUME IndInv PROVE OvershootBounded
    OBVIOUS
  <2>1. TypeOK /\ spent \in Nat /\ spent + Exposure < Limit
    BY DEF IndInv, TypeOK, Exposure
  <2> QED
    BY <2>1, Numbers DEF OvershootBounded
<1> QED
  BY <1>1, LedgerInvariance, PTL

----------------------------------------------------------------------------
(* The file and the total. *)

\* The windows, and the end of the last.
Ends == 0 .. (MaxWindow + 1)

\* f[w] is what a replay reads that starts at window w, when g is booked.
IsSum(g, f) ==
    /\ f \in [Ends -> Nat]
    /\ f[MaxWindow + 1] = 0
    /\ \A w \in Windows : f[w] = g[w] + f[w + 1]

\* Among some of the windows there is a last: the intervals that end the
\* windows above one of them are ordered by inclusion, which is well-founded.
LEMMA LastExists ==
    ASSUME NEW T \in SUBSET Ends, T # {}
    PROVE  \E x \in T : \A y \in T : y <= x
<1> DEFINE Above == {x .. (MaxWindow + 1) : x \in T}
<1>0. MaxWindow + 1 \in Nat
  BY LedgerAssumption
<1>1. Above \subseteq FiniteSubsetsOf(Nat) /\ Above # {}
  <2>1. \A x \in T : x .. (MaxWindow + 1) \in SUBSET Nat
    BY <1>0 DEF Ends
  <2>2. \A x \in T : IsFiniteSet(x .. (MaxWindow + 1))
    BY <1>0, FS_Interval DEF Ends
  <2> QED
    BY <2>1, <2>2 DEF FiniteSubsetsOf
<1>2. PICK S \in Above : \A R \in Above : <<R, S>> \notin StrictSubsetOrdering(Nat)
  <2> HIDE DEF Above
  <2> QED
    BY <1>1, FS_StrictSubsetOrderingWellFounded, WFMin
<1>3. PICK x \in T : S = x .. (MaxWindow + 1)
  BY <1>2
<1>4. ASSUME NEW y \in T, y > x PROVE FALSE
  <2>1. y .. (MaxWindow + 1) \subseteq S /\ y .. (MaxWindow + 1) # S
    BY <1>0, <1>3, <1>4 DEF Ends
  <2>2. y .. (MaxWindow + 1) \subseteq Nat /\ S \subseteq Nat
    BY <1>0, <1>3 DEF Ends
  <2>3. <<y .. (MaxWindow + 1), S>> \in StrictSubsetOrdering(Nat)
    BY <2>1, <2>2 DEF StrictSubsetOrdering
  <2> QED
    BY <1>2, <2>3
<1> QED
  BY <1>0, <1>4 DEF Ends

\* What holds at the end, and at a window when it holds at the next, holds
\* at all of them.
LEMMA Downwards ==
    ASSUME NEW S \in SUBSET Ends, MaxWindow + 1 \in S,
           \A w \in Windows : w + 1 \in S => w \in S
    PROVE  S = Ends
<1> SUFFICES ASSUME Ends \ S # {} PROVE FALSE
  OBVIOUS
<1>1. PICK x \in Ends \ S : \A y \in Ends \ S : y <= x
  BY LastExists
<1>2. x \in Windows /\ x + 1 \in Ends /\ x + 1 > x
  BY <1>1, LedgerAssumption DEF Ends, Windows
<1>3. x + 1 \in S
  BY <1>1, <1>2 DEF Ends
<1> QED
  BY <1>1, <1>2, <1>3

\* There is such a sum: it is built from the last window down.
LEMMA SumExists ==
    ASSUME NEW g \in [Windows -> Nat]
    PROVE  \E f : IsSum(g, f)
<1> DEFINE From(k, f) == /\ f \in [Ends -> Nat]
                         /\ f[MaxWindow + 1] = 0
                         /\ \A w \in Windows : w >= k => f[w] = g[w] + f[w + 1]
           S == {k \in Ends : \E f : From(k, f)}
<1>0. MaxWindow \in Nat /\ MaxWindow + 1 \in Ends /\ 0 \in Ends
  BY LedgerAssumption DEF Ends
<1>1. MaxWindow + 1 \in S
  <2>1. From(MaxWindow + 1, [w \in Ends |-> 0])
    BY <1>0 DEF Windows
  <2> QED
    BY <1>0, <2>1
<1>2. ASSUME NEW k \in Windows, k + 1 \in S PROVE k \in S
  <2>1. PICK f : From(k + 1, f)
    BY <1>2
  <2>2. k \in Ends /\ k + 1 \in Ends /\ k # MaxWindow + 1 /\ k \in Nat
    BY <1>0 DEF Windows, Ends
  <2> DEFINE h == [f EXCEPT ![k] = g[k] + f[k + 1]]
  <2>3. h \in [Ends -> Nat] /\ h[MaxWindow + 1] = 0
    BY <1>0, <2>1, <2>2
  <2>4. \A w \in Windows : w >= k => h[w] = g[w] + h[w + 1]
    <3> SUFFICES ASSUME NEW w \in Windows, w >= k PROVE h[w] = g[w] + h[w + 1]
      OBVIOUS
    <3>1. w \in Ends /\ w + 1 \in Ends /\ w + 1 # k /\ w \in Nat
      BY <1>0, <2>2 DEF Windows, Ends
    <3>2. h[w + 1] = f[w + 1]
      BY <2>1, <3>1
    <3>3. CASE w = k
      BY <2>1, <2>2, <3>2, <3>3
    <3>4. CASE w # k
      <4>1. w >= k + 1 /\ h[w] = f[w]
        BY <2>1, <2>2, <3>1, <3>4
      <4> QED
        BY <2>1, <3>2, <4>1
    <3> QED
      BY <3>3, <3>4
  <2>5. From(k, h)
    BY <2>3, <2>4
  <2> QED
    BY <2>2, <2>5
<1>3. S = Ends
  <2> HIDE DEF From
  <2>1. S \in SUBSET Ends
    OBVIOUS
  <2> HIDE DEF S
  <2> QED
    BY <1>1, <1>2, <2>1, Downwards
<1>4. PICK f : From(0, f)
  BY <1>0, <1>3
<1>5. \A w \in Windows : w >= 0
  BY <1>0 DEF Windows
<1> QED
  BY <1>4, <1>5 DEF IsSum

\* There is one only.
LEMMA SumUnique ==
    ASSUME NEW g, NEW f, NEW h, IsSum(g, f), IsSum(g, h)
    PROVE  f = h
<1> DEFINE S == {k \in Ends : f[k] = h[k]}
<1>1. S \in SUBSET Ends /\ MaxWindow + 1 \in S
  BY LedgerAssumption DEF IsSum, Ends
<1>2. ASSUME NEW k \in Windows, k + 1 \in S PROVE k \in S
  BY <1>2, LedgerAssumption DEF IsSum, Ends, Windows
<1>3. S = Ends
  <2> HIDE DEF S
  <2> QED
    BY <1>1, <1>2, Downwards
<1> QED
  BY <1>3 DEF IsSum

\* It is what Replayed computes: the recursive function has that value, and
\* no other.
SumOf(g, h) ==
    [w \in Ends |-> IF w > MaxWindow THEN 0 ELSE g[w] + h[w + 1]]

LEMMA SumIsFixpoint ==
    ASSUME NEW g \in [Windows -> Nat], NEW f, IsSum(g, f)
    PROVE  (CHOOSE h : h = SumOf(g, h)) = f
<1> USE DEF SumOf
<1>1. f = SumOf(g, f)
  <2>1. \A w \in Ends : f[w] = IF w > MaxWindow THEN 0 ELSE g[w] + f[w + 1]
    BY LedgerAssumption DEF IsSum, Ends, Windows
  <2> QED
    BY <2>1 DEF IsSum
<1>2. ASSUME NEW h, h = SumOf(g, h) PROVE IsSum(g, h)
  <2>1. MaxWindow + 1 \in Ends /\ MaxWindow + 1 > MaxWindow /\ MaxWindow \in Nat
    BY LedgerAssumption DEF Ends
  <2>2. \A w \in Windows : w \in Ends /\ ~(w > MaxWindow) /\ w + 1 \in Ends
    BY <2>1 DEF Ends, Windows
  <2>3. \A w \in Ends : h[w] = IF w > MaxWindow THEN 0 ELSE g[w] + h[w + 1]
    BY <1>2
  <2>4. h[MaxWindow + 1] = 0 /\ \A w \in Windows : h[w] = g[w] + h[w + 1]
    BY <2>1, <2>2, <2>3
  <2> DEFINE S == {k \in Ends : h[k] \in Nat}
  <2>5. S \in SUBSET Ends /\ MaxWindow + 1 \in S
    BY <2>1, <2>4
  <2>6. ASSUME NEW k \in Windows, k + 1 \in S PROVE k \in S
    <3>1. k \in Ends /\ h[k + 1] \in Nat /\ g[k] \in Nat
      BY <2>2, <2>6
    <3> QED
      BY <2>4, <3>1
  <2>7. S = Ends
    <3> HIDE DEF S
    <3> QED
      BY <2>5, <2>6, Downwards
  <2>8. h = [w \in Ends |-> h[w]]
    BY <1>2
  <2>9. h \in [Ends -> Nat]
    BY <2>7, <2>8
  <2> QED
    BY <2>4, <2>9 DEF IsSum
<1> QED
  BY <1>1, <1>2, SumUnique

LEMMA ReplayedIsSum ==
    ASSUME NEW f, NEW start \in Ends
    PROVE  booked \in [Windows -> Nat] /\ IsSum(booked, f)
              => Replayed(start) = f[start] + LastLine(start)
<1>1. Replayed(start) = (CHOOSE h : h = SumOf(booked, h))[start] + LastLine(start)
  BY DEF Replayed, SumOf, Ends
<1> QED
  BY <1>1, SumIsFixpoint

\* A cost booked to a window is read by every replay that starts no later.
LEMMA SumGrows ==
    ASSUME NEW g \in [Windows -> Nat], NEW f, IsSum(g, f),
           NEW n \in Windows, NEW c \in Nat
    PROVE  IsSum([g EXCEPT ![n] = @ + c],
                 [w \in Ends |-> IF w <= n THEN f[w] + c ELSE f[w]])
<1> DEFINE h == [w \in Ends |-> IF w <= n THEN f[w] + c ELSE f[w]]
           k == [g EXCEPT ![n] = @ + c]
<1>1. MaxWindow \in Nat /\ n \in Nat /\ ~(MaxWindow + 1 <= n) /\ MaxWindow + 1 \in Ends
  BY LedgerAssumption DEF Windows, Ends
<1>2. h \in [Ends -> Nat] /\ h[MaxWindow + 1] = 0
  BY <1>1 DEF IsSum
<1>3. ASSUME NEW w \in Windows PROVE h[w] = k[w] + h[w + 1]
  <2>1. w \in Ends /\ w + 1 \in Ends /\ w \in Nat /\ f[w] = g[w] + f[w + 1]
    BY <1>1 DEF IsSum, Windows, Ends
  <2>2. f[w] \in Nat /\ f[w + 1] \in Nat /\ g[w] \in Nat
    BY <2>1 DEF IsSum
  <2>3. k[w] = IF w = n THEN g[w] + c ELSE g[w]
    OBVIOUS
  <2>4. /\ h[w] = IF w <= n THEN f[w] + c ELSE f[w]
        /\ h[w + 1] = IF w + 1 <= n THEN f[w + 1] + c ELSE f[w + 1]
    BY <2>1
  <2> HIDE DEF h, k
  <2>5. CASE w = n
    BY <1>1, <2>1, <2>2, <2>3, <2>4, <2>5
  <2>6. CASE w < n
    BY <1>1, <2>1, <2>2, <2>3, <2>4, <2>6
  <2>7. CASE w > n
    BY <1>1, <2>1, <2>2, <2>3, <2>4, <2>7
  <2> QED
    BY <1>1, <2>1, <2>5, <2>6, <2>7
<1> QED
  BY <1>2, <1>3 DEF IsSum

\* A replay of the clock's window reads that window: nothing is booked later.
LEMMA SumOfLast ==
    ASSUME NEW g \in [Windows -> Nat], NEW f, IsSum(g, f), NEW n \in Windows,
           \A w \in Windows : w > n => g[w] = 0
    PROVE  f[n] = g[n]
<1> DEFINE S == {k \in Ends : k > n => f[k] = 0}
<1>1. MaxWindow \in Nat /\ n \in Nat /\ n + 1 \in Ends /\ MaxWindow + 1 \in Ends
  BY LedgerAssumption DEF Windows, Ends
<1>2. S \in SUBSET Ends /\ MaxWindow + 1 \in S
  BY <1>1 DEF IsSum
<1>3. ASSUME NEW k \in Windows, k + 1 \in S PROVE k \in S
  <2>1. k \in Ends /\ k \in Nat /\ f[k] = g[k] + f[k + 1]
    BY <1>1 DEF IsSum, Windows, Ends
  <2> QED
    BY <1>1, <1>3, <2>1
<1>4. n + 1 \in S
  <2> HIDE DEF S
  <2>1. S = Ends
    BY <1>2, <1>3, Downwards
  <2> QED
    BY <1>1, <2>1
<1> QED
  BY <1>1, <1>4 DEF IsSum

\* What the writes that stopped short may have cost a replay: two records each.
Allowance(n) == 2 * MaxCost * n

LEMMA AllowanceGrows ==
    ASSUME NEW n \in Nat
    PROVE  /\ Allowance(n) \in Nat /\ Allowance(n + 1) = Allowance(n) + 2 * MaxCost
           /\ Allowance(0) = 0 /\ Allowance(1) = 2 * MaxCost
<1>1. MaxCost \in Nat
  BY LedgerAssumption
<1>2. \A m, k \in Nat : m * k \in Nat /\ m * (k + 1) = m * k + m /\ m * 0 = 0 /\ m * 1 = m
  OBVIOUS
<1>3. 2 * MaxCost \in Nat
  BY <1>1
<1> QED
  BY <1>2, <1>3 DEF Allowance

\* What the next record costs a replay when it is written to an open line.
Pending == IF openLine THEN MaxCost ELSE 0

\* The lines that end hold no more than was counted, and less by what the
\* allowance has left.
Drift(f) ==
    up => f[since] <= spent /\ spent + Pending <= f[since] + Allowance(torn)

\* With the invariant: the clock does not run back.
DriftInv ==
    /\ IndInv /\ since <= now
    /\ \E f : IsSum(booked, f) /\ Drift(f)

\* A write that stops adds to what is pending one record at most.
LEMMA StopShortKeepsDrift ==
    ASSUME DriftInv, IndInv', NEW c \in 0..MaxCost, NEW f,
           IsSum(booked, f), Drift(f),
           StopShort(c), UNCHANGED <<spent, since, now, up>>
    PROVE  IsSum(booked', f) /\ Drift(f)'
<1>1. /\ booked' = booked /\ spent \in Nat /\ MaxCost \in Nat /\ torn \in Nat
      /\ since \in Ends /\ f[since] \in Nat
  <2>1. spent \in Nat /\ torn \in Nat /\ since \in Windows
    BY DEF DriftInv, IndInv, TypeOK
  <2>2. since \in Ends /\ MaxCost \in Nat
    BY <2>1, LedgerAssumption DEF Ends, Windows
  <2>3. booked' = booked
    BY DEF StopShort, file
  <2> QED
    BY <2>1, <2>2, <2>3 DEF IsSum
<1>2. CASE UNCHANGED <<file, torn>>
  BY <1>1, <1>2 DEF file, Drift, Pending
<1>3. CASE torn' = torn + 1
  <2>1. Allowance(torn)' = Allowance(torn) + 2 * MaxCost
    BY <1>1, <1>3, AllowanceGrows DEF Allowance
  <2>2. Allowance(torn) \in Nat
    BY <1>1, AllowanceGrows
  <2>3. PICK n \in Nat : Pending' = n /\ n <= MaxCost
    BY <1>1 DEF Pending
  <2>4. Pending \in Nat
    BY <1>1 DEF Pending
  <2>5. up => /\ f[since] <= spent
              /\ spent + n <= f[since] + (Allowance(torn) + 2 * MaxCost)
    BY <1>1, <2>2, <2>3, <2>4 DEF Drift
  <2>6. up' => f[since'] <= spent' /\ spent' + Pending' <= f[since'] + Allowance(torn)'
    BY <2>1, <2>3, <2>5
  <2> QED
    BY <1>1, <2>6 DEF Drift
<1> QED
  BY <1>2, <1>3 DEF StopShort

LEMMA DriftStep ==
    ASSUME DriftInv, IndInv', [Next]_vars
    PROVE  DriftInv'
<1>0. PICK f : IsSum(booked, f) /\ Drift(f)
  BY DEF DriftInv
<1>1. /\ now \in Nat /\ since \in Nat /\ since <= now /\ now' \in Nat /\ spent \in Nat
      /\ booked \in [Windows -> Nat] /\ booked' \in [Windows -> Nat]
      /\ now \in Windows /\ since \in Windows /\ MaxWindow \in Nat /\ MaxCost \in Nat
      /\ since \in Ends /\ since' \in Ends /\ f[since] \in Nat
      /\ torn \in Nat /\ Allowance(torn) \in Nat
  <2>1. /\ booked \in [Windows -> Nat] /\ booked' \in [Windows -> Nat]
        /\ now \in Windows /\ now' \in Windows /\ since \in Windows
        /\ since' \in Windows /\ spent \in Nat /\ torn \in Nat /\ since <= now
    BY DEF DriftInv, IndInv, TypeOK
  <2>2. MaxWindow \in Nat /\ MaxCost \in Nat
    BY LedgerAssumption
  <2>3. \A w \in Windows : w \in Nat /\ w \in Ends
    BY <2>2 DEF Windows, Ends
  <2>4. f[since] \in Nat
    BY <1>0, <2>1, <2>3 DEF IsSum
  <2>5. Allowance(torn) \in Nat
    BY <2>1, AllowanceGrows
  <2> QED
    BY <2>1, <2>2, <2>3, <2>4, <2>5
<1>2. ASSUME NEW s \in Sessions, NEW c \in 0..MaxCost, Result(s, c)
      PROVE  DriftInv'
  <2>1. /\ since' = since /\ now' = now /\ up' = up /\ spent' = spent + c
        /\ torn' = torn /\ up /\ c \in Nat /\ c <= MaxCost /\ openLine' = FALSE
    BY <1>2, <1>1 DEF Result, WriteLine
  <2>2. Pending' = 0 /\ Allowance(torn)' = Allowance(torn)
    BY <2>1 DEF Pending, Allowance
  <2>3. CASE openLine
    <3>1. booked' = booked /\ Pending = MaxCost
      BY <1>2, <2>3 DEF Result, WriteLine, Pending
    <3>2. Drift(f)'
      BY <1>0, <1>1, <2>1, <2>2, <3>1 DEF Drift
    <3> QED
      BY <1>0, <1>1, <2>1, <3>1, <3>2 DEF DriftInv
  <2>4. CASE ~openLine
    <3> DEFINE h == [w \in Ends |-> IF w <= now THEN f[w] + c ELSE f[w]]
    <3>1. booked' = [booked EXCEPT ![now] = @ + c] /\ Pending = 0
      BY <1>2, <2>4 DEF Result, WriteLine, Pending
    <3>2. IsSum(booked', h)
      <4>1. IsSum([booked EXCEPT ![now] = @ + c], h)
        BY ONLY <1>0, <1>1, <2>1, SumGrows, Zenon
      <4> HIDE DEF h
      <4> QED
        BY <3>1, <4>1
    <3>3. h[since] = f[since] + c
      BY <1>1, <2>1
    <3> HIDE DEF h
    <3>4. PICK g : g = h
      OBVIOUS
    <3>5. f[since] <= spent /\ spent <= f[since] + Allowance(torn)
      BY <1>0, <1>1, <2>1, <3>1 DEF Drift
    <3>6. g[since] <= spent + c /\ spent + c + 0 <= g[since] + Allowance(torn)
      BY <1>1, <2>1, <3>3, <3>4, <3>5
    <3>7. g[since'] <= spent' /\ spent' + Pending' <= g[since'] + Allowance(torn)'
      BY <2>1, <2>2, <3>6
    <3>8. IsSum(booked', g)
      BY <3>2, <3>4
    <3>9. Drift(g)'
      BY <3>7 DEF Drift
    <3> QED
      BY <1>1, <2>1, <3>8, <3>9 DEF DriftInv
  <2> QED
    BY <2>3, <2>4
<1>3. ASSUME NEW s \in Sessions, NEW c \in 0..MaxCost, CrashAfterWrite(s, c)
      PROVE  DriftInv'
  <2>1. PICK g : IsSum(booked', g)
    BY <1>1, SumExists
  <2>2. Drift(g)'
    BY <1>3 DEF CrashAfterWrite, Drift
  <2> QED
    BY <1>1, <1>3, <2>1, <2>2 DEF CrashAfterWrite, DriftInv
<1>4. ASSUME NEW s \in Sessions, Send(s) \/ Abandon(s)
      PROVE  DriftInv'
  <2>1. UNCHANGED <<spent, since, file, now, up, torn>>
    BY <1>4 DEF Send, Abandon
  <2>2. Drift(f)'
    BY <1>0, <2>1 DEF file, Drift, Pending, Allowance
  <2> QED
    BY <1>0, <1>1, <2>1, <2>2 DEF DriftInv, file
<1>5. ASSUME NEW s \in Sessions, NEW c \in 0..MaxCost, ResultNotWritten(s, c)
      PROVE  DriftInv'
  <2>1. StopShort(c) /\ UNCHANGED <<spent, since, now, up>>
    BY <1>5 DEF ResultNotWritten
  <2>2. IsSum(booked', f) /\ Drift(f)'
    BY <1>0, <2>1, StopShortKeepsDrift
  <2> QED
    BY <1>1, <2>1, <2>2 DEF DriftInv
<1>6. CASE Crash
  <2>1. PICK g : IsSum(booked', g)
    BY <1>1, SumExists
  <2>2. Drift(g)'
    BY <1>6 DEF Crash, Drift
  <2> QED
    BY <1>1, <1>6, <2>1, <2>2 DEF Crash, DriftInv
<1>7. CASE Restart
  <2>1. /\ since' = now /\ now' = now /\ booked' = booked /\ openLine' = openLine
        /\ spent' = booked[now] + LastLine(now)
        /\ torn' = IF openLine THEN 1 ELSE 0
    BY <1>7 DEF Restart, file
  <2>2. f[now] = booked[now]
    BY <1>0, <1>1, SumOfLast DEF DriftInv, IndInv
  <2>3. /\ LastLine(now) \in Nat /\ LastLine(now) <= MaxCost
        /\ ~openLine => LastLine(now) = 0
    BY LastLineBounds DEF DriftInv
  <2>4. /\ Allowance(torn)' = IF openLine THEN 2 * MaxCost ELSE 0
        /\ Pending' = IF openLine THEN MaxCost ELSE 0
    BY <2>1, AllowanceGrows DEF Allowance, Pending
  <2>5. booked[now] \in Nat
    BY <1>1
  <2>6. f[since'] <= spent' /\ spent' + Pending' <= f[since'] + Allowance(torn)'
    BY <1>1, <2>1, <2>2, <2>3, <2>4, <2>5
  <2>7. Drift(f)'
    BY <2>6 DEF Drift
  <2> QED
    BY <1>0, <1>1, <2>1, <2>7 DEF DriftInv
<1>8. CASE WindowRolls
  <2>1. UNCHANGED <<spent, since, file, up, torn>> /\ now' = now + 1
    BY <1>8 DEF WindowRolls
  <2>2. Drift(f)'
    BY <1>0, <2>1 DEF file, Drift, Pending, Allowance
  <2> QED
    BY <1>0, <1>1, <2>1, <2>2 DEF DriftInv, file
<1>9. CASE UNCHANGED vars
  <2>1. Drift(f)'
    BY <1>0, <1>9 DEF vars, file, Drift, Pending, Allowance
  <2> QED
    BY <1>0, <1>1, <1>9, <2>1 DEF DriftInv, vars, file
<1> QED
  BY <1>2, <1>3, <1>4, <1>5, <1>6, <1>7, <1>8, <1>9 DEF Next

\* The total in memory and the file drift apart only by writes that stop short:
\* through crashes between a record and its count, windows that pass and
\* restarts, the file is ahead by the one record that lacks its newline at most,
\* and behind by two records for each such write.
THEOREM DriftIsBounded == Spec => []DriftBounded
<1>1. Init => DriftInv
  <2> SUFFICES ASSUME Init PROVE DriftInv
    OBVIOUS
  <2>1. IndInv /\ since <= now
    BY InitInv DEF Init
  <2>2. /\ now \in Windows /\ now \in Ends /\ booked \in [Windows -> Nat]
        /\ since = now /\ spent = 0 /\ \A w \in Windows : booked[w] = 0
    BY LedgerAssumption DEF Init, Windows, Ends
  <2>3. PICK f : IsSum(booked, f)
    BY <2>2, SumExists
  <2>4. f[now] = booked[now]
    BY <2>2, <2>3, SumOfLast
  <2>5. Pending = 0 /\ Allowance(torn) = 0
    BY AllowanceGrows DEF Pending, Init
  <2>6. Drift(f)
    BY <2>2, <2>4, <2>5 DEF Drift
  <2> QED
    BY <2>1, <2>3, <2>6 DEF DriftInv
<1>2. DriftInv /\ [Next]_vars => DriftInv'
  <2>1. DriftInv /\ [Next]_vars => IndInv'
    BY StepInv DEF DriftInv
  <2> QED
    BY <2>1, DriftStep
<1>3. DriftInv => DriftBounded
  <2> SUFFICES ASSUME DriftInv, up PROVE DriftBounded
    BY DEF DriftBounded
  <2>1. PICK f : IsSum(booked, f) /\ Drift(f)
    BY DEF DriftInv
  <2>2. /\ since \in Ends /\ booked \in [Windows -> Nat] /\ spent \in Nat
        /\ torn \in Nat /\ MaxCost \in Nat /\ f[since] \in Nat /\ since \in Nat
    <3>1. /\ since \in Windows /\ booked \in [Windows -> Nat] /\ spent \in Nat
          /\ torn \in Nat
      BY DEF DriftInv, IndInv, TypeOK
    <3>2. MaxCost \in Nat /\ since \in Ends /\ since \in Nat
      BY <3>1, LedgerAssumption DEF Windows, Ends
    <3> QED
      BY <2>1, <3>1, <3>2 DEF IsSum
  <2>3. Replayed(since) = f[since] + LastLine(since)
    BY <2>1, <2>2, ReplayedIsSum
  <2>4. LastLine(since) \in Nat /\ LastLine(since) <= last.cost /\ last.cost \in Nat
    BY <2>2, LastLineBounds DEF DriftInv, LastLine
  <2>5. Pending \in Nat /\ Allowance(torn) \in Nat /\ Allowance(torn) = 2 * MaxCost * torn
    BY <2>2, AllowanceGrows DEF Pending, Allowance
  <2>6. f[since] <= spent /\ spent + Pending <= f[since] + Allowance(torn)
    BY <2>1 DEF Drift
  <2>7. spent <= Replayed(since) + Allowance(torn) /\ Replayed(since) <= spent + last.cost
    BY <2>2, <2>3, <2>4, <2>5, <2>6
  <2> QED
    BY <2>5, <2>7 DEF DriftBounded
<1> QED
  BY <1>1, <1>2, <1>3, PTL DEF Spec

----------------------------------------------------------------------------
(* The ledger and the governor. *)

\* The governor's steps leave the ledger to its own.
LEMMA LedgerStep ==
    ASSUME [AdmissionNext]_admissionVars
    PROVE  [Next]_vars
<1>1. ASSUME NEW s \in Sessions, StartTurn(s) PROVE [Next]_vars
  BY <1>1 DEF StartTurn, Next
<1>2. ASSUME NEW s \in Sessions, NEW c \in 0..MaxCost, EndTurn(s, c)
      PROVE [Next]_vars
  BY <1>2 DEF EndTurn, Next
<1>3. ASSUME NEW s \in Sessions, LoseTurn(s) PROVE [Next]_vars
  BY <1>3 DEF LoseTurn, Next
<1>4. ASSUME NEW s \in Sessions, Retry(s) PROVE [Next]_vars
  <2>1. PICK lost \in {TRUE, FALSE, cooling'} : Lost(s, lost)
    BY <1>4 DEF Retry
  <2>2. CASE Abandon(s)
    BY <2>2 DEF Next
  <2>3. CASE UNCHANGED vars
    BY <2>3
  <2> QED
    BY <2>1, <2>2, <2>3 DEF Lost
<1>5. CASE AskGovernor \/ Tick
  BY <1>5 DEF AskGovernor, Tick
<1>6. CASE Die
  BY <1>6 DEF Die, Next
<1>7. CASE (Restart \/ WindowRolls) /\ UNCHANGED <<governorVars, embargo>>
  BY <1>7 DEF Next
<1>8. CASE UNCHANGED admissionVars
  BY <1>8 DEF admissionVars
<1> QED
  BY <1>1, <1>2, <1>3, <1>4, <1>5, <1>6, <1>7, <1>8 DEF AdmissionNext

\* The composition implements the ledger.
THEOREM AdmissionIsLedger == AdmissionSpec => Spec
<1>1. AdmissionInit => Init
  BY DEF AdmissionInit
<1>2. [AdmissionNext]_admissionVars => [Next]_vars
  BY LedgerStep
<1> QED
  BY <1>1, <1>2, PTL DEF AdmissionSpec, Spec

\* The budget holds in the presence of cooldowns, retries and lost sessions.
THEOREM BudgetHoldsInAdmission == AdmissionSpec => []OvershootBounded
BY AdmissionIsLedger, BudgetHolds, PTL

\* And so does the bound of the drift between file and total.
THEOREM DriftIsBoundedInAdmission == AdmissionSpec => []DriftBounded
BY AdmissionIsLedger, DriftIsBounded, PTL

----------------------------------------------------------------------------
\* The delay of a rate limit is within its cooldown, whatever the jitter.
LEMMA RateLimitCoversDelay ==
    ASSUME AdmissionInv, NEW delay \in Delays, RateLimited(delay)
    PROVE  /\ remaining' \in Nat /\ delay \in Nat /\ consecutive' \in Nat
           /\ cooling' \in BOOLEAN /\ authFailed' \in BOOLEAN
           /\ delay <= remaining'
           /\ delay > 0 => cooling'
<1>1. delay \in Nat /\ MaxConsecutive \in Nat
  BY GovernorAssumption
<1>2. PICK jitter \in Nat :
         remaining' = Longer(delay, jitter) /\ cooling' = (remaining' # 0)
  BY DEF RateLimited
<1>3. remaining' \in Nat /\ delay <= remaining'
  BY <1>1, <1>2 DEF Longer
<1>4. consecutive' \in Nat
  BY <1>1 DEF RateLimited, Shorter, AdmissionInv, AdmissionTypeOK
<1>5. authFailed' \in BOOLEAN
  BY DEF RateLimited, AdmissionInv, AdmissionTypeOK
<1>6. delay > 0 => remaining' # 0
  BY <1>1, <1>3
<1>7. cooling' \in BOOLEAN /\ (delay > 0 => cooling')
  BY <1>2, <1>6, Zenon
<1> QED
  BY <1>1, <1>3, <1>4, <1>5, <1>7, Zenon

LEMMA AdmissionInvStep ==
    ASSUME AdmissionInv, [AdmissionNext]_admissionVars
    PROVE  AdmissionInv'
<1> USE DEF AdmissionInv, AdmissionTypeOK
<1>1. ASSUME NEW s \in Sessions, StartTurn(s) PROVE AdmissionInv'
  BY <1>1 DEF StartTurn, AssertSendable, IsInCooldown, InCooldown
<1>2. ASSUME NEW s \in Sessions, NEW c \in 0..MaxCost, EndTurn(s, c)
      PROVE AdmissionInv'
  BY <1>2 DEF EndTurn, OnTurnComplete, InCooldown
<1>3. ASSUME NEW s \in Sessions, LoseTurn(s) PROVE AdmissionInv'
  BY <1>3 DEF LoseTurn, governorVars
<1>4. ASSUME NEW s \in Sessions, Retry(s) PROVE AdmissionInv'
  <2>1. ASSUME NEW delay \in Delays, RateLimited(delay), embargo' = delay
        PROVE  AdmissionInv'
    BY <2>1, RateLimitCoversDelay
  <2>2. CASE Overloaded /\ embargo' = OverloadedDelay
    BY <2>2, GovernorAssumption DEF Overloaded
  <2>3. CASE AuthFails /\ UNCHANGED embargo
    BY <2>3 DEF AuthFails
  <2>4. CASE Informational /\ UNCHANGED embargo
    BY <2>4 DEF Informational, IsInCooldown, InCooldown
  <2> QED
    BY <1>4, <2>1, <2>2, <2>3, <2>4 DEF Retry
<1>5. CASE AskGovernor
  BY <1>5 DEF AskGovernor, AssertSendable, IsInCooldown, InCooldown
<1>6. CASE Tick
  BY <1>6 DEF Tick, TimePasses
<1>7. CASE Die
  <2>1. embargo' = 0 /\ remaining' = 0 /\ consecutive' = 0
        /\ cooling' = FALSE /\ authFailed' = FALSE
    BY <1>7, Zenon DEF Die
  <2>2. 0 \in Nat /\ 0 <= 0 /\ ~(0 > 0)
    OBVIOUS
  <2> QED
    BY <2>1, <2>2, Zenon
<1>8. CASE UNCHANGED <<governorVars, embargo>>
  BY <1>8 DEF governorVars
<1> QED
  BY <1>1, <1>2, <1>3, <1>4, <1>5, <1>6, <1>7, <1>8
  DEF AdmissionNext, admissionVars

\* The cooldown covers the latest retry's delay, for any delays and backoff.
THEOREM AdmissionInvariance == AdmissionSpec => []AdmissionInv
<1>1. AdmissionInit => AdmissionInv
  <2>1. 0 \in Nat /\ 0 <= 0 /\ ~(0 > 0)
    OBVIOUS
  <2> QED
    BY <2>1, Zenon DEF AdmissionInit, GovernorInit, AdmissionInv, AdmissionTypeOK
<1>2. AdmissionInv /\ [AdmissionNext]_admissionVars => AdmissionInv'
  BY AdmissionInvStep
<1> QED
  BY <1>1, <1>2, PTL DEF AdmissionSpec

\* Only a send makes a session busy, and it found no cooldown.
LEMMA OnlySendsStart ==
    ASSUME AdmissionInv, [AdmissionNext]_admissionVars,
           NEW s \in busy' \ busy
    PROVE  embargo = 0
<1> SUFFICES ~(busy' \subseteq busy) => embargo = 0
  OBVIOUS
<1>1. ASSUME NEW t \in Sessions, StartTurn(t) PROVE embargo = 0
  BY <1>1 DEF StartTurn, AssertSendable, InCooldown, AdmissionInv, AdmissionTypeOK
<1>2. ASSUME NEW t \in Sessions, NEW c \in 0..MaxCost, EndTurn(t, c)
      PROVE  busy' \subseteq busy
  BY <1>2 DEF EndTurn, Result
<1>3. ASSUME NEW t \in Sessions, LoseTurn(t) PROVE busy' \subseteq busy
  BY <1>3 DEF LoseTurn, Abandon, ResultNotWritten
<1>4. ASSUME NEW t \in Sessions, Retry(t) PROVE busy' \subseteq busy
  BY <1>4 DEF Retry, Lost, Abandon, vars
<1>5. CASE AskGovernor \/ Tick
  BY <1>5 DEF AskGovernor, Tick, vars
<1>6. CASE Die
  BY <1>6 DEF Die, Crash, CrashAfterWrite
<1>7. CASE Restart \/ WindowRolls
  BY <1>7 DEF Restart, WindowRolls
<1>8. CASE UNCHANGED admissionVars
  BY <1>8 DEF admissionVars, vars
<1> QED
  BY <1>1, <1>2, <1>3, <1>4, <1>5, <1>6, <1>7, <1>8 DEF AdmissionNext

\* No turn starts before the latest retry's delay is over.
THEOREM RetryAfterRespected == AdmissionSpec => NoTurnBeforeRetryAfter
<1>1. AdmissionInv /\ [AdmissionNext]_admissionVars
         => [\A s \in busy' \ busy : embargo = 0]_admissionVars
  BY OnlySendsStart
<1> QED
  BY <1>1, AdmissionInvariance, PTL DEF AdmissionSpec, NoTurnBeforeRetryAfter
=============================================================================
