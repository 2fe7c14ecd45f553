------------------------- MODULE BrokerSession_proofs -------------------------
(***************************************************************************)
(* For any number of calls and callbacks and however long query() takes: a *)
(* close leaves no consumer task and is final, on disk and in memory, and  *)
(* the lock is always given back.                                          *)
(*                                                                         *)
(* The consumer's end is stable: no step takes `cons` out of "done".  A    *)
(* close goes for the disconnection only after that end, and only a close  *)
(* makes the session CLOSED or writes "closed".  The lock is a queue that  *)
(* tasks join at the end and leave from the head, which gives who waits    *)
(* and in which order; from the order follows that nothing revives a       *)
(* closed session.                                                         *)
(***************************************************************************)
EXTENDS BrokerSession, SequenceTheorems, TLAPS

\* All that the argument needs of the types.
Inv ==
    /\ pc \in [Tasks -> Stage]
    /\ ConsumerGone

\* A new session: every call is ready and nothing is closed.
LEMMA InitInv == Init => Inv
<1> SUFFICES ASSUME Init PROVE Inv
  OBVIOUS
<1>1. pc \in [Tasks -> Stage]
  BY DEF Init, Stage
<1>2. ConsumerGone
  BY DEF Init, ConsumerGone, Tasks
<1>3. QED
  BY <1>1, <1>2 DEF Inv

\* What the consumer does: it never closes the session, nor touches a call.
LEMMA ConsumerKeeps ==
    ASSUME ConsumerNext
    PROVE  /\ cons # "done"
           /\ pc' = pc
           /\ state' = state \/ state' # "closed"
           /\ meta' = meta \/ meta' = state'
<1> USE DEF Listening, ConsumerGoes, ConsumerQueues, ConsumerGranted,
            ConsumerFails, ConsumerTransition
<1>1. CASE InitMessage \/ InitLocked
  BY <1>1 DEF InitMessage, InitLocked, InitSection
<1>2. CASE McpErrorMessage \/ McpErrorLocked
  BY <1>2 DEF McpErrorMessage, McpErrorLocked
<1>3. CASE (\E limited \in BOOLEAN : RetryMessage(limited)) \/ CooldownLocked
  BY <1>3 DEF RetryMessage, CooldownLocked
<1>4. CASE AuthMessage \/ AuthLocked
  BY <1>4 DEF AuthMessage, AuthLocked, AuthSection
<1>5. CASE ResultMessage \/ ResultLocked
  BY <1>5 DEF ResultMessage, ResultLocked, ResultSection
<1>6. CASE StreamEnds \/ EndLocked
  BY <1>6 DEF StreamEnds, EndLocked, EndSection
<1>7. CASE StreamRaises \/ ErrorLocked
  BY <1>7 DEF StreamRaises, ErrorLocked
<1>8. CASE ConsumerCancelled
  BY <1>8 DEF ConsumerCancelled
<1>9. QED
  BY <1>1, <1>2, <1>3, <1>4, <1>5, <1>6, <1>7, <1>8 DEF ConsumerNext

\* What the other tasks but a close do: they leave the consumer and meta.json
\* alone, do not close the session and go on to a stage that is no close's.
Elsewhere == Stage \ {"disconnecting", "wants closed"}

\* For send().
LEMMA SendKeeps ==
    ASSUME NEW s \in Senders, SendNext(s)
    PROVE  /\ cons' = cons /\ meta' = meta
           /\ state' = state \/ state' # "closed"
           /\ \E stage \in Elsewhere : pc' = [pc EXCEPT ![s] = stage]
<1> USE DEF Elsewhere, Stage, Goto
<1>1. CASE Send(s)
  BY <1>1 DEF Send, SendSection, Queue
<1>2. CASE SendLocked(s)
  BY <1>2 DEF SendLocked, SendSection
<1>3. CASE QueryReturns(s)
  BY <1>3 DEF QueryReturns
<1>4. CASE QueryRaises(s)
  BY <1>4 DEF QueryRaises
<1>5. QED
  BY <1>1, <1>2, <1>3, <1>4 DEF SendNext

\* The same for interrupt().
LEMMA InterruptKeeps ==
    ASSUME NEW i \in Interrupters, InterruptNext(i)
    PROVE  /\ cons' = cons /\ meta' = meta
           /\ state' = state \/ state' # "closed"
           /\ \E stage \in Elsewhere : pc' = [pc EXCEPT ![i] = stage]
<1> USE DEF Elsewhere, Stage, Goto
<1>1. CASE Interrupt(i) \/ InterruptRefused(i)
  BY <1>1 DEF Interrupt, InterruptRefused
<1>2. CASE InterruptReturns(i) \/ InterruptRaises(i)
  BY <1>2 DEF InterruptReturns, InterruptRaises
<1>3. CASE PollSettled(i)
  BY <1>3 DEF PollSettled, Queue
<1>4. CASE IdleLocked(i)
  <2>1. /\ cons' = cons /\ meta' = meta
        /\ state' = state \/ state' = "idle"
    BY <1>4 DEF IdleLocked, IdleSection
  <2>2. CASE state \notin Terminal /\ AssertFails("idle")
    BY <1>4, <2>1, <2>2 DEF IdleLocked, IdleSection
  <2>3. CASE ~(state \notin Terminal /\ AssertFails("idle"))
    BY <1>4, <2>1, <2>3 DEF IdleLocked, IdleSection
  <2>4. QED
    BY <2>2, <2>3
<1>5. CASE PollTimesOut(i)
  BY <1>5 DEF PollTimesOut, Queue
<1>6. CASE TimeoutLocked(i)
  BY <1>6 DEF TimeoutLocked
<1>7. QED
  BY <1>1, <1>2, <1>3, <1>4, <1>5, <1>6 DEF InterruptNext

\* The same for a permission callback and for whoever resolves it.
LEMMA CallbackKeeps ==
    ASSUME NEW c \in Callbacks, CallbackNext(c), pc \in [Tasks -> Stage]
    PROVE  /\ cons' = cons /\ meta' = meta
           /\ state' = state \/ state' # "closed"
           /\ \/ pc' = pc
              \/ \E stage \in Elsewhere : pc' = [pc EXCEPT ![c] = stage]
<1> USE DEF Elsewhere, Stage, Goto
<1>1. CASE Ask(c)
  BY <1>1 DEF Ask, ParkSection, Queue
<1>2. CASE ParkLocked(c)
  BY <1>2 DEF ParkLocked, ParkSection
<1>3. CASE Resolve(c)
  BY <1>3 DEF Resolve
<1>4. CASE Unpark(c)
  BY <1>4 DEF Unpark, UnparkSection, Queue
<1>5. CASE UnparkLocked(c)
  BY <1>5 DEF UnparkLocked, UnparkSection
<1>6. QED
  BY <1>1, <1>2, <1>3, <1>4, <1>5 DEF CallbackNext

\* A close goes on to the disconnection when the consumer is done, and closes
\* the session from there.
LEMMA CloseKeeps ==
    ASSUME NEW k \in Closers, CloseNext(k), Inv
    PROVE  /\ cons = "done" => cons' = "done"
           /\ meta' = meta \/ meta' = "closed"
           /\ state' = "closed" \/ meta' = "closed" =>
                 cons' = "done" \/ (state' = state /\ meta' = meta)
           /\ \E stage \in Stage :
                 /\ pc' = [pc EXCEPT ![k] = stage]
                 /\ stage \in Elsewhere \/ cons' = "done"
<1> USE DEF Inv, ConsumerGone, Elsewhere, Stage, Goto, Tasks
<1>1. CASE Close(k)
  BY <1>1 DEF Close, CancelConsumer
<1>2. CASE Abandon(k)
  BY <1>2 DEF Abandon, CancelConsumer
<1>3. CASE Joined(k)
  BY <1>3 DEF Joined
<1>4. CASE Disconnected(k)
  BY <1>4 DEF Disconnected, CloseSection, Queue
<1>5. CASE CloseLocked(k)
  BY <1>5 DEF CloseLocked, CloseSection, Granted
<1>6. QED
  BY <1>1, <1>2, <1>3, <1>4, <1>5 DEF CloseNext

\* The invariant is inductive.
LEMMA StepInv == Inv /\ [Next]_vars => Inv'
<1> SUFFICES ASSUME Inv, [Next]_vars PROVE Inv'
  OBVIOUS
<1> USE DEF Inv, ConsumerGone, Elsewhere
<1>1. CASE ConsumerNext
  BY <1>1, ConsumerKeeps
<1>2. CASE GraceEnds
  BY <1>2 DEF GraceEnds
<1>3. CASE \E s \in Senders : SendNext(s)
  <2>1. PICK s \in Senders : SendNext(s)
    BY <1>3
  <2>2. QED
    BY <2>1, SendKeeps DEF Tasks
<1>4. CASE \E i \in Interrupters : InterruptNext(i)
  <2>1. PICK i \in Interrupters : InterruptNext(i)
    BY <1>4
  <2>2. QED
    BY <2>1, InterruptKeeps DEF Tasks
<1>5. CASE \E k \in Closers : CloseNext(k)
  <2>1. PICK k \in Closers : CloseNext(k)
    BY <1>5
  <2>2. QED
    BY <2>1, CloseKeeps DEF Tasks
<1>6. CASE \E c \in Callbacks : CallbackNext(c)
  <2>1. PICK c \in Callbacks : CallbackNext(c)
    BY <1>6
  <2>2. QED
    BY <2>1, CallbackKeeps DEF Tasks
<1>7. CASE CooldownExpires
  BY <1>7 DEF CooldownExpires
<1>8. CASE UNCHANGED vars
  BY <1>8 DEF vars
<1>9. QED
  BY <1>1, <1>2, <1>3, <1>4, <1>5, <1>6, <1>7, <1>8 DEF Next

\* It holds in every reachable state.
LEMMA Invariance == Spec => []Inv
<1>1. QED
  BY InitInv, StepInv, PTL DEF Spec

\* No closed session has a consumer task: close_session() cancels it and waits
\* for it before the session is CLOSED, in memory or on disk.
THEOREM CloseStopsConsumer == Spec => []ConsumerGone
<1>1. Inv => ConsumerGone
  BY DEF Inv
<1>2. QED
  BY <1>1, Invariance, PTL

\* "closed" in meta.json is never overwritten: the only other writer of
\* meta.json is the consumer, which is gone.
THEOREM CloseIsFinalOnDisk == Spec => ClosedOnDisk
<1>1. ASSUME Inv, [Next]_vars, meta = "closed"
      PROVE  meta' = "closed"
  <2>1. cons = "done"
    BY <1>1 DEF Inv, ConsumerGone
  <2>2. CASE \E s \in Senders : SendNext(s)
    BY <1>1, <2>2, SendKeeps
  <2>3. CASE \E i \in Interrupters : InterruptNext(i)
    BY <1>1, <2>3, InterruptKeeps
  <2>4. CASE \E k \in Closers : CloseNext(k)
    BY <1>1, <2>4, CloseKeeps
  <2>5. CASE \E c \in Callbacks : CallbackNext(c)
    BY <1>1, <2>5, CallbackKeeps DEF Inv
  <2>6. CASE GraceEnds \/ CooldownExpires \/ UNCHANGED vars
    BY <1>1, <2>6 DEF GraceEnds, CooldownExpires, vars
  <2>7. CASE ConsumerNext
    BY <2>1, <2>7, ConsumerKeeps
  <2>8. QED
    BY <1>1, <2>2, <2>3, <2>4, <2>5, <2>6, <2>7 DEF Next
<1>2. Inv /\ [Next]_vars => [meta = "closed" => meta' = "closed"]_vars
  BY <1>1
<1>3. QED
  BY <1>2, Invariance, PTL DEF Spec, ClosedOnDisk

----------------------------------------------------------------------------
(* Queues: append, pop and give up a place. *)

Elems(q) == {q[i] : i \in 1..Len(q)}
Distinct(q) == \A i, j \in 1..Len(q) : q[i] = q[j] => i = j
\* Whatever stands before another in r does so in q.
InOrder(r, q) ==
    \A i, j \in 1..Len(r) : i < j =>
        \E m, n \in 1..Len(q) : m < n /\ r[i] = q[m] /\ r[j] = q[n]

\* Append keeps the head and adds the element behind the others.
LEMMA Appended ==
    ASSUME NEW S, NEW q \in Seq(S), NEW e \in S
    PROVE  /\ Append(q, e) \in Seq(S) /\ Append(q, e) # <<>>
           /\ Elems(Append(q, e)) = Elems(q) \cup {e}
           /\ Append(q, e)[1] = IF q = <<>> THEN e ELSE q[1]
           /\ Distinct(q) /\ e \notin Elems(q) => Distinct(Append(q, e))
<1>1. /\ Append(q, e) \in Seq(S) /\ Len(Append(q, e)) = Len(q) + 1
      /\ \A i \in 1..Len(q) : Append(q, e)[i] = q[i]
      /\ Append(q, e)[Len(q) + 1] = e
  OBVIOUS
<1>2. Elems(Append(q, e)) = Elems(q) \cup {e}
  BY <1>1 DEF Elems
<1>3. Append(q, e)[1] = IF q = <<>> THEN e ELSE q[1]
  BY <1>1
<1>4. ASSUME Distinct(q), e \notin Elems(q) PROVE Distinct(Append(q, e))
  <2>1. \A i \in 1..Len(q) : q[i] # e
    BY <1>4 DEF Elems
  <2> QED
    BY <1>1, <1>4, <2>1 DEF Distinct
<1>5. Append(q, e) # <<>>
  BY <1>1
<1> QED
  BY <1>1, <1>2, <1>3, <1>4, <1>5

\* Tail drops the head, and only the head, and keeps the order.
LEMMA Popped ==
    ASSUME NEW S, NEW q \in Seq(S), q # <<>>
    PROVE  /\ Tail(q) \in Seq(S) /\ Head(q) = q[1] /\ Head(q) \in Elems(q)
           /\ InOrder(Tail(q), q)
           /\ \A i \in 1..Len(Tail(q)) : Tail(q)[i] = q[i + 1] /\ i + 1 \in 1..Len(q)
           /\ Distinct(q) => /\ Distinct(Tail(q))
                             /\ Elems(Tail(q)) = Elems(q) \ {Head(q)}
<1>1. /\ Tail(q) \in Seq(S) /\ Len(Tail(q)) = Len(q) - 1 /\ Head(q) = q[1]
      /\ Len(q) \in Nat \ {0}
      /\ \A i \in 1..(Len(q) - 1) : Tail(q)[i] = q[i + 1]
  OBVIOUS
<1>2. \A i \in 1..Len(Tail(q)) : Tail(q)[i] = q[i + 1] /\ i + 1 \in 1..Len(q)
  BY <1>1
<1>3. Head(q) \in Elems(q)
  BY <1>1 DEF Elems
<1>4. InOrder(Tail(q), q)
  <2>1. ASSUME NEW i \in 1..Len(Tail(q)), NEW j \in 1..Len(Tail(q)), i < j
        PROVE  \E m, n \in 1..Len(q) : m < n /\ Tail(q)[i] = q[m] /\ Tail(q)[j] = q[n]
    <3>1. i + 1 < j + 1
      BY <2>1
    <3> QED
      BY <1>2, <3>1
  <2> QED
    BY <2>1 DEF InOrder
<1>5. ASSUME Distinct(q) PROVE Distinct(Tail(q)) /\ Elems(Tail(q)) = Elems(q) \ {Head(q)}
  <2>1. Distinct(Tail(q))
    BY <1>1, <1>2, <1>5 DEF Distinct
  <2>2. Elems(Tail(q)) \subseteq Elems(q) \ {Head(q)}
    <3>1. ASSUME NEW i \in 1..Len(Tail(q))
          PROVE  Tail(q)[i] \in Elems(q) \ {Head(q)}
      <4>1. i + 1 \in 1..Len(q) /\ 1 \in 1..Len(q) /\ i + 1 # 1 /\ Tail(q)[i] = q[i + 1]
        BY <1>1, <1>2
      <4> QED
        BY <1>1, <1>5, <4>1 DEF Distinct, Elems
    <3> QED
      BY <3>1 DEF Elems
  <2>3. ASSUME NEW x \in Elems(q) \ {Head(q)} PROVE x \in Elems(Tail(q))
    <3>1. PICK i \in 1..Len(q) : q[i] = x
      BY DEF Elems
    <3>2. i - 1 \in 1..Len(Tail(q)) /\ Tail(q)[i - 1] = q[i]
      BY <1>1, <3>1
    <3> QED
      BY <3>1, <3>2 DEF Elems
  <2> QED
    BY <2>1, <2>2, <2>3
<1> QED
  BY <1>1, <1>2, <1>3, <1>4, <1>5

\* Without() drops the element, and only the element, and keeps the order.
LEMMA Removed ==
    ASSUME NEW S, NEW q \in Seq(S), NEW e
    PROVE  /\ Without(q, e) \in Seq(S)
           /\ InOrder(Without(q, e), q)
           /\ q # <<>> /\ q[1] # e => Without(q, e)[1] = q[1]
           /\ Elems(Without(q, e)) \subseteq Elems(q)
           /\ Distinct(q) => /\ Distinct(Without(q, e))
                             /\ Elems(Without(q, e)) = Elems(q) \ {e}
<1>1. CASE ~\E i \in 1..Len(q) : q[i] = e
  BY <1>1 DEF Without, Elems, InOrder
<1>2. CASE \E i \in 1..Len(q) : q[i] = e
  <2> DEFINE i == CHOOSE j \in 1..Len(q) : q[j] = e
             w == Without(q, e)
  <2>1. i \in 1..Len(q) /\ q[i] = e /\ Len(q) \in Nat
    BY <1>2
  <2>2. w = SubSeq(q, 1, i - 1) \o SubSeq(q, i + 1, Len(q))
    BY <1>2 DEF Without
  <2> HIDE DEF i, w
  <2>3. /\ SubSeq(q, 1, i - 1) \in Seq(S) /\ Len(SubSeq(q, 1, i - 1)) = i - 1
        /\ \A j \in 1..(i - 1) : SubSeq(q, 1, i - 1)[j] = q[j]
        /\ SubSeq(q, i + 1, Len(q)) \in Seq(S)
        /\ Len(SubSeq(q, i + 1, Len(q))) = Len(q) - i
        /\ \A j \in 1..(Len(q) - i) : SubSeq(q, i + 1, Len(q))[j] = q[i + j]
    BY <2>1
  <2>4. /\ w \in Seq(S) /\ Len(w) = Len(q) - 1
        /\ \A j \in 1..Len(w) : w[j] = IF j < i THEN q[j] ELSE q[j + 1]
    <3> DEFINE a == SubSeq(q, 1, i - 1)
               b == SubSeq(q, i + 1, Len(q))
    <3>1. /\ w \in Seq(S) /\ Len(w) = Len(a) + Len(b)
          /\ \A j \in 1..Len(w) : w[j] = IF j <= Len(a) THEN a[j] ELSE b[j - Len(a)]
      <4> HIDE DEF a, b
      <4>1. a \in Seq(S) /\ b \in Seq(S) /\ w = a \o b
        BY <2>2, <2>3 DEF a, b
      <4>2. /\ a \o b \in Seq(S) /\ Len(a \o b) = Len(a) + Len(b)
            /\ \A j \in 1..(Len(a) + Len(b)) :
                  (a \o b)[j] = IF j <= Len(a) THEN a[j] ELSE b[j - Len(a)]
        BY <4>1, ConcatProperties
      <4> QED
        BY <4>1, <4>2
    <3>2. /\ Len(a) = i - 1 /\ Len(b) = Len(q) - i /\ i \in Nat \ {0}
          /\ \A j \in 1..(i - 1) : a[j] = q[j]
          /\ \A j \in 1..(Len(q) - i) : b[j] = q[i + j]
      BY <2>1, <2>3
    <3> HIDE DEF a, b
    <3>4. Len(w) = Len(q) - 1
      BY <2>1, <3>1, <3>2
    <3>3. ASSUME NEW j \in 1..Len(w)
          PROVE  w[j] = IF j < i THEN q[j] ELSE q[j + 1]
      <4>1. CASE j < i
        <5>1. j \in 1..(i - 1) /\ j <= Len(a)
          BY <2>1, <3>2, <3>3, <3>4, <4>1
        <5>2. w[j] = a[j]
          BY <3>1, <3>3, <5>1
        <5> QED
          BY <3>2, <4>1, <5>1, <5>2
      <4>2. CASE ~(j < i)
        <5>1. j - (i - 1) \in 1..(Len(q) - i) /\ i + (j - (i - 1)) = j + 1
          BY <2>1, <3>3, <3>4, <4>2
        <5>2. b[j - (i - 1)] = q[i + (j - (i - 1))]
          BY <3>2, <5>1
        <5>3. w[j] = b[j - (i - 1)]
          <6>1. ~(j <= Len(a)) /\ Len(a) = i - 1
            BY <2>1, <3>2, <3>3, <3>4, <4>2
          <6> QED
            BY <3>1, <3>3, <6>1
        <5> QED
          BY <4>2, <5>1, <5>2, <5>3
      <4> QED
        BY <4>1, <4>2
    <3> QED
      BY <3>1, <3>3, <3>4
  <2>5. InOrder(w, q)
    <3>1. ASSUME NEW a \in 1..Len(w), NEW b \in 1..Len(w), a < b
          PROVE  \E m, n \in 1..Len(q) : m < n /\ w[a] = q[m] /\ w[b] = q[n]
      <4> DEFINE m == IF a < i THEN a ELSE a + 1
                 n == IF b < i THEN b ELSE b + 1
      <4>1. m \in 1..Len(q) /\ n \in 1..Len(q) /\ m < n
        BY <2>1, <2>4, <3>1
      <4>2. w[a] = q[m] /\ w[b] = q[n]
        BY <2>4
      <4> QED
        BY <4>1, <4>2
    <3> QED
      BY <3>1 DEF InOrder
  <2>6. q # <<>> /\ q[1] # e => w[1] = q[1]
    BY <2>1, <2>4
  <2>7. Elems(w) \subseteq Elems(q)
    <3>1. ASSUME NEW j \in 1..Len(w) PROVE w[j] \in Elems(q)
      BY <2>1, <2>4 DEF Elems
    <3> QED
      BY <3>1 DEF Elems
  <2>8. ASSUME Distinct(q) PROVE Distinct(w) /\ Elems(w) = Elems(q) \ {e}
    <3>1. Distinct(w)
      <4>1. ASSUME NEW a \in 1..Len(w), NEW b \in 1..Len(w), w[a] = w[b] PROVE a = b
        <5> DEFINE m == IF a < i THEN a ELSE a + 1
                   n == IF b < i THEN b ELSE b + 1
        <5>1. m \in 1..Len(q) /\ n \in 1..Len(q) /\ q[m] = q[n]
          BY <2>1, <2>4, <4>1
        <5>2. m = n
          BY <2>8, <5>1 DEF Distinct
        <5> QED
          BY <2>1, <5>2
      <4> QED
        BY <4>1 DEF Distinct
    <3>2. \A j \in 1..Len(w) : w[j] # e
      BY <2>1, <2>4, <2>8 DEF Distinct
    <3>3. ASSUME NEW x \in Elems(q) \ {e} PROVE x \in Elems(w)
      <4>1. PICK j \in 1..Len(q) : q[j] = x
        BY DEF Elems
      <4>2. j # i
        BY <2>1, <4>1
      <4>3. (j < i /\ j \in 1..Len(w) /\ w[j] = x)
               \/ (j - 1 \in 1..Len(w) /\ w[j - 1] = x)
        BY <2>1, <2>4, <4>1, <4>2
      <4> QED
        BY <4>3 DEF Elems
    <3> QED
      BY <2>7, <3>1, <3>2, <3>3 DEF Elems
  <2> QED
    BY <2>4, <2>5, <2>6, <2>7, <2>8 DEF w
<1> QED
  BY <1>1, <1>2

----------------------------------------------------------------------------
(* session.lock: what a step does to its queue. *)

WaitStage == {"wants send", "querying", "wants timeout", "wants idle",
              "wants closed", "wants park", "wants unpark"}
WantStage == ConsumerStage \ {"receiving", "cancelled", "done"}

LockTypes ==
    /\ lockq \in Seq(Tasks \cup {Consumer})
    /\ pc \in [Tasks -> Stage] /\ cons \in ConsumerStage

LockInv == LockTypes /\ LockOK

\* A call keeps its place, or stays out; joins at the end; or leaves the head.
TaskMoves(p, stage) ==
    /\ stage \in Stage /\ pc' = [pc EXCEPT ![p] = stage]
    /\ cons' = cons \/ cons' = "cancelled"
    /\ \/ /\ lockq' = lockq /\ (Waiting(p) <=> stage \in WaitStage)
          /\ stage = "querying" => lockq # <<>> /\ Head(lockq) = p
       \/ /\ lockq' = Append(lockq, p) /\ ~Waiting(p) /\ stage \in WaitStage
          /\ stage = "querying" => lockq = <<>>
       \/ /\ lockq # <<>> /\ Head(lockq) = p /\ stage \notin WaitStage
          /\ lockq' = Tail(lockq)

\* The consumer also gives its place up to join again, and is cancelled.
ConsumerMoves ==
    /\ pc' = pc /\ cons' \in ConsumerStage
    /\ \/ /\ lockq' = lockq /\ {cons, cons'} \subseteq {"receiving", "done"}
       \/ /\ lockq' = Append(lockq, Consumer)
          /\ cons = "receiving" /\ cons' \in WantStage
       \/ /\ lockq # <<>> /\ Head(lockq) = Consumer
          /\ cons' \in {"receiving", "done"} /\ lockq' = Tail(lockq)
       \/ /\ lockq # <<>> /\ Head(lockq) = Consumer
          /\ cons' \in WantStage /\ lockq' = Append(Tail(lockq), Consumer)
       \/ /\ cons = "cancelled" /\ cons' = "done"
          /\ lockq' = Without(lockq, Consumer)

\* LockOK in terms of the set of those who wait.
LEMMA LockSet ==
    ASSUME LockTypes
    PROVE  LockOK <=>
              /\ Distinct(lockq)
              /\ \A p \in Tasks : Waiting(p) <=> p \in Elems(lockq)
              /\ \A p \in Tasks : pc[p] = "querying" => lockq[1] = p
              /\ cons = "cancelled" \/
                    (cons \notin {"receiving", "done"} <=> Consumer \in Elems(lockq))
BY DEF LockOK, Distinct, Elems

\* A call that moves like that keeps the invariant of the lock.
LEMMA TaskKeepsLock ==
    ASSUME LockInv, NEW p \in Tasks, NEW stage, TaskMoves(p, stage)
    PROVE  LockInv'
<1> DEFINE q == lockq
<1>1. /\ q \in Seq(Tasks \cup {Consumer}) /\ p # Consumer
      /\ Distinct(q) /\ \A t \in Tasks : Waiting(t) <=> t \in Elems(q)
      /\ \A t \in Tasks : pc[t] = "querying" => q[1] = t
      /\ cons = "cancelled" \/
            (cons \notin {"receiving", "done"} <=> Consumer \in Elems(q))
  BY LockSet, ConsumerAssumption DEF LockInv, LockTypes
<1>2. /\ pc' \in [Tasks -> Stage] /\ cons' \in ConsumerStage
      /\ pc'[p] = stage /\ \A t \in Tasks \ {p} : pc'[t] = pc[t]
  BY DEF TaskMoves, LockInv, LockTypes, ConsumerStage
<1>3. /\ \A t \in Tasks \ {p} : Waiting(t)' <=> Waiting(t)
      /\ Waiting(p)' <=> stage \in WaitStage
  BY <1>2 DEF Waiting, WaitStage
<1>4. ASSUME lockq' \in Seq(Tasks \cup {Consumer}), Distinct(lockq'),
             \A t \in Tasks \ {p} : t \in Elems(lockq') <=> t \in Elems(q),
             stage \in WaitStage <=> p \in Elems(lockq'),
             Consumer \in Elems(lockq') <=> Consumer \in Elems(q),
             \A t \in Tasks : pc'[t] = "querying" => lockq'[1] = t
      PROVE  LockInv'
  <2>1. LockTypes'
    BY <1>2, <1>4 DEF LockTypes
  <2>2. \A t \in Tasks : Waiting(t)' <=> t \in Elems(lockq')
    BY <1>1, <1>3, <1>4
  <2>3. cons' = "cancelled" \/
           (cons' \notin {"receiving", "done"} <=> Consumer \in Elems(lockq'))
    BY <1>1, <1>4 DEF TaskMoves
  <2>4. LockTypes' => (LockOK' <=>
              /\ Distinct(lockq')
              /\ \A t \in Tasks : Waiting(t)' <=> t \in Elems(lockq')
              /\ \A t \in Tasks : pc'[t] = "querying" => lockq'[1] = t
              /\ cons' = "cancelled" \/
                    (cons' \notin {"receiving", "done"} <=> Consumer \in Elems(lockq')))
    BY DEF LockTypes, LockOK, Distinct, Elems
  <2> QED
    BY <1>4, <2>1, <2>2, <2>3, <2>4 DEF LockInv
<1>5. CASE /\ lockq' = lockq /\ (Waiting(p) <=> stage \in WaitStage)
           /\ stage = "querying" => lockq # <<>> /\ Head(lockq) = p
  <2>1. stage = "querying" => q[1] = p
    BY <1>1, <1>5
  <2> QED
    BY <1>1, <1>2, <1>4, <1>5, <2>1
<1>6. CASE /\ lockq' = Append(lockq, p) /\ ~Waiting(p) /\ stage \in WaitStage
           /\ stage = "querying" => lockq = <<>>
  <2>1. /\ lockq' \in Seq(Tasks \cup {Consumer}) /\ Distinct(lockq')
        /\ Elems(lockq') = Elems(q) \cup {p}
        /\ lockq'[1] = IF q = <<>> THEN p ELSE q[1]
    BY <1>1, <1>6, Appended
  <2>2. \A t \in Tasks : pc[t] = "querying" => q # <<>>
    <3>1. \A t \in Tasks : pc[t] = "querying" => Waiting(t)
      BY DEF Waiting
    <3> QED
      BY <1>1, <3>1 DEF Elems
  <2>3. \A t \in Tasks : pc'[t] = "querying" => lockq'[1] = t
    BY <1>1, <1>2, <1>6, <2>1, <2>2
  <2> QED
    BY <1>1, <1>4, <1>6, <2>1, <2>3
<1>7. CASE /\ lockq # <<>> /\ Head(lockq) = p /\ stage \notin WaitStage
           /\ lockq' = Tail(lockq)
  <2>1. /\ lockq' \in Seq(Tasks \cup {Consumer}) /\ Distinct(lockq')
        /\ Elems(lockq') = Elems(q) \ {p} /\ q[1] = p
    BY <1>1, <1>7, Popped
  <2>2. \A t \in Tasks : pc'[t] # "querying"
    BY <1>1, <1>2, <1>7, <2>1 DEF WaitStage
  <2> QED
    BY <1>1, <1>4, <1>7, <2>1, <2>2
<1> QED
  BY <1>5, <1>6, <1>7 DEF TaskMoves

\* So does the consumer.
LEMMA ConsumerKeepsLock ==
    ASSUME LockInv, ConsumerMoves
    PROVE  LockInv'
<1> DEFINE q == lockq
<1>1. /\ q \in Seq(Tasks \cup {Consumer})
      /\ Distinct(q) /\ \A t \in Tasks : Waiting(t) <=> t \in Elems(q)
      /\ \A t \in Tasks : pc[t] = "querying" => q[1] = t
      /\ cons = "cancelled" \/
            (cons \notin {"receiving", "done"} <=> Consumer \in Elems(q))
  BY LockSet DEF LockInv, LockTypes
<1>2. /\ pc' = pc /\ cons' \in ConsumerStage /\ Consumer \notin Tasks
      /\ \A t \in Tasks : Waiting(t)' <=> Waiting(t)
  BY ConsumerAssumption DEF ConsumerMoves, Waiting
<1>3. q # <<>> /\ Head(q) = Consumer => \A t \in Tasks : pc[t] # "querying"
  BY <1>1, <1>2, Popped
<1>4. ASSUME lockq' \in Seq(Tasks \cup {Consumer}), Distinct(lockq'),
             \A t \in Tasks : t \in Elems(lockq') <=> t \in Elems(q),
             cons' \notin {"receiving", "done"} <=> Consumer \in Elems(lockq'),
             \A t \in Tasks : pc[t] = "querying" => lockq'[1] = t
      PROVE  LockInv'
  <2>1. LockTypes'
    BY <1>1, <1>2, <1>4 DEF LockTypes, LockInv
  <2>2. LockTypes' => (LockOK' <=>
              /\ Distinct(lockq')
              /\ \A t \in Tasks : Waiting(t)' <=> t \in Elems(lockq')
              /\ \A t \in Tasks : pc'[t] = "querying" => lockq'[1] = t
              /\ cons' = "cancelled" \/
                    (cons' \notin {"receiving", "done"} <=> Consumer \in Elems(lockq')))
    BY DEF LockTypes, LockOK, Distinct, Elems
  <2> QED
    BY <1>1, <1>2, <1>4, <2>1, <2>2 DEF LockInv
<1>5. CASE lockq' = lockq /\ {cons, cons'} \subseteq {"receiving", "done"}
  <2>1. cons \in {"receiving", "done"} /\ cons' \in {"receiving", "done"}
    BY <1>5
  <2> QED
    BY <1>1, <1>4, <1>5, <2>1
<1>6. CASE lockq' = Append(lockq, Consumer) /\ cons = "receiving" /\ cons' \in WantStage
  <2>1. /\ lockq' \in Seq(Tasks \cup {Consumer}) /\ Distinct(lockq')
        /\ Elems(lockq') = Elems(q) \cup {Consumer}
        /\ lockq'[1] = IF q = <<>> THEN Consumer ELSE q[1]
    BY <1>1, <1>6, Appended
  <2>2. \A t \in Tasks : pc[t] = "querying" => q # <<>>
    <3>1. \A t \in Tasks : pc[t] = "querying" => Waiting(t)
      BY DEF Waiting
    <3> QED
      BY <1>1, <3>1 DEF Elems
  <2> QED
    BY <1>1, <1>2, <1>4, <1>6, <2>1, <2>2 DEF WantStage
<1>7. CASE lockq # <<>> /\ Head(lockq) = Consumer
  <2>1. /\ Tail(lockq) \in Seq(Tasks \cup {Consumer}) /\ Distinct(Tail(lockq))
        /\ Elems(Tail(lockq)) = Elems(q) \ {Consumer}
    BY <1>1, <1>7, Popped
  <2>2. CASE cons' \in {"receiving", "done"} /\ lockq' = Tail(lockq)
    BY <1>2, <1>3, <1>4, <1>7, <2>1, <2>2
  <2>3. CASE cons' \in WantStage /\ lockq' = Append(Tail(lockq), Consumer)
    <3> DEFINE w == Tail(lockq)
    <3>1. w \in Seq(Tasks \cup {Consumer}) /\ Distinct(w) /\ Consumer \notin Elems(w)
      BY <2>1
    <3>2. lockq' = Append(w, Consumer)
      BY <2>3
    <3> HIDE DEF w
    <3>3. /\ lockq' \in Seq(Tasks \cup {Consumer}) /\ Distinct(lockq')
          /\ Elems(lockq') = Elems(w) \cup {Consumer}
      BY <3>1, <3>2, Appended
    <3>4. Elems(w) = Elems(q) \ {Consumer}
      BY <2>1 DEF w
    <3> QED
      BY <1>2, <1>3, <1>4, <1>7, <2>3, <3>3, <3>4 DEF WantStage
  <2>4. CASE lockq' = lockq /\ {cons, cons'} \subseteq {"receiving", "done"}
    BY <1>5, <2>4
  <2>5. CASE lockq' = Append(lockq, Consumer) /\ cons = "receiving" /\ cons' \in WantStage
    BY <1>6, <2>5
  <2>6. CASE cons = "cancelled" /\ cons' = "done" /\ lockq' = Without(lockq, Consumer)
    <3>1. /\ lockq' \in Seq(Tasks \cup {Consumer}) /\ Distinct(lockq')
          /\ Elems(lockq') = Elems(q) \ {Consumer}
      BY <1>1, <2>6, Removed
    <3> QED
      BY <1>2, <1>3, <1>4, <1>7, <2>6, <3>1
  <2> QED
    BY <2>2, <2>3, <2>4, <2>5, <2>6 DEF ConsumerMoves
<1>8. CASE ~(lockq # <<>> /\ Head(lockq) = Consumer)
  <2>1. CASE cons = "cancelled" /\ cons' = "done" /\ lockq' = Without(lockq, Consumer)
    <3>1. /\ lockq' \in Seq(Tasks \cup {Consumer}) /\ Distinct(lockq')
          /\ Elems(lockq') = Elems(q) \ {Consumer}
          /\ q # <<>> /\ q[1] # Consumer => lockq'[1] = q[1]
      BY <1>1, <2>1, Removed
    <3>2. \A t \in Tasks : pc[t] = "querying" => q # <<>> /\ q[1] # Consumer
      <4>1. \A t \in Tasks : pc[t] = "querying" => Waiting(t)
        BY DEF Waiting
      <4> QED
        BY <1>1, <1>2, <4>1 DEF Elems
    <3> QED
      BY <1>1, <1>2, <1>4, <2>1, <3>1, <3>2
  <2> QED
    BY <1>5, <1>6, <1>8, <2>1 DEF ConsumerMoves
<1> QED
  BY <1>7, <1>8

\* Each action moves its task like that.
LEMMA SendMoves ==
    ASSUME LockInv, NEW s \in Senders, SendNext(s)
    PROVE  \E stage : TaskMoves(s, stage)
<1>1. s \in Tasks /\ lockq \in Seq(Tasks \cup {Consumer})
  BY DEF Tasks, LockInv, LockTypes
<1>2. CASE Send(s)
  <2>1. pc[s] = "ready" /\ ~Waiting(s) /\ cons' = cons
    BY <1>2 DEF Send, Waiting
  <2>2. CASE Free /\ Sendable
    <3>1. lockq = <<>> /\ lockq' = <<s>> /\ pc' = [pc EXCEPT ![s] = "querying"]
      BY <1>2, <2>2 DEF Send, SendSection, Free, Goto
    <3>2. lockq' = Append(lockq, s)
      BY <3>1
    <3>3. TaskMoves(s, "querying")
      BY <2>1, <3>1, <3>2 DEF TaskMoves, Stage, WaitStage
    <3> QED
      BY <3>3
  <2>3. CASE Free /\ ~Sendable
    <3>1. lockq = <<>> /\ lockq' = Tail(<<s>>) /\ pc' = [pc EXCEPT ![s] = "raised"]
      BY <1>2, <2>3 DEF Send, SendSection, Free, Goto
    <3>2. lockq' = lockq
      BY <3>1
    <3>3. TaskMoves(s, "raised")
      BY <2>1, <3>1, <3>2 DEF TaskMoves, Stage, WaitStage
    <3> QED
      BY <3>3
  <2>4. CASE ~Free
    <3>1. lockq' = Append(lockq, s) /\ pc' = [pc EXCEPT ![s] = "wants send"]
      BY <1>2, <2>4 DEF Send, Queue, Goto
    <3>2. TaskMoves(s, "wants send")
      BY <2>1, <3>1 DEF TaskMoves, Stage, WaitStage
    <3> QED
      BY <3>2
  <2> QED
    BY <2>2, <2>3, <2>4
<1>3. CASE SendLocked(s)
  <2>1. Waiting(s) /\ cons' = cons /\ lockq # <<>> /\ Head(lockq) = s
    BY <1>3 DEF SendLocked, Granted, Free, Waiting
  <2>2. CASE Sendable
    <3>1. lockq' = lockq /\ pc' = [pc EXCEPT ![s] = "querying"]
      BY <1>3, <2>2 DEF SendLocked, SendSection, Goto
    <3>2. TaskMoves(s, "querying")
      BY <2>1, <3>1 DEF TaskMoves, Stage, WaitStage
    <3> QED
      BY <3>2
  <2>3. CASE ~Sendable
    <3>1. lockq' = Tail(lockq) /\ pc' = [pc EXCEPT ![s] = "raised"]
      BY <1>3, <2>3 DEF SendLocked, SendSection, Goto
    <3>2. TaskMoves(s, "raised")
      BY <2>1, <3>1 DEF TaskMoves, Stage, WaitStage
    <3> QED
      BY <3>2
  <2> QED
    BY <2>2, <2>3
<1>4. CASE QueryReturns(s) \/ QueryRaises(s)
  <2>1. pc[s] = "querying" /\ cons' = cons /\ lockq' = Tail(lockq)
    BY <1>4 DEF QueryReturns, QueryRaises
  <2>2. lockq # <<>> /\ Head(lockq) = s
    <3>1. Waiting(s)
      BY <2>1 DEF Waiting
    <3>2. s \in Elems(lockq) /\ lockq[1] = s
      BY <1>1, <2>1, <3>1, LockSet DEF LockInv
    <3> QED
      BY <1>1, <3>2 DEF Elems
  <2>3. CASE QueryReturns(s)
    <3>1. TaskMoves(s, "done")
      BY <2>1, <2>2, <2>3 DEF QueryReturns, Goto, TaskMoves, Stage, WaitStage
    <3> QED
      BY <3>1
  <2>4. CASE QueryRaises(s)
    <3>1. TaskMoves(s, "raised")
      BY <2>1, <2>2, <2>4 DEF QueryRaises, Goto, TaskMoves, Stage, WaitStage
    <3> QED
      BY <3>1
  <2> QED
    BY <1>4, <2>3, <2>4
<1> QED
  BY <1>2, <1>3, <1>4 DEF SendNext

\* The same for interrupt().
LEMMA InterruptMoves ==
    ASSUME LockInv, NEW i \in Interrupters, InterruptNext(i)
    PROVE  \E stage : TaskMoves(i, stage)
<1>1. CASE Interrupt(i) \/ InterruptRefused(i)
  <2>1. ~Waiting(i) /\ cons' = cons /\ lockq' = lockq
    BY <1>1 DEF Interrupt, InterruptRefused, Waiting
  <2>2. \E stage \in {"done", "interrupting", "raised"} : pc' = [pc EXCEPT ![i] = stage]
    BY <1>1 DEF Interrupt, InterruptRefused, Goto
  <2> QED
    BY <2>1, <2>2 DEF TaskMoves, Stage, WaitStage
<1>2. CASE InterruptReturns(i) \/ InterruptRaises(i)
  <2>1. ~Waiting(i) /\ cons' = cons /\ lockq' = lockq
    BY <1>2 DEF InterruptReturns, InterruptRaises, Waiting
  <2>2. \E stage \in {"polling", "raised"} : pc' = [pc EXCEPT ![i] = stage]
    BY <1>2 DEF InterruptReturns, InterruptRaises, Goto
  <2> QED
    BY <2>1, <2>2 DEF TaskMoves, Stage, WaitStage
<1>3. CASE PollSettled(i) \/ PollTimesOut(i)
  <2>1. ~Waiting(i) /\ cons' = cons
    BY <1>3 DEF PollSettled, PollTimesOut, Waiting
  <2>2. \/ /\ lockq' = lockq
           /\ \E stage \in {"done", "raised", "timed out"} : pc' = [pc EXCEPT ![i] = stage]
        \/ /\ lockq' = Append(lockq, i)
           /\ \E stage \in {"wants idle", "wants timeout"} : pc' = [pc EXCEPT ![i] = stage]
    BY <1>3 DEF PollSettled, PollTimesOut, Goto, Queue
  <2> QED
    BY <2>1, <2>2 DEF TaskMoves, Stage, WaitStage
<1>4. CASE IdleLocked(i) \/ TimeoutLocked(i)
  <2>1. /\ Waiting(i) /\ cons' = cons
        /\ lockq # <<>> /\ Head(lockq) = i /\ lockq' = Tail(lockq)
    BY <1>4 DEF IdleLocked, IdleSection, TimeoutLocked, Granted, Free, Waiting
  <2>2. \E stage \in {"done", "raised", "timed out"} : pc' = [pc EXCEPT ![i] = stage]
    BY <1>4 DEF IdleLocked, IdleSection, TimeoutLocked, Goto
  <2> QED
    BY <2>1, <2>2 DEF TaskMoves, Stage, WaitStage
<1> QED
  BY <1>1, <1>2, <1>3, <1>4 DEF InterruptNext

\* The same for close_session().
LEMMA CloseMoves ==
    ASSUME LockInv, NEW k \in Closers, CloseNext(k)
    PROVE  \E stage : TaskMoves(k, stage)
<1>1. CASE Close(k) \/ Abandon(k) \/ Joined(k)
  <2>1. ~Waiting(k) /\ lockq' = lockq
    BY <1>1 DEF Close, Abandon, Joined, Waiting
  <2>2. cons' = cons \/ cons' = "cancelled"
    BY <1>1 DEF Close, Abandon, Joined, CancelConsumer
  <2>3. \E stage \in {"done", "abandoning", "disconnecting", "joining"} :
            pc' = [pc EXCEPT ![k] = stage]
    BY <1>1 DEF Close, Abandon, Joined, CancelConsumer, Goto
  <2> QED
    BY <2>1, <2>2, <2>3 DEF TaskMoves, Stage, WaitStage
<1>2. CASE Disconnected(k)
  <2>1. ~Waiting(k) /\ cons' = cons
    BY <1>2 DEF Disconnected, Waiting
  <2>2. \/ /\ lockq' = lockq
           /\ \E stage \in {"done", "raised"} : pc' = [pc EXCEPT ![k] = stage]
        \/ lockq' = Append(lockq, k) /\ pc' = [pc EXCEPT ![k] = "wants closed"]
    <3>1. \/ lockq = <<>> /\ CloseSection(k, <<>>)
          \/ Queue(k, "wants closed")
      BY <1>2 DEF Disconnected, Free
    <3>2. CloseSection(k, <<>>) =>
            /\ lockq' = <<>>
            /\ Goto(k, "raised") \/ Goto(k, "done")
      BY DEF CloseSection
    <3> QED
      BY <3>1, <3>2 DEF Goto, Queue
  <2>3. ASSUME NEW stage \in {"done", "raised"}, lockq' = lockq,
               pc' = [pc EXCEPT ![k] = stage]
        PROVE  TaskMoves(k, stage)
    BY <2>1, <2>3 DEF TaskMoves, Stage, WaitStage
  <2>4. ASSUME lockq' = Append(lockq, k), pc' = [pc EXCEPT ![k] = "wants closed"]
        PROVE  TaskMoves(k, "wants closed")
    BY <2>1, <2>4 DEF TaskMoves, Stage, WaitStage
  <2> QED
    BY <2>2, <2>3, <2>4
<1>3. CASE CloseLocked(k)
  <2>1. /\ Waiting(k) /\ cons' = cons
        /\ lockq # <<>> /\ Head(lockq) = k /\ lockq' = Tail(lockq)
    BY <1>3 DEF CloseLocked, CloseSection, Granted, Free, Waiting
  <2>2. \E stage \in {"done", "raised"} : pc' = [pc EXCEPT ![k] = stage]
    BY <1>3 DEF CloseLocked, CloseSection, Goto
  <2> QED
    BY <2>1, <2>2 DEF TaskMoves, Stage, WaitStage
<1> QED
  BY <1>1, <1>2, <1>3 DEF CloseNext

\* A client's resolve() moves no task.
LEMMA CallbackMoves ==
    ASSUME LockInv, NEW c \in Callbacks, CallbackNext(c)
    PROVE  \/ \E stage : TaskMoves(c, stage)
           \/ lockq' = lockq /\ pc' = pc /\ cons' = cons
<1>1. CASE Ask(c)
  <2>1. ~Waiting(c) /\ cons' = cons
    BY <1>1 DEF Ask, Waiting
  <2>2. \/ /\ lockq' = lockq
           /\ \E stage \in {"parked", "raised"} : pc' = [pc EXCEPT ![c] = stage]
        \/ lockq' = Append(lockq, c) /\ pc' = [pc EXCEPT ![c] = "wants park"]
    BY <1>1 DEF Ask, ParkSection, Goto, Queue, Free
  <2> QED
    BY <2>1, <2>2 DEF TaskMoves, Stage, WaitStage
<1>2. CASE Unpark(c)
  <2>1. ~Waiting(c) /\ cons' = cons
    BY <1>2 DEF Unpark, Waiting
  <2>2. \/ /\ lockq' = lockq
           /\ \E stage \in {"done", "raised"} : pc' = [pc EXCEPT ![c] = stage]
        \/ lockq' = Append(lockq, c) /\ pc' = [pc EXCEPT ![c] = "wants unpark"]
    BY <1>2 DEF Unpark, UnparkSection, Goto, Queue, Free
  <2> QED
    BY <2>1, <2>2 DEF TaskMoves, Stage, WaitStage
<1>3. CASE ParkLocked(c) \/ UnparkLocked(c)
  <2>1. /\ Waiting(c) /\ cons' = cons
        /\ lockq # <<>> /\ Head(lockq) = c /\ lockq' = Tail(lockq)
    BY <1>3 DEF ParkLocked, ParkSection, UnparkLocked, UnparkSection, Granted, Free, Waiting
  <2>2. \E stage \in {"parked", "done", "raised"} : pc' = [pc EXCEPT ![c] = stage]
    BY <1>3 DEF ParkLocked, ParkSection, UnparkLocked, UnparkSection, Goto
  <2> QED
    BY <2>1, <2>2 DEF TaskMoves, Stage, WaitStage
<1>4. CASE Resolve(c)
  BY <1>4 DEF Resolve
<1> QED
  BY <1>1, <1>2, <1>3, <1>4 DEF CallbackNext

\* What the consumer does with the rest of the queue.
ConsumerLeaves(rest) ==
    \/ cons' \in {"receiving", "done"} /\ lockq' = rest
    \/ rest # <<>> /\ cons' \in WantStage /\ lockq' = Append(rest, Consumer)

\* Each step of the consumer moves it as ConsumerMoves says.
LEMMA ConsumerStepMoves ==
    ASSUME LockInv, ConsumerNext
    PROVE  ConsumerMoves
<1> USE DEF WantStage, ConsumerStage
<1>1. ASSUME NEW rest, \/ InitSection(rest)
                      \/ (\E new : ConsumerFails(new, rest))
                      \/ ConsumerTransition("cooldown", rest)
                      \/ AuthSection(rest) \/ ResultSection(rest) \/ EndSection(rest)
      PROVE  ConsumerLeaves(rest)
  BY <1>1 DEF InitSection, ConsumerFails, ConsumerTransition, AuthSection,
     ResultSection, EndSection, ConsumerGoes, ConsumerLeaves
<1>2. ASSUME ConsumerLeaves(<<>>), Free, cons = "receiving", pc' = pc
      PROVE  ConsumerMoves
  BY <1>2 DEF ConsumerLeaves, ConsumerMoves, Free
<1>3. ASSUME ConsumerLeaves(Tail(lockq)), ~Free, Head(lockq) = Consumer, pc' = pc
      PROVE  ConsumerMoves
  BY <1>3 DEF ConsumerLeaves, ConsumerMoves, Free
<1>4. ASSUME cons = "receiving", pc' = pc, NEW stage \in WantStage, ConsumerQueues(stage)
      PROVE  ConsumerMoves
  BY <1>4 DEF ConsumerQueues, ConsumerMoves
<1>5. CASE \/ InitMessage \/ McpErrorMessage \/ AuthMessage \/ ResultMessage
           \/ StreamEnds \/ StreamRaises \/ (\E limited \in BOOLEAN : RetryMessage(limited))
  <2>1. cons = "receiving" /\ pc' = pc
    BY <1>5 DEF InitMessage, McpErrorMessage, AuthMessage, ResultMessage, StreamEnds,
       StreamRaises, RetryMessage, Listening
  <2>2. \/ Free /\ (\/ InitSection(<<>>) \/ (\E new : ConsumerFails(new, <<>>))
                    \/ ConsumerTransition("cooldown", <<>>)
                    \/ AuthSection(<<>>) \/ ResultSection(<<>>) \/ EndSection(<<>>))
        \/ \E stage \in WantStage : ConsumerQueues(stage)
        \/ cons' = cons /\ lockq' = lockq
    BY <1>5 DEF InitMessage, McpErrorMessage, AuthMessage, ResultMessage, StreamEnds,
       StreamRaises, RetryMessage
  <2>3. CASE cons' = cons /\ lockq' = lockq
    BY <2>1, <2>3 DEF ConsumerMoves
  <2> QED
    BY <1>1, <1>2, <1>4, <2>1, <2>2, <2>3
<1>6. CASE \/ InitLocked \/ McpErrorLocked \/ CooldownLocked \/ AuthLocked
           \/ ResultLocked \/ EndLocked
  <2>1. ~Free /\ Head(lockq) = Consumer /\ pc' = pc
    BY <1>6 DEF InitLocked, McpErrorLocked, CooldownLocked, AuthLocked, ResultLocked,
       EndLocked, ConsumerGranted
  <2>2. \/ InitSection(Tail(lockq)) \/ ConsumerFails("error", Tail(lockq))
        \/ ConsumerTransition("cooldown", Tail(lockq))
        \/ AuthSection(Tail(lockq)) \/ ResultSection(Tail(lockq)) \/ EndSection(Tail(lockq))
    BY <1>6 DEF InitLocked, McpErrorLocked, CooldownLocked, AuthLocked, ResultLocked,
       EndLocked
  <2> QED
    BY <1>1, <1>3, <2>1, <2>2
<1>7. CASE ErrorLocked
  BY <1>7 DEF ErrorLocked, ConsumerGranted, ConsumerGoes, ConsumerMoves, Free
<1>8. CASE ConsumerCancelled
  BY <1>8 DEF ConsumerCancelled, ConsumerGoes, ConsumerMoves
<1> QED
  BY <1>5, <1>6, <1>7, <1>8 DEF ConsumerNext

LEMMA LockStep ==
    ASSUME LockInv, [Next]_vars
    PROVE  LockInv'
<1>1. ASSUME lockq' = lockq, pc' = pc, cons' = cons
      PROVE  LockInv'
  BY <1>1 DEF LockInv, LockTypes, LockOK, Waiting
<1>2. ASSUME NEW p \in Tasks, NEW stage, TaskMoves(p, stage)
      PROVE  LockInv'
  BY <1>2, TaskKeepsLock
<1>3. CASE ConsumerNext
  BY <1>3, ConsumerStepMoves, ConsumerKeepsLock
<1>4. ASSUME NEW s \in Senders, SendNext(s)
      PROVE  LockInv'
  BY <1>2, <1>4, SendMoves DEF Tasks
<1>5. ASSUME NEW i \in Interrupters, InterruptNext(i)
      PROVE  LockInv'
  BY <1>2, <1>5, InterruptMoves DEF Tasks
<1>6. ASSUME NEW k \in Closers, CloseNext(k)
      PROVE  LockInv'
  BY <1>2, <1>6, CloseMoves DEF Tasks
<1>7. ASSUME NEW c \in Callbacks, CallbackNext(c)
      PROVE  LockInv'
  BY <1>1, <1>2, <1>7, CallbackMoves DEF Tasks
<1>8. CASE GraceEnds \/ CooldownExpires \/ UNCHANGED vars
  BY <1>1, <1>8 DEF GraceEnds, CooldownExpires, vars
<1> QED
  BY <1>3, <1>4, <1>5, <1>6, <1>7, <1>8 DEF Next

LEMMA LockStart == Init => LockInv
BY DEF Init, LockInv, LockTypes, LockOK, Waiting, Stage, ConsumerStage

\* A task is in the queue of the lock exactly while it waits for it or keeps
\* it: every way out of a critical section gives the lock back.
THEOREM LockIsGivenBack == Spec => []LockOK
<1>1. Init => LockInv
  BY LockStart
<1>2. LockInv /\ [Next]_vars => LockInv'
  BY LockStep
<1>3. LockInv => LockOK
  BY DEF LockInv
<1> QED
  BY <1>1, <1>2, <1>3, PTL DEF Spec

----------------------------------------------------------------------------
(* A closed session never serves again.  The CLI's stream is over before a *)
(* close queues for the lock, so a callback that waits for the lock when   *)
(* the session closes came before the close and has had the lock.          *)

Before(q, a, b) == \E m, n \in 1..Len(q) : m < n /\ q[m] = a /\ q[n] = b

OrderInv ==
    /\ LockInv
    /\ \A k \in Closers : pc[k] = "wants closed" => ~cliUp
    /\ state = "closed" => ~cliUp
    /\ state = "closed" => \A c \in Callbacks : pc[c] # "wants park"
    /\ \A k \in Closers, c \in Callbacks :
          pc[k] = "wants closed" /\ pc[c] = "wants park" => ~Before(lockq, k, c)

\* Who stands before another in the new queue did so in the old one.
LEMMA OrderKept ==
    ASSUME NEW q, NEW r, InOrder(r, q), NEW a, NEW b, Before(r, a, b)
    PROVE  Before(q, a, b)
BY DEF InOrder, Before

\* Nothing but the new element comes behind an element of the old queue.
LEMMA OrderAppended ==
    ASSUME NEW S, NEW q \in Seq(S), NEW e \in S, NEW a, NEW b, b # e,
           Before(Append(q, e), a, b)
    PROVE  Before(q, a, b)
<1> DEFINE r == Append(q, e)
<1>1. /\ Len(r) = Len(q) + 1 /\ Len(q) \in Nat /\ r[Len(q) + 1] = e
      /\ \A i \in 1..Len(q) : r[i] = q[i]
  OBVIOUS
<1> HIDE DEF r
<1>2. PICK m, n \in 1..Len(r) : m < n /\ r[m] = a /\ r[n] = b
  BY DEF Before, r
<1>3. n # Len(q) + 1
  BY <1>1, <1>2
<1>4. m \in 1..Len(q) /\ n \in 1..Len(q)
  BY <1>1, <1>2, <1>3
<1> QED
  BY <1>1, <1>2, <1>4 DEF Before

\* A call keeps the order if it comes to ask only while the CLI is up, and to
\* close only when the CLI is not.
LEMMA TaskKeepsOrder ==
    ASSUME OrderInv, NEW p \in Tasks, NEW stage, TaskMoves(p, stage),
           cliUp' => cliUp,
           stage = "wants park" => cliUp /\ state' # "closed",
           stage = "wants closed" => ~Waiting(p) /\ ~cliUp',
           \/ state' = state \/ state' # "closed"
           \/ ~cliUp' /\ \A c \in Callbacks : pc[c] # "wants park"
    PROVE  OrderInv'
<1>1. /\ LockInv' /\ lockq \in Seq(Tasks \cup {Consumer})
      /\ pc' = [pc EXCEPT ![p] = stage] /\ pc \in [Tasks -> Stage]
      /\ Closers \subseteq Tasks /\ Callbacks \subseteq Tasks
  BY TaskKeepsLock DEF OrderInv, LockInv, LockTypes, TaskMoves, Tasks
<1>2. \A k \in Closers : pc'[k] = "wants closed" => ~cliUp'
  BY <1>1 DEF OrderInv
<1>3. state' = "closed" => ~cliUp'
  BY DEF OrderInv
<1>4. state' = "closed" => \A c \in Callbacks : pc'[c] # "wants park"
  BY <1>1 DEF OrderInv
<1>5. ASSUME NEW k \in Closers, NEW c \in Callbacks,
             pc'[k] = "wants closed", pc'[c] = "wants park", Before(lockq', k, c)
      PROVE  FALSE
  <2>1. k # c
    BY <1>5
  <2>2. c # p
    <3>1. CASE c = p
      <4>1. stage = "wants park" /\ cliUp /\ pc[k] = "wants closed"
        BY <1>1, <1>5, <2>1, <3>1
      <4> QED
        BY <4>1 DEF OrderInv
    <3> QED
      BY <3>1
  <2>3. Before(lockq, k, c)
    <3>1. CASE lockq' = lockq
      BY <1>5, <3>1
    <3>2. CASE lockq' = Append(lockq, p)
      <4>1. Before(Append(lockq, p), k, c) /\ p \in Tasks \cup {Consumer}
        BY <1>5, <3>2
      <4> QED
        BY <1>1, <2>2, <4>1, OrderAppended
    <3>3. CASE lockq # <<>> /\ lockq' = Tail(lockq)
      <4>1. InOrder(Tail(lockq), lockq)
        BY <1>1, <3>3, Popped
      <4> QED
        BY <1>5, <3>3, <4>1, OrderKept
    <3> QED
      BY <3>1, <3>2, <3>3 DEF TaskMoves
  <2>4. k # p
    <3>1. k \in Elems(lockq)
      BY <2>3 DEF Before, Elems
    <3>2. Waiting(k)
      BY <1>1, <3>1, LockSet DEF OrderInv, LockInv
    <3> QED
      BY <1>1, <1>5, <3>2
  <2> QED
    BY <1>1, <1>5, <2>2, <2>3, <2>4 DEF OrderInv
<1> QED
  BY <1>1, <1>2, <1>3, <1>4, <1>5 DEF OrderInv

LEMMA ConsumerKeepsOrder ==
    ASSUME OrderInv, ConsumerNext
    PROVE  OrderInv'
<1>1. ConsumerMoves /\ LockInv' /\ lockq \in Seq(Tasks \cup {Consumer})
  BY ConsumerStepMoves, ConsumerKeepsLock DEF OrderInv, LockInv, LockTypes
<1>2. pc' = pc /\ (state' = state \/ state' # "closed")
  BY ConsumerKeeps
<1>3. cliUp' => cliUp
  BY DEF ConsumerNext, InitMessage, InitLocked, McpErrorMessage, McpErrorLocked,
     RetryMessage, CooldownLocked, AuthMessage, AuthLocked, ResultMessage, ResultLocked,
     StreamEnds, EndLocked, StreamRaises, ErrorLocked, ConsumerCancelled, Cli
<1>4. ASSUME NEW k, NEW c \in Callbacks, Before(lockq', k, c)
      PROVE  Before(lockq, k, c)
  <2>1. c # Consumer
    BY ConsumerAssumption DEF Tasks
  <2>2. CASE lockq' = lockq
    BY <1>4, <2>2
  <2>3. CASE lockq' = Append(lockq, Consumer)
    BY <1>1, <1>4, <2>1, <2>3, OrderAppended
  <2>4. CASE lockq # <<>> /\ lockq' \in {Tail(lockq), Append(Tail(lockq), Consumer)}
    <3> DEFINE w == Tail(lockq)
    <3>1. w \in Seq(Tasks \cup {Consumer}) /\ InOrder(w, lockq)
      BY <1>1, <2>4, Popped
    <3>2. lockq' = w \/ lockq' = Append(w, Consumer)
      BY <2>4
    <3> HIDE DEF w
    <3>3. Before(w, k, c)
      <4>1. CASE lockq' = w
        BY <1>4, <4>1
      <4>2. CASE lockq' = Append(w, Consumer)
        <5>1. Before(Append(w, Consumer), k, c) /\ Consumer \in Tasks \cup {Consumer}
          BY <1>4, <4>2
        <5> QED
          BY <2>1, <3>1, <5>1, OrderAppended
      <4> QED
        BY <3>2, <4>1, <4>2
    <3> QED
      BY <3>1, <3>3, OrderKept
  <2>5. CASE lockq' = Without(lockq, Consumer)
    <3>1. InOrder(lockq', lockq)
      BY <1>1, <2>5, Removed
    <3> QED
      BY <1>4, <3>1, OrderKept
  <2> QED
    BY <1>1, <2>2, <2>3, <2>4, <2>5 DEF ConsumerMoves
<1> QED
  BY <1>1, <1>2, <1>3, <1>4 DEF OrderInv

\* What the calls do to the CLI's stream, and who comes to ask or to close.
LEMMA SendAsks ==
    ASSUME NEW s \in Senders, SendNext(s), pc \in [Tasks -> Stage]
    PROVE  cliUp' = cliUp /\ pc'[s] \notin {"wants park", "wants closed"}
<1> USE DEF Tasks, Goto, Cli
<1>1. CASE Send(s)
  BY <1>1 DEF Send, SendSection, Queue
<1>2. CASE SendLocked(s)
  BY <1>2 DEF SendLocked, SendSection
<1>3. CASE QueryReturns(s) \/ QueryRaises(s)
  BY <1>3 DEF QueryReturns, QueryRaises
<1> QED
  BY <1>1, <1>2, <1>3 DEF SendNext

LEMMA InterruptAsks ==
    ASSUME NEW i \in Interrupters, InterruptNext(i), pc \in [Tasks -> Stage]
    PROVE  cliUp' = cliUp /\ pc'[i] \notin {"wants park", "wants closed"}
<1> USE DEF Tasks, Goto, Cli
<1>1. CASE Interrupt(i) \/ InterruptRefused(i)
  BY <1>1 DEF Interrupt, InterruptRefused
<1>2. CASE InterruptReturns(i) \/ InterruptRaises(i)
  BY <1>2 DEF InterruptReturns, InterruptRaises
<1>3. CASE PollSettled(i) \/ PollTimesOut(i)
  BY <1>3 DEF PollSettled, PollTimesOut, Queue
<1>4. CASE IdleLocked(i) \/ TimeoutLocked(i)
  <2>1. cliUp' = cliUp
    BY <1>4 DEF IdleLocked, TimeoutLocked
  <2>2. \E stage \in {"done", "raised", "timed out"} : pc' = [pc EXCEPT ![i] = stage]
    BY <1>4 DEF IdleLocked, IdleSection, TimeoutLocked
  <2> QED
    BY <2>1, <2>2
<1> QED
  BY <1>1, <1>2, <1>3, <1>4 DEF InterruptNext

LEMMA CloseAsks ==
    ASSUME NEW k \in Closers, CloseNext(k), OrderInv
    PROVE  /\ cliUp' => cliUp
           /\ pc'[k] # "wants park"
           /\ pc'[k] = "wants closed" => ~Waiting(k) /\ ~cliUp'
           /\ \/ state' = state \/ state' # "closed"
              \/ ~cliUp' /\ \A c \in Callbacks : pc[c] # "wants park"
<1>1. /\ k \in Tasks /\ Callbacks \subseteq Tasks /\ pc \in [Tasks -> Stage]
      /\ lockq \in Seq(Tasks \cup {Consumer})
      /\ \A p \in Tasks : Waiting(p) <=> p \in Elems(lockq)
  BY LockSet DEF Tasks, OrderInv, LockInv, LockTypes
<1>2. CASE Close(k) \/ Abandon(k) \/ Joined(k)
  <2>1. cliUp' = cliUp /\ state' = state
    BY <1>2 DEF Close, Abandon, Joined, Cli
  <2>2. \E stage \in {"done", "abandoning", "disconnecting", "joining"} :
            pc' = [pc EXCEPT ![k] = stage]
    BY <1>2 DEF Close, Abandon, Joined, CancelConsumer, Goto
  <2> QED
    BY <1>1, <2>1, <2>2
<1>3. CASE Disconnected(k)
  <2>1. ~cliUp' /\ ~Waiting(k)
    BY <1>3 DEF Disconnected, Waiting
  <2>2. pc'[k] # "wants park"
    <3>1. CloseSection(k, <<>>) => Goto(k, "raised") \/ Goto(k, "done")
      BY DEF CloseSection
    <3> QED
      BY <1>1, <1>3, <3>1 DEF Disconnected, Queue, Goto
  <2>3. state' = state \/ \A c \in Callbacks : pc[c] # "wants park"
    <3>1. state' = state \/ lockq = <<>>
      BY <1>3 DEF Disconnected, Free
    <3>2. lockq = <<>> => \A c \in Callbacks : ~Waiting(c)
      BY <1>1 DEF Elems
    <3> QED
      BY <3>1, <3>2 DEF Waiting
  <2> QED
    BY <2>1, <2>2, <2>3
<1>4. CASE CloseLocked(k)
  <2>1. /\ cliUp' = cliUp /\ ~cliUp
        /\ pc[k] = "wants closed" /\ lockq # <<>> /\ Head(lockq) = k
    BY <1>4 DEF CloseLocked, Granted, Free, OrderInv, Cli
  <2>2. \E stage \in {"done", "raised"} : pc' = [pc EXCEPT ![k] = stage]
    BY <1>4 DEF CloseLocked, CloseSection, Goto
  <2>3. ASSUME NEW c \in Callbacks, pc[c] = "wants park" PROVE FALSE
    <3>1. c \in Elems(lockq)
      BY <1>1, <2>3 DEF Waiting
    <3>2. PICK j \in 1..Len(lockq) : lockq[j] = c
      BY <3>1 DEF Elems
    <3>3. lockq[1] = k /\ 1 \in 1..Len(lockq) /\ 1 < j
      <4>1. k # c
        BY <2>1, <2>3
      <4>2. lockq[1] = k
        BY <1>1, <2>1, Popped
      <4>3. j # 1
        BY <3>2, <4>1, <4>2
      <4>4. Len(lockq) \in Nat
        BY <1>1
      <4> QED
        BY <3>2, <4>2, <4>3, <4>4
    <3>4. Before(lockq, k, c)
      BY <3>2, <3>3 DEF Before
    <3> QED
      BY <2>1, <2>3, <3>4 DEF OrderInv
  <2> QED
    BY <1>1, <2>1, <2>2, <2>3
<1> QED
  BY <1>2, <1>3, <1>4 DEF CloseNext

LEMMA CallbackAsks ==
    ASSUME NEW c \in Callbacks, CallbackNext(c), OrderInv
    PROVE  /\ cliUp' = cliUp
           /\ \/ pc' = pc /\ lockq' = lockq
              \/ /\ pc'[c] # "wants closed"
                 /\ pc'[c] = "wants park" => cliUp /\ state' = state
<1>1. c \in Tasks /\ pc \in [Tasks -> Stage]
  BY DEF Tasks, OrderInv, LockInv, LockTypes
<1>2. CASE Ask(c)
  <2>1. cliUp' = cliUp /\ cliUp
    BY <1>2 DEF Ask, CliWorks, Cli
  <2>2. \/ \E stage \in {"parked", "raised"} : pc' = [pc EXCEPT ![c] = stage]
        \/ pc' = [pc EXCEPT ![c] = "wants park"] /\ state' = state
    BY <1>2 DEF Ask, ParkSection, Goto, Queue
  <2> QED
    BY <1>1, <2>1, <2>2
<1>3. CASE Unpark(c) \/ ParkLocked(c) \/ UnparkLocked(c)
  <2>1. cliUp' = cliUp
    BY <1>3 DEF Unpark, ParkLocked, UnparkLocked, Cli
  <2>2. \E stage \in {"parked", "done", "raised", "wants unpark"} :
            pc' = [pc EXCEPT ![c] = stage]
    BY <1>3 DEF Unpark, ParkLocked, ParkSection, UnparkLocked, UnparkSection, Goto, Queue
  <2> QED
    BY <1>1, <2>1, <2>2
<1>4. CASE Resolve(c)
  BY <1>4 DEF Resolve, Cli
<1> QED
  BY <1>2, <1>3, <1>4 DEF CallbackNext

LEMMA OrderStep ==
    ASSUME OrderInv, [Next]_vars
    PROVE  OrderInv'
<1>0. /\ Senders \subseteq Tasks /\ Interrupters \subseteq Tasks
      /\ Closers \subseteq Tasks /\ Callbacks \subseteq Tasks
  BY DEF Tasks
<1>1. pc \in [Tasks -> Stage] /\ LockInv /\ LockInv'
  BY LockStep DEF OrderInv, LockInv, LockTypes
<1>2. ASSUME NEW p \in Tasks, NEW stage, TaskMoves(p, stage)
      PROVE  pc'[p] = stage
  BY <1>1, <1>2 DEF TaskMoves
<1>3. CASE ConsumerNext
  BY <1>3, ConsumerKeepsOrder
<1>4. ASSUME NEW s \in Senders, SendNext(s)
      PROVE  OrderInv'
  <2>1. PICK stage : TaskMoves(s, stage)
    BY <1>1, <1>4, SendMoves
  <2>2. /\ cliUp' = cliUp /\ stage \notin {"wants park", "wants closed"}
        /\ state' = state \/ state' # "closed"
    BY <1>0, <1>1, <1>2, <1>4, <2>1, SendAsks, SendKeeps
  <2> QED
    BY <1>0, <2>1, <2>2, TaskKeepsOrder
<1>5. ASSUME NEW i \in Interrupters, InterruptNext(i)
      PROVE  OrderInv'
  <2>1. PICK stage : TaskMoves(i, stage)
    BY <1>1, <1>5, InterruptMoves
  <2>2. /\ cliUp' = cliUp /\ stage \notin {"wants park", "wants closed"}
        /\ state' = state \/ state' # "closed"
    BY <1>0, <1>1, <1>2, <1>5, <2>1, InterruptAsks, InterruptKeeps
  <2> QED
    BY <1>0, <2>1, <2>2, TaskKeepsOrder
<1>6. ASSUME NEW k \in Closers, CloseNext(k)
      PROVE  OrderInv'
  <2>1. PICK stage : TaskMoves(k, stage)
    BY <1>1, <1>6, CloseMoves
  <2> QED
    BY <1>0, <1>2, <1>6, <2>1, CloseAsks, TaskKeepsOrder
<1>7. ASSUME NEW c \in Callbacks, CallbackNext(c)
      PROVE  OrderInv'
  <2>1. state' = state \/ state' # "closed"
    BY <1>1, <1>7, CallbackKeeps
  <2>2. cliUp' = cliUp
    BY <1>7, CallbackAsks
  <2>3. CASE lockq' = lockq /\ pc' = pc
    BY <1>1, <2>1, <2>2, <2>3 DEF OrderInv
  <2>4. ASSUME NEW stage, TaskMoves(c, stage), ~(lockq' = lockq /\ pc' = pc)
        PROVE  OrderInv'
    <3>1. stage # "wants closed" /\ (stage = "wants park" => cliUp /\ state' = state)
      BY <1>0, <1>2, <1>7, <2>4, CallbackAsks
    <3> QED
      BY <1>0, <2>1, <2>2, <2>4, <3>1, TaskKeepsOrder DEF OrderInv
  <2>5. (\E stage : TaskMoves(c, stage)) \/ (lockq' = lockq /\ pc' = pc)
    BY <1>1, <1>7, CallbackMoves
  <2> QED
    BY <2>3, <2>4, <2>5
<1>8. CASE GraceEnds \/ CooldownExpires \/ UNCHANGED vars
  <2>1. /\ pc' = pc /\ lockq' = lockq /\ cliUp' = cliUp
        /\ state' = state \/ state' # "closed"
    BY <1>8 DEF GraceEnds, CooldownExpires, vars, Cli
  <2> QED
    BY <1>1, <2>1 DEF OrderInv
<1> QED
  BY <1>3, <1>4, <1>5, <1>6, <1>7, <1>8 DEF Next

LEMMA OrderInvariance == Spec => []OrderInv
<1>1. Init => OrderInv
  <2> SUFFICES ASSUME Init PROVE OrderInv
    OBVIOUS
  <2>1. /\ state # "closed"
        /\ \A k \in Closers : pc[k] # "wants closed"
    BY DEF Init, Tasks
  <2> QED
    BY <2>1, LockStart DEF OrderInv
<1>2. OrderInv /\ [Next]_vars => OrderInv'
  BY OrderStep
<1> QED
  BY <1>1, <1>2, PTL DEF Spec

\* A closed session never serves again, whatever is in flight when it closes:
\* no message, queued call, callback or poll takes it out of CLOSED or ERROR
\* or starts a turn.
THEOREM ClosedIsClosed == Spec => ClosedNeverServes
<1>1. ASSUME OrderInv, Inv, [Next]_vars, state = "closed"
      PROVE  state' \in Terminal /\ turn' \in {turn, NoTurn}
  <2>1. /\ cons = "done" /\ ~cliUp
        /\ \A c \in Callbacks : pc[c] # "wants park"
    BY <1>1 DEF OrderInv, Inv, ConsumerGone
  <2> USE DEF Terminal, TurnVars
  <2>2. ~ConsumerNext
    BY <2>1, ConsumerKeeps
  <2>3. ASSUME NEW s \in Senders, SendNext(s)
        PROVE  state' = state /\ turn' = turn
    <3>1. ~Sendable
      BY <1>1 DEF Sendable
    <3> QED
      BY <2>3, <3>1 DEF SendNext, Send, SendLocked, SendSection, QueryReturns, QueryRaises
  <2>4. ASSUME NEW i \in Interrupters, InterruptNext(i)
        PROVE  state' \in {state, "error"} /\ turn' \in {turn, NoTurn}
    BY <1>1, <2>4 DEF InterruptNext, Interrupt, InterruptRefused, InterruptReturns,
       InterruptRaises, PollSettled, IdleLocked, IdleSection, PollTimesOut,
       TimeoutLocked, Running
  <2>5. ASSUME NEW k \in Closers, CloseNext(k)
        PROVE  state' = state /\ turn' \in {turn, NoTurn}
    BY <1>1, <2>5 DEF CloseNext, Close, Abandon, Joined, Disconnected, CloseLocked,
       CloseSection
  <2>6. ASSUME NEW c \in Callbacks, CallbackNext(c)
        PROVE  state' = state /\ turn' = turn
    BY <1>1, <2>1, <2>6 DEF CallbackNext, Ask, CliWorks, ParkLocked, Granted, Resolve,
       Unpark, UnparkLocked, UnparkSection
  <2>7. CASE GraceEnds \/ CooldownExpires \/ UNCHANGED vars
    BY <1>1, <2>7 DEF GraceEnds, CooldownExpires, vars
  <2> QED
    BY <1>1, <2>2, <2>3, <2>4, <2>5, <2>6, <2>7 DEF Next
<1>2. OrderInv /\ Inv /\ [Next]_vars =>
         [state = "closed" => state' \in Terminal /\ turn' \in {turn, NoTurn}]_vars
  BY <1>1
<1> QED
  BY <1>2, OrderInvariance, Invariance, PTL DEF Spec, ClosedNeverServes

----------------------------------------------------------------------------
(* The types of what the lock's argument leaves aside, hence IndInv. *)

DataTypes ==
    /\ state \in State /\ meta \in State
    /\ turn \in Senders \cup {NoTurn}
    /\ tstate \in [Senders -> {"none", "running", "completed", "interrupted"}]
    /\ recorded \in [Senders -> Nat]
    /\ bills \subseteq Senders \X Senders
    /\ ran \subseteq Tasks \cup {Consumer}
    /\ pending \subseteq Callbacks /\ isSet \subseteq Callbacks
    /\ turnOf \in [Callbacks -> Senders \cup {NoTurn}]
    /\ cooling \in BOOLEAN /\ authFailed \in BOOLEAN /\ cliUp \in BOOLEAN
    /\ cliq \in Seq(Senders)

LEMMA RunsTyped ==
    ASSUME DataTypes, NEW p \in Tasks \cup {Consumer}, Runs(p)
    PROVE  ran' \subseteq Tasks \cup {Consumer}
BY DEF DataTypes, Runs

LEMMA ConsumerTypes ==
    ASSUME DataTypes, ConsumerNext
    PROVE  DataTypes'
<1> USE DEF State, Running, Terminal
<1>1. ran' \subseteq Tasks \cup {Consumer}
  <2>1. Runs(Consumer)
    BY DEF ConsumerNext, InitMessage, InitLocked, McpErrorMessage, McpErrorLocked,
       RetryMessage, CooldownLocked, AuthMessage, AuthLocked, ResultMessage, ResultLocked,
       StreamEnds, EndLocked, StreamRaises, ErrorLocked, ConsumerCancelled
  <2> QED
    BY <2>1, RunsTyped
<1>2. ASSUME state' \in State, meta' \in State, UNCHANGED <<TurnVars, RequestVars>>,
             cooling' \in BOOLEAN, authFailed' \in BOOLEAN, cliUp' \in BOOLEAN, cliq' = cliq
      PROVE  DataTypes'
  BY <1>1, <1>2 DEF DataTypes, TurnVars, RequestVars
<1>3. \A rest : \A new \in State : ConsumerFails(new, rest) => state' \in State
  BY DEF ConsumerFails
<1>4. \A rest : ConsumerTransition("cooldown", rest) => state' \in State
  BY <1>3 DEF ConsumerTransition
<1>5. CASE InitMessage \/ InitLocked
  BY <1>2, <1>5 DEF InitMessage, InitLocked, InitSection, DataTypes, Governor, Cli
<1>6. CASE McpErrorMessage \/ McpErrorLocked
  BY <1>2, <1>3, <1>6 DEF McpErrorMessage, McpErrorLocked, DataTypes, Governor, Cli
<1>7. CASE (\E limited \in BOOLEAN : RetryMessage(limited)) \/ CooldownLocked
  BY <1>2, <1>4, <1>7 DEF RetryMessage, CooldownLocked, DataTypes, Governor, Cli
<1>8. CASE AuthMessage \/ AuthLocked
  <2>1. \A rest : AuthSection(rest) => state' \in State
    BY <1>3, <1>4 DEF AuthSection, DataTypes
  <2> QED
    BY <1>2, <1>8, <2>1 DEF AuthMessage, AuthLocked, DataTypes, Governor, Cli
<1>9. CASE ResultMessage
  <2>1. /\ state' \in State /\ meta' \in State /\ turn' \in {turn, NoTurn}
    BY <1>9 DEF ResultMessage, ResultSection, DataTypes
  <2>2. cliq' \in Seq(Senders) /\ Head(cliq) \in Senders
    <3>1. cliq \in Seq(Senders) /\ cliq # <<>> /\ cliq' = Tail(cliq)
      BY <1>9 DEF ResultMessage, CliWorks, DataTypes
    <3> QED
      BY <3>1
  <2>3. /\ pending' = pending /\ turnOf' = turnOf /\ cooling' = cooling
        /\ authFailed' = authFailed /\ cliUp' = cliUp
    BY <1>9 DEF ResultMessage, Governor
  <2>4. CASE turn = NoTurn
    BY <1>1, <1>9, <2>1, <2>2, <2>3, <2>4 DEF ResultMessage, DataTypes
  <2>5. CASE turn # NoTurn
    <3>1. /\ turn \in Senders
          /\ tstate' = [tstate EXCEPT ![turn] = "completed"]
          /\ recorded' = [recorded EXCEPT ![turn] = @ + 1]
          /\ bills' = bills \cup {<<turn, Head(cliq)>>}
          /\ isSet' \subseteq isSet \cup pending
      BY <1>9, <2>5 DEF ResultMessage, Resolved, Unresolved, DataTypes
    <3> QED
      BY <1>1, <2>1, <2>2, <2>3, <3>1 DEF DataTypes
  <2> QED
    BY <2>4, <2>5
<1>10. CASE ResultLocked
  BY <1>1, <1>10 DEF ResultLocked, ResultSection, DataTypes, RequestVars, Governor, Cli
<1>11. CASE StreamEnds \/ EndLocked
  BY <1>1, <1>11 DEF StreamEnds, EndLocked, EndSection, DataTypes, RequestVars, Governor, Cli
<1>12. CASE StreamRaises \/ ErrorLocked
  <2>1. state' \in State
    BY <1>3, <1>12 DEF StreamRaises, ErrorLocked, DataTypes
  <2> QED
    BY <1>2, <1>12, <2>1 DEF StreamRaises, ErrorLocked, DataTypes, Governor, Cli
<1>13. CASE ConsumerCancelled
  BY <1>2, <1>13 DEF ConsumerCancelled, DataTypes, Governor, Cli
<1> QED
  BY <1>5, <1>6, <1>7, <1>8, <1>9, <1>10, <1>11, <1>12, <1>13 DEF ConsumerNext

LEMMA SendTypes ==
    ASSUME DataTypes, NEW s \in Senders, SendNext(s)
    PROVE  DataTypes'
<1>1. ran' \subseteq Tasks \cup {Consumer}
  BY RunsTyped DEF SendNext, Send, SendLocked, QueryReturns, QueryRaises, Tasks
<1>2. CASE Send(s) \/ SendLocked(s)
  <2>1. /\ UNCHANGED <<meta, recorded, bills, RequestVars, Governor, cliUp>>
        /\ \/ /\ turn' = s /\ state' = "running" /\ cliq' = Append(cliq, s)
              /\ tstate' = [tstate EXCEPT ![s] = "running"]
           \/ UNCHANGED <<turn, tstate, state, cliq>>
    BY <1>2 DEF Send, SendLocked, SendSection
  <2>2. Append(cliq, s) \in Seq(Senders)
    BY DEF DataTypes
  <2>3. state' \in State /\ turn' \in Senders \cup {NoTurn} /\ cliq' \in Seq(Senders)
    BY <2>1, <2>2 DEF DataTypes, State, Running
  <2>4. tstate' \in [Senders -> {"none", "running", "completed", "interrupted"}]
    BY <2>1 DEF DataTypes
  <2> QED
    BY <1>1, <2>1, <2>3, <2>4 DEF DataTypes, RequestVars, Governor
<1>3. CASE QueryReturns(s) \/ QueryRaises(s)
  <2>1. /\ UNCHANGED <<state, meta, TurnVars, RequestVars, Governor, cliUp>>
        /\ cliq' \in {cliq, Without(cliq, s)}
    BY <1>3 DEF QueryReturns, QueryRaises, Cli
  <2>2. Without(cliq, s) \in Seq(Senders)
    BY Removed DEF DataTypes
  <2> QED
    BY <1>1, <2>1, <2>2 DEF DataTypes, TurnVars, RequestVars, Governor
<1> QED
  BY <1>2, <1>3 DEF SendNext

LEMMA InterruptTypes ==
    ASSUME DataTypes, NEW i \in Interrupters, InterruptNext(i)
    PROVE  DataTypes'
<1>1. ran' \subseteq Tasks \cup {Consumer}
  BY RunsTyped DEF InterruptNext, Interrupt, InterruptRefused, InterruptReturns,
     InterruptRaises, PollSettled, IdleLocked, PollTimesOut, TimeoutLocked, Tasks
<1>2. CASE Interrupt(i) \/ InterruptRefused(i)
  <2>1. /\ UNCHANGED <<state, meta, TurnVars, pending, turnOf, Governor, Cli>>
        /\ isSet' \subseteq isSet \cup pending
    BY <1>2 DEF Interrupt, InterruptRefused, Resolved, Unresolved
  <2> QED
    BY <1>1, <2>1 DEF DataTypes, TurnVars, Governor, Cli
<1>3. CASE \/ InterruptReturns(i) \/ InterruptRaises(i) \/ IdleLocked(i)
           \/ PollTimesOut(i) \/ TimeoutLocked(i)
  <2>1. UNCHANGED <<meta, TurnVars, RequestVars, Governor, Cli>>
    BY <1>3 DEF InterruptReturns, InterruptRaises, IdleLocked, PollTimesOut, TimeoutLocked
  <2>2. state' \in {state, "idle", "error"}
    BY <1>3 DEF InterruptReturns, InterruptRaises, IdleLocked, IdleSection, PollTimesOut,
       TimeoutLocked
  <2> QED
    BY <1>1, <2>1, <2>2 DEF DataTypes, TurnVars, RequestVars, Governor, Cli, State, Terminal
<1>4. CASE PollSettled(i)
  <2>1. /\ UNCHANGED <<recorded, bills, meta, RequestVars, Governor, Cli>>
        /\ turn' = NoTurn /\ state' \in {state, "idle"}
        /\ tstate' = IF turn = NoTurn THEN tstate
                     ELSE [tstate EXCEPT ![turn] = "interrupted"]
    BY <1>4 DEF PollSettled
  <2> QED
    BY <1>1, <2>1 DEF DataTypes, RequestVars, Governor, Cli, State
<1> QED
  BY <1>2, <1>3, <1>4 DEF InterruptNext

LEMMA CloseTypes ==
    ASSUME DataTypes, NEW k \in Closers, CloseNext(k)
    PROVE  DataTypes'
<1>1. ran' \subseteq Tasks \cup {Consumer}
  BY RunsTyped DEF CloseNext, Close, Abandon, Joined, Disconnected, CloseLocked, Tasks
<1>2. CASE Close(k) \/ Joined(k)
  <2>1. /\ UNCHANGED <<state, meta, TurnVars, pending, turnOf, Governor, Cli>>
        /\ isSet' \subseteq isSet \cup pending
    BY <1>2 DEF Close, Joined, Resolved, Unresolved, RequestVars
  <2> QED
    BY <1>1, <2>1 DEF DataTypes, TurnVars, Governor, Cli
<1>3. CASE Abandon(k)
  <2>1. UNCHANGED <<state, meta, bills, RequestVars, Governor, Cli>>
    BY <1>3 DEF Abandon, TurnVars
  <2>2. CASE turn = NoTurn
    BY <1>1, <1>3, <2>1, <2>2 DEF Abandon, DataTypes, TurnVars, RequestVars, Governor, Cli
  <2>3. CASE turn # NoTurn
    <3>1. /\ turn \in Senders /\ turn' = NoTurn
          /\ tstate' = [tstate EXCEPT ![turn] = "interrupted"]
          /\ recorded' = [recorded EXCEPT ![turn] = @ + 1]
      BY <1>3, <2>3 DEF Abandon, DataTypes
    <3> QED
      BY <1>1, <2>1, <3>1 DEF DataTypes, RequestVars, Governor, Cli
  <2> QED
    BY <2>2, <2>3
<1>4. CASE Disconnected(k) \/ CloseLocked(k)
  <2>1. /\ UNCHANGED <<TurnVars, RequestVars, Governor, cliq>>
        /\ cliUp' \in {cliUp, FALSE}
        /\ state' \in {state, "closed"} /\ meta' \in {meta, "closed"}
    BY <1>4 DEF Disconnected, CloseLocked, CloseSection, Cli
  <2> QED
    BY <1>1, <2>1 DEF DataTypes, TurnVars, RequestVars, Governor, State, Terminal
<1> QED
  BY <1>2, <1>3, <1>4 DEF CloseNext

LEMMA CallbackTypes ==
    ASSUME DataTypes, NEW c \in Callbacks, CallbackNext(c)
    PROVE  DataTypes'
<1>1. ran' \subseteq Tasks \cup {Consumer}
  <2>1. CASE Resolve(c)
    BY <2>1 DEF Resolve, DataTypes
  <2>2. CASE Ask(c) \/ ParkLocked(c) \/ Unpark(c) \/ UnparkLocked(c)
    BY <2>2, RunsTyped DEF Ask, ParkLocked, Unpark, UnparkLocked, Tasks
  <2> QED
    BY <2>1, <2>2 DEF CallbackNext
<1>2. /\ UNCHANGED <<meta, TurnVars, Governor, Cli>>
      /\ pending' \subseteq pending \cup {c} /\ isSet' \subseteq isSet \cup {c}
      /\ turnOf' \in {turnOf, [turnOf EXCEPT ![c] = turn]}
  BY DEF CallbackNext, Ask, ParkLocked, Resolve, Resolved, Unpark, UnparkLocked, RequestVars
<1>3. state' \in {state, "awaiting_permission", "running"}
  BY DEF CallbackNext, Ask, ParkLocked, ParkSection, Resolve, Unpark, UnparkLocked,
     UnparkSection
<1> QED
  BY <1>1, <1>2, <1>3 DEF DataTypes, TurnVars, Governor, Cli, State, Running

LEMMA DataStart == ASSUME Init PROVE DataTypes
<1>1. /\ cliq \in Seq(Senders) /\ cooling \in BOOLEAN
      /\ authFailed \in BOOLEAN /\ cliUp \in BOOLEAN
  <2>1. cliq = <<>> /\ cooling = FALSE /\ authFailed = FALSE /\ cliUp = TRUE
    BY DEF Init
  <2>2. cliq \in Seq(Senders)
    BY <2>1
  <2>3. cooling \in BOOLEAN /\ authFailed \in BOOLEAN /\ cliUp \in BOOLEAN
    BY <2>1
  <2> QED
    BY <2>2, <2>3
<1>2. state \in State /\ meta \in State
  BY DEF Init, State
<1>3. /\ turn = NoTurn /\ bills = {} /\ ran = {} /\ pending = {} /\ isSet = {}
      /\ tstate = [s \in Senders |-> "none"] /\ recorded = [s \in Senders |-> 0]
      /\ turnOf = [c \in Callbacks |-> NoTurn]
  BY DEF Init
<1>4. /\ tstate \in [Senders -> {"none", "running", "completed", "interrupted"}]
      /\ recorded \in [Senders -> Nat] /\ turnOf \in [Callbacks -> Senders \cup {NoTurn}]
  BY <1>3
<1> QED
  BY <1>1, <1>2, <1>3, <1>4 DEF DataTypes

LEMMA DataStep == ASSUME DataTypes, [Next]_vars PROVE DataTypes'
<1>1. CASE GraceEnds
  BY <1>1 DEF GraceEnds, DataTypes, TurnVars, RequestVars, Governor, Cli, State
<1>2. CASE CooldownExpires
  BY <1>2 DEF CooldownExpires, DataTypes, TurnVars, RequestVars, Cli
<1>3. CASE UNCHANGED vars
  BY <1>3 DEF vars, DataTypes
<1> QED
  BY <1>1, <1>2, <1>3, ConsumerTypes, SendTypes, InterruptTypes, CloseTypes, CallbackTypes
     DEF Next

\* The inductive invariant of the session: its types, the lock, the close.
THEOREM SessionInvariance == Spec => []IndInv
<1>1. LockInv /\ DataTypes /\ ConsumerGone => IndInv
  BY DEF LockInv, LockTypes, DataTypes, IndInv, TypeOK
<1> QED
  BY <1>1, DataStart, DataStep, LockStart, LockStep, CloseStopsConsumer, PTL DEF Spec
=============================================================================
