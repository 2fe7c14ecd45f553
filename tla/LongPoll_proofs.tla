---------------------------- MODULE LongPoll_proofs ----------------------------
(***************************************************************************)
(* Proofs about the long polls: with them, a session is still the session  *)
(* of BrokerSession; no poller sleeps through what a message or a request  *)
(* brings; and no session_send sleeps while a request waits for a          *)
(* decision.  For any number of calls, and however slow query() is.  When  *)
(* query() is prompt, no session_send sleeps once its turn is over, and    *)
(* none returns the result of another's.                                   *)
(***************************************************************************)
EXTENDS LongPoll, Turns_proofs, SequenceTheorems

\* What a step of LongPoll is a step of.
LEMMA LongStep ==
    ASSUME [LongNext]_longVars
    PROVE  [Next]_vars
<1>1. CASE Report
  BY <1>1 DEF Report
<1>2. CASE MessageLogged
  BY <1>2 DEF MessageLogged, Next, ConsumerNext
<1>3. CASE MessageHandled
  BY <1>3 DEF MessageHandled, Next, ConsumerNext
<1>4. CASE StreamOver
  BY <1>4 DEF StreamOver, Next, ConsumerNext
<1>5. ASSUME NEW c \in Callbacks, Callback(c) PROVE [Next]_vars
  BY <1>5 DEF Callback, Next, CallbackNext
<1>6. ASSUME NEW k \in Closers, Closing(k) PROVE [Next]_vars
  BY <1>6 DEF Closing, Next, CloseNext
<1>7. CASE Unheard
  BY <1>7 DEF Unheard, Next, SendNext, CallbackNext
<1>8. ASSUME NEW s \in Senders, SendWaits(s) \/ SendLooks(s) \/ SendTimesOut(s)
      PROVE  [Next]_vars
  BY <1>8 DEF SendWaits, SendLooks, SendTimesOut, Next, SendNext
<1>9. ASSUME NEW p \in Pollers, Poll(p) \/ PollWaitEnds(p) PROVE [Next]_vars
  BY <1>9 DEF Poll, PollWaitEnds
<1>10. CASE UNCHANGED longVars
  BY <1>10 DEF longVars
<1>11. QED
  BY <1>1, <1>2, <1>3, <1>4, <1>5, <1>6, <1>7, <1>8, <1>9, <1>10 DEF LongNext

\* A session with long polls implements the session without.
THEOREM LongPollIsSession == LongSpec => Spec
<1>1. LongInit => Init
  BY DEF LongInit
<1>2. [LongNext]_longVars => [Next]_vars
  BY LongStep
<1>3. QED
  BY <1>1, <1>2, PTL DEF LongSpec, Spec

\* What is proved of the session carries over.
THEOREM CloseStopsConsumerHere == LongSpec => []ConsumerGone
BY LongPollIsSession, CloseStopsConsumer, PTL

----------------------------------------------------------------------------
(* What the steps of a session do to its callbacks and to the queries. *)

\* A step that parks no callback, and lets none go.
Quiet(c) ==
    /\ pc'[c] = "parked" => pc[c] = "parked"
    /\ pc'[c] = "wants park" <=> pc[c] = "wants park"
    /\ pending' = pending

LEMMA ConsumerParks ==
    ASSUME ConsumerNext, NEW c \in Callbacks PROVE Quiet(c)
<1>1. pending' = pending
  BY DEF ConsumerNext, InitMessage, InitLocked, McpErrorMessage, McpErrorLocked,
     RetryMessage, CooldownLocked, AuthMessage, AuthLocked, ResultMessage,
     ResultLocked, StreamEnds, EndLocked, StreamRaises, ErrorLocked,
     ConsumerCancelled, RequestVars
<1>2. QED
  BY <1>1, ConsumerKeeps DEF Quiet

LEMMA SendParks ==
    ASSUME NEW s \in Senders, SendNext(s), pc \in [Tasks -> Stage], NEW c \in Callbacks
    PROVE  Quiet(c)
<1> USE DEF Quiet, Goto, RequestVars, Tasks
<1>1. CASE Send(s)
  BY <1>1 DEF Send, SendSection, Queue
<1>2. CASE SendLocked(s)
  BY <1>2 DEF SendLocked, SendSection, Granted
<1>3. CASE QueryReturns(s)
  BY <1>3 DEF QueryReturns
<1>4. CASE QueryRaises(s)
  BY <1>4 DEF QueryRaises
<1>5. QED
  BY <1>1, <1>2, <1>3, <1>4 DEF SendNext

LEMMA InterruptParks ==
    ASSUME NEW i \in Interrupters, InterruptNext(i), pc \in [Tasks -> Stage],
           NEW c \in Callbacks
    PROVE  Quiet(c)
<1> USE DEF Quiet, Goto, RequestVars, Tasks
<1>1. CASE Interrupt(i) \/ InterruptRefused(i)
  BY <1>1 DEF Interrupt, InterruptRefused
<1>2. CASE InterruptReturns(i) \/ InterruptRaises(i)
  BY <1>2 DEF InterruptReturns, InterruptRaises
<1>3. CASE PollSettled(i)
  BY <1>3 DEF PollSettled, Queue
<1>4. CASE IdleLocked(i)
  <2>1. PICK stage \in {"raised", "done"} : pc' = [pc EXCEPT ![i] = stage]
    BY <1>4 DEF IdleLocked, IdleSection
  <2>2. pending' = pending /\ pc[i] = "wants idle"
    BY <1>4 DEF IdleLocked, Granted
  <2>3. QED
    BY <2>1, <2>2
<1>5. CASE PollTimesOut(i)
  BY <1>5 DEF PollTimesOut, Queue
<1>6. CASE TimeoutLocked(i)
  BY <1>6 DEF TimeoutLocked, Granted
<1>7. QED
  BY <1>1, <1>2, <1>3, <1>4, <1>5, <1>6 DEF InterruptNext

LEMMA CloseParks ==
    ASSUME NEW k \in Closers, CloseNext(k), pc \in [Tasks -> Stage], NEW c \in Callbacks
    PROVE  Quiet(c)
<1> USE DEF Quiet, Goto, RequestVars, Tasks
<1>1. CASE Close(k)
  BY <1>1 DEF Close, CancelConsumer
<1>2. CASE Abandon(k)
  BY <1>2 DEF Abandon, CancelConsumer
<1>3. CASE Joined(k)
  BY <1>3 DEF Joined
<1>4. CASE Disconnected(k)
  BY <1>4 DEF Disconnected, CloseSection, Queue
<1>5. CASE CloseLocked(k)
  BY <1>5 DEF CloseLocked, CloseSection, Granted
<1>6. QED
  BY <1>1, <1>2, <1>3, <1>4, <1>5 DEF CloseNext

\* What a callback's own steps do.
Parks(c) ==
    \A d \in Callbacks :
       /\ pc'[d] = "parked" => pc[d] = "parked" \/ (d = c /\ (Ask(c) \/ ParkLocked(c)))
       /\ pc'[d] = "wants park" => pc[d] = "wants park" \/ (d = c /\ Ask(c))
       /\ pc[d] = "wants park" => pc'[d] = "wants park" \/ (d = c /\ ParkLocked(c))
       /\ d \in pending => d \in pending' \/ (d = c /\ Unpark(c))

LEMMA CallbackParks ==
    ASSUME NEW c \in Callbacks, CallbackNext(c), pc \in [Tasks -> Stage]
    PROVE  Parks(c)
<1> USE DEF Parks, Goto, RequestVars, Tasks
<1>1. CASE Ask(c)
  BY <1>1 DEF Ask, ParkSection, Queue
<1>2. CASE ParkLocked(c)
  BY <1>2 DEF ParkLocked, ParkSection, Granted
<1>3. CASE Resolve(c)
  BY <1>3 DEF Resolve
<1>4. CASE Unpark(c)
  BY <1>4 DEF Unpark, UnparkSection, Queue
<1>5. CASE UnparkLocked(c)
  BY <1>5 DEF UnparkLocked, UnparkSection, Granted
<1>6. QED
  BY <1>1, <1>2, <1>3, <1>4, <1>5 DEF CallbackNext

\* Every step but one of the callbacks' own is quiet.
LEMMA QuietStep ==
    ASSUME [LongNext]_longVars, pc \in [Tasks -> Stage], NEW c \in Callbacks
    PROVE  Quiet(c) \/ \E d \in Callbacks : Callback(d) /\ CallbackNext(d)
<1>1. CASE Report
  BY <1>1 DEF Report, vars, Quiet
<1>2. CASE MessageLogged \/ MessageHandled \/ StreamOver
  BY <1>2, ConsumerParks DEF MessageLogged, MessageHandled, StreamOver, ConsumerNext
<1>3. ASSUME NEW d \in Callbacks, Callback(d)
      PROVE  CallbackNext(d)
  BY <1>3 DEF Callback, CallbackNext
<1>4. ASSUME NEW k \in Closers, Closing(k) PROVE Quiet(c)
  BY <1>4, CloseParks DEF Closing, CloseNext
<1>5. CASE Unheard
  <2>1. CASE GraceEnds \/ CooldownExpires \/ \E d \in Callbacks : Resolve(d)
    BY <2>1 DEF GraceEnds, CooldownExpires, Resolve, RequestVars, Quiet
  <2>2. QED
    BY <1>5, <2>1, SendParks, InterruptParks DEF Unheard, SendNext
<1>6. ASSUME NEW s \in Senders, SendWaits(s) \/ SendLooks(s) \/ SendTimesOut(s)
      PROVE  Quiet(c)
  BY <1>6, SendParks DEF SendWaits, SendLooks, SendTimesOut, SendNext, vars, Quiet
<1>7. ASSUME NEW p \in Pollers, Poll(p) \/ PollWaitEnds(p) PROVE Quiet(c)
  BY <1>7 DEF Poll, PollWaitEnds, vars, Quiet
<1>8. CASE UNCHANGED longVars
  BY <1>8 DEF longVars, vars, Quiet
<1>9. QED
  BY <1>1, <1>2, <1>3, <1>4, <1>5, <1>6, <1>7, <1>8 DEF LongNext

\* Queries are those of senders.
LEMMA CliqStep ==
    ASSUME [Next]_vars, cliq \in Seq(Senders)
    PROVE  cliq' \in Seq(Senders)
<1> USE DEF Cli
<1>1. CASE ConsumerNext
  <2>1. CASE ResultMessage
    BY <2>1, HeadTailProperties DEF ResultMessage, CliWorks
  <2>2. CASE ~ResultMessage
    BY <1>1, <2>2 DEF ConsumerNext, InitMessage, InitLocked, McpErrorMessage,
       McpErrorLocked, RetryMessage, CooldownLocked, AuthMessage, AuthLocked,
       ResultLocked, StreamEnds, EndLocked, StreamRaises, ErrorLocked, ConsumerCancelled
  <2>3. QED
    BY <2>1, <2>2
<1>2. ASSUME NEW s \in Senders, SendNext(s) PROVE cliq' \in Seq(Senders)
  <2>1. CASE Send(s) \/ SendLocked(s)
    <3>1. cliq' = cliq \/ cliq' = Append(cliq, s)
      BY <2>1 DEF Send, SendLocked, SendSection
    <3>2. QED
      BY <3>1, AppendProperties
  <2>2. CASE QueryReturns(s)
    BY <2>2 DEF QueryReturns
  <2>3. CASE QueryRaises(s)
    <3>1. ASSUME NEW i \in 1 .. Len(cliq)
          PROVE  SubSeq(cliq, 1, i - 1) \o SubSeq(cliq, i + 1, Len(cliq)) \in Seq(Senders)
      OBVIOUS
    <3>2. Without(cliq, s) \in Seq(Senders)
      BY <3>1 DEF Without
    <3>3. QED
      BY <2>3, <3>2 DEF QueryRaises
  <2>4. QED
    BY <1>2, <2>1, <2>2, <2>3 DEF SendNext
<1>3. ASSUME NEW i \in Interrupters, InterruptNext(i) PROVE cliq' \in Seq(Senders)
  BY <1>3 DEF InterruptNext, Interrupt, InterruptRefused, InterruptReturns,
     InterruptRaises, PollSettled, IdleLocked, PollTimesOut, TimeoutLocked
<1>4. ASSUME NEW k \in Closers, CloseNext(k) PROVE cliq' \in Seq(Senders)
  BY <1>4 DEF CloseNext, Close, Abandon, Joined, Disconnected, CloseLocked
<1>5. ASSUME NEW c \in Callbacks, CallbackNext(c) PROVE cliq' \in Seq(Senders)
  BY <1>5 DEF CallbackNext, Ask, ParkLocked, Resolve, Unpark, UnparkLocked
<1>6. CASE GraceEnds \/ CooldownExpires \/ UNCHANGED vars
  BY <1>6 DEF GraceEnds, CooldownExpires, vars
<1>7. QED
  BY <1>1, <1>2, <1>3, <1>4, <1>5, <1>6 DEF Next

----------------------------------------------------------------------------
(* Waiters. *)

\* Setting the event wakes; nothing else does anything to those who wait.
LEMMA Waking ==
    ASSUME LongTypeOK
    PROVE  /\ WakeIf(TRUE) => wait' \in [Waiters -> {"out", "asleep", "woken"}]
                               /\ \A w \in Waiters : wait'[w] # "asleep"
           /\ WakeIf(FALSE) => wait' = wait
BY DEF WakeIf, LongTypeOK, Asleep

\* The log moves on: what is ahead of a poller stays a stage of its own.
LEMMA Logging ==
    ASSUME LongTypeOK
    PROVE  /\ Logs => ahead' \in [Pollers -> {"nothing", "status", "news"}]
           /\ LogsStatus => /\ ahead' \in [Pollers -> {"nothing", "status", "news"}]
                            /\ \A p \in Pollers : ahead'[p] = "news" => ahead[p] = "news"
BY DEF Logs, LogsStatus, LongTypeOK

\* A message or the end of the stream wakes everyone, or the consumer is on
\* its way to the lock, or it is done.
HeardOrBusy ==
    \/ WakeIf(TRUE)
    \/ WakeIf(FALSE) /\ cons' # "receiving"

LEMMA MessageHeard ==
    ASSUME MessageLogged \/ MessageHandled \/ StreamOver
    PROVE  HeardOrBusy
<1> USE DEF HeardOrBusy, Handled, Ended, WakeIf
<1>1. McpErrorMessage \/ McpErrorLocked \/ StreamEnds \/ StreamRaises \/ ErrorLocked
         \/ ConsumerCancelled => cons' # "receiving"
  BY DEF McpErrorMessage, McpErrorLocked, StreamEnds, StreamRaises, ErrorLocked,
     ConsumerCancelled, EndSection, ConsumerFails, ConsumerGoes, ConsumerQueues
<1>2. CASE MessageLogged
  BY <1>1, <1>2 DEF MessageLogged
<1>3. CASE MessageHandled
  BY <1>1, <1>3 DEF MessageHandled
<1>4. CASE StreamOver
  BY <1>1, <1>4 DEF StreamOver
<1>5. QED
  BY <1>2, <1>3, <1>4

\* A callback that brings news wakes everyone, or is on its way to the lock.
LEMMA CallbackHeard ==
    ASSUME NEW c \in Callbacks, Callback(c), pc \in [Tasks -> Stage]
    PROVE  \/ WakeIf(TRUE)
           \/ /\ WakeIf(FALSE)
              /\ ~Free /\ Ask(c) /\ Logs /\ pc'[c] = "wants park"
           \/ /\ UNCHANGED <<wait, ahead>>
              /\ Unpark(c) \/ UnparkLocked(c)
<1> USE DEF WakeIf
<1>1. CASE Ask(c) /\ Logs /\ WakeIf(Free)
  <2>1. CASE Free
    BY <1>1, <2>1
  <2>2. CASE ~Free
    BY <1>1, <2>2 DEF Ask, Queue, Goto, Tasks
  <2>3. QED
    BY <2>1, <2>2
<1>2. QED
  BY <1>1 DEF Callback

----------------------------------------------------------------------------
(* The invariant. *)

LEMMA LongInitInv == LongInit => LongInv
<1> SUFFICES ASSUME LongInit PROVE LongInv
  OBVIOUS
<1>1. LongTypeOK
  BY DEF LongInit, LongTypeOK, Waiters
<1>2. cliq \in Seq(Senders)
  BY EmptySeq DEF LongInit, Init
<1>3. \A c \in Callbacks : pc[c] = "ready"
  BY DEF LongInit, Init, Tasks
<1>4. \A w \in Waiters : wait[w] = "out"
  BY DEF LongInit
<1>5. QED
  BY <1>1, <1>2, <1>3, <1>4 DEF LongInv, NewsWakesPollers, AskedSendersAwake, Asleep,
     Waiters

LEMMA TypeStep ==
    ASSUME LongTypeOK, cliq \in Seq(Senders), pc \in [Tasks -> Stage],
           [LongNext]_longVars
    PROVE  LongTypeOK'
<1>1. CASE Report
  BY <1>1, Waking, Logging DEF Report, LongTypeOK
<1>2. CASE MessageLogged
  <2>1. wait' \in [Waiters -> {"out", "asleep", "woken"}]
    BY <1>2, MessageHeard, Waking DEF HeardOrBusy, LongTypeOK
  <2>2. ahead' \in [Pollers -> {"nothing", "status", "news"}]
    BY <1>2, Logging DEF MessageLogged
  <2>3. ResultMessage => Head(cliq) \in Senders
    BY HeadTailProperties DEF ResultMessage, CliWorks
  <2>4. last' \in [Senders -> Senders \cup {NoTurn}]
    BY <1>2, <2>3 DEF MessageLogged, LongTypeOK
  <2>5. QED
    BY <2>1, <2>2, <2>4 DEF LongTypeOK
<1>3. CASE MessageHandled \/ StreamOver
  BY <1>3, MessageHeard, Waking, Logging
     DEF MessageHandled, StreamOver, HeardOrBusy, LongTypeOK
<1>4. ASSUME NEW c \in Callbacks, Callback(c) PROVE LongTypeOK'
  <2>1. ahead' \in [Pollers -> {"nothing", "status", "news"}]
    BY <1>4, Logging DEF Callback, LongTypeOK
  <2>2. last' = last
    BY <1>4 DEF Callback
  <2>3. QED
    BY <1>4, <2>1, <2>2, CallbackHeard, Waking DEF LongTypeOK
<1>5. ASSUME NEW k \in Closers, Closing(k) PROVE LongTypeOK'
  BY <1>5, Waking, Logging DEF Closing, LongTypeOK
<1>6. CASE Unheard
  BY <1>6, Logging DEF Unheard, LongTypeOK
<1>7. ASSUME NEW s \in Senders, SendWaits(s) \/ SendLooks(s) \/ SendTimesOut(s)
      PROVE  LongTypeOK'
  BY <1>7 DEF SendWaits, SendLooks, SendTimesOut, LongTypeOK, Waiters
<1>8. ASSUME NEW p \in Pollers, Poll(p) \/ PollWaitEnds(p) PROVE LongTypeOK'
  BY <1>8 DEF Poll, PollWaitEnds, Returns, LongTypeOK, Waiters
<1>9. CASE UNCHANGED longVars
  BY <1>9 DEF longVars, pollVars, LongTypeOK
<1>10. QED
  BY <1>1, <1>2, <1>3, <1>4, <1>5, <1>6, <1>7, <1>8, <1>9 DEF LongNext

\* No send goes to sleep but while nothing is pending, and whoever parks a
\* request wakes the senders.
LEMMA SendersStep ==
    ASSUME LongInv, pc \in [Tasks -> Stage], [LongNext]_longVars
    PROVE  AskedSendersAwake'
<1> SUFFICES ASSUME NEW c \in Callbacks, pc'[c] = "parked",
                    NEW s \in Senders, wait'[s] = "asleep"
             PROVE  FALSE
  BY DEF AskedSendersAwake, Asleep
<1>1. LongTypeOK /\ s \in Waiters
  BY DEF LongInv, Waiters
<1>2. ~WakeIf(TRUE)
  BY <1>1, Waking
<1>3. WakeIf(FALSE) => wait' = wait
  BY DEF WakeIf
<1>4. ASSUME NEW d \in Callbacks, Callback(d), CallbackNext(d)
      PROVE  pc[c] = "parked" /\ wait[s] = "asleep"
  <2>1. Parks(d)
    BY <1>4, CallbackParks
  <2>2. CASE WakeIf(FALSE) /\ Ask(d) /\ pc'[d] = "wants park"
    BY <1>3, <2>1, <2>2 DEF Parks, ParkLocked, Ask, Granted
  <2>3. CASE wait' = wait /\ (Unpark(d) \/ UnparkLocked(d))
    BY <2>1, <2>3 DEF Parks, ParkLocked, Ask, Unpark, UnparkLocked, Granted
  <2>4. QED
    BY <1>2, <1>4, <2>2, <2>3, CallbackHeard
<1>5. pc[c] = "parked"
  BY <1>4, QuietStep DEF Quiet
<1>6. wait[s] # "asleep" /\ pending # {}
  BY <1>5 DEF LongInv, AskedSendersAwake, Asleep
<1>7. ~Settled(s) => FALSE
  BY <1>6 DEF Settled
<1>8. wait[s] = "asleep"
  <2>1. CASE Report
    BY <1>2, <2>1 DEF Report
  <2>2. CASE MessageLogged \/ MessageHandled \/ StreamOver
    BY <1>2, <1>3, <2>2, MessageHeard DEF HeardOrBusy
  <2>3. ASSUME NEW k \in Closers, Closing(k) PROVE wait[s] = "asleep"
    BY <1>2, <2>3 DEF Closing
  <2>4. CASE Unheard
    BY <2>4 DEF Unheard
  <2>5. ASSUME NEW t \in Senders, SendWaits(t) \/ SendLooks(t) \/ SendTimesOut(t)
        PROVE  wait[s] = "asleep"
    BY <1>1, <1>7, <2>5 DEF SendWaits, SendLooks, SendTimesOut, LongTypeOK
  <2>6. ASSUME NEW p \in Pollers, Poll(p) \/ PollWaitEnds(p) PROVE wait[s] = "asleep"
    BY <1>1, <2>6, PollersAssumption DEF Poll, PollWaitEnds, Returns, LongTypeOK
  <2>7. CASE UNCHANGED longVars
    BY <2>7 DEF longVars, pollVars
  <2>8. QED
    BY <1>4, <2>1, <2>2, <2>3, <2>4, <2>5, <2>6, <2>7 DEF LongNext, Callback, CallbackNext
<1>9. QED
  BY <1>6, <1>8

\* Who brings news to a sleeping poller wakes it, or queues for the lock on the
\* way to it; and no poller goes to sleep with news ahead of it.
LEMMA PollersStep ==
    ASSUME LongInv, pc \in [Tasks -> Stage], [LongNext]_longVars
    PROVE  NewsWakesPollers'
<1> SUFFICES ASSUME NEW p \in Pollers, wait'[p] = "asleep", ahead'[p] = "news",
                    cons' = "receiving",
                    \A c \in Callbacks : pc'[c] # "wants park"
             PROVE  FALSE
  BY DEF NewsWakesPollers, Asleep
<1>1. LongTypeOK /\ p \in Waiters
  BY DEF LongInv, Waiters
<1>2. ~WakeIf(TRUE)
  BY <1>1, Waking
<1>3. wait[p] = "asleep" /\ ahead[p] = "news" =>
         cons # "receiving" \/ \E c \in Callbacks : pc[c] = "wants park"
  BY DEF LongInv, NewsWakesPollers, Asleep
<1>4. CASE Report \/ MessageLogged \/ MessageHandled \/ StreamOver
  BY <1>2, <1>4, MessageHeard DEF HeardOrBusy, Report
<1>5. ASSUME NEW c \in Callbacks, Callback(c) PROVE FALSE
  <2>1. UNCHANGED <<wait, ahead>> /\ (Unpark(c) \/ UnparkLocked(c))
    BY <1>2, <1>5, CallbackHeard
  <2>2. cons' = cons /\ Parks(c)
    BY <2>1, CallbackParks DEF CallbackNext, Unpark, UnparkLocked
  <2>3. \A d \in Callbacks : pc[d] = "wants park" => pc'[d] = "wants park"
    BY <2>1, <2>2 DEF Parks, Unpark, UnparkLocked, ParkLocked, Granted
  <2>4. QED
    BY <1>3, <2>1, <2>2, <2>3
<1>6. ASSUME cons' = cons \/ cons' # "receiving", wait[p] = "asleep", ahead[p] = "news",
             \A c \in Callbacks : Quiet(c)
      PROVE  FALSE
  BY <1>3, <1>6 DEF Quiet
<1>7. (\A c \in Callbacks : Quiet(c)) \/ \E d \in Callbacks : Callback(d)
  BY QuietStep
<1>8. ASSUME NEW k \in Closers, Closing(k) PROVE FALSE
  <2>1. wait' = wait /\ LogsStatus
    BY <1>2, <1>8 DEF Closing
  <2>2. cons' = cons \/ cons' = "cancelled"
    BY <1>8 DEF Closing, Close, Abandon, Joined, Disconnected, CloseLocked, CancelConsumer
  <2>3. QED
    BY <1>1, <1>5, <1>6, <1>7, <2>1, <2>2, Logging
<1>9. CASE Unheard
  <2>1. wait' = wait /\ LogsStatus
    BY <1>9 DEF Unheard
  <2>2. cons' = cons
    BY <1>9, SendKeeps, InterruptKeeps
       DEF Unheard, SendNext, GraceEnds, CooldownExpires, Resolve
  <2>3. QED
    BY <1>1, <1>5, <1>6, <1>7, <2>1, <2>2, Logging
<1>10. ASSUME NEW s \in Senders, SendWaits(s) \/ SendLooks(s) \/ SendTimesOut(s)
       PROVE  FALSE
  <2>1. wait'[p] = wait[p] /\ ahead' = ahead
    BY <1>1, <1>10, PollersAssumption
       DEF SendWaits, SendLooks, SendTimesOut, LongTypeOK, Waiters
  <2>2. cons' = cons
    BY <1>10 DEF SendWaits, SendLooks, SendTimesOut, QueryReturns, vars
  <2>3. QED
    BY <1>5, <1>6, <1>7, <2>1, <2>2
<1>11. ASSUME NEW q \in Pollers, Poll(q) \/ PollWaitEnds(q) PROVE FALSE
  <2>1. p # q \/ wait' = [wait EXCEPT ![p] = "asleep"]
    BY <1>1, <1>11 DEF Poll, PollWaitEnds, Returns, LongTypeOK
  <2>2. ahead[p] = "news" /\ wait[p] = "asleep" /\ cons' = cons
    BY <1>1, <1>11 DEF Poll, PollWaitEnds, PollEnds, Returns, LongTypeOK, vars, Waiters
  <2>3. QED
    BY <1>5, <1>6, <1>7, <2>2
<1>12. CASE UNCHANGED longVars
  BY <1>3, <1>12 DEF longVars, pollVars, vars
<1>13. QED
  BY <1>4, <1>5, <1>8, <1>9, <1>10, <1>11, <1>12 DEF LongNext

\* The invariant is inductive, next to that of BrokerSession.
LEMMA LongStepInv == LongInv /\ Inv /\ [LongNext]_longVars => LongInv'
<1> SUFFICES ASSUME LongInv, Inv, [LongNext]_longVars PROVE LongInv'
  OBVIOUS
<1>1. pc \in [Tasks -> Stage]
  BY DEF Inv
<1>2. LongTypeOK'
  BY <1>1, TypeStep DEF LongInv
<1>3. (cliq \in Seq(Senders))'
  BY LongStep, CliqStep DEF LongInv
<1>4. ASSUME NEW c \in Callbacks, pc'[c] \in {"wants park", "parked"}
      PROVE  c \in pending'
  <2>1. CASE Quiet(c)
    BY <1>4, <2>1 DEF LongInv, Quiet
  <2>2. ASSUME NEW d \in Callbacks, CallbackNext(d) PROVE c \in pending'
    <3>1. Parks(d)
      BY <1>1, <2>2, CallbackParks
    <3>2. CASE d = c /\ Ask(c)
      BY <3>2 DEF Ask
    <3>3. CASE ~(d = c /\ Ask(c)) /\ c \in pending
      <4>1. d = c /\ Unpark(c) => pc'[c] \notin {"wants park", "parked"}
        BY <1>1 DEF Unpark, UnparkSection, Queue, Goto, Tasks
      <4>2. QED
        BY <1>4, <3>1, <3>3, <4>1 DEF Parks
    <3>4. ~(d = c /\ Ask(c)) => c \in pending
      BY <1>4, <3>1 DEF LongInv, Parks, ParkLocked, Granted
    <3>5. QED
      BY <3>2, <3>3, <3>4
  <2>3. QED
    BY <1>1, <2>1, <2>2, QuietStep
<1>5. NewsWakesPollers' /\ AskedSendersAwake'
  BY <1>1, PollersStep, SendersStep
<1>6. QED
  BY <1>2, <1>3, <1>4, <1>5 DEF LongInv

\* What wakes whom holds in every reachable state.
THEOREM LongInvariance == LongSpec => []LongInv
<1>1. LongSpec => []Inv
  BY LongPollIsSession, Invariance, PTL
<1>2. QED
  BY <1>1, LongInitInv, LongStepInv, PTL DEF LongSpec

\* A poller that sleeps with news past its cursor has a handler on its way that
\* wakes it, or no consumer.
THEOREM NoNewsSleptThrough == LongSpec => []NewsWakesPollers
<1>1. LongInv => NewsWakesPollers
  BY DEF LongInv
<1>2. QED
  BY <1>1, LongInvariance, PTL

\* No session_send sleeps while a request of its session waits for a decision.
THEOREM SendersAreAsked == LongSpec => []AskedSendersAwake
<1>1. LongInv => AskedSendersAwake
  BY DEF LongInv
<1>2. QED
  BY <1>1, LongInvariance, PTL

----------------------------------------------------------------------------
(* With a prompt query(): whose turn is over is awake, and gets its result. *)

\* A send that has not begun to wait; its turn has no result yet.
Early == {"ready", "wants send", "querying"}

Sleepers ==
    \A s \in Senders :
       /\ pc[s] \in Early => wait[s] = "out" /\ last[s] = NoTurn
       /\ Asleep(s) /\ TurnOver(s) => Failing \/ Ending
       /\ ~Expired /\ wait[s] # "out" => last[s] \in {s, NoTurn}

\* No call goes back: not a send, nor an interrupt that timed out, nor a close.
LEMMA NoCallGoesBack ==
    ASSUME LockInv, [Next]_vars
    PROVE  /\ \A s \in Senders : pc'[s] \in Early => pc[s] \in Early
           /\ Expired => Expired'
           /\ Ending => Ending'
<1>1. pc \in [Tasks -> Stage]
  BY DEF LockInv, LockTypes
<1>2. ASSUME pc' = pc
      PROVE  /\ \A s \in Senders : pc'[s] \in Early => pc[s] \in Early
             /\ Expired => Expired'
             /\ Ending => Ending'
  BY <1>2 DEF Expired, Ending
<1>3. ASSUME NEW p \in Tasks, NEW stage, pc' = [pc EXCEPT ![p] = stage],
             p \in Senders => stage \notin Early \/ pc[p] \in Early,
             p \in Interrupters => pc[p] # "timed out",
             p \in Closers => stage \notin {"ready", "abandoning"}
                                 \/ pc[p] \in {"ready", "abandoning"}
      PROVE  /\ \A s \in Senders : pc'[s] \in Early => pc[s] \in Early
             /\ Expired => Expired'
             /\ Ending => Ending'
  <2>1. pc'[p] = stage /\ \A t \in Tasks \ {p} : pc'[t] = pc[t]
    BY <1>1, <1>3
  <2>2. Expired => Expired'
    BY <1>3, <2>1, Kinds DEF Expired
  <2>3. Ending => Ending'
    BY <1>3, <2>1, Kinds DEF Ending
  <2> QED
    BY <1>3, <2>1, <2>2, <2>3, Kinds
<1>4. ASSUME NEW s \in Senders, SendNext(s)
      PROVE  pc[s] \in Early /\ \E stage : pc' = [pc EXCEPT ![s] = stage]
  BY <1>4, SendKeeps
     DEF SendNext, Send, SendLocked, Granted, QueryReturns, QueryRaises, Early
<1>5. ASSUME NEW i \in Interrupters, InterruptNext(i)
      PROVE  pc[i] # "timed out" /\ \E stage : pc' = [pc EXCEPT ![i] = stage]
  BY <1>5, InterruptKeeps
     DEF InterruptNext, Interrupt, InterruptRefused, InterruptReturns, InterruptRaises,
         PollSettled, IdleLocked, PollTimesOut, TimeoutLocked, Granted
<1>6. ASSUME NEW k \in Closers, CloseNext(k)
      PROVE  \E stage : /\ pc' = [pc EXCEPT ![k] = stage]
                        /\ stage \notin {"ready", "abandoning"}
                              \/ pc[k] \in {"ready", "abandoning"}
  <2>1. PICK stage : pc' = [pc EXCEPT ![k] = stage]
    BY <1>6, CloseMoves DEF TaskMoves
  <2>2. pc'[k] = stage
    BY <1>1, <2>1, Kinds
  <2>3. pc'[k] \notin {"ready", "abandoning"} \/ pc[k] \in {"ready", "abandoning"}
    BY <1>1, <1>6, Kinds DEF CloseNext, Close, Abandon, Joined, Disconnected, CloseLocked,
       CloseSection, CancelConsumer, Queue, Goto
  <2> QED
    BY <2>1, <2>2, <2>3
<1>7. ASSUME NEW c \in Callbacks, CallbackNext(c)
      PROVE  pc' = pc \/ \E stage : pc' = [pc EXCEPT ![c] = stage]
  BY <1>7, CallbackMoves DEF TaskMoves
<1>8. CASE ConsumerNext \/ GraceEnds \/ CooldownExpires \/ UNCHANGED vars
  <2>1. pc' = pc
    BY <1>8, ConsumerKeeps DEF GraceEnds, CooldownExpires, vars
  <2> QED
    BY <1>2, <2>1
<1>9. CASE \E s \in Senders : SendNext(s)
  <2>1. PICK s \in Senders : SendNext(s)
    BY <1>9
  <2>2. PICK stage : pc' = [pc EXCEPT ![s] = stage]
    BY <1>4, <2>1
  <2> QED
    BY <1>3, <1>4, <2>1, <2>2, Kinds
<1>10. CASE \E i \in Interrupters : InterruptNext(i)
  <2>1. PICK i \in Interrupters : InterruptNext(i)
    BY <1>10
  <2>2. PICK stage : pc' = [pc EXCEPT ![i] = stage]
    BY <1>5, <2>1
  <2> QED
    BY <1>3, <1>5, <2>1, <2>2, Kinds
<1>11. CASE \E k \in Closers : CloseNext(k)
  BY <1>3, <1>6, <1>11, Kinds
<1>12. CASE \E c \in Callbacks : CallbackNext(c)
  <2>1. PICK c \in Callbacks : CallbackNext(c)
    BY <1>12
  <2>2. c \in Tasks /\ c \notin Senders /\ c \notin Interrupters /\ c \notin Closers
    BY Kinds
  <2> QED
    BY <1>2, <1>3, <1>7, <2>1, <2>2
<1> QED
  BY <1>8, <1>9, <1>10, <1>11, <1>12 DEF Next

\* A step that puts no send to sleep and logs no result.
LEMMA SleepersKept ==
    ASSUME Sleepers, LockInv, [Next]_vars, last' = last,
           \A s \in Senders :
              \/ wait'[s] = wait[s] \/ wait'[s] = "out"
              \/ wait'[s] = "woken" /\ wait[s] = "asleep",
           \A s \in Senders :
              Asleep(s) /\ wait'[s] = "asleep" /\ tstate'[s] # "running" =>
                 state' \in Terminal \/ cons' = "wants error" \/ Ending'
    PROVE  Sleepers'
<1> SUFFICES ASSUME NEW s \in Senders
             PROVE  /\ pc'[s] \in Early => wait'[s] = "out" /\ last'[s] = NoTurn
                    /\ Asleep(s)' /\ TurnOver(s)' => Failing' \/ Ending'
                    /\ ~Expired' /\ wait'[s] # "out" => last'[s] \in {s, NoTurn}
  BY DEF Sleepers
<1>1. pc'[s] \in Early => wait'[s] = "out" /\ last'[s] = NoTurn
  BY NoCallGoesBack DEF Sleepers
<1>2. Asleep(s)' /\ TurnOver(s)' => Failing' \/ Ending'
  BY DEF Asleep, TurnOver, Failing
<1>3. ~Expired' /\ wait'[s] # "out" => last'[s] \in {s, NoTurn}
  BY NoCallGoesBack DEF Sleepers
<1> QED
  BY <1>1, <1>2, <1>3

\* A turn that was running is, and what excused a sleeper still does.
LEMMA ExcusedStill ==
    ASSUME Sleepers, LockInv, [Next]_vars,
           state \in Terminal => state' \in Terminal,
           cons' = cons \/ state' \in Terminal \/ Ending',
           NEW s \in Senders, tstate[s] = "running" => tstate'[s] = "running",
           Asleep(s), tstate'[s] # "running"
    PROVE  state' \in Terminal \/ cons' = "wants error" \/ Ending'
<1>1. Failing \/ Ending
  BY DEF Sleepers, TurnOver
<1>2. Ending => Ending'
  BY NoCallGoesBack
<1> QED
  BY <1>1, <1>2 DEF Failing

\* What WakeIf does to a send.
LEMMA WakingSends ==
    ASSUME LongTypeOK, NEW s \in Senders, NEW sets, WakeIf(sets)
    PROVE  /\ wait'[s] = wait[s] \/ (wait'[s] = "woken" /\ wait[s] = "asleep")
           /\ sets => wait'[s] # "asleep"
BY DEF WakeIf, Asleep, LongTypeOK, Waiters

\* The consumer wakes everyone, or falls, or goes to wait for the lock.
LEMMA ConsumerExcuses ==
    ASSUME SessionInv, PromptQuery, MessageLogged \/ MessageHandled \/ StreamOver
    PROVE  \/ WakeIf(TRUE)
           \/ WakeIf(FALSE) /\ (state' \in Terminal \/ cons' = "wants error")
           \/ WakeIf(FALSE) /\ state' = state /\ tstate' = tstate /\ cons # "wants error"
           \/ ConsumerCancelled /\ WakeIf(FALSE)
<1> DEFINE heard == WakeIf(TRUE)
           fallen == WakeIf(FALSE) /\ (state' \in Terminal \/ cons' = "wants error")
           queued == WakeIf(FALSE) /\ state' = state /\ tstate' = tstate
                        /\ cons # "wants error"
<1> USE DEF Listening, ConsumerGoes, ConsumerQueues, ConsumerFails, ConsumerTransition,
            Terminal
<1>1. ASSUME NEW sets \in BOOLEAN, WakeIf(sets) PROVE heard \/ WakeIf(FALSE)
  BY <1>1
<1>2. ASSUME NEW sets \in BOOLEAN, WakeIf(sets),
             sets \/ state' \in Terminal \/ cons' = "wants error"
      PROVE  heard \/ fallen
  BY <1>1, <1>2
<1>3. ASSUME NEW sets \in BOOLEAN, WakeIf(sets),
             cons = "receiving" /\ state' = state /\ tstate' = tstate
      PROVE  heard \/ queued
  BY <1>1, <1>3
<1> HIDE DEF heard, fallen, queued
<1>4. Handled \in BOOLEAN /\ Ended \in BOOLEAN
      /\ (Handled \/ (Ended /\ state # "error")) \in BOOLEAN
      /\ (Ended /\ state = "error") \in BOOLEAN /\ (state = "error") \in BOOLEAN
  BY DEF Handled, Ended
<1>5. InitMessage \/ McpErrorMessage \/ (\E limited \in BOOLEAN : RetryMessage(limited))
         \/ AuthMessage => cons = "receiving" /\ tstate' = tstate
  BY DEF InitMessage, McpErrorMessage, RetryMessage, AuthMessage, TurnVars
<1>6. AuthMessage => \/ Handled \/ state' \in Terminal
                     \/ state' = state
  BY DEF AuthMessage, AuthSection, Handled
<1>7. AuthLocked => Handled \/ state' \in Terminal
  BY DEF AuthLocked, AuthSection, Handled
<1>8. CASE MessageLogged
  <2>1. CASE InitMessage /\ WakeIf(Handled)
    <3>1. Handled \/ state' = state
      BY <2>1 DEF InitMessage, InitSection, Handled
    <3> QED
      BY <1>2, <1>3, <1>4, <1>5, <2>1, <3>1 DEF heard, fallen, queued
  <2>2. CASE McpErrorMessage /\ WakeIf(Ended)
    <3>1. state' \in Terminal \/ state' = state
      BY <2>2 DEF McpErrorMessage
    <3> QED
      BY <1>2, <1>3, <1>4, <1>5, <2>2, <3>1 DEF heard, fallen, queued
  <2>3. CASE (\E limited \in BOOLEAN : RetryMessage(limited)) /\ WakeIf(Handled)
    <3>1. Handled \/ state' \in Terminal \/ state' = state
      BY <2>3 DEF RetryMessage, Handled
    <3> QED
      BY <1>2, <1>3, <1>4, <1>5, <2>3, <3>1 DEF heard, fallen, queued
  <2>4. CASE AuthMessage /\ WakeIf(Handled \/ (Ended /\ state # "error"))
    BY <1>2, <1>3, <1>4, <1>5, <1>6, <2>4 DEF heard, fallen, queued
  <2>5. CASE ResultMessage /\ WakeIf(Handled)
    <3>1. Handled
      BY <2>5 DEF ResultMessage, CliWorks, ResultSection, Handled
    <3> QED
      BY <1>2, <1>4, <2>5, <3>1 DEF heard, fallen
  <2> QED
    BY <1>8, <2>1, <2>2, <2>3, <2>4, <2>5 DEF MessageLogged
<1>9. CASE MessageHandled
  <2>1. CASE (InitLocked \/ CooldownLocked \/ ResultLocked) /\ WakeIf(Handled)
    <3>1. Handled \/ state' \in Terminal \/ cons' = "wants error"
      BY <2>1 DEF InitLocked, InitSection, CooldownLocked, ResultLocked, ResultSection,
         Handled
    <3> QED
      BY <1>2, <1>4, <2>1, <3>1 DEF heard, fallen
  <2>2. CASE McpErrorLocked /\ WakeIf(Ended)
    <3>1. state' \in Terminal
      BY <2>2 DEF McpErrorLocked
    <3> QED
      BY <1>2, <1>4, <2>2, <3>1 DEF heard, fallen
  <2>3. CASE AuthLocked /\ WakeIf(Handled \/ (Ended /\ state # "error"))
    BY <1>2, <1>4, <1>7, <2>3 DEF heard, fallen
  <2>4. CASE ErrorLocked /\ WakeIf(state = "error")
    <3>1. state' \in Terminal
      BY <2>4 DEF ErrorLocked
    <3> QED
      BY <1>2, <1>4, <2>4, <3>1 DEF heard, fallen
  <2> QED
    BY <1>9, <2>1, <2>2, <2>3, <2>4 DEF MessageHandled, heard
<1>10. CASE StreamOver
  <2>1. CASE StreamEnds /\ WakeIf(Ended)
    <3>1. Ended
      BY <2>1 DEF StreamEnds, EndSection, Ended
    <3> QED
      BY <1>2, <1>4, <2>1, <3>1 DEF heard, fallen
  <2>2. CASE StreamRaises /\ WakeIf(Ended /\ state = "error")
    <3>1. state' \in Terminal
      BY <2>2 DEF StreamRaises
    <3> QED
      BY <1>2, <1>4, <2>2, <3>1 DEF heard, fallen
  <2> QED
    BY <1>10, <2>1, <2>2 DEF StreamOver
<1> QED
  BY <1>8, <1>9, <1>10 DEF heard, fallen, queued

\* Nothing has a result to log while a turn is being started.
LEMMA ResultSleepers ==
    ASSUME Sleepers, SessionInv, LongTypeOK, PromptQuery, [Next]_vars,
           LoopIdle, ResultMessage, WakeIf(Handled),
           last' = [s \in Senders |-> IF tstate[s] = "none" THEN NoTurn ELSE Head(cliq)]
    PROVE  Sleepers'
<1>1. LockInv /\ DataTypes
  BY DEF SessionInv
<1>2. /\ Free /\ cons = "receiving" /\ cliq # <<>>
      /\ WakeIf(TRUE)
  BY DEF ResultMessage, CliWorks, Listening, ResultSection, ConsumerGoes, Handled
<1> SUFFICES ASSUME NEW s \in Senders
             PROVE  /\ pc'[s] \in Early => wait'[s] = "out" /\ last'[s] = NoTurn
                    /\ Asleep(s)' /\ TurnOver(s)' => Failing' \/ Ending'
                    /\ ~Expired' /\ wait'[s] # "out" => last'[s] \in {s, NoTurn}
  BY DEF Sleepers
<1>3. /\ wait'[s] = wait[s] \/ (wait'[s] = "woken" /\ wait[s] = "asleep")
      /\ wait'[s] # "asleep"
  BY <1>2, WakingSends
<1>4. last'[s] = IF tstate[s] = "none" THEN NoTurn ELSE Head(cliq)
  OBVIOUS
<1>5. ASSUME pc'[s] \in Early PROVE wait'[s] = "out" /\ last'[s] = NoTurn
  <2>1. pc[s] \in Early /\ wait'[s] = "out"
    BY <1>1, <1>3, <1>5, NoCallGoesBack DEF Sleepers
  <2>2. pc[s] # "querying"
    BY <1>1, <1>2, NobodyWaits, Kinds DEF Waiting
  <2>3. tstate[s] = "none"
    BY <2>1, <2>2 DEF SessionInv, TurnInv, Histories, Early
  <2> QED
    BY <1>4, <2>1, <2>3
<1>6. ASSUME ~Expired', wait'[s] # "out" PROVE last'[s] \in {s, NoTurn}
  <2>1. ~Expired
    BY <1>1, <1>6, NoCallGoesBack
  <2>2. wait[s] = "asleep"
    BY <1>3, <1>6 DEF LoopIdle, LongTypeOK, Waiters
  <2>3. ~Ending /\ state \notin Terminal /\ turn # NoTurn /\ cliq = <<turn>>
    BY <1>2, <2>1 DEF SessionInv, TurnInv, Closes, Queries, Terminal
  <2>4. tstate[s] = "running"
    BY <1>2, <2>2, <2>3 DEF Sleepers, Asleep, TurnOver, Failing
  <2>5. turn = s
    BY <2>3, <2>4 DEF SessionInv, TurnInv, Turns
  <2>6. Head(cliq) = s
    BY <2>3, <2>5
  <2> QED
    BY <1>4, <2>6
<1> QED
  BY <1>3, <1>5, <1>6 DEF Asleep

\* A turn that an interrupt ends is that of a session which fails.
LEMMA InterruptExcuses ==
    ASSUME SessionInv, NEW i \in Interrupters, InterruptNext(i)
    PROVE  /\ state \in Terminal => state' \in Terminal
           /\ cons' = cons
           /\ \A s \in Senders : tstate[s] = "running" /\ tstate'[s] # "running" =>
                 state' \in Terminal \/ cons' = "wants error" \/ Ending
<1>1. cons' = cons
  BY InterruptKeeps
<1>2. state \in Terminal => state' \in Terminal
  BY DEF InterruptNext, Interrupt, InterruptRefused, InterruptReturns, InterruptRaises,
     PollSettled, IdleLocked, IdleSection, PollTimesOut, TimeoutLocked, Terminal
<1>3. ASSUME NEW s \in Senders, tstate[s] = "running", tstate'[s] # "running"
      PROVE  state' \in Terminal \/ cons' = "wants error" \/ Ending
  <2>1. PollSettled(i)
    BY <1>3 DEF InterruptNext, Interrupt, InterruptRefused, InterruptReturns, InterruptRaises,
       IdleLocked, PollTimesOut, TimeoutLocked, TurnVars
  <2>2. turn # NoTurn /\ state \notin Running
    BY <1>3, <2>1 DEF PollSettled
  <2>3. Ending \/ state \in Terminal \/ cons = "wants error"
    BY <2>2 DEF SessionInv, TurnInv, Turns, DataTypes, State
  <2> QED
    BY <1>1, <1>2, <2>3
<1> QED
  BY <1>1, <1>2, <1>3

\* Only a turn's own end, or that of the whole session, ends a turn.
LEMMA SendExcuses ==
    ASSUME SessionInv, NEW t \in Senders, SendNext(t)
    PROVE  /\ state \in Terminal => state' \in Terminal
           /\ cons' = cons
           /\ \A s \in Senders : tstate[s] = "running" => tstate'[s] = "running"
<1>1. cons' = cons
  BY SendKeeps
<1>2. state \in Terminal => state' \in Terminal
  BY DEF SendNext, Send, SendLocked, SendSection, Sendable, QueryReturns, QueryRaises
<1>3. tstate' = tstate \/ tstate' = [tstate EXCEPT ![t] = "running"]
  BY DEF SendNext, Send, SendLocked, SendSection, QueryReturns, QueryRaises, TurnVars
<1>4. \A s \in Senders : tstate[s] = "running" => tstate'[s] = "running"
  BY <1>3 DEF SessionInv, DataTypes
<1> QED
  BY <1>1, <1>2, <1>4

LEMMA SleepersStep ==
    ASSUME Sleepers, SessionInv, LongTypeOK, PromptQuery, [LongNext]_longVars
    PROVE  Sleepers'
<1>1. [Next]_vars /\ LockInv
  BY LongStep DEF SessionInv
<1>2. ASSUME last' = last, NEW sets \in BOOLEAN, WakeIf(sets),
             \/ sets
             \/ \A s \in Senders : Asleep(s) /\ tstate'[s] # "running" =>
                   state' \in Terminal \/ cons' = "wants error" \/ Ending'
      PROVE  Sleepers'
  <2>1. \A s \in Senders :
           \/ wait'[s] = wait[s] \/ wait'[s] = "out"
           \/ wait'[s] = "woken" /\ wait[s] = "asleep"
    BY <1>2, WakingSends
  <2>2. sets => \A s \in Senders : wait'[s] # "asleep"
    BY <1>2, WakingSends
  <2> QED
    BY <1>1, <1>2, <2>1, <2>2, SleepersKept
<1>3. WakeIf(FALSE) <=> wait' = wait
  BY DEF WakeIf
<1>4. ASSUME last' = last, wait' = wait,
             state \in Terminal => state' \in Terminal,
             cons' = cons \/ state' \in Terminal \/ Ending',
             \A s \in Senders : tstate[s] = "running" /\ tstate'[s] # "running" =>
                state' \in Terminal \/ cons' = "wants error" \/ Ending'
      PROVE  Sleepers'
  <2>1. \A s \in Senders : Asleep(s) /\ tstate'[s] # "running" =>
           state' \in Terminal \/ cons' = "wants error" \/ Ending'
    BY <1>1, <1>4, ExcusedStill
  <2> QED
    BY <1>2, <1>3, <1>4, <2>1
<1>5. ASSUME last' = last, wait' = wait, UNCHANGED <<state, cons, tstate>>
      PROVE  Sleepers'
  BY <1>4, <1>5
<1>6. CASE Report
  BY <1>2, <1>6 DEF Report
<1>7. CASE /\ ResultMessage /\ WakeIf(Handled) /\ LoopIdle
           /\ last' = [s \in Senders |-> IF tstate[s] = "none" THEN NoTurn ELSE Head(cliq)]
  BY <1>1, <1>7, ResultSleepers
<1>8. ASSUME MessageLogged \/ MessageHandled \/ StreamOver, last' = last PROVE Sleepers'
  <2>1. CASE WakeIf(TRUE)
    BY <1>2, <1>8, <2>1
  <2>2. CASE WakeIf(FALSE) /\ (state' \in Terminal \/ cons' = "wants error")
    BY <1>2, <1>8, <2>2
  <2>3. CASE WakeIf(FALSE) /\ state' = state /\ tstate' = tstate /\ cons # "wants error"
    <3>1. \A s \in Senders : Asleep(s) /\ tstate'[s] # "running" =>
             state' \in Terminal \/ Ending'
      BY <1>1, <2>3, NoCallGoesBack DEF Sleepers, TurnOver, Failing
    <3> QED
      BY <1>2, <1>8, <2>3, <3>1
  <2>4. CASE ConsumerCancelled /\ WakeIf(FALSE)
    <3>1. Ending'
      BY <1>1, <2>4, NoCallGoesBack DEF ConsumerCancelled, SessionInv, TurnInv, Closes
    <3> QED
      BY <1>2, <1>8, <2>4, <3>1
  <2> QED
    BY <1>8, <2>1, <2>2, <2>3, <2>4, ConsumerExcuses
<1>9. ASSUME NEW c \in Callbacks, Callback(c) PROVE Sleepers'
  <2>1. last' = last /\ pc \in [Tasks -> Stage]
    BY <1>1, <1>9 DEF Callback, LockInv, LockTypes
  <2>2. CASE WakeIf(TRUE)
    BY <1>2, <2>1, <2>2
  <2>3. ~(~Free /\ Ask(c))
    BY DEF Ask, CliWorks
  <2>4. CASE UNCHANGED wait /\ (Unpark(c) \/ UnparkLocked(c))
    <3>1. /\ UNCHANGED <<cons, tstate>>
          /\ state \in Terminal => state' \in Terminal
      BY <2>4 DEF Unpark, UnparkLocked, UnparkSection, TurnVars, Terminal
    <3> QED
      BY <1>4, <2>1, <2>4, <3>1
  <2> QED
    BY <1>9, <2>1, <2>2, <2>3, <2>4, CallbackHeard
<1>10. ASSUME NEW k \in Closers, Closing(k) PROVE Sleepers'
  <2>1. CASE Abandon(k) /\ WakeIf(TRUE) /\ last' = last
    BY <1>2, <2>1
  <2>2. CASE /\ Close(k) \/ Joined(k) \/ Disconnected(k) \/ CloseLocked(k)
             /\ UNCHANGED <<wait, last>>
    <3>1. tstate' = tstate
      BY <2>2 DEF Close, Joined, Disconnected, CloseLocked, TurnVars
    <3>2. state \in Terminal => state' \in Terminal
      BY <2>2 DEF Close, Joined, Disconnected, CloseLocked, CloseSection, Terminal
    <3>3. cons' = cons \/ Ending'
      <4>1. Close(k) /\ cons' # cons => pc'[k] = "joining"
        BY <1>1, Kinds DEF Close, CancelConsumer, Goto, LockInv, LockTypes
      <4>2. ~Close(k) => cons' = cons
        BY <2>2 DEF Joined, Disconnected, CloseLocked
      <4> QED
        BY <4>1, <4>2 DEF Ending
    <3> QED
      BY <1>4, <2>2, <3>1, <3>2, <3>3
  <2> QED
    BY <1>10, <2>1, <2>2 DEF Closing
<1>11. CASE Unheard
  <2>1. last' = last /\ wait' = wait
    BY <1>11 DEF Unheard
  <2>2. CASE GraceEnds \/ CooldownExpires \/ \E c \in Callbacks : Resolve(c)
    <3>1. UNCHANGED <<cons, tstate>> /\ (state \in Terminal => state' \in Terminal)
      BY <2>2 DEF GraceEnds, CooldownExpires, Resolve, TurnVars, Terminal
    <3> QED
      BY <1>4, <2>1, <3>1
  <2>3. ASSUME NEW t \in Senders, Send(t) \/ SendLocked(t) \/ QueryRaises(t)
        PROVE  Sleepers'
    <3>1. SendNext(t)
      BY <2>3 DEF SendNext
    <3> QED
      BY <1>4, <2>1, <3>1, SendExcuses
  <2>4. ASSUME NEW i \in Interrupters, InterruptNext(i) PROVE Sleepers'
    <3>1. Ending => Ending'
      BY <1>1, NoCallGoesBack
    <3>2. /\ state \in Terminal => state' \in Terminal
          /\ cons' = cons
          /\ \A s \in Senders : tstate[s] = "running" /\ tstate'[s] # "running" =>
                state' \in Terminal \/ cons' = "wants error" \/ Ending
      BY <2>4, InterruptExcuses
    <3> QED
      BY <1>4, <2>1, <3>1, <3>2
  <2> QED
    BY <1>11, <2>2, <2>3, <2>4 DEF Unheard
<1>12. ASSUME NEW t \in Senders, SendWaits(t) PROVE Sleepers'
  <2>1. /\ pc[t] = "querying" /\ pc' = [pc EXCEPT ![t] = "done"]
        /\ UNCHANGED <<state, cons, tstate, last>>
    BY <1>12 DEF SendWaits, QueryReturns, Goto, TurnVars
  <2>2. CASE wait' = wait
    BY <1>5, <2>1, <2>2
  <2>3. CASE ~Settled(t) /\ wait' = [wait EXCEPT ![t] = "asleep"]
    <3>1. wait'[t] = "asleep" /\ \A s \in Senders \ {t} : wait'[s] = wait[s]
      BY <2>3 DEF LongTypeOK, Waiters
    <3>2. pc'[t] = "done" /\ last[t] = NoTurn /\ tstate'[t] = "running"
      BY <1>1, <2>1, <2>3, Kinds
         DEF LockInv, LockTypes, Sleepers, Early, Settled, TurnOver
    <3>3. (Expired => Expired') /\ (Ending => Ending')
          /\ \A s \in Senders : pc'[s] \in Early => pc[s] \in Early
      BY <1>1, NoCallGoesBack
    <3>4. ASSUME NEW s \in Senders
          PROVE  /\ pc'[s] \in Early => wait'[s] = "out" /\ last'[s] = NoTurn
                 /\ wait'[s] = "asleep" /\ tstate'[s] # "running" =>
                       state' \in Terminal \/ cons' = "wants error" \/ Ending'
                 /\ ~Expired' /\ wait'[s] # "out" => last'[s] \in {s, NoTurn}
      <4>1. CASE s = t
        BY <2>1, <3>1, <3>2, <4>1 DEF Early
      <4>2. CASE s # t
        BY <2>1, <3>1, <3>3, <4>2 DEF Sleepers, Asleep, TurnOver, Failing
      <4> QED
        BY <4>1, <4>2
    <3> QED
      BY <3>4 DEF Sleepers, Asleep, TurnOver, Failing
  <2> QED
    BY <1>12, <2>2, <2>3 DEF SendWaits
<1>13. ASSUME NEW t \in Senders, SendLooks(t) PROVE Sleepers'
  <2>1. /\ wait[t] = "woken" /\ UNCHANGED <<vars, last>>
        /\ wait' = [wait EXCEPT ![t] = IF Settled(t) THEN "out" ELSE "asleep"]
    BY <1>13 DEF SendLooks
  <2>2. /\ \A s \in Senders \ {t} : wait'[s] = wait[s]
        /\ wait'[t] = IF Settled(t) THEN "out" ELSE "asleep"
    BY <2>1 DEF LongTypeOK, Waiters
  <2>3. /\ UNCHANGED <<pc, state, cons, tstate>>
        /\ (Expired' <=> Expired) /\ (Ending' <=> Ending)
    BY <2>1 DEF vars, Expired, Ending
  <2>4. ~Settled(t) => tstate[t] = "running"
    BY DEF Settled, TurnOver
  <2>5. ASSUME NEW s \in Senders
        PROVE  /\ pc'[s] \in Early => wait'[s] = "out" /\ last'[s] = NoTurn
               /\ wait'[s] = "asleep" /\ tstate'[s] # "running" =>
                     state' \in Terminal \/ cons' = "wants error" \/ Ending'
               /\ ~Expired' /\ wait'[s] # "out" => last'[s] \in {s, NoTurn}
    <3>1. CASE s = t
      <4>1. pc[t] \notin Early /\ (~Expired => last[t] \in {t, NoTurn})
        BY <2>1 DEF Sleepers
      <4>2. pc'[t] \notin Early /\ last' = last
        BY <2>1, <2>3, <4>1
      <4>3. ~(wait'[t] = "asleep" /\ tstate'[t] # "running")
        BY <2>2, <2>3, <2>4
      <4>4. ~Expired' => last'[t] \in {t, NoTurn}
        BY <2>3, <4>1, <4>2
      <4> QED
        BY <3>1, <4>2, <4>3, <4>4
    <3>2. CASE s # t
      BY <2>1, <2>2, <2>3, <3>2 DEF Sleepers, Asleep, TurnOver, Failing
    <3> QED
      BY <3>1, <3>2
  <2> QED
    BY <2>5 DEF Sleepers, Asleep, TurnOver, Failing
<1>14. ASSUME NEW t \in Senders, SendTimesOut(t) PROVE Sleepers'
  <2>1. /\ UNCHANGED <<state, cons, tstate, last>>
        /\ \A s \in Senders : wait'[s] = wait[s] \/ wait'[s] = "out"
    BY <1>14 DEF SendTimesOut, vars, LongTypeOK, Waiters
  <2>2. \A s \in Senders : Asleep(s) /\ tstate'[s] # "running" =>
           state' \in Terminal \/ cons' = "wants error" \/ Ending'
    BY <1>1, <2>1, ExcusedStill
  <2> QED
    BY <1>1, <2>1, <2>2, SleepersKept
<1>15. ASSUME NEW p \in Pollers, Poll(p) \/ PollWaitEnds(p) PROVE Sleepers'
  <2>1. /\ UNCHANGED <<state, cons, tstate, last>>
        /\ \A s \in Senders : wait'[s] = wait[s]
    BY <1>15, PollersAssumption DEF Poll, PollWaitEnds, Returns, vars, LongTypeOK, Waiters
  <2>2. \A s \in Senders : Asleep(s) /\ tstate'[s] # "running" =>
           state' \in Terminal \/ cons' = "wants error" \/ Ending'
    BY <1>1, <2>1, ExcusedStill
  <2> QED
    BY <1>1, <2>1, <2>2, SleepersKept
<1>16. CASE UNCHANGED longVars
  BY <1>5, <1>16 DEF longVars, pollVars, vars
<1>17. MessageLogged => \/ last' = last
                        \/ /\ ResultMessage /\ WakeIf(Handled) /\ LoopIdle
                           /\ last' = [s \in Senders |-> IF tstate[s] = "none" THEN NoTurn
                                                         ELSE Head(cliq)]
  BY DEF MessageLogged
<1>18. MessageHandled \/ StreamOver => last' = last
  BY DEF MessageHandled, StreamOver
<1> QED
  BY <1>6, <1>7, <1>8, <1>9, <1>10, <1>11, <1>12, <1>13, <1>14, <1>15, <1>16, <1>17, <1>18
     DEF LongNext

\* What a prompt query() adds to LongInv.
PromptInv == LongInv /\ SessionInv /\ Sleepers

LEMMA PromptInvariance == ASSUME PromptQuery PROVE LongSpec => []PromptInv
<1>1. LongSpec => []SessionInv
  BY LongPollIsSession, TurnInvariance, PTL
<1>2. LongInit => Sleepers
  <2> SUFFICES ASSUME LongInit PROVE Sleepers
    OBVIOUS
  <2>1. /\ \A s \in Senders : wait[s] = "out" /\ last[s] = NoTurn
    BY DEF LongInit, Waiters
  <2> QED
    BY <2>1 DEF Sleepers, Asleep
<1>3. LongInv /\ SessionInv /\ Sleepers /\ [LongNext]_longVars => Sleepers'
  BY SleepersStep DEF LongInv
<1> QED
  BY <1>1, <1>2, <1>3, LongInvariance, PTL DEF LongSpec, PromptInv

\* No session_send sleeps when its turn is over, except in a session that fails
\* or is being closed: the message or the end that completed the turn wakes it,
\* and an interrupt, which does not, finds a turn to end only where the session
\* has left it without a wake-up.
THEOREM OverSendersAreAwake == ASSUME PromptQuery PROVE LongSpec => []OverSendersAwake
<1>1. PromptInv => OverSendersAwake
  BY DEF PromptInv, Sleepers, OverSendersAwake
<1> QED
  BY <1>1, PromptInvariance, PTL

\* What ends a send: its query() returned, or it looked, or its time is up.
LEMMA SendReturns ==
    ASSUME PromptInv, [LongNext]_longVars, NEW s \in Senders,
           pc'[s] = "done", wait'[s] = "out", pc[s] # "done" \/ wait[s] # "out"
    PROVE  SendWaits(s) \/ SendLooks(s) \/ SendTimesOut(s)
<1>1. /\ LockInv /\ pc \in [Tasks -> Stage] /\ LongTypeOK /\ s \in Tasks
      /\ [Next]_vars
  BY LongStep, Kinds DEF PromptInv, SessionInv, LockInv, LockTypes, LongInv
<1>2. ASSUME NEW sets, WakeIf(sets), wait[s] # "out" PROVE FALSE
  BY <1>1, <1>2, WakingSends
<1>3. ASSUME wait' = wait, pc[s] = "done" \/ pc'[s] # "done" PROVE FALSE
  BY <1>3
<1>4. CASE Report \/ MessageLogged \/ MessageHandled \/ StreamOver
  <2>1. pc' = pc
    BY <1>4, ConsumerKeeps DEF Report, MessageLogged, MessageHandled, StreamOver, vars,
       ConsumerNext
  <2>2. \E sets : WakeIf(sets)
    BY <1>4 DEF Report, MessageLogged, MessageHandled, StreamOver
  <2> QED
    BY <1>2, <2>1, <2>2
<1>5. ASSUME NEW c \in Callbacks, Callback(c) PROVE FALSE
  <2>1. pc'[s] = pc[s]
    <3>1. CallbackNext(c) /\ s # c
      BY <1>5, Kinds DEF Callback, CallbackNext
    <3> QED
      BY <1>1, <3>1, CallbackKeeps
  <2>2. wait' = wait \/ \E sets : WakeIf(sets)
    BY <1>5, <1>1, CallbackHeard
  <2> QED
    BY <1>2, <1>3, <2>1, <2>2
<1>6. ASSUME NEW k \in Closers, Closing(k) PROVE FALSE
  <2>1. pc'[s] = pc[s]
    <3>1. CloseNext(k) /\ s # k
      BY <1>6, Kinds DEF Closing, CloseNext
    <3> QED
      BY <1>1, <3>1, CloseMoves DEF TaskMoves
  <2>2. wait' = wait \/ \E sets : WakeIf(sets)
    BY <1>6 DEF Closing
  <2> QED
    BY <1>2, <1>3, <2>1, <2>2
<1>7. CASE Unheard
  <2>1. wait' = wait
    BY <1>7 DEF Unheard
  <2>2. pc'[s] = pc[s] \/ pc'[s] # "done"
    <3>1. CASE GraceEnds \/ CooldownExpires \/ \E c \in Callbacks : Resolve(c)
      BY <3>1 DEF GraceEnds, CooldownExpires, Resolve
    <3>2. ASSUME NEW t \in Senders, Send(t) \/ SendLocked(t) \/ QueryRaises(t)
          PROVE  pc'[s] = pc[s] \/ pc'[s] # "done"
      <4>1. t \in Tasks /\ pc'[t] # "done"
        BY <1>1, <3>2, Kinds DEF Send, SendLocked, SendSection, QueryRaises, Queue, Goto
      <4>2. \E stage : pc' = [pc EXCEPT ![t] = stage]
        BY <3>2, SendKeeps DEF SendNext
      <4> QED
        BY <1>1, <4>1, <4>2
    <3>3. ASSUME NEW i \in Interrupters, InterruptNext(i) PROVE pc'[s] = pc[s]
      BY <1>1, <3>3, InterruptKeeps, Kinds
    <3> QED
      BY <1>7, <3>1, <3>2, <3>3 DEF Unheard
  <2> QED
    BY <2>1, <2>2
<1>8. ASSUME NEW t \in Senders, t # s, SendWaits(t) \/ SendLooks(t) \/ SendTimesOut(t)
      PROVE  FALSE
  <2>1. wait'[s] = wait[s] /\ pc'[s] = pc[s]
    BY <1>1, <1>8, Kinds DEF SendWaits, QueryReturns, Goto, SendLooks, SendTimesOut, vars,
       LongTypeOK, Waiters
  <2> QED
    BY <2>1
<1>9. ASSUME NEW p \in Pollers, Poll(p) \/ PollWaitEnds(p) PROVE FALSE
  BY <1>1, <1>9, PollersAssumption DEF Poll, PollWaitEnds, Returns, vars, LongTypeOK, Waiters
<1>10. CASE UNCHANGED longVars
  BY <1>10 DEF longVars, pollVars, vars
<1> QED
  BY <1>4, <1>5, <1>6, <1>7, <1>8, <1>9, <1>10 DEF LongNext

\* The result that a session_send returns is its own query's, if any, unless an
\* interrupt has timed out.
THEOREM OwnResults == ASSUME PromptQuery PROVE LongSpec => ResultIsOwn
<1>1. ASSUME PromptInv, [LongNext]_longVars, ~Expired, NEW s \in Senders,
             pc'[s] = "done", wait'[s] = "out", pc[s] # "done" \/ wait[s] # "out"
      PROVE  ResultFor(s)' \in {s, NoTurn}
  <2>1. SendWaits(s) \/ SendLooks(s) \/ SendTimesOut(s)
    BY <1>1, SendReturns
  <2>2. last' = last
    BY <2>1 DEF SendWaits, SendLooks, SendTimesOut
  <2>3. last[s] \in {s, NoTurn}
    <3>1. CASE SendWaits(s)
      BY <1>1, <3>1 DEF SendWaits, QueryReturns, PromptInv, Sleepers, Early
    <3>2. CASE SendLooks(s) \/ SendTimesOut(s)
      BY <1>1, <3>2 DEF SendLooks, SendTimesOut, Asleep, PromptInv, Sleepers
    <3> QED
      BY <2>1, <3>1, <3>2
  <2> QED
    BY <2>2, <2>3 DEF ResultFor
<1>2. PromptInv /\ [LongNext]_longVars =>
         [~Expired => \A s \in Senders :
            (pc'[s] = "done" /\ wait'[s] = "out" /\ (pc[s] # "done" \/ wait[s] # "out"))
                => ResultFor(s)' \in {s, NoTurn}]_longVars
  BY <1>1
<1> QED
  BY <1>2, PromptInvariance, PTL DEF LongSpec, ResultIsOwn
=============================================================================
