----------------------------- MODULE Turns_proofs -----------------------------
(***************************************************************************)
(* Proofs about the turns of a session, for any number of calls, of which  *)
(* any number may be made again, and any interleaving of them with the     *)
(* CLI: one turn runs at a time, a result is charged to the turn that      *)
(* asked for it, and a turn is recorded once.                              *)
(*                                                                         *)
(* SessionInv is the lock's invariant with what the turns add to it: who   *)
(* may be in which stage while the lock goes from hand to hand.  It is     *)
(* proved actor by actor: consumer, send, interrupt, close, callback.      *)
(***************************************************************************)
EXTENDS BrokerSession_proofs

\* Only messages that come while the lock is held wait for it, so these do not.
PromptStages ==
    /\ \A p \in Tasks : pc[p] \notin {"wants timeout", "wants park"}
    /\ cons \notin {"wants result", "wants end"}

\* A session is closed, and its consumer cancelled, by a close; for good.
Closes ==
    /\ state = "closed" \/ cons = "cancelled" => Ending
    /\ Ending => cons \in {"cancelled", "done"}

\* The current turn is running; a turn is recorded when it ends.
Histories ==
    /\ \A s \in Senders : pc[s] \in {"ready", "wants send"} => tstate[s] = "none"
    /\ turn # NoTurn => tstate[turn] = "running"
    /\ \A s \in Senders : tstate[s] \in {"none", "running"} => recorded[s] = 0
    /\ RecordedOnce

\* Who runs is the current turn, and an idle session has none; one that cools
\* has none either, unless its consumer is on its way to ERROR.
Turns ==
    ~Ending =>
       /\ \A s \in Senders : tstate[s] = "running" => turn = s
       /\ state \in {"creating", "idle"} => turn = NoTurn
       /\ state = "cooldown" /\ turn # NoTurn => cons = "wants error"

\* While the lock goes from hand to hand, it does so in a turn or in the fall.
Handover ==
    ~Ending /\ ~Free =>
       \/ state \in Running /\ turn # NoTurn
       \/ state = "error" /\ cons \in {"wants error", "done"}
       \/ state = "cooldown" /\ cons = "wants error"

\* An interrupt that saw the turn end finds the session out of it, and the
\* consumer gets ahead of it to ERROR.
Polls ==
    ~Ending => \A i \in Interrupters : pc[i] = "wants idle" =>
       /\ state \notin Running
       /\ state = "cooldown" => Before(lockq, Consumer, i)

\* The CLI owes an answer to the current turn only, and none was charged to
\* another.
Queries ==
    ~Expired =>
       /\ \A b \in bills : b[1] = b[2]
       /\ cons \notin {"cancelled", "done", "wants error"} =>
             /\ state # "error"
             /\ cliq = <<>> \/ (turn # NoTurn /\ cliq = <<turn>>)

TurnInv == PromptStages /\ Closes /\ Histories /\ Turns /\ Handover /\ Polls /\ Queries
SessionInv == LockInv /\ DataTypes /\ TurnInv

\* Nobody waits for a lock that is free.
LEMMA NobodyWaits ==
    ASSUME LockInv, Free
    PROVE  /\ \A p \in Tasks : ~Waiting(p)
           /\ cons \in {"receiving", "done", "cancelled"}
<1>1. \A p \in Tasks : Waiting(p) <=> p \in Elems(lockq)
  BY LockSet DEF LockInv
<1>2. cons = "cancelled" \/ (cons \notin {"receiving", "done"} <=> Consumer \in Elems(lockq))
  BY LockSet DEF LockInv
<1>3. Elems(lockq) = {}
  BY DEF Free, Elems
<1> QED
  BY <1>1, <1>2, <1>3

\* The kinds of tasks are apart.
LEMMA Kinds ==
    /\ Senders \subseteq Tasks /\ Interrupters \subseteq Tasks
    /\ Closers \subseteq Tasks /\ Callbacks \subseteq Tasks
    /\ \A s \in Senders : s \notin Interrupters \cup Closers \cup Callbacks /\ s # NoTurn
    /\ \A i \in Interrupters : i \notin Closers \cup Callbacks
    /\ \A k \in Closers : k \notin Callbacks
BY CallsAssumption, NoTurnAssumption DEF Tasks

\* A turn that is current has not been recorded, so it may be.
LEMMA TurnRecorded ==
    ASSUME DataTypes, Histories, turn # NoTurn,
           recorded' = recorded \/ recorded' = [recorded EXCEPT ![turn] = @ + 1]
    PROVE  RecordedOnce'
<1>1. turn \in Senders /\ tstate[turn] = "running" /\ recorded[turn] = 0
  BY DEF DataTypes, Histories
<1>2. recorded \in [Senders -> Nat] /\ \A s \in Senders : recorded[s] <= 1
  BY DEF DataTypes, Histories, RecordedOnce
<1>3. \A s \in Senders : recorded'[s] <= 1
  BY <1>1, <1>2
<1> QED
  BY <1>3 DEF RecordedOnce

\* The current turn ends, and may be recorded.
LEMMA TurnRetired ==
    ASSUME DataTypes, Histories, turn # NoTurn, turn' = NoTurn,
           NEW end \in {"completed", "interrupted"},
           tstate' = [tstate EXCEPT ![turn] = end],
           recorded' = recorded \/ recorded' = [recorded EXCEPT ![turn] = @ + 1],
           \A s \in Senders : pc'[s] \in {"ready", "wants send"} => pc'[s] = pc[s]
    PROVE  Histories'
<1>0. turn \in Senders /\ tstate[turn] = "running" /\ recorded[turn] = 0
  BY DEF DataTypes, Histories
<1>1. tstate'[turn] = end
  BY <1>0 DEF DataTypes
<1>2. \A s \in Senders \ {turn} : tstate'[s] = tstate[s] /\ recorded'[s] = recorded[s]
  BY DEF DataTypes
<1>3. \A s \in Senders : pc'[s] \in {"ready", "wants send"} => tstate'[s] = "none"
  BY <1>0, <1>2 DEF Histories
<1>4. \A s \in Senders : tstate'[s] \in {"none", "running"} => recorded'[s] = 0
  BY <1>1, <1>2 DEF Histories
<1>5. RecordedOnce'
  BY TurnRecorded
<1> QED
  BY <1>3, <1>4, <1>5 DEF Histories

\* A message of the consumer, handled at once or left for the lock.
ConsumerQueueing ==
    /\ ~Free /\ cons = "receiving" /\ lockq' = Append(lockq, Consumer)
    /\ cons' \in WantStage \ {"wants result", "wants end"}
    /\ UNCHANGED <<state, pc, turn, tstate, recorded, bills, cliq>>

LEMMA ConsumerQueueingKeeps ==
    ASSUME SessionInv, ConsumerQueueing
    PROVE  TurnInv'
<1> USE DEF SessionInv, TurnInv, ConsumerQueueing
<1>1. Ending' <=> Ending
  BY DEF Ending
<1>2. Expired' <=> Expired
  BY DEF Expired
<1>3. ~Ending
  BY DEF Closes
<1>4. PromptStages'
  BY DEF PromptStages
<1>5. Closes'
  BY <1>1, <1>3 DEF Closes, WantStage
<1>6. Histories'
  BY DEF Histories, RecordedOnce
<1>7. Turns'
  BY <1>1 DEF Turns
<1>8. Handover'
  BY <1>1, <1>3 DEF Handover, Free
<1>9. Polls'
  BY <1>1, <1>3 DEF Polls, Handover
<1>10. Queries'
  BY <1>2 DEF Queries
<1> QED
  BY <1>4, <1>5, <1>6, <1>7, <1>8, <1>9, <1>10

\* A consumer that has the lock when it is not free finds the session in a turn.
LEMMA ConsumerInTurn ==
    ASSUME SessionInv, ~Free, cons \notin {"receiving", "cancelled", "done", "wants error"}
    PROVE  ~Ending /\ state \in Running /\ HasActiveTurn
BY DEF SessionInv, TurnInv, Closes, Handover, Histories, HasActiveTurn

\* The consumer fails.
LEMMA FallKeeps ==
    ASSUME SessionInv, cons \notin {"cancelled", "done"},
           UNCHANGED <<pc, turn, tstate, recorded, bills, cliq>>,
           cons' \in {"done", "wants error"}, state' = "error"
    PROVE  TurnInv'
<1> USE DEF SessionInv, TurnInv
<1>1. (Ending' <=> Ending) /\ (Expired' <=> Expired) /\ ~Ending
  BY DEF Ending, Expired, Closes
<1>2. PromptStages' /\ Closes' /\ Queries'
  BY <1>1 DEF PromptStages, Closes, Queries
<1>3. Histories' /\ Turns'
  BY <1>1 DEF Histories, RecordedOnce, Turns
<1>4. Handover' /\ Polls'
  BY <1>1 DEF Handover, Polls, Running
<1> QED
  BY <1>2, <1>3, <1>4

\* It fails the assertion of COOLDOWN, and waits for the lock again.
LEMMA CoolingFallKeeps ==
    ASSUME SessionInv, ~Free, cons \notin {"receiving", "cancelled", "done", "wants error"},
           UNCHANGED <<pc, turn, tstate, recorded, bills, cliq>>,
           cons' = "wants error", state' = "cooldown"
    PROVE  TurnInv'
<1> USE DEF SessionInv, TurnInv
<1>1. (Ending' <=> Ending) /\ (Expired' <=> Expired) /\ ~Ending /\ state \in Running
  BY ConsumerInTurn DEF Ending, Expired
<1>2. PromptStages' /\ Closes' /\ Queries'
  BY <1>1 DEF PromptStages, Closes, Queries
<1>3. Histories' /\ Turns'
  BY <1>1 DEF Histories, RecordedOnce, Turns
<1>4. Handover' /\ Polls'
  BY <1>1 DEF Handover, Polls
<1> QED
  BY <1>2, <1>3, <1>4

\* It goes on receiving, the turn as it was.
LEMMA ReceivingKeeps ==
    ASSUME SessionInv, cons' = "receiving", cons \notin {"cancelled", "done", "wants error"},
           UNCHANGED <<pc, turn, tstate, recorded, bills, cliq>>,
           \/ Free /\ lockq' = <<>> /\ turn = NoTurn
                   /\ state' \in {"idle", "cooldown"}
           \/ Free /\ lockq' = <<>> /\ state' = state
           \/ ~Free /\ cons # "receiving" /\ state' = state
    PROVE  TurnInv'
<1> USE DEF SessionInv, TurnInv
<1>1. (Ending' <=> Ending) /\ (Expired' <=> Expired) /\ ~Ending
  BY DEF Ending, Expired, Closes
<1>2. PromptStages' /\ Closes' /\ Histories'
  BY <1>1 DEF PromptStages, Closes, Histories, RecordedOnce
<1>3. ~Free => state \in Running /\ turn # NoTurn
  BY DEF Handover, Closes
<1>4. Turns'
  BY <1>1, <1>3 DEF Turns, Running
<1>5. Queries'
  BY <1>1, <1>3 DEF Queries, Running
<1>6. Handover'
  BY <1>1, <1>3 DEF Handover, Free
<1>7. Polls'
  <2>1. CASE Free
    <3>1. \A i \in Interrupters : pc[i] # "wants idle"
      BY <2>1, NobodyWaits, Kinds DEF Waiting
    <3> QED
      BY <3>1 DEF Polls
  <2>2. CASE ~Free
    BY <1>1, <1>3, <2>2 DEF Polls, Running
  <2> QED
    BY <2>1, <2>2
<1> QED
  BY <1>2, <1>4, <1>5, <1>6, <1>7

\* A message, or the end of the stream, while the lock is free.
LEMMA ResultKeeps ==
    ASSUME SessionInv, PromptQuery, ResultMessage
    PROVE  TurnInv'
<1> USE DEF SessionInv, TurnInv
<1>1. /\ Free /\ cons = "receiving" /\ cliq # <<>> /\ cliq' = Tail(cliq)
      /\ turn' = NoTurn /\ cons' = "receiving" /\ lockq' = <<>> /\ pc' = pc
      /\ state' = state \/ state' = "idle"
  BY DEF ResultMessage, CliWorks, Listening, ResultSection, ConsumerGoes
<1>2. (Ending' <=> Ending) /\ (Expired' <=> Expired) /\ ~Ending
  BY <1>1 DEF Ending, Expired, Closes
<1>3. PromptStages' /\ Closes' /\ Handover'
  BY <1>1, <1>2 DEF PromptStages, Closes, Handover, Free
<1>4. Polls'
  <2>1. \A i \in Interrupters : pc[i] # "wants idle"
    BY <1>1, NobodyWaits, Kinds DEF Waiting
  <2> QED
    BY <1>1, <2>1 DEF Polls
<1>5. CASE turn = NoTurn
  <2>1. UNCHANGED <<tstate, recorded, bills>>
    BY <1>5 DEF ResultMessage
  <2>2. Histories' /\ Turns'
    BY <1>1, <1>2, <1>5, <2>1 DEF Histories, RecordedOnce, Turns
  <2>3. Queries'
    BY <1>1, <1>2, <1>5, <2>1 DEF Queries
  <2> QED
    BY <1>3, <1>4, <2>2, <2>3
<1>6. CASE turn # NoTurn
  <2>1. /\ turn \in Senders
        /\ tstate' = [tstate EXCEPT ![turn] = "completed"]
        /\ recorded' = [recorded EXCEPT ![turn] = @ + 1]
        /\ bills' = bills \cup {<<turn, Head(cliq)>>}
        /\ tstate \in [Senders -> {"none", "running", "completed", "interrupted"}]
        /\ recorded \in [Senders -> Nat]
    BY <1>6 DEF ResultMessage, DataTypes
  <2>2. Histories'
    BY <1>1, <1>6, <2>1, TurnRetired
  <2>3. Turns'
    BY <1>1, <1>2, <2>1 DEF Turns
  <2>4. Queries'
    <3>1. CASE Expired
      BY <1>2, <3>1 DEF Queries
    <3>2. CASE ~Expired
      <4>1. cliq = <<turn>> /\ state # "error"
        BY <1>1, <3>2 DEF Queries
      <4>2. Head(cliq) = turn /\ cliq' = <<>>
        BY <1>1, <4>1
      <4> QED
        BY <1>1, <2>1, <3>2, <4>1, <4>2 DEF Queries
    <3> QED
      BY <3>1, <3>2
  <2> QED
    BY <1>3, <1>4, <2>2, <2>3, <2>4
<1> QED
  BY <1>5, <1>6

\* The stream ends, or the client fails.
LEMMA EndKeeps ==
    ASSUME SessionInv, PromptQuery, StreamEnds
    PROVE  TurnInv'
<1> USE DEF SessionInv, TurnInv
<1>1. /\ Free /\ cons = "receiving" /\ cons' = "done" /\ lockq' = <<>> /\ pc' = pc
      /\ UNCHANGED <<recorded, bills>>
      /\ \/ /\ state \in Running /\ state' = "idle" /\ turn' = NoTurn
            /\ tstate' = IF turn = NoTurn THEN tstate
                         ELSE [tstate EXCEPT ![turn] = "interrupted"]
         \/ UNCHANGED <<state, turn, tstate>>
  BY DEF StreamEnds, Listening, EndSection, ConsumerGoes
<1>2. (Ending' <=> Ending) /\ (Expired' <=> Expired) /\ ~Ending
  BY <1>1 DEF Ending, Expired, Closes
<1>3. PromptStages' /\ Closes' /\ Handover'
  BY <1>1, <1>2 DEF PromptStages, Closes, Handover, Free, Running
<1>4. Polls'
  <2>1. \A i \in Interrupters : pc[i] # "wants idle"
    BY <1>1, NobodyWaits, Kinds DEF Waiting
  <2> QED
    BY <1>1, <2>1 DEF Polls
<1>5. Histories'
  BY <1>1 DEF Histories, RecordedOnce, DataTypes
<1>6. Turns'
  BY <1>1, <1>2 DEF Turns, DataTypes
<1>7. Queries'
  BY <1>1, <1>2 DEF Queries
<1> QED
  BY <1>3, <1>4, <1>5, <1>6, <1>7

\* The consumer, whatever it does.
LEMMA ConsumerKeepsTurns ==
    ASSUME SessionInv, PromptQuery, ConsumerNext
    PROVE  TurnInv'
<1> USE DEF SessionInv, TurnInv
<1>1. CASE InitMessage
  <2>1. CASE Free
    <3>1. /\ cons = "receiving" /\ cons' = "receiving" /\ lockq' = <<>>
          /\ state' = IF state = "creating" THEN "idle" ELSE state
          /\ UNCHANGED <<pc, turn, tstate, recorded, bills, cliq>>
      BY <1>1, <2>1 DEF InitMessage, InitSection, ConsumerGoes, Listening, TurnVars, Cli
    <3>2. state = "creating" => turn = NoTurn
      BY <3>1 DEF Closes, Turns
    <3> QED
      BY <2>1, <3>1, <3>2, ReceivingKeeps
  <2>2. CASE ~Free
    BY <1>1, <2>2, ConsumerQueueingKeeps DEF InitMessage, ConsumerQueues, Listening,
       ConsumerQueueing, WantStage, ConsumerStage, TurnVars, Cli
  <2> QED
    BY <2>1, <2>2
<1>2. CASE InitLocked
  <2>1. /\ ~Free /\ cons = "wants init" /\ cons' = "receiving"
        /\ state' = IF state = "creating" THEN "idle" ELSE state
        /\ UNCHANGED <<pc, turn, tstate, recorded, bills, cliq>>
    BY <1>2 DEF InitLocked, InitSection, ConsumerGranted, ConsumerGoes, TurnVars, Cli
  <2>2. state # "creating"
    BY <2>1, ConsumerInTurn DEF Running
  <2> QED
    BY <2>1, <2>2, ReceivingKeeps
<1>3. CASE McpErrorMessage
  <2>1. CASE Free
    BY <1>3, <2>1, FallKeeps DEF McpErrorMessage, ConsumerFails, ConsumerGoes, Listening,
       TurnVars, Cli
  <2>2. CASE ~Free
    BY <1>3, <2>2, ConsumerQueueingKeeps DEF McpErrorMessage, ConsumerQueues, Listening,
       ConsumerQueueing, WantStage, ConsumerStage, TurnVars, Cli
  <2> QED
    BY <2>1, <2>2
<1>4. CASE McpErrorLocked
  BY <1>4, FallKeeps DEF McpErrorLocked, ConsumerGranted, ConsumerFails, ConsumerGoes,
     TurnVars, Cli
<1>5. ASSUME Free, cons = "receiving", ConsumerTransition("cooldown", <<>>),
             UNCHANGED <<pc, turn, tstate, recorded, bills, cliq>>
      PROVE  TurnInv'
  <2>1. CASE AssertFails("cooldown")
    BY <1>5, <2>1, FallKeeps DEF ConsumerTransition, ConsumerFails, ConsumerGoes
  <2>2. CASE ~AssertFails("cooldown")
    <3>1. turn = NoTurn
      BY <1>5, <2>2 DEF AssertFails, HasActiveTurn, Running, Histories, Turns, Closes
    <3> QED
      BY <1>5, <2>2, <3>1, ReceivingKeeps DEF ConsumerTransition, ConsumerGoes
  <2> QED
    BY <2>1, <2>2
<1>6. ASSUME NEW limited \in BOOLEAN, RetryMessage(limited)
      PROVE  TurnInv'
  <2>1. cons = "receiving" /\ UNCHANGED <<pc, turn, tstate, recorded, bills, cliq>>
    BY <1>6 DEF RetryMessage, Listening, TurnVars, Cli
  <2>2. CASE ~cooling'
    <3>1. UNCHANGED <<state, cons, lockq>>
      BY <1>6, <2>2 DEF RetryMessage
    <3> QED
      BY <2>1, <3>1 DEF PromptStages, Closes, Histories, RecordedOnce, Turns, Handover,
         Polls, Queries, Free, Ending, Expired
  <2>3. CASE cooling' /\ Free
    BY <1>5, <1>6, <2>1, <2>3 DEF RetryMessage
  <2>4. CASE cooling' /\ ~Free
    BY <1>6, <2>1, <2>4, ConsumerQueueingKeeps DEF RetryMessage, ConsumerQueues,
       ConsumerQueueing, WantStage, ConsumerStage
  <2> QED
    BY <2>2, <2>3, <2>4
<1>7. CASE CooldownLocked
  <2>1. /\ ~Free /\ cons = "wants cooldown"
        /\ UNCHANGED <<pc, turn, tstate, recorded, bills, cliq>>
        /\ ConsumerTransition("cooldown", Tail(lockq))
    BY <1>7 DEF CooldownLocked, ConsumerGranted, TurnVars, Cli
  <2>2. AssertFails("cooldown")
    BY <2>1, ConsumerInTurn DEF AssertFails, Running
  <2>3. ConsumerFails("cooldown", Tail(lockq))
    BY <2>1, <2>2 DEF ConsumerTransition
  <2>4. CASE Tail(lockq) = <<>>
    BY <2>1, <2>3, <2>4, FallKeeps DEF ConsumerFails, ConsumerGoes
  <2>5. CASE Tail(lockq) # <<>>
    BY <2>1, <2>3, <2>5, CoolingFallKeeps DEF ConsumerFails, ConsumerGoes
  <2> QED
    BY <2>4, <2>5
<1>8. CASE AuthMessage
  <2>1. cons = "receiving" /\ UNCHANGED <<pc, turn, tstate, recorded, bills, cliq>>
    BY <1>8 DEF AuthMessage, Listening, TurnVars, Cli
  <2>2. CASE Free
    <3>1. AuthSection(<<>>)
      BY <1>8, <2>2 DEF AuthMessage
    <3>2. CASE state # "error"
      BY <2>1, <3>1, <3>2, FallKeeps DEF AuthSection, ConsumerFails, ConsumerGoes
    <3>3. CASE state = "error" /\ ~cooling
      BY <2>1, <2>2, <3>1, <3>3, ReceivingKeeps DEF AuthSection, ConsumerGoes
    <3>4. CASE state = "error" /\ cooling
      BY <1>5, <2>1, <2>2, <3>1, <3>4 DEF AuthSection
    <3> QED
      BY <3>2, <3>3, <3>4
  <2>3. CASE ~Free
    BY <1>8, <2>1, <2>3, ConsumerQueueingKeeps DEF AuthMessage, ConsumerQueues,
       ConsumerQueueing, WantStage, ConsumerStage
  <2> QED
    BY <2>2, <2>3
<1>9. CASE AuthLocked
  <2>1. /\ ~Free /\ cons = "wants auth error" /\ AuthSection(Tail(lockq))
        /\ UNCHANGED <<pc, turn, tstate, recorded, bills, cliq>>
    BY <1>9 DEF AuthLocked, ConsumerGranted, TurnVars, Cli
  <2>2. state # "error"
    BY <2>1, ConsumerInTurn DEF Running
  <2> QED
    BY <2>1, <2>2, FallKeeps DEF AuthSection, ConsumerFails, ConsumerGoes
<1>10. CASE ResultMessage
  BY <1>10, ResultKeeps
<1>11. CASE StreamEnds
  BY <1>11, EndKeeps
<1>12. CASE StreamRaises
  BY <1>12, FallKeeps DEF StreamRaises, Listening, ConsumerFails, ConsumerGoes, TurnVars
<1>13. CASE ErrorLocked
  BY <1>13, FallKeeps DEF ErrorLocked, ConsumerGranted, ConsumerGoes, TurnVars, Cli
<1>14. ~(ResultLocked \/ EndLocked)
  BY DEF ResultLocked, EndLocked, ConsumerGranted, PromptStages
<1>15. CASE ConsumerCancelled
  <2>1. /\ cons = "cancelled" /\ cons' = "done"
        /\ UNCHANGED <<state, pc, turn, tstate, recorded, bills, cliq>>
    BY <1>15 DEF ConsumerCancelled, ConsumerGoes, TurnVars, Cli
  <2>2. (Ending' <=> Ending) /\ (Expired' <=> Expired) /\ Ending
    BY <2>1 DEF Ending, Expired, Closes
  <2> QED
    BY <2>1, <2>2 DEF PromptStages, Closes, Histories, RecordedOnce, Turns, Handover,
       Polls, Queries
<1> QED
  BY <1>1, <1>2, <1>3, <1>4, <1>6, <1>7, <1>8, <1>9, <1>10, <1>11, <1>12, <1>13, <1>14,
     <1>15 DEF ConsumerNext

----------------------------------------------------------------------------
(* send *)

\* A call moves, the turn as it was and the session in a turn or out of it.
LEMMA MovingKeeps ==
    ASSUME SessionInv, NEW p \in Tasks, NEW stage \in Stage,
           pc' = [pc EXCEPT ![p] = stage],
           p \in Interrupters => stage # "wants idle",
           p \in Closers => (stage \in {"ready", "abandoning"} <=>
                                pc[p] \in {"ready", "abandoning"}),
           pc[p] # "timed out",
           stage \notin {"ready", "wants timeout", "wants park"},
           stage = "wants send" => pc[p] \in {"ready", "wants send"},
           lockq' # <<>> => lockq # <<>>,
           \A a, b : a # p /\ b # p /\ Before(lockq, a, b) => Before(lockq', a, b),
           cliq = <<>> => cliq' = <<>>,
           cliq = <<turn>> => cliq' \in {cliq, <<>>},
           state' = state \/ {state, state'} \subseteq Running,
           UNCHANGED <<turn, tstate, recorded, bills, cons>>
    PROVE  TurnInv'
<1> USE DEF SessionInv, TurnInv
<1>1. /\ pc'[p] = stage /\ \A t \in Tasks \ {p} : pc'[t] = pc[t]
      /\ Consumer # p
  BY ConsumerAssumption DEF LockInv, LockTypes
<1>2. Ending' <=> Ending
  BY <1>1, Kinds DEF Ending
<1>3. Expired => Expired'
  BY <1>1, Kinds DEF Expired
<1>4. PromptStages' /\ Closes' /\ Turns'
  BY <1>1, <1>2 DEF PromptStages, Closes, Turns, Running
<1>5. Histories'
  BY <1>1, Kinds DEF Histories, RecordedOnce
<1>6. Handover'
  BY <1>2 DEF Handover, Free, Running
<1>7. Queries'
  BY <1>3 DEF Queries, Running
<1>8. Polls'
  BY <1>1, <1>2, Kinds DEF Polls
<1> QED
  BY <1>4, <1>5, <1>6, <1>7, <1>8

\* Moving as a task does in TaskMoves leaves the order of the others.
LEMMA OthersInOrder ==
    ASSUME LockInv, NEW p \in Tasks, NEW stage, TaskMoves(p, stage),
           NEW a, NEW b, a # p, b # p, Before(lockq, a, b)
    PROVE  Before(lockq', a, b)
<1>1. lockq \in Seq(Tasks \cup {Consumer}) /\ Len(lockq) \in Nat
  BY DEF LockInv, LockTypes
<1>2. PICK m, n \in 1..Len(lockq) : m < n /\ lockq[m] = a /\ lockq[n] = b
  BY DEF Before
<1>3. CASE lockq' = lockq
  BY <1>3
<1>4. CASE lockq' = Append(lockq, p)
  <2>1. /\ Len(lockq') = Len(lockq) + 1
        /\ \A i \in 1..Len(lockq) : lockq'[i] = lockq[i]
    BY <1>1, <1>4
  <2>2. /\ m \in 1..Len(lockq') /\ n \in 1..Len(lockq')
        /\ lockq'[m] = a /\ lockq'[n] = b
    BY <1>1, <1>2, <2>1
  <2> QED
    BY <1>2, <2>2 DEF Before
<1>5. CASE lockq # <<>> /\ Head(lockq) = p /\ lockq' = Tail(lockq)
  <2>1. /\ Len(lockq') = Len(lockq) - 1 /\ lockq[1] = p
        /\ \A i \in 1..(Len(lockq) - 1) : lockq'[i] = lockq[i + 1]
    BY <1>1, <1>5
  <2>2. m # 1 /\ n # 1
    BY <1>2, <2>1
  <2>3. /\ m - 1 \in 1..Len(lockq') /\ n - 1 \in 1..Len(lockq')
        /\ m - 1 < n - 1 /\ m - 1 + 1 = m /\ n - 1 + 1 = n
    BY <1>1, <1>2, <2>1, <2>2
  <2>4. lockq'[m - 1] = a /\ lockq'[n - 1] = b
    BY <1>2, <2>1, <2>3
  <2> QED
    BY <2>3, <2>4 DEF Before
<1> QED
  BY <1>3, <1>4, <1>5 DEF TaskMoves

\* A query that was the only one, or none, is taken back or not.
LEMMA TakenBack ==
    ASSUME NEW s, NEW q
    PROVE  /\ q = <<>> => Without(q, s) = <<>>
           /\ \A t : q = <<t>> => Without(q, s) \in {q, <<>>}
<1>1. ASSUME q = <<>> PROVE Without(q, s) = <<>>
  BY <1>1 DEF Without
<1>2. ASSUME NEW t, q = <<t>> PROVE Without(q, s) \in {q, <<>>}
  <2>1. CASE t # s
    BY <1>2, <2>1 DEF Without
  <2>2. CASE t = s
    <3>1. q \in Seq({t}) /\ Distinct(q) /\ Elems(q) = {t}
      BY <1>2 DEF Distinct, Elems
    <3>2. Without(q, s) \in Seq({t}) /\ Elems(Without(q, s)) = {}
      BY <2>2, <3>1, Removed
    <3> DEFINE w == Without(q, s)
    <3>3. w \in Seq({t}) /\ Elems(w) = {}
      BY <3>2
    <3> HIDE DEF w
    <3>4. w = <<>>
      <4>1. ASSUME w # <<>> PROVE Head(w) \in Elems(w)
        BY <3>3, <4>1, Popped
      <4> QED
        BY <3>3, <4>1
    <3> QED
      BY <3>4 DEF w
  <2> QED
    BY <2>1, <2>2
<1> QED
  BY <1>1, <1>2

\* What is appended to an empty queue is alone in it.
LEMMA AppendedToNone == ASSUME NEW s PROVE Append(<<>>, s) = <<s>>
OBVIOUS

\* A turn starts.
LEMMA StartingKeeps ==
    ASSUME SessionInv, NEW s \in Senders, Sendable, pc[s] \in {"ready", "wants send"},
           turn' = s, tstate' = [tstate EXCEPT ![s] = "running"], state' = "running",
           cliq' = Append(cliq, s), pc' = [pc EXCEPT ![s] = "querying"],
           UNCHANGED <<recorded, bills, cons>>
    PROVE  TurnInv'
<1> USE DEF SessionInv, TurnInv
<1>1. /\ pc'[s] = "querying" /\ \A p \in Tasks \ {s} : pc'[p] = pc[p]
      /\ tstate'[s] = "running" /\ \A z \in Senders \ {s} : tstate'[z] = tstate[z]
      /\ tstate[s] = "none"
  BY Kinds DEF LockInv, LockTypes, DataTypes, Histories
<1>2. (Ending' <=> Ending) /\ (Expired' <=> Expired)
  BY <1>1, Kinds DEF Ending, Expired
<1>3. PromptStages' /\ Closes'
  BY <1>1, <1>2 DEF PromptStages, Closes
<1>4. Histories'
  <2>1. \A z \in Senders : pc'[z] \in {"ready", "wants send"} => tstate'[z] = "none"
    BY <1>1, Kinds DEF Histories
  <2>2. \A z \in Senders : tstate'[z] \in {"none", "running"} => recorded'[z] = 0
    BY <1>1 DEF Histories
  <2>3. RecordedOnce'
    BY DEF Histories, RecordedOnce
  <2> QED
    BY <1>1, <2>1, <2>2, <2>3 DEF Histories
<1>5. CASE Ending
  BY <1>2, <1>3, <1>4, <1>5 DEF Closes, Turns, Handover, Polls, Queries
<1>6. CASE ~Ending
  <2>1. state \in {"creating", "idle"}
    BY DEF Sendable, DataTypes, State
  <2>2. Free /\ turn = NoTurn
    BY <1>6, <2>1 DEF Handover, Turns, Running
  <2>3. \A z \in Senders : tstate[z] # "running"
    BY <1>6, <2>2, Kinds DEF Turns
  <2>4. Turns'
    BY <1>1, <2>3 DEF Turns
  <2>5. Handover'
    BY Kinds DEF Handover, Running
  <2>6. Polls'
    <3>1. \A i \in Interrupters : pc'[i] # "wants idle"
      BY <1>1, <2>2, NobodyWaits, Kinds DEF Waiting
    <3> QED
      BY <3>1 DEF Polls
  <2>7. Queries'
    <3>1. cliq = <<>> => cliq' = <<s>>
      BY AppendedToNone
    <3> QED
      BY <1>2, <2>2, <3>1, Kinds DEF Queries
  <2> QED
    BY <1>3, <1>4, <2>4, <2>5, <2>6, <2>7
<1> QED
  BY <1>5, <1>6

\* A send: it joins the queue, starts a turn or fails.
LEMMA SendKeepsTurns ==
    ASSUME SessionInv, NEW s \in Senders, SendNext(s)
    PROVE  TurnInv'
<1> USE DEF SessionInv
<1>1. s \in Tasks /\ s \notin Interrupters \cup Closers
  BY Kinds
<1>2. PICK move : TaskMoves(s, move)
  BY SendMoves
<1>3. \A a, b : a # s /\ b # s /\ Before(lockq, a, b) => Before(lockq', a, b)
  BY <1>1, <1>2, OthersInOrder
<1>4. ASSUME Sendable, Send(s) \/ SendLocked(s), pc'[s] = "querying"
      PROVE  TurnInv'
  <2>1. /\ pc[s] \in {"ready", "wants send"} /\ UNCHANGED <<recorded, bills, cons>>
        /\ turn' = s /\ tstate' = [tstate EXCEPT ![s] = "running"] /\ state' = "running"
        /\ cliq' = Append(cliq, s) /\ pc' = [pc EXCEPT ![s] = "querying"]
    BY <1>1, <1>4 DEF Send, SendLocked, SendSection, Goto, Queue, Granted, LockInv, LockTypes
  <2> QED
    BY <1>4, <2>1, StartingKeeps
<1>5. ASSUME NEW stage \in {"wants send", "raised", "done"},
             pc[s] \in {"ready", "wants send", "querying"},
             stage = "wants send" => pc[s] = "ready",
             pc' = [pc EXCEPT ![s] = stage],
             lockq' # <<>> => lockq # <<>>,
             cliq' = cliq \/ cliq' = Without(cliq, s),
             UNCHANGED <<state, turn, tstate, recorded, bills, cons>>
      PROVE  TurnInv'
  <2>1. (cliq = <<>> => cliq' = <<>>) /\ (cliq = <<turn>> => cliq' \in {cliq, <<>>})
    BY <1>5, TakenBack
  <2>2. stage \in Stage /\ stage \notin {"ready", "wants timeout", "wants park"}
    BY DEF Stage
  <2>3. pc[s] # "timed out"
    BY <1>5
  <2> QED
    BY <1>1, <1>3, <1>5, <2>1, <2>2, <2>3, MovingKeeps
<1>6. CASE Send(s)
  <2>1. CASE Free /\ Sendable
    BY <1>1, <1>4, <1>6, <2>1 DEF Send, SendSection, Goto, LockInv, LockTypes
  <2>2. CASE Free /\ ~Sendable
    <3>1. Tail(<<s>>) = <<>>
      OBVIOUS
    <3> QED
      BY <1>5, <1>6, <2>2, <3>1 DEF Send, SendSection, Goto
  <2>3. CASE ~Free
    BY <1>5, <1>6, <2>3 DEF Send, Queue, Goto, Free
  <2> QED
    BY <2>1, <2>2, <2>3
<1>7. CASE SendLocked(s)
  <2>1. CASE Sendable
    BY <1>1, <1>4, <1>7, <2>1 DEF SendLocked, SendSection, Goto, LockInv, LockTypes
  <2>2. CASE ~Sendable
    BY <1>5, <1>7, <2>2 DEF SendLocked, SendSection, Goto, Granted, Free
  <2> QED
    BY <2>1, <2>2
<1>8. CASE QueryReturns(s) \/ QueryRaises(s)
  <2>1. pc[s] = "querying" /\ Waiting(s)
    BY <1>8 DEF QueryReturns, QueryRaises, Waiting
  <2>2. lockq # <<>>
    BY <1>1, <2>1, NobodyWaits DEF Free
  <2> QED
    BY <1>5, <1>8, <2>1, <2>2 DEF QueryReturns, QueryRaises, Goto, TurnVars, Cli
<1> QED
  BY <1>6, <1>7, <1>8 DEF SendNext

----------------------------------------------------------------------------
(* interrupt, close_session and the callbacks *)

\* Of a session whose consumer has been cancelled little is said.
LEMMA EndingKeeps ==
    ASSUME SessionInv, Ending', cons' \in {"cancelled", "done"},
           \A p \in Tasks : pc'[p] \notin {"wants timeout", "wants park"},
           Histories', bills' = bills, Expired => Expired'
    PROVE  TurnInv'
BY DEF SessionInv, TurnInv, PromptStages, Closes, Turns, Handover, Polls, Queries

\* A session moves on in its turn, or fails, while the lock is free.
LEMMA FreeKeeps ==
    ASSUME SessionInv, Free, lockq' = <<>>, NEW p \in Tasks, NEW stage \in Stage,
           pc' = [pc EXCEPT ![p] = stage],
           p \notin Closers, p \in Senders => pc[p] = stage,
           stage \notin {"ready", "wants timeout", "wants park", "wants idle"},
           pc[p] # "timed out",
           \/ state' \in Running
           \/ state' = "error" /\ Expired'
           \/ state' = state,
           UNCHANGED <<turn, tstate, recorded, bills, cliq, cons>>
    PROVE  TurnInv'
<1> USE DEF SessionInv, TurnInv
<1>1. pc'[p] = stage /\ \A t \in Tasks \ {p} : pc'[t] = pc[t]
  BY DEF LockInv, LockTypes
<1>2. (Ending' <=> Ending) /\ (Expired => Expired')
  BY <1>1, Kinds DEF Ending, Expired
<1>3. PromptStages' /\ Closes'
  BY <1>1, <1>2 DEF PromptStages, Closes, Running
<1>4. Histories'
  BY <1>1, Kinds DEF Histories, RecordedOnce
<1>5. Turns'
  BY <1>2 DEF Turns, Running
<1>6. Handover' /\ Polls'
  <2>1. \A i \in Interrupters : pc'[i] # "wants idle"
    BY <1>1, NobodyWaits, Kinds DEF Waiting
  <2> QED
    BY <2>1 DEF Handover, Polls, Free
<1>7. Queries'
  BY <1>2 DEF Queries, Running
<1> QED
  BY <1>3, <1>4, <1>5, <1>6, <1>7

\* Who waits already stands before who joins.
LEMMA AppendedBehind ==
    ASSUME NEW S, NEW q \in Seq(S), NEW e \in S, NEW x \in Elems(q)
    PROVE  Before(Append(q, e), x, e)
<1> DEFINE r == Append(q, e)
<1>1. /\ Len(r) = Len(q) + 1 /\ Len(q) \in Nat /\ r[Len(q) + 1] = e
      /\ \A i \in 1..Len(q) : r[i] = q[i]
  OBVIOUS
<1> HIDE DEF r
<1>2. PICK i \in 1..Len(q) : q[i] = x
  BY DEF Elems
<1>3. i \in 1..Len(r) /\ Len(q) + 1 \in 1..Len(r) /\ i < Len(q) + 1
  BY <1>1, <1>2
<1>4. Before(r, x, e)
  BY <1>1, <1>2, <1>3 DEF Before
<1> QED
  BY <1>4 DEF r

\* An interrupt's time is up, or it finds the turn still running.
LEMMA SettledKeeps ==
    ASSUME SessionInv, NEW i \in Interrupters, PollSettled(i)
    PROVE  TurnInv'
<1> USE DEF SessionInv, TurnInv
<1>1. PICK stage \in {"done", "wants idle"} : pc' = [pc EXCEPT ![i] = stage]
  BY DEF PollSettled, Queue, Goto
<1>2. /\ pc'[i] = stage /\ \A t \in Tasks \ {i} : pc'[t] = pc[t] /\ pc[i] = "polling"
      /\ i \in Tasks
  BY <1>1, Kinds DEF LockInv, LockTypes, PollSettled
<1>3. (Ending' <=> Ending) /\ (Expired' <=> Expired)
  BY <1>1, <1>2, Kinds DEF Ending, Expired, PollSettled
<1>4. /\ state \notin Running /\ turn' = NoTurn /\ UNCHANGED <<recorded, bills, cons, cliq>>
      /\ tstate' = IF turn = NoTurn THEN tstate
                   ELSE [tstate EXCEPT ![turn] = "interrupted"]
      /\ \/ Free /\ lockq' = <<>> /\ stage = "done"
            /\ state' = IF state \in Terminal THEN state ELSE "idle"
         \/ ~Free /\ lockq' = Append(lockq, i) /\ state' = state
  <2>1. /\ state \notin Running /\ turn' = NoTurn
        /\ UNCHANGED <<recorded, bills, cons, cliq>>
        /\ tstate' = IF turn = NoTurn THEN tstate
                     ELSE [tstate EXCEPT ![turn] = "interrupted"]
    BY DEF PollSettled, Cli
  <2>2. CASE Free
    <3>1. /\ lockq' = <<>> /\ pc' = [pc EXCEPT ![i] = "done"]
          /\ state' = IF state \in Terminal THEN state ELSE "idle"
      BY <2>2 DEF PollSettled, Goto, Free
    <3>2. pc'[i] = "done"
      BY <1>2, <3>1 DEF LockInv, LockTypes
    <3> QED
      BY <1>2, <2>1, <2>2, <3>1, <3>2
  <2>3. CASE ~Free
    BY <2>1, <2>3 DEF PollSettled, Queue
  <2> QED
    BY <2>2, <2>3
<1>5. PromptStages' /\ Closes'
  BY <1>1, <1>2, <1>3, <1>4 DEF PromptStages, Closes, Terminal
<1>6. Histories'
  <2>1. \A s \in Senders : pc'[s] = pc[s]
    BY <1>2, Kinds
  <2>2. CASE turn = NoTurn
    BY <1>4, <2>1, <2>2 DEF Histories, RecordedOnce
  <2>3. CASE turn # NoTurn
    BY <1>4, <2>1, <2>3, TurnRetired
  <2> QED
    BY <2>2, <2>3
<1>7. Turns'
  <2>1. ~Ending => \A s \in Senders : tstate'[s] # "running"
    <3>1. tstate \in [Senders -> {"none", "running", "completed", "interrupted"}]
      BY DEF DataTypes
    <3>2. CASE turn = NoTurn
      BY <1>4, <3>2, Kinds DEF Turns
    <3>3. CASE turn # NoTurn
      <4>1. tstate' = [tstate EXCEPT ![turn] = "interrupted"]
        BY <1>4, <3>3
      <4>2. ~Ending => \A s \in Senders : s # turn => tstate[s] # "running"
        BY DEF Turns
      <4> QED
        BY <3>1, <4>1, <4>2
    <3> QED
      BY <3>2, <3>3
  <2> QED
    BY <1>3, <1>4, <2>1 DEF Turns
<1>8. Handover'
  BY <1>3, <1>4 DEF Handover, Free
<1>9. Polls'
  <2>1. CASE Free
    <3>1. \A j \in Interrupters : pc'[j] # "wants idle"
      BY <1>2, <1>4, <2>1, NobodyWaits, Kinds DEF Waiting
    <3> QED
      BY <3>1 DEF Polls
  <2>2. CASE ~Free /\ ~Ending
    <3>1. lockq' = Append(lockq, i) /\ state' = state
      BY <1>4, <2>2
    <3>2. lockq \in Seq(Tasks \cup {Consumer}) /\ i \in Tasks \cup {Consumer}
      BY <1>2 DEF LockInv, LockTypes
    <3>3. state = "cooldown" => Before(lockq', Consumer, i)
      <4>1. state = "cooldown" => cons = "wants error"
        BY <2>2 DEF Handover, Running
      <4>2. cons = "wants error" => Consumer \in Elems(lockq)
        BY LockSet DEF LockInv
      <4>3. Consumer \in Elems(lockq) => Before(Append(lockq, i), Consumer, i)
        BY <3>2, AppendedBehind
      <4> QED
        BY <3>1, <4>1, <4>2, <4>3
    <3>4. \A a, b : a # i /\ b # i /\ Before(lockq, a, b) => Before(lockq', a, b)
      <4>1. PICK move : TaskMoves(i, move)
        BY InterruptMoves DEF InterruptNext
      <4> QED
        BY <1>2, <4>1, OthersInOrder
    <3>5. ASSUME NEW j \in Interrupters, pc'[j] = "wants idle"
          PROVE  state' \notin Running /\ (state' = "cooldown" => Before(lockq', Consumer, j))
      <4>1. CASE j = i
        BY <1>4, <3>1, <3>3, <4>1
      <4>2. CASE j # i
        <5>1. pc[j] = "wants idle" /\ Consumer # i
          BY <1>2, <3>5, <4>2, Kinds, ConsumerAssumption
        <5>2. state = "cooldown" => Before(lockq, Consumer, j)
          BY <2>2, <5>1 DEF Polls
        <5> QED
          BY <1>4, <3>1, <3>4, <4>2, <5>1, <5>2
      <4> QED
        BY <4>1, <4>2
    <3> QED
      BY <3>5 DEF Polls
  <2>3. CASE Ending
    BY <1>3, <2>3 DEF Polls
  <2> QED
    BY <2>1, <2>2, <2>3
<1>10. Queries'
  <2>1. CASE ~Expired /\ cons \notin {"cancelled", "done", "wants error"}
    <3>1. ~Ending /\ state \in {"creating", "idle", "cooldown"} /\ turn = NoTurn
      BY <1>4, <2>1 DEF Queries, Closes, Turns, DataTypes, State, Terminal
    <3> QED
      BY <1>3, <1>4, <2>1, <3>1 DEF Queries, Terminal
  <2>2. CASE ~(~Expired /\ cons \notin {"cancelled", "done", "wants error"})
    BY <1>3, <1>4, <2>2 DEF Queries
  <2> QED
    BY <2>1, <2>2
<1> QED
  BY <1>5, <1>6, <1>7, <1>8, <1>9, <1>10

\* At the head of the queue an interrupt waits behind nobody.
LEMMA HeadBehindNobody ==
    ASSUME NEW S, NEW q \in Seq(S), q # <<>>, Distinct(q), NEW a
    PROVE  ~Before(q, a, Head(q))
<1>1. Head(q) = q[1] /\ 1 \in 1..Len(q) /\ Len(q) \in Nat
  OBVIOUS
<1> SUFFICES ASSUME NEW m \in 1..Len(q), NEW n \in 1..Len(q),
                    m < n, q[n] = Head(q)
             PROVE  FALSE
  BY DEF Before
<1>2. n = 1
  BY <1>1 DEF Distinct
<1> QED
  BY <1>1, <1>2

\* It saw the turn end, and sets the session idle.
LEMMA IdleKeeps ==
    ASSUME SessionInv, NEW i \in Interrupters, IdleLocked(i)
    PROVE  TurnInv'
<1> USE DEF SessionInv, TurnInv
<1>1. /\ pc[i] = "wants idle" /\ lockq # <<>> /\ Head(lockq) = i /\ lockq' = Tail(lockq)
      /\ UNCHANGED <<turn, tstate, recorded, bills, cons, cliq>>
      /\ state \in Terminal => state' = state
  BY DEF IdleLocked, IdleSection, Granted, Free, TurnVars, Cli
<1>2. PICK stage \in {"done", "raised"} : pc' = [pc EXCEPT ![i] = stage]
  BY DEF IdleLocked, IdleSection, Goto
<1>3. i \in Tasks /\ pc'[i] = stage /\ \A t \in Tasks \ {i} : pc'[t] = pc[t]
  BY <1>2, Kinds DEF LockInv, LockTypes
<1>4. (Ending' <=> Ending) /\ (Expired => Expired')
  BY <1>1, <1>3, Kinds DEF Ending, Expired
<1>5. CASE Ending
  <2>1. Histories'
    BY <1>1, <1>3, Kinds DEF Histories, RecordedOnce
  <2>2. \A p \in Tasks : pc'[p] \notin {"wants timeout", "wants park"}
    BY <1>3 DEF PromptStages
  <2> QED
    BY <1>1, <1>4, <1>5, <2>1, <2>2, EndingKeeps DEF Closes
<1>6. CASE ~Ending
  <2>1. lockq \in Seq(Tasks \cup {Consumer}) /\ Distinct(lockq)
    BY LockSet DEF LockInv, LockTypes
  <2>2. ~Before(lockq, Consumer, i)
    BY <1>1, <2>1, HeadBehindNobody
  <2>3. state = "error" /\ state' = state
    BY <1>1, <1>6, <2>2 DEF Polls, Handover, Free, Terminal
  <2>4. \A a, b : a # i /\ b # i /\ Before(lockq, a, b) => Before(lockq', a, b)
    <3>1. PICK move : TaskMoves(i, move)
      BY InterruptMoves DEF InterruptNext
    <3> QED
      BY <1>3, <3>1, OthersInOrder
  <2>5. i \notin Closers /\ i \notin Senders
    BY Kinds
  <2>6. stage \in Stage /\ stage \notin {"ready", "wants timeout", "wants park",
                                         "wants idle", "wants send"}
    BY DEF Stage
  <2>7. pc[i] # "timed out"
    BY <1>1
  <2> QED
    BY <1>1, <1>2, <1>3, <2>3, <2>4, <2>5, <2>6, <2>7, MovingKeeps
<1> QED
  BY <1>5, <1>6

\* An interrupt, whatever it does.
LEMMA InterruptKeepsTurns ==
    ASSUME SessionInv, PromptQuery, NEW i \in Interrupters, InterruptNext(i)
    PROVE  TurnInv'
<1> USE DEF SessionInv, TurnInv
<1>1. i \in Tasks /\ i \notin Closers /\ i \notin Senders
  BY Kinds
<1>2. CASE Interrupt(i) \/ InterruptRefused(i) \/ InterruptReturns(i) \/ InterruptRaises(i)
  <2>1. PICK stage \in {"done", "interrupting", "raised", "polling"} :
            pc' = [pc EXCEPT ![i] = stage]
    BY <1>2 DEF Interrupt, InterruptRefused, InterruptReturns, InterruptRaises, Goto
  <2>2. /\ pc[i] \in {"ready", "interrupting"}
        /\ UNCHANGED <<lockq, cliq, state, turn, tstate, recorded, bills, cons>>
    BY <1>2 DEF Interrupt, InterruptRefused, InterruptReturns, InterruptRaises, TurnVars, Cli
  <2>3. stage \in Stage /\ stage \notin {"ready", "wants timeout", "wants park",
                                         "wants idle", "wants send"}
    BY DEF Stage
  <2>4. pc[i] # "timed out"
    BY <2>2
  <2> QED
    BY <1>1, <2>1, <2>2, <2>3, <2>4, MovingKeeps
<1>3. CASE PollTimesOut(i)
  <2>1. /\ Free /\ lockq' = <<>> /\ pc[i] = "polling" /\ state' = "error"
        /\ pc' = [pc EXCEPT ![i] = "timed out"]
        /\ UNCHANGED <<turn, tstate, recorded, bills, cliq, cons>>
    BY <1>3 DEF PollTimesOut, Free, Goto, TurnVars, Cli
  <2>2. Expired'
    BY <1>1, <2>1 DEF Expired, LockInv, LockTypes
  <2>3. "timed out" \in Stage /\ pc[i] # "timed out"
    BY <2>1 DEF Stage
  <2> QED
    BY <1>1, <2>1, <2>2, <2>3, FreeKeeps
<1>4. ~TimeoutLocked(i)
  BY <1>1 DEF TimeoutLocked, Granted, PromptStages
<1> QED
  BY <1>2, <1>3, <1>4, SettledKeeps, IdleKeeps DEF InterruptNext

\* A close.
LEMMA CloseKeepsTurns ==
    ASSUME SessionInv, NEW k \in Closers, CloseNext(k)
    PROVE  TurnInv'
<1> USE DEF SessionInv, TurnInv
<1>1. k \in Tasks /\ k \notin Interrupters /\ k \notin Senders
  BY Kinds
<1>2. PICK stage : TaskMoves(k, stage)
  BY CloseMoves
<1>3. /\ stage \in Stage /\ pc' = [pc EXCEPT ![k] = stage]
      /\ pc'[k] = stage /\ \A t \in Tasks \ {k} : pc'[t] = pc[t]
  BY <1>1, <1>2 DEF TaskMoves, LockInv, LockTypes
<1>4. stage \notin {"ready", "wants timeout", "wants park"} /\ bills' = bills
  BY <1>1, <1>3 DEF CloseNext, Close, Abandon, Joined, Disconnected, CloseLocked,
     CancelConsumer, CloseSection, Queue, Goto, TurnVars, LockInv, LockTypes
<1>5. Expired' <=> Expired
  BY <1>3, Kinds DEF Expired
<1>6. \A p \in Tasks : pc'[p] \notin {"wants timeout", "wants park"}
  BY <1>3, <1>4 DEF PromptStages
<1>7. ASSUME stage # "abandoning", cons' \in {"cancelled", "done"}, Histories'
      PROVE  TurnInv'
  <2>1. Ending'
    BY <1>3, <1>4, <1>7 DEF Ending
  <2> QED
    BY <1>4, <1>5, <1>6, <1>7, <2>1, EndingKeeps
<1>8. ASSUME UNCHANGED <<turn, tstate, recorded>> PROVE Histories'
  BY <1>1, <1>3, <1>8, Kinds DEF Histories, RecordedOnce
<1>9. CASE Close(k)
  <2>1. UNCHANGED <<turn, tstate, recorded, bills, cliq, lockq, state>>
    BY <1>9 DEF Close, TurnVars, Cli
  <2>2. CASE state = "closed"
    <3>1. stage = "done" /\ cons' = cons
      BY <1>1, <1>3, <1>9, <2>2 DEF Close, Goto, Running, LockInv, LockTypes
    <3> QED
      BY <1>7, <1>8, <2>1, <2>2, <3>1 DEF Closes
  <2>3. CASE state \in Running
    <3>1. stage = "abandoning" /\ cons' = cons /\ pc[k] = "ready"
      BY <1>1, <1>3, <1>9, <2>3 DEF Close, Goto, Running, LockInv, LockTypes
    <3> QED
      BY <1>1, <1>3, <2>1, <3>1, MovingKeeps
  <2>4. CASE state \notin Running \cup {"closed"}
    <3>1. CancelConsumer(k)
      BY <1>9, <2>4 DEF Close
    <3>2. stage # "abandoning" /\ cons' \in {"cancelled", "done"}
      BY <1>1, <1>3, <3>1 DEF CancelConsumer, Goto, LockInv, LockTypes
    <3> QED
      BY <1>7, <1>8, <2>1, <3>2
  <2> QED
    BY <2>2, <2>3, <2>4
<1>10. CASE Abandon(k)
  <2>1. CancelConsumer(k)
    BY <1>10 DEF Abandon
  <2>2. stage # "abandoning" /\ cons' \in {"cancelled", "done"}
    BY <1>1, <1>3, <2>1 DEF CancelConsumer, Goto, LockInv, LockTypes
  <2>3. Histories'
    <3>1. CASE turn = NoTurn
      BY <1>8, <1>10, <3>1 DEF Abandon, TurnVars
    <3>2. CASE turn # NoTurn
      <4>1. /\ turn' = NoTurn /\ tstate' = [tstate EXCEPT ![turn] = "interrupted"]
            /\ recorded' = [recorded EXCEPT ![turn] = @ + 1]
        BY <1>10, <3>2 DEF Abandon
      <4>2. \A s \in Senders : pc'[s] = pc[s]
        BY <1>1, <1>3, Kinds
      <4> QED
        BY <3>2, <4>1, <4>2, TurnRetired
    <3> QED
      BY <3>1, <3>2
  <2> QED
    BY <1>7, <2>2, <2>3
<1>11. CASE Joined(k) \/ Disconnected(k) \/ CloseLocked(k)
  <2>1. /\ pc[k] \in {"joining", "disconnecting", "wants closed"}
        /\ UNCHANGED <<cons, turn, tstate, recorded>>
    BY <1>11 DEF Joined, Disconnected, CloseLocked, Granted, TurnVars
  <2>2. stage # "abandoning"
    BY <1>1, <1>3, <1>11 DEF Joined, Disconnected, CloseLocked, CloseSection, Queue, Goto,
       LockInv, LockTypes
  <2>3. Ending
    BY <2>1 DEF Ending
  <2> QED
    BY <1>7, <1>8, <2>1, <2>2, <2>3 DEF Closes
<1> QED
  BY <1>9, <1>10, <1>11 DEF CloseNext

\* A permission callback.
LEMMA CallbackKeepsTurns ==
    ASSUME SessionInv, PromptQuery, NEW c \in Callbacks, CallbackNext(c)
    PROVE  TurnInv'
<1> USE DEF SessionInv, TurnInv
<1>1. c \in Tasks /\ c \notin Interrupters /\ c \notin Senders /\ c \notin Closers
  BY Kinds
<1>2. UNCHANGED <<turn, tstate, recorded, bills, cliq, cons>>
  BY DEF CallbackNext, Ask, ParkLocked, Resolve, Unpark, UnparkLocked, TurnVars, Cli
<1>3. ASSUME NEW stage \in {"parked", "raised", "done"}, Free, lockq' = <<>>,
             pc[c] \in {"ready", "parked"}, pc' = [pc EXCEPT ![c] = stage],
             state' \in Running \/ state' = state
      PROVE  TurnInv'
  <2>1. /\ pc[c] # "timed out" /\ stage \in Stage
        /\ stage \notin {"ready", "wants timeout", "wants park", "wants idle"}
    BY <1>3 DEF Stage
  <2> QED
    BY <1>1, <1>2, <1>3, <2>1, FreeKeeps
<1>4. ASSUME NEW stage \in {"raised", "done", "wants unpark"},
             pc[c] \in {"parked", "wants unpark"} \ {stage}, pc' = [pc EXCEPT ![c] = stage],
             lockq' # <<>> => lockq # <<>>,
             state' = state \/ {state, state'} \subseteq Running
      PROVE  TurnInv'
  <2>1. /\ pc[c] # "timed out" /\ stage \in Stage
        /\ stage \notin {"ready", "wants timeout", "wants park", "wants idle", "wants send"}
    BY <1>4 DEF Stage
  <2>2. \A a, b : a # c /\ b # c /\ Before(lockq, a, b) => Before(lockq', a, b)
    <3>1. PICK move : TaskMoves(c, move)
      <4>1. pc' # pc
        BY <1>1, <1>4 DEF LockInv, LockTypes
      <4> QED
        BY <4>1, CallbackMoves
    <3> QED
      BY <1>1, <3>1, OthersInOrder
  <2> QED
    BY <1>1, <1>2, <1>4, <2>1, <2>2, MovingKeeps
<1>5. CASE Ask(c)
  BY <1>3, <1>5 DEF Ask, CliWorks, ParkSection, Goto, Running
<1>6. CASE Resolve(c)
  <2>1. UNCHANGED <<state, lockq, pc>>
    BY <1>6 DEF Resolve
  <2>2. (Ending' <=> Ending) /\ (Expired' <=> Expired)
    BY <2>1 DEF Ending, Expired
  <2> QED
    BY <1>2, <2>1, <2>2 DEF PromptStages, Closes, Histories, RecordedOnce, Turns, Handover,
       Free, Polls, Queries
<1>7. CASE Unpark(c)
  <2>1. CASE Free
    BY <1>3, <1>7, <2>1 DEF Unpark, UnparkSection, Goto, Running
  <2>2. CASE ~Free
    BY <1>4, <1>7, <2>2 DEF Unpark, Queue, Goto, Free
  <2> QED
    BY <2>1, <2>2
<1>8. CASE UnparkLocked(c)
  BY <1>4, <1>8 DEF UnparkLocked, UnparkSection, Granted, Free, Goto, Running
<1>9. ~ParkLocked(c)
  BY <1>1 DEF ParkLocked, Granted, PromptStages
<1> QED
  BY <1>5, <1>6, <1>7, <1>8, <1>9 DEF CallbackNext

\* The grace period ends, which finds no turn.
LEMMA GraceKeepsTurns ==
    ASSUME SessionInv, GraceEnds
    PROVE  TurnInv'
<1>1. /\ Free /\ lockq' = lockq /\ state = "creating" /\ state' = "idle"
      /\ UNCHANGED <<pc, turn, tstate, recorded, bills, cliq, cons>>
  BY DEF GraceEnds, TurnVars, Cli
<1>2. (Ending' <=> Ending) /\ (Expired' <=> Expired)
  BY <1>1 DEF Ending, Expired
<1>3. PromptStages' /\ Closes' /\ Histories' /\ Turns' /\ Handover'
  BY <1>1, <1>2 DEF SessionInv, TurnInv, PromptStages, Closes, Histories, RecordedOnce, Turns,
     Handover, Free
<1>4. Polls' /\ Queries'
  BY <1>1, <1>2 DEF SessionInv, TurnInv, Polls, Queries, Running
<1> QED
  BY <1>3, <1>4 DEF TurnInv

\* Every step preserves the invariant.
LEMMA TurnStep ==
    ASSUME SessionInv, PromptQuery, [Next]_vars
    PROVE  SessionInv'
<1>1. CASE CooldownExpires \/ UNCHANGED vars
  <2>1. UNCHANGED <<state, lockq, pc, turn, tstate, recorded, bills, cliq, cons>>
    BY <1>1 DEF CooldownExpires, TurnVars, Cli, vars
  <2>2. (Ending' <=> Ending) /\ (Expired' <=> Expired)
    BY <2>1 DEF Ending, Expired
  <2>3. TurnInv'
    BY <2>1, <2>2 DEF SessionInv, TurnInv, PromptStages, Closes, Histories, RecordedOnce,
       Turns, Handover, Free, Polls, Queries
  <2> QED
    BY <2>3, DataStep, LockStep DEF SessionInv
<1>2. TurnInv'
  BY <1>1, ConsumerKeepsTurns, GraceKeepsTurns, SendKeepsTurns, InterruptKeepsTurns,
     CloseKeepsTurns, CallbackKeepsTurns DEF Next, SessionInv
<1>3. LockInv' /\ DataTypes'
  BY DataStep, LockStep DEF SessionInv
<1> QED
  BY <1>2, <1>3 DEF SessionInv

\* The initial states satisfy it.
LEMMA TurnStart == ASSUME Init PROVE SessionInv
<1>1. LockInv /\ DataTypes
  BY LockStart, DataStart
<1>2. /\ state = "creating" /\ turn = NoTurn /\ lockq = <<>> /\ cons = "receiving"
      /\ pc = [p \in Tasks |-> "ready"] /\ bills = {} /\ cliq = <<>>
      /\ tstate = [s \in Senders |-> "none"] /\ recorded = [s \in Senders |-> 0]
  BY DEF Init
<1>3. PromptStages /\ Closes /\ Polls
  BY <1>2, Kinds DEF PromptStages, Closes, Ending, Polls
<1>4. Histories /\ Turns /\ Handover /\ Queries
  BY <1>2, Kinds DEF Histories, RecordedOnce, Turns, Handover, Free, Queries
<1> QED
  BY <1>1, <1>3, <1>4 DEF SessionInv, TurnInv

\* The session's invariant.
LEMMA TurnInvariance == ASSUME PromptQuery PROVE Spec => []SessionInv
<1>1. Init => SessionInv
  BY TurnStart
<1>2. SessionInv /\ [Next]_vars => SessionInv'
  BY TurnStep
<1> QED
  BY <1>1, <1>2, PTL DEF Spec

\* One turn at a time, until a close cancels the consumer.
THEOREM TurnsAlone == ASSUME PromptQuery PROVE Spec => []OneTurnAtATime
<1>1. SessionInv => OneTurnAtATime
  BY DEF SessionInv, TurnInv, Turns, OneTurnAtATime
<1> QED
  BY <1>1, TurnInvariance, PTL

\* A turn is charged for its own query, until an interrupt times out.
THEOREM BilledForOwn == ASSUME PromptQuery PROVE Spec => []BilledForOwnQuery
<1>1. SessionInv => BilledForOwnQuery
  BY DEF SessionInv, TurnInv, Queries, BilledForOwnQuery
<1> QED
  BY <1>1, TurnInvariance, PTL

\* A turn is recorded once, whoever comes first: its result or a close.
THEOREM HistoryHoldsOnce == ASSUME PromptQuery PROVE Spec => []RecordedOnce
<1>1. SessionInv => RecordedOnce
  BY DEF SessionInv, TurnInv, Histories
<1> QED
  BY <1>1, TurnInvariance, PTL
=============================================================================
