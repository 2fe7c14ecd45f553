---------------------------- MODULE Registry_proofs ----------------------------
(***************************************************************************)
(* Proofs about Registry, for every set of sessions, limit and number of   *)
(* crashes: the limit on live sessions, the reaper's consideration, and    *)
(* what meta.json says.                                                    *)
(***************************************************************************)
EXTENDS Registry, FiniteSetTheorems, TLAPS

\* A set of sessions that shrinks keeps within the limit.
LEMMA FewerOccupied ==
    ASSUME IndInv, Occupied' \subseteq Occupied
    PROVE  WithinLimit'
<1>1. Occupied \subseteq Sessions
  BY DEF IndInv, TypeOK, Occupied
<1>2. IsFiniteSet(Occupied)
  BY <1>1, FS_Subset, RegistryAssumption
<1>3. /\ IsFiniteSet(Occupied')
      /\ Cardinality(Occupied') <= Cardinality(Occupied)
  BY <1>2, FS_Subset
<1>4. Cardinality(Occupied) \in Nat /\ Cardinality(Occupied') \in Nat
  BY <1>2, <1>3, FS_CardinalityType
<1>5. Cardinality(Occupied) <= MaxSessions /\ MaxSessions \in Nat
  BY RegistryAssumption DEF IndInv, WithinLimit
<1> QED
  BY <1>3, <1>4, <1>5 DEF WithinLimit

\* Steps that make no call and change no state leave the registry as it was.
LEMMA RegistryStill ==
    ASSUME RegistryOK, UNCHANGED <<state, cpc, kpc>>, listed' \subseteq listed
    PROVE  RegistryOK'
<1>1. ASSUME NEW s \in Sessions, NEW t \in Sessions,
             cpc'[s] = "connecting", cpc'[t] = "connecting"
      PROVE  s = t
  BY <1>1 DEF RegistryOK
<1>2. ASSUME NEW s \in Sessions, cpc'[s] \in {"ready", "connecting"}
      PROVE  /\ s \notin listed' /\ state'[s] = "none"
             /\ \A k \in Closers : kpc'[s][k] = "ready"
  <2>1. /\ s \notin listed /\ state[s] = "none"
        /\ \A k \in Closers : kpc[s][k] = "ready"
    BY <1>2 DEF RegistryOK
  <2> QED
    BY <2>1
<1> QED
  BY <1>1, <1>2 DEF RegistryOK

\* Nor do steps of a session whose creation is past connect(), whatever state
\* they leave it in.
LEMMA RegistryMoves ==
    ASSUME RegistryOK, NEW s \in Sessions,
           cpc'[s] \notin {"ready", "connecting"},
           \A t \in Sessions \ {s} : /\ cpc'[t] = cpc[t] /\ state'[t] = state[t]
                                     /\ kpc'[t] = kpc[t]
                                     /\ t \in listed' => t \in listed
    PROVE  RegistryOK'
<1>1. ASSUME NEW t \in Sessions, NEW u \in Sessions,
             cpc'[t] = "connecting", cpc'[u] = "connecting"
      PROVE  t = u
  <2>1. t # s /\ u # s
    BY <1>1
  <2> QED
    BY <1>1, <2>1 DEF RegistryOK
<1>2. ASSUME NEW t \in Sessions, cpc'[t] \in {"ready", "connecting"}
      PROVE  /\ t \notin listed' /\ state'[t] = "none"
             /\ \A k \in Closers : kpc'[t][k] = "ready"
  <2>1. t # s /\ cpc[t] \in {"ready", "connecting"}
    BY <1>2
  <2>2. /\ t \notin listed /\ state[t] = "none"
        /\ \A k \in Closers : kpc[t][k] = "ready"
    BY <2>1 DEF RegistryOK
  <2> QED
    BY <2>1, <2>2
<1> QED
  BY <1>1, <1>2 DEF RegistryOK

\* A session with a state is one whose creation is past connect().
LEMMA RegistryTurns ==
    ASSUME RegistryOK, NEW s \in Sessions, UNCHANGED <<listed, cpc, kpc>>,
           \/ UNCHANGED state
           \/ /\ state[s] # "none"
              /\ \A t \in Sessions \ {s} : state'[t] = state[t]
    PROVE  RegistryOK'
<1>1. CASE UNCHANGED state
  BY <1>1, RegistryStill
<1>2. CASE state[s] # "none" /\ \A t \in Sessions \ {s} : state'[t] = state[t]
  <2>1. cpc[s] \notin {"ready", "connecting"}
    BY <1>2 DEF RegistryOK
  <2> QED
    BY <1>2, <2>1, RegistryMoves
<1> QED
  BY <1>1, <1>2

\* The initial states satisfy the invariant.
LEMMA InitInv == Init => IndInv
<1> SUFFICES ASSUME Init PROVE IndInv
  OBVIOUS
<1>1. TypeOK
  BY RegistryAssumption DEF Init, TypeOK, Live, Terminal, Nobody
<1>2. Occupied = {}
  BY DEF Init, Occupied
<1>3. WithinLimit
  BY <1>2, FS_EmptySet, RegistryAssumption DEF WithinLimit
<1> QED
  BY <1>1, <1>3 DEF IndInv, RegistryOK, ReaperSparesTurns, Init

\* The count under the registry's lock makes room for the session that will be
\* registered after connect().
LEMMA CreateKeeps ==
    ASSUME IndInv, NEW s \in Sessions, CreateNext(s)
    PROVE  IndInv'
<1> USE DEF IndInv
<1>1. CASE Create(s)
  <2>1. TypeOK'
    BY <1>1 DEF TypeOK, Create, Broker, Reaper
  <2>2. RegistryOK'
    <3>1. CASE cpc'[s] # "connecting"
      <4>1. /\ cpc'[s] \notin {"ready", "connecting"} /\ UNCHANGED <<kpc, state, listed>>
            /\ \A t \in Sessions \ {s} : cpc'[t] = cpc[t]
        BY <1>1, <3>1 DEF Create, TypeOK
      <4> QED
        BY <4>1, RegistryMoves
    <3>2. CASE cpc'[s] = "connecting"
      <4>1. /\ cpc[s] = "ready" /\ UNCHANGED <<kpc, state, listed>>
            /\ \A t \in Sessions \ {s} : cpc'[t] = cpc[t] /\ cpc[t] # "connecting"
        BY <1>1 DEF Create, TypeOK, RegistryLocked
      <4>2. \A t \in Sessions : cpc'[t] \in {"ready", "connecting"} =>
                                cpc[t] \in {"ready", "connecting"}
        BY <4>1
      <4>3. \A t \in Sessions : cpc'[t] = "connecting" => t = s
        BY <4>1
      <4>4. ASSUME NEW t \in Sessions, cpc'[t] \in {"ready", "connecting"}
            PROVE  /\ t \notin listed' /\ state'[t] = "none"
                   /\ \A k \in Closers : kpc'[t][k] = "ready"
        <5>1. /\ t \notin listed /\ state[t] = "none"
              /\ \A k \in Closers : kpc[t][k] = "ready"
          BY <4>2, <4>4 DEF RegistryOK
        <5> QED
          BY <4>1, <5>1
      <4> QED
        BY <4>3, <4>4 DEF RegistryOK
    <3> QED
      BY <3>1, <3>2
  <2>3. WithinLimit'
    <3>1. CASE cpc'[s] # "connecting"
      <4>1. Occupied' \subseteq Occupied
        BY <1>1, <3>1 DEF TypeOK, Create, Occupied
      <4> QED
        BY <4>1, FewerOccupied
    <3>2. CASE cpc'[s] = "connecting"
      <4> DEFINE L == {t \in listed : state[t] \notin Terminal}
      <4>1. Cardinality(L) < MaxSessions
        BY <1>1, <3>2 DEF TypeOK, Create, CountLive
      <4>2. Occupied' \subseteq L \cup {s}
        BY <1>1 DEF TypeOK, Create, Occupied, RegistryLocked, Live, Terminal
      <4>3. IsFiniteSet(L)
        <5>1. L \subseteq Sessions
          BY DEF TypeOK
        <5> QED
          BY <5>1, FS_Subset, RegistryAssumption
      <4>4. /\ IsFiniteSet(L \cup {s})
            /\ Cardinality(L \cup {s}) <= Cardinality(L) + 1
        BY <4>3, FS_AddElement, FS_CardinalityType
      <4>5. /\ IsFiniteSet(Occupied')
            /\ Cardinality(Occupied') <= Cardinality(L \cup {s})
        BY <4>2, <4>4, FS_Subset
      <4>6. /\ Cardinality(L) \in Nat /\ Cardinality(L \cup {s}) \in Nat
            /\ Cardinality(Occupied') \in Nat
        BY <4>3, <4>4, <4>5, FS_CardinalityType
      <4> HIDE DEF L
      <4> QED
        BY <4>1, <4>4, <4>5, <4>6, RegistryAssumption DEF WithinLimit
    <3> QED
      BY <3>1, <3>2
  <2>4. ReaperSparesTurns'
    BY <1>1 DEF Create, Reaper, ReaperSparesTurns
  <2> QED
    BY <2>1, <2>2, <2>3, <2>4
<1>2. CASE Connected(s)
  <2>1. TypeOK'
    BY <1>2 DEF TypeOK, Connected, Moves, WritesMeta, Broker, Reaper, Live, Terminal
  <2>2. RegistryOK'
    <3>1. /\ cpc'[s] = "waiting" /\ UNCHANGED kpc /\ listed' = listed \cup {s}
          /\ \A t \in Sessions \ {s} : cpc'[t] = cpc[t] /\ state'[t] = state[t]
      BY <1>2 DEF TypeOK, Connected, Moves
    <3> QED
      BY <3>1, RegistryMoves
  <2>3. Occupied' \subseteq Occupied
    <3>1. s \notin listed
      BY <1>2 DEF Connected, RegistryOK
    <3> QED
      BY <1>2, <3>1 DEF TypeOK, Connected, Moves, Occupied
  <2>4. ReaperSparesTurns'
    BY <1>2 DEF TypeOK, Connected, Moves, Reaper, ReaperSparesTurns, RegistryOK
  <2> QED
    BY <2>1, <2>2, <2>3, <2>4, FewerOccupied
<1>3. CASE ConnectFails(s) \/ Created(s)
  <2>1. TypeOK'
    BY <1>3 DEF TypeOK, ConnectFails, Created, Broker, Reaper
  <2>2. RegistryOK'
    <3>1. /\ cpc'[s] = "over" /\ UNCHANGED <<kpc, state, listed>>
          /\ \A t \in Sessions \ {s} : cpc'[t] = cpc[t]
      BY <1>3 DEF TypeOK, ConnectFails, Created
    <3> QED
      BY <3>1, RegistryMoves
  <2>3. Occupied' \subseteq Occupied
    BY <1>3 DEF TypeOK, ConnectFails, Created, Occupied
  <2>4. ReaperSparesTurns'
    <3>1. UNCHANGED <<state, inTurn, visiting>>
      BY <1>3 DEF ConnectFails, Created, Reaper
    <3> QED
      BY <3>1 DEF ReaperSparesTurns
  <2> QED
    BY <2>1, <2>2, <2>3, <2>4, FewerOccupied
<1>4. CASE GraceEnds(s)
  <2>1. TypeOK'
    BY <1>4 DEF TypeOK, GraceEnds, Moves, Broker, Reaper, Live, Terminal
  <2>2. RegistryOK'
    <3>1. /\ cpc'[s] = "over" /\ UNCHANGED <<kpc, listed>>
          /\ \A t \in Sessions \ {s} : cpc'[t] = cpc[t] /\ state'[t] = state[t]
      BY <1>4 DEF TypeOK, GraceEnds, Moves
    <3> QED
      BY <3>1, RegistryMoves
  <2>3. Occupied' \subseteq Occupied
    BY <1>4 DEF TypeOK, GraceEnds, Moves, Occupied, Live
  <2>4. ReaperSparesTurns'
    BY <1>4 DEF TypeOK, GraceEnds, Moves, Reaper, ReaperSparesTurns, Unlocked
  <2> QED
    BY <2>1, <2>2, <2>3, <2>4, FewerOccupied
<1> QED
  BY <1>1, <1>2, <1>3, <1>4 DEF CreateNext

\* A live session is one the registry counts already; its transitions take the
\* lock, so the session the reaper holds makes none.
LEMMA TurnKeeps ==
    ASSUME IndInv, NEW s \in Sessions, TurnNext(s)
    PROVE  IndInv'
<1> USE DEF IndInv
<1>1. CASE InitMessage(s)
  <2>1. TypeOK'
    BY <1>1 DEF TypeOK, InitMessage, Moves, WritesMeta, Broker, Reaper, Calls, Live, Terminal
  <2>2. RegistryOK'
    BY <1>1, RegistryTurns DEF InitMessage, Moves, Calls, TypeOK, Live
  <2>3. Occupied' \subseteq Occupied
    BY <1>1 DEF TypeOK, InitMessage, Moves, WritesMeta, Calls, Occupied, Live, Terminal
  <2>4. ReaperSparesTurns'
    BY <1>1 DEF TypeOK, InitMessage, Moves, WritesMeta, Reaper, ReaperSparesTurns, Unlocked, Live
  <2> QED
    BY <2>1, <2>2, <2>3, <2>4, FewerOccupied
<1>2. CASE Send(s)
  <2>1. TypeOK'
    BY <1>2 DEF TypeOK, Send, Moves, Broker, Reaper, Calls, Live, Terminal
  <2>2. RegistryOK'
    BY <1>2, RegistryTurns DEF Send, Moves, Calls, TypeOK, Live
  <2>3. Occupied' \subseteq Occupied
    BY <1>2 DEF TypeOK, Send, Moves, Calls, Occupied, Live, Terminal
  <2>4. ReaperSparesTurns'
    BY <1>2 DEF TypeOK, Send, Moves, Reaper, ReaperSparesTurns, Unlocked, Live
  <2> QED
    BY <2>1, <2>2, <2>3, <2>4, FewerOccupied
<1>3. CASE Result(s)
  <2>1. TypeOK'
    BY <1>3 DEF TypeOK, Result, Moves, WritesMeta, Broker, Reaper, Calls, Live, Terminal
  <2>2. RegistryOK'
    BY <1>3, RegistryTurns DEF Result, Moves, Calls, TypeOK, Live
  <2>3. Occupied' \subseteq Occupied
    BY <1>3 DEF TypeOK, Result, Moves, WritesMeta, Calls, Occupied, Live, Terminal
  <2>4. ReaperSparesTurns'
    BY <1>3 DEF TypeOK, Result, Moves, WritesMeta, Reaper, ReaperSparesTurns, Unlocked, Live
  <2> QED
    BY <2>1, <2>2, <2>3, <2>4, FewerOccupied
<1>4. CASE StreamEnds(s)
  <2>1. TypeOK'
    BY <1>4 DEF TypeOK, StreamEnds, Moves, Broker, Reaper, Calls, Live, Terminal
  <2>2. RegistryOK'
    BY <1>4, RegistryTurns DEF StreamEnds, Moves, Calls, TypeOK, Live
  <2>3. Occupied' \subseteq Occupied
    BY <1>4 DEF TypeOK, StreamEnds, Moves, Calls, Occupied, Live, Terminal
  <2>4. ReaperSparesTurns'
    BY <1>4 DEF TypeOK, StreamEnds, Moves, Reaper, ReaperSparesTurns, Unlocked, Live
  <2> QED
    BY <2>1, <2>2, <2>3, <2>4, FewerOccupied
<1>5. CASE RateLimited(s)
  <2>1. TypeOK'
    BY <1>5 DEF TypeOK, RateLimited, Moves, Broker, Reaper, Calls, Live, Terminal
  <2>2. RegistryOK'
    BY <1>5, RegistryTurns DEF RateLimited, Moves, Calls, TypeOK, Live
  <2>3. Occupied' \subseteq Occupied
    BY <1>5 DEF TypeOK, RateLimited, Moves, Calls, Occupied, Live, Terminal
  <2>4. ReaperSparesTurns'
    BY <1>5 DEF TypeOK, RateLimited, Moves, Reaper, ReaperSparesTurns, Unlocked, Live
  <2> QED
    BY <2>1, <2>2, <2>3, <2>4, FewerOccupied
<1>6. CASE Fails(s)
  <2>1. TypeOK'
    BY <1>6 DEF TypeOK, Fails, Moves, Broker, Reaper, Calls, Live, Terminal
  <2>2. RegistryOK'
    BY <1>6, RegistryTurns DEF Fails, Moves, Calls, TypeOK, Live
  <2>3. Occupied' \subseteq Occupied
    BY <1>6 DEF TypeOK, Fails, Moves, Calls, Occupied, Live, Terminal
  <2>4. ReaperSparesTurns'
    BY <1>6 DEF TypeOK, Fails, Moves, Reaper, ReaperSparesTurns, Unlocked, Live
  <2> QED
    BY <2>1, <2>2, <2>3, <2>4, FewerOccupied
<1>7. CASE Revives(s)
  <2>1. TypeOK'
    BY <1>7 DEF TypeOK, Revives, Moves, Broker, Reaper, Calls, Live, Terminal
  <2>2. RegistryOK'
    BY <1>7, RegistryTurns DEF Revives, Moves, Calls, TypeOK, Live
  <2>3. Occupied' \subseteq Occupied
    BY <1>7 DEF TypeOK, Revives, Moves, Calls, Occupied, Live, Terminal
  <2>4. ReaperSparesTurns'
    BY <1>7 DEF TypeOK, Revives, Moves, Reaper, ReaperSparesTurns, Unlocked, Live
  <2> QED
    BY <2>1, <2>2, <2>3, <2>4, FewerOccupied
<1> QED
  BY <1>1, <1>2, <1>3, <1>4, <1>5, <1>6, <1>7 DEF TurnNext

\* A close makes room.
LEMMA CloseKeeps ==
    ASSUME IndInv, NEW s \in Sessions, CloseNext(s) \/ Ages(s)
    PROVE  IndInv'
<1> USE DEF IndInv
<1>1. ASSUME NEW k \in Closers, Close(s, k) PROVE IndInv'
  <2>1. TypeOK'
    <3>1. PICK stage \in {"disconnecting", "over"} :
             kpc' = [kpc EXCEPT ![s][k] = stage]
      BY <1>1 DEF Close
    <3>2. kpc' \in [Sessions ->
                [Closers -> {"ready", "disconnecting", "wants lock", "over"}]]
      BY <3>1 DEF TypeOK
    <3>3. inTurn' \subseteq inTurn /\ consuming' \subseteq consuming
      BY <1>1 DEF Close
    <3> QED
      BY <1>1, <3>2, <3>3 DEF TypeOK, Close, Broker, Reaper
  <2>2. RegistryOK'
    <3>1. /\ cpc[s] \notin {"ready", "connecting"}
          /\ UNCHANGED <<cpc, state, listed>>
      BY <1>1 DEF Close, RegistryOK
    <3>2. \A t \in Sessions \ {s} : kpc'[t] = kpc[t]
      BY <1>1 DEF Close, TypeOK
    <3> QED
      BY <3>1, <3>2, RegistryMoves
  <2>3. Occupied' \subseteq Occupied
    BY <1>1 DEF TypeOK, Close, Occupied, Live, Terminal
  <2>4. ReaperSparesTurns'
    BY <1>1 DEF TypeOK, Close, Reaper, ReaperSparesTurns, Unlocked
  <2> QED
    BY <2>1, <2>2, <2>3, <2>4, FewerOccupied
<1>2. ASSUME NEW k \in Closers, Disconnected(s, k) PROVE IndInv'
  <2>1. TypeOK'
    BY <1>2 DEF TypeOK, Disconnected, Broker, Reaper, Live, Terminal
  <2>2. RegistryOK'
    <3>1. /\ cpc[s] \notin {"ready", "connecting"}
          /\ UNCHANGED <<cpc, state, listed>>
      BY <1>2 DEF Disconnected, RegistryOK
    <3>2. \A t \in Sessions \ {s} : kpc'[t] = kpc[t]
      BY <1>2 DEF Disconnected, TypeOK
    <3> QED
      BY <3>1, <3>2, RegistryMoves
  <2>3. Occupied' \subseteq Occupied
    BY <1>2 DEF TypeOK, Disconnected, Occupied, Live, Terminal
  <2>4. ReaperSparesTurns'
    BY <1>2 DEF TypeOK, Disconnected, Reaper, ReaperSparesTurns, Unlocked
  <2> QED
    BY <2>1, <2>2, <2>3, <2>4, FewerOccupied
<1>3. ASSUME NEW k \in Closers, CloseLocked(s, k) PROVE IndInv'
  <2>1. TypeOK'
    BY <1>3 DEF TypeOK, CloseLocked, Moves, WritesMeta, Broker, Reaper, Live, Terminal
  <2>2. RegistryOK'
    <3>1. cpc[s] \notin {"ready", "connecting"} /\ UNCHANGED <<cpc, listed>>
      BY <1>3 DEF CloseLocked, RegistryOK
    <3>2. \A t \in Sessions \ {s} : kpc'[t] = kpc[t] /\ state'[t] = state[t]
      BY <1>3 DEF CloseLocked, Moves, TypeOK
    <3> QED
      BY <3>1, <3>2, RegistryMoves
  <2>3. Occupied' \subseteq Occupied
    BY <1>3 DEF TypeOK, CloseLocked, Moves, WritesMeta, Occupied, Live, Terminal
  <2>4. ReaperSparesTurns'
    BY <1>3 DEF TypeOK, CloseLocked, Moves, WritesMeta, Reaper, ReaperSparesTurns, Unlocked
  <2> QED
    BY <2>1, <2>2, <2>3, <2>4, FewerOccupied
<1>4. CASE Ages(s)
  <2>1. TypeOK'
    BY <1>4 DEF TypeOK, Ages, Broker, Reaper, Calls, Live, Terminal
  <2>2. RegistryOK'
    BY <1>4, RegistryStill DEF Ages, Calls
  <2>3. Occupied' \subseteq Occupied
    BY <1>4 DEF TypeOK, Ages, Calls, Occupied, Live, Terminal
  <2>4. ReaperSparesTurns'
    BY <1>4 DEF TypeOK, Ages, Reaper, ReaperSparesTurns, Unlocked
  <2> QED
    BY <2>1, <2>2, <2>3, <2>4, FewerOccupied
<1> QED
  BY <1>1, <1>2, <1>3, <1>4 DEF CloseNext

\* The reaper takes a session it has seen to be idle, or drops an ended one.
LEMMA ReaperKeeps ==
    ASSUME IndInv, ReaperNext
    PROVE  IndInv'
<1> USE DEF IndInv
<1>1. CASE Wakes
  <2>1. TypeOK'
    BY <1>1 DEF TypeOK, Wakes, Broker, Reaper, Calls, Live, Terminal
  <2>2. RegistryOK'
    BY <1>1, RegistryStill DEF Wakes, Calls
  <2>3. Occupied' \subseteq Occupied
    BY <1>1 DEF TypeOK, Wakes, Calls, Occupied, Live, Terminal
  <2>4. ReaperSparesTurns'
    BY <1>1 DEF TypeOK, Wakes, Reaper, ReaperSparesTurns, Unlocked
  <2> QED
    BY <2>1, <2>2, <2>3, <2>4, FewerOccupied
<1>2. CASE \E s \in Sessions : Visits(s)
  <2>1. TypeOK'
    BY <1>2 DEF TypeOK, Visits, Broker, Reaper, Calls, Live, Terminal
  <2>2. RegistryOK'
    BY <1>2, RegistryStill DEF Visits, Calls
  <2>3. Occupied' \subseteq Occupied
    BY <1>2 DEF TypeOK, Visits, Calls, Occupied, Live, Terminal
  <2>4. ReaperSparesTurns'
    BY <1>2 DEF TypeOK, Visits, Reaper, ReaperSparesTurns, Unlocked
  <2> QED
    BY <2>1, <2>2, <2>3, <2>4, FewerOccupied
<1>3. CASE \E s \in Sessions : Reaps(s)
  <2>1. TypeOK'
    BY <1>3 DEF TypeOK, Reaps, Broker, Reaper, Calls, Live, Terminal
  <2>2. RegistryOK'
    BY <1>3, RegistryStill DEF Reaps, Calls
  <2>3. Occupied' \subseteq Occupied
    BY <1>3 DEF TypeOK, Reaps, Calls, Occupied, Live, Terminal
  <2>4. ReaperSparesTurns'
    BY <1>3 DEF TypeOK, Reaps, Reaper, ReaperSparesTurns, Unlocked
  <2> QED
    BY <2>1, <2>2, <2>3, <2>4, FewerOccupied
<1>4. CASE \E s \in Sessions : ReapDisconnects(s)
  <2>1. TypeOK'
    BY <1>4 DEF TypeOK, ReapDisconnects, Broker, Reaper, Calls, Live, Terminal
  <2>2. RegistryOK'
    BY <1>4, RegistryStill DEF ReapDisconnects, Calls
  <2>3. Occupied' \subseteq Occupied
    BY <1>4 DEF TypeOK, ReapDisconnects, Calls, Occupied, Live, Terminal
  <2>4. ReaperSparesTurns'
    BY <1>4 DEF TypeOK, ReapDisconnects, Reaper, ReaperSparesTurns, Unlocked
  <2> QED
    BY <2>1, <2>2, <2>3, <2>4, FewerOccupied
<1> QED
  BY <1>1, <1>2, <1>3, <1>4 DEF ReaperNext

\* A crash empties the registry; a restart only rewrites files.
LEMMA BrokerKeeps ==
    ASSUME IndInv, Crash \/ Restart \/ RestartFails \/ RestartDies
    PROVE  IndInv'
<1> USE DEF IndInv
<1>1. CASE Crash
  <2>1. TypeOK'
    <3>1. crashes \in 0..MaxCrashes /\ crashes < MaxCrashes /\ crashes' = crashes + 1
      BY <1>1 DEF Crash, Dies, TypeOK
    <3>2. up' \in BOOLEAN /\ crashes' \in 0..MaxCrashes
      <4>1. crashes' \in 0..MaxCrashes
        BY <3>1, RegistryAssumption
      <4>2. up' \in BOOLEAN
        BY <1>1, Zenon DEF Crash, Dies
      <4> QED
        BY <4>1, <4>2
    <3>3. /\ state' \in [Sessions -> Live \cup Terminal \cup {"none"}]
          /\ cpc' \in [Sessions -> {"ready", "connecting", "waiting", "over"}]
          /\ kpc' \in [Sessions ->
                [Closers -> {"ready", "disconnecting", "wants lock", "over"}]]
      BY <1>1 DEF Crash, Dies, Lost
    <3>4. meta' \in [Sessions -> Terminal \cup {"live", "none", "torn"}]
      BY <1>1 DEF Crash, TypeOK
    <3>5. /\ listed' = {} /\ inTurn' = {} /\ consuming' = {} /\ connected' = {}
          /\ stale' = {} /\ revived' = {} /\ todo' = {} /\ visiting' = Nobody
      BY <1>1 DEF Crash, Dies
    <3> QED
      BY <3>2, <3>3, <3>4, <3>5 DEF TypeOK
  <2>2. RegistryOK'
    BY <1>1 DEF TypeOK, Crash, Dies, Lost, Calls, RegistryOK, Live, Terminal, Nobody
  <2>3. Occupied' \subseteq Occupied
    BY <1>1 DEF TypeOK, Crash, Dies, Lost, Calls, Occupied, Live, Terminal, Nobody
  <2>4. ReaperSparesTurns'
    BY <1>1 DEF TypeOK, Crash, Dies, Lost, Reaper, ReaperSparesTurns, Unlocked, Nobody
  <2> QED
    BY <2>1, <2>2, <2>3, <2>4, FewerOccupied
<1>2. CASE Restart \/ RestartFails \/ RestartDies
  <2>1. TypeOK'
    <3>1. meta' \in [Sessions -> Terminal \cup {"live", "none", "torn"}]
      <4>1. ASSUME NEW S \in SUBSET Sessions
            PROVE  Recovered(S) \in [Sessions -> Terminal \cup {"live", "none", "torn"}]
        BY DEF TypeOK, Recovered, Terminal
      <4> QED
        BY <1>2, <4>1 DEF Restart, RestartFails, RestartDies
    <3>2. up' \in BOOLEAN /\ UNCHANGED <<crashes, state, listed, inTurn, consuming,
                                        connected, stale, revived, cpc, kpc, todo, visiting>>
      BY <1>2 DEF TypeOK, Restart, RestartFails, RestartDies, Broker, Reaper, Calls
    <3> QED
      BY <3>1, <3>2 DEF TypeOK
  <2>2. RegistryOK'
    BY <1>2, RegistryStill DEF Restart, RestartFails, RestartDies, Calls
  <2>3. Occupied' \subseteq Occupied
    BY <1>2 DEF TypeOK, Restart, RestartFails, RestartDies, Calls, Occupied, Live, Terminal
  <2>4. ReaperSparesTurns'
    BY <1>2 DEF TypeOK, Restart, RestartFails, RestartDies, Reaper, ReaperSparesTurns, Unlocked
  <2> QED
    BY <2>1, <2>2, <2>3, <2>4, FewerOccupied
<1> QED
  BY <1>1, <1>2

\* Every step preserves the invariant.
LEMMA StepInv == IndInv /\ [Next]_vars => IndInv'
<1> SUFFICES ASSUME IndInv, [Next]_vars PROVE IndInv'
  OBVIOUS
<1>1. ASSUME NEW s \in Sessions, CreateNext(s) PROVE IndInv'
  BY <1>1, CreateKeeps
<1>2. ASSUME NEW s \in Sessions, TurnNext(s) PROVE IndInv'
  BY <1>2, TurnKeeps
<1>3. ASSUME NEW s \in Sessions, CloseNext(s) \/ Ages(s) PROVE IndInv'
  BY <1>3, CloseKeeps
<1>4. CASE ReaperNext
  BY <1>4, ReaperKeeps
<1>5. CASE Crash \/ Restart \/ RestartFails \/ RestartDies
  BY <1>5, BrokerKeeps
<1>6. CASE UNCHANGED vars
  <2>1. TypeOK' /\ ReaperSparesTurns'
    BY <1>6 DEF vars, IndInv, TypeOK, ReaperSparesTurns
  <2>0. RegistryOK'
    BY <1>6, RegistryStill DEF vars, IndInv
  <2>2. Occupied' \subseteq Occupied
    BY <1>6 DEF vars, Occupied
  <2> QED
    BY <2>0, <2>1, <2>2, FewerOccupied DEF IndInv
<1> QED
  BY <1>1, <1>2, <1>3, <1>4, <1>5, <1>6 DEF Next

\* The inductive invariant holds in every reachable state.
THEOREM RegistryInvariance == Spec => []IndInv
<1> QED
  BY InitInv, StepInv, PTL DEF Spec

\* BROKER_MAX_SESSIONS is a hard cap on sessions that are live or about to be,
\* except for those that come back from ERROR.
THEOREM CapHolds == Spec => []WithinLimit
<1>1. IndInv => WithinLimit
  BY DEF IndInv
<1> QED
  BY <1>1, RegistryInvariance, PTL

\* The session the reaper is closing has no turn and gets none.
THEOREM ReaperIsConsiderate == Spec => []ReaperSparesTurns
<1>1. IndInv => ReaperSparesTurns
  BY DEF IndInv
<1> QED
  BY <1>1, RegistryInvariance, PTL

----------------------------------------------------------------------------
(* What is on disk. *)

\* A close of s has begun, or is over.
SomeCalled(s) == \E k \in Closers : kpc[s][k] # "ready"
SomeOver(s) == \E k \in Closers : kpc[s][k] = "over"

\* Nobody but another close is left to write the meta.json of a session that is
\* closed: its consumer ended before the first came to disconnect, and its
\* create_session() long before that.
DiskInv ==
    /\ DiskIsHonest
    /\ \A s \in Sessions :
          /\ cpc[s] \in {"ready", "connecting"} => meta[s] = "none" /\ s \notin consuming
          /\ SomeCalled(s) => s \notin consuming
          /\ state[s] = "closed" \/ meta[s] = "closed" => SomeOver(s)

LEMMA InitDisk == Init => DiskInv
BY DEF Init, DiskInv, DiskIsHonest, SomeCalled

\* Closes that stay where they are.
LEMMA CallsStay ==
    ASSUME UNCHANGED kpc
    PROVE  \A s \in Sessions : /\ SomeCalled(s)' => SomeCalled(s)
                               /\ SomeOver(s) => SomeOver(s)'
BY DEF SomeCalled, SomeOver

LEMMA OverIsCalled == \A s \in Sessions : SomeOver(s) => SomeCalled(s)
BY DEF SomeCalled, SomeOver

\* Steps that do not touch what the invariant is about, but move a session
\* among the states other than CLOSED.
LEMMA MoveKeepsDisk ==
    ASSUME IndInv, DiskInv, NEW s \in Sessions, NEW new \in Live \cup {"error"},
           Moves(s, new), state[s] \notin {"none", "closed"},
           consuming' \subseteq consuming, UNCHANGED <<up, cpc, kpc, meta>>
    PROVE  DiskInv'
<1>1. /\ state \in [Sessions -> Live \cup Terminal \cup {"none"}]
      /\ state' = [state EXCEPT ![s] = new] /\ new \notin {"none", "closed"}
  BY DEF IndInv, TypeOK, Moves, Live
<1>2. \A t \in Sessions : /\ state'[t] = "closed" => state[t] = "closed"
                          /\ state[t] # "none" => state'[t] # "none"
  BY <1>1
<1> QED
  BY <1>2, CallsStay DEF DiskInv, DiskIsHonest

\* Steps that move no session at all.
LEMMA StillKeepsDisk ==
    ASSUME DiskInv, UNCHANGED <<up, state, meta, kpc>>,
           consuming' \subseteq consuming,
           \A t \in Sessions : cpc'[t] \in {"ready", "connecting"} =>
                               cpc[t] \in {"ready", "connecting"}
    PROVE  DiskInv'
BY CallsStay DEF DiskInv, DiskIsHonest

\* Steps that write the meta.json of a session that has not been closed.
LEMMA WriteKeepsDisk ==
    ASSUME IndInv, DiskInv, NEW s \in Sessions, ~SomeCalled(s),
           WritesMeta(s), UNCHANGED <<up, kpc>>,
           cpc'[s] \notin {"ready", "connecting"},
           \A t \in Sessions \ {s} : /\ cpc'[t] = cpc[t] /\ state'[t] = state[t]
                                     /\ t \in consuming' => t \in consuming,
           state'[s] # "closed"
    PROVE  DiskInv'
<1>1. meta \in [Sessions -> Terminal \cup {"live", "none", "torn"}]
  BY DEF IndInv, TypeOK
<1>2. /\ meta'[s] # "closed"
      /\ \A t \in Sessions \ {s} : meta'[t] = meta[t]
  BY <1>1 DEF WritesMeta, Live
<1>3. DiskIsHonest'
  <2>1. meta'[s] = "live" => state'[s] # "none"
    BY <1>1 DEF WritesMeta, Live
  <2> QED
    BY <1>2, <2>1 DEF DiskInv, DiskIsHonest
<1>5. ASSUME NEW t \in Sessions
      PROVE  /\ cpc'[t] \in {"ready", "connecting"} =>
                     meta'[t] = "none" /\ t \notin consuming'
             /\ SomeCalled(t)' => t \notin consuming'
             /\ state'[t] = "closed" \/ meta'[t] = "closed" => SomeOver(t)'
  <2>1. CASE t = s
    BY <1>2, <2>1, CallsStay
  <2>2. CASE t # s
    BY <1>2, <2>2, CallsStay DEF DiskInv
  <2> QED
    BY <2>1, <2>2
<1> QED
  BY <1>3, <1>5 DEF DiskInv

LEMMA CreateKeepsDisk ==
    ASSUME IndInv, DiskInv, NEW s \in Sessions, CreateNext(s)
    PROVE  DiskInv'
<1> /\ cpc \in [Sessions -> {"ready", "connecting", "waiting", "over"}]
    /\ state \in [Sessions -> Live \cup Terminal \cup {"none"}]
    /\ consuming \subseteq Sessions
  BY DEF IndInv, TypeOK
<1>1. CASE Create(s) \/ ConnectFails(s) \/ Created(s)
  <2>1. UNCHANGED <<up, state, consuming, meta, kpc>>
    BY <1>1 DEF Create, ConnectFails, Created, Broker
  <2>2. \A t \in Sessions : cpc'[t] \in {"ready", "connecting"} =>
                            cpc[t] \in {"ready", "connecting"}
    BY <1>1 DEF Create, ConnectFails, Created
  <2> QED
    BY <2>1, <2>2, StillKeepsDisk
<1>2. CASE Connected(s)
  <2>1. ~SomeCalled(s)
    BY <1>2 DEF Connected, IndInv, RegistryOK, SomeCalled
  <2>2. /\ cpc' = [cpc EXCEPT ![s] = "waiting"] /\ UNCHANGED <<up, kpc>>
        /\ state' = [state EXCEPT ![s] = "creating"]
        /\ WritesMeta(s) /\ consuming' = consuming \cup {s}
    BY <1>2 DEF Connected, Moves, Broker
  <2>3. state'[s] # "closed" /\ cpc'[s] \notin {"ready", "connecting"}
    BY <2>2
  <2>4. \A t \in Sessions \ {s} : /\ cpc'[t] = cpc[t] /\ state'[t] = state[t]
                                  /\ t \in consuming' => t \in consuming
    BY <2>2
  <2> QED
    BY <2>1, <2>2, <2>3, <2>4, WriteKeepsDisk
<1>3. CASE GraceEnds(s)
  <2>1. \A t \in Sessions : /\ state'[t] = "closed" => state[t] = "closed"
                            /\ state[t] # "none" => state'[t] # "none"
                            /\ cpc'[t] \in {"ready", "connecting"} =>
                                  cpc[t] \in {"ready", "connecting"}
    BY <1>3 DEF GraceEnds, Moves
  <2>2. UNCHANGED <<up, meta, consuming, kpc>>
    BY <1>3 DEF GraceEnds, Broker
  <2> QED
    BY <2>1, <2>2, CallsStay DEF DiskInv, DiskIsHonest
<1> QED
  BY <1>1, <1>2, <1>3 DEF CreateNext

\* The consumer is alive only until a close begins.
LEMMA TurnKeepsDisk ==
    ASSUME IndInv, DiskInv, NEW s \in Sessions, TurnNext(s)
    PROVE  DiskInv'
<1> state \in [Sessions -> Live \cup Terminal \cup {"none"}]
  BY DEF IndInv, TypeOK
<1>1. CASE InitMessage(s) \/ Result(s)
  <2>1. /\ s \in consuming /\ WritesMeta(s)
        /\ UNCHANGED <<up, cpc, kpc, consuming>>
        /\ state' = [state EXCEPT ![s] = "idle"] \/ UNCHANGED state
    BY <1>1 DEF InitMessage, Result, Moves, Broker, Calls
  <2>2. ~SomeCalled(s) /\ cpc[s] \notin {"ready", "connecting"}
    BY <2>1 DEF DiskInv
  <2>3. state[s] # "closed"
    BY <2>2, OverIsCalled DEF DiskInv
  <2>4. /\ state'[s] # "closed"
        /\ \A t \in Sessions \ {s} : state'[t] = state[t]
    BY <2>1, <2>3
  <2> QED
    BY <2>1, <2>2, <2>4, WriteKeepsDisk
<1>3. CASE Send(s)
  BY <1>3, MoveKeepsDisk DEF Send, Broker, Calls, Live
<1>4. CASE StreamEnds(s)
  <2>1. CASE state[s] = "running"
    BY <1>4, <2>1, MoveKeepsDisk DEF StreamEnds, Broker, Calls, Live
  <2>2. CASE state[s] # "running"
    BY <1>4, <2>2, StillKeepsDisk DEF StreamEnds, Broker, Calls
  <2> QED
    BY <2>1, <2>2
<1>5. CASE RateLimited(s)
  BY <1>5, MoveKeepsDisk DEF RateLimited, Broker, Calls, Live
<1>6. CASE Fails(s)
  BY <1>6, MoveKeepsDisk DEF Fails, Broker, Calls, Live
<1>7. CASE Revives(s)
  BY <1>7, MoveKeepsDisk DEF Revives, Broker, Calls, Live
<1> QED
  BY <1>1, <1>3, <1>4, <1>5, <1>6, <1>7 DEF TurnNext

\* A close takes no step back, and ends the consumer first.
LEMMA CallKeepsDisk ==
    ASSUME IndInv, DiskInv, NEW s \in Sessions, NEW k \in Closers,
           NEW stage \in {"disconnecting", "wants lock", "over"},
           kpc[s][k] # "over", kpc' = [kpc EXCEPT ![s][k] = stage],
           consuming' \subseteq consuming \ {s}, UNCHANGED <<up, cpc>>,
           \/ UNCHANGED <<state, meta>>
           \/ /\ stage = "over" /\ cpc[s] \notin {"ready", "connecting"}
              /\ state' = [state EXCEPT ![s] = "closed"]
              /\ meta' = meta \/ meta' = [meta EXCEPT ![s] = "closed"]
    PROVE  DiskInv'
<1>1. /\ kpc \in [Sessions ->
                [Closers -> {"ready", "disconnecting", "wants lock", "over"}]]
      /\ state \in [Sessions -> Live \cup Terminal \cup {"none"}]
      /\ meta \in [Sessions -> Terminal \cup {"live", "none", "torn"}]
  BY DEF IndInv, TypeOK
<1>2. /\ kpc'[s][k] = stage
      /\ \A t \in Sessions : \A j \in Closers :
            t # s \/ j # k => kpc'[t][j] = kpc[t][j]
  BY <1>1
<1>3. \A t \in Sessions \ {s} : state'[t] = state[t] /\ meta'[t] = meta[t]
  BY <1>1
<1>4. \A t \in Sessions \ {s} : SomeCalled(t)' => SomeCalled(t)
  BY <1>2 DEF SomeCalled
<1>5. \A t \in Sessions : SomeOver(t) => SomeOver(t)'
  BY <1>2 DEF SomeOver
<1>6. stage = "over" => SomeOver(s)'
  BY <1>2 DEF SomeOver
<1>7. DiskIsHonest'
  <2>1. \A t \in Sessions : /\ meta'[t] = "live" => meta[t] = "live"
                            /\ state[t] # "none" => state'[t] # "none"
    BY <1>1
  <2> QED
    BY <2>1 DEF DiskInv, DiskIsHonest
<1>8. ASSUME NEW t \in Sessions
      PROVE  /\ cpc'[t] \in {"ready", "connecting"} =>
                     meta'[t] = "none" /\ t \notin consuming'
             /\ SomeCalled(t)' => t \notin consuming'
             /\ state'[t] = "closed" \/ meta'[t] = "closed" => SomeOver(t)'
  <2>1. CASE t # s
    BY <1>3, <1>4, <1>5, <2>1 DEF DiskInv
  <2>2. CASE t = s
    <3>1. cpc'[s] \in {"ready", "connecting"} => meta'[s] = "none"
      BY DEF DiskInv
    <3>2. state'[s] = "closed" \/ meta'[s] = "closed" => SomeOver(s)'
      BY <1>5, <1>6 DEF DiskInv
    <3> QED
      BY <2>2, <3>1, <3>2
  <2> QED
    BY <2>1, <2>2
<1> QED
  BY <1>7, <1>8 DEF DiskInv

LEMMA CloseKeepsDisk ==
    ASSUME IndInv, DiskInv, NEW s \in Sessions, CloseNext(s)
    PROVE  DiskInv'
<1>1. ASSUME NEW k \in Closers, Close(s, k) PROVE DiskInv'
  <2>1. kpc[s][k] = "ready" /\ UNCHANGED <<up, cpc, state, meta>>
    BY <1>1 DEF Close, Broker
  <2>2. CASE state[s] = "closed"
    <3>1. kpc' = [kpc EXCEPT ![s][k] = "over"] /\ consuming' = consuming
      BY <1>1, <2>2 DEF Close
    <3>2. s \notin consuming
      BY <2>2, OverIsCalled DEF DiskInv
    <3> QED
      BY <2>1, <3>1, <3>2, CallKeepsDisk
  <2>3. CASE state[s] # "closed"
    <3>1. /\ kpc' = [kpc EXCEPT ![s][k] = "disconnecting"]
          /\ consuming' = consuming \ {s}
      BY <1>1, <2>3 DEF Close
    <3> QED
      BY <2>1, <3>1, CallKeepsDisk
  <2> QED
    BY <2>2, <2>3
<1>2. ASSUME NEW k \in Closers, Disconnected(s, k) PROVE DiskInv'
  <2>1. s \notin consuming
    BY <1>2 DEF Disconnected, DiskInv, SomeCalled
  <2> QED
    BY <1>2, <2>1, CallKeepsDisk DEF Disconnected, Broker
<1>3. ASSUME NEW k \in Closers, CloseLocked(s, k) PROVE DiskInv'
  <2>1. s \notin consuming /\ cpc[s] \notin {"ready", "connecting"}
    BY <1>3 DEF CloseLocked, DiskInv, SomeCalled, IndInv, RegistryOK
  <2>2. /\ state' = [state EXCEPT ![s] = "closed"] /\ consuming' = consuming
        /\ kpc[s][k] = "wants lock" /\ kpc' = [kpc EXCEPT ![s][k] = "over"]
        /\ UNCHANGED <<up, cpc>>
    BY <1>3 DEF CloseLocked, Moves, Broker
  <2>3. meta' = meta \/ meta' = [meta EXCEPT ![s] = "closed"]
    <3>1. state'[s] = "closed"
      BY <2>2 DEF IndInv, TypeOK
    <3> QED
      BY <1>3, <3>1 DEF CloseLocked, WritesMeta, Live
  <2> QED
    BY <2>1, <2>2, <2>3, CallKeepsDisk
<1> QED
  BY <1>1, <1>2, <1>3 DEF CloseNext

LEMMA ReaperKeepsDisk ==
    ASSUME IndInv, DiskInv, ReaperNext \/ \E s \in Sessions : Ages(s)
    PROVE  DiskInv'
<1>1. ASSUME NEW s \in Sessions, Reaps(s) PROVE DiskInv'
  BY <1>1, StillKeepsDisk DEF Reaps, Broker, Calls
<1>2. ASSUME NEW s \in Sessions, Ages(s) \/ Visits(s) \/ ReapDisconnects(s)
      PROVE  DiskInv'
  BY <1>2, StillKeepsDisk DEF Ages, Visits, ReapDisconnects, Broker, Calls
<1>3. CASE Wakes
  BY <1>3, StillKeepsDisk DEF Wakes, Broker, Calls
<1> QED
  BY <1>1, <1>2, <1>3 DEF ReaperNext

\* A kill ends every close that had begun, and recovery declares nothing closed.
LEMMA BrokerKeepsDisk ==
    ASSUME IndInv, DiskInv, Crash \/ Restart \/ RestartFails \/ RestartDies
    PROVE  DiskInv'
<1>1. /\ kpc \in [Sessions ->
                [Closers -> {"ready", "disconnecting", "wants lock", "over"}]]
      /\ meta \in [Sessions -> Terminal \cup {"live", "none", "torn"}]
      /\ cpc \in [Sessions -> {"ready", "connecting", "waiting", "over"}]
  BY DEF IndInv, TypeOK
<1>2. CASE Crash
  <2>1. /\ ~up' /\ consuming' = {} /\ state' = [s \in Sessions |-> "none"]
        /\ cpc' = [s \in Sessions |-> Lost(cpc[s])]
        /\ kpc' = [s \in Sessions |-> [k \in Closers |-> Lost(kpc[s][k])]]
    BY <1>2 DEF Crash, Dies
  <2>2. \A s \in Sessions :
           cpc'[s] \in {"ready", "connecting"} =>
              /\ cpc[s] = "ready" /\ s \notin consuming /\ ~Closing(s)
              /\ meta[s] = "none"
    <3>1. ASSUME NEW s \in Sessions, cpc'[s] \in {"ready", "connecting"}
          PROVE  cpc[s] = "ready"
      BY <2>1, <3>1 DEF Lost
    <3>2. ASSUME NEW s \in Sessions, cpc[s] = "ready" PROVE ~Closing(s)
      BY <3>2 DEF Closing, IndInv, RegistryOK
    <3> QED
      BY <3>1, <3>2 DEF DiskInv
  <2>3. \A s \in Sessions : /\ meta'[s] # meta[s] => meta'[s] = "torn"
                            /\ cpc'[s] \in {"ready", "connecting"} =>
                                  meta'[s] = meta[s]
    <3>1. CASE UNCHANGED meta
      BY <3>1
    <3>2. CASE UNCHANGED meta => FALSE
      <4>1. PICK s \in Sessions :
               /\ s \in consuming \/ cpc[s] = "connecting" \/ Closing(s)
               /\ meta' = [meta EXCEPT ![s] = "torn"]
        BY <1>2, <3>2 DEF Crash
      <4> QED
        BY <1>1, <2>2, <4>1
    <3> QED
      BY <3>1, <3>2
  <2>4. \A s \in Sessions : SomeOver(s) => SomeOver(s)'
    BY <2>1 DEF SomeOver, Lost
  <2>5. DiskIsHonest'
    BY <2>1 DEF DiskIsHonest
  <2>6. ASSUME NEW s \in Sessions
        PROVE  /\ cpc'[s] \in {"ready", "connecting"} =>
                       meta'[s] = "none" /\ s \notin consuming'
               /\ SomeCalled(s)' => s \notin consuming'
               /\ state'[s] = "closed" \/ meta'[s] = "closed" => SomeOver(s)'
    <3>1. meta'[s] = "closed" => SomeOver(s)'
      BY <2>3, <2>4 DEF DiskInv
    <3>2. s \notin consuming' /\ state'[s] = "none"
      BY <2>1
    <3> QED
      BY <2>2, <2>3, <3>1, <3>2
  <2> QED
    BY <2>5, <2>6 DEF DiskInv
<1>3. CASE Restart \/ RestartFails \/ RestartDies
  <2>1. UNCHANGED <<state, consuming, cpc, kpc>>
    BY <1>3 DEF Restart, RestartFails, RestartDies, Calls
  <2>2. \A s \in Sessions : /\ meta'[s] = "closed" => meta[s] = "closed"
                            /\ meta[s] = "none" => meta'[s] = "none"
    <3>1. \A S \in SUBSET Sessions : \A s \in Sessions :
             /\ Recovered(S)[s] = "closed" => meta[s] = "closed"
             /\ meta[s] = "none" => Recovered(S)[s] = "none"
      BY DEF Recovered
    <3>2. CASE Restart
      BY <3>1, <3>2 DEF Restart
    <3>3. CASE RestartFails
      BY <3>1, <3>3 DEF RestartFails
    <3>4. CASE RestartDies
      <4>1. PICK S \in SUBSET Sessions, t \in Sessions :
               meta[t] = "live" /\ meta' = [Recovered(S) EXCEPT ![t] = "torn"]
        BY <3>4 DEF RestartDies
      <4>2. DOMAIN Recovered(S) = Sessions
        BY DEF Recovered
      <4> QED
        BY <3>1, <4>1, <4>2
    <3> QED
      BY <1>3, <3>2, <3>3, <3>4
  <2>3. DiskIsHonest'
    <3>1. CASE Restart
      <4>1. meta' = [s \in Sessions |-> IF meta[s] = "live" THEN "error" ELSE meta[s]]
        BY <3>1 DEF Restart, Recovered
      <4> QED
        BY <4>1 DEF DiskIsHonest
    <3>2. CASE RestartFails \/ RestartDies
      BY <3>2 DEF RestartFails, RestartDies, Broker, DiskIsHonest
    <3> QED
      BY <1>3, <3>1, <3>2
  <2> QED
    BY <2>1, <2>2, <2>3, CallsStay DEF DiskInv
<1> QED
  BY <1>2, <1>3

LEMMA StepDisk == IndInv /\ DiskInv /\ [Next]_vars => DiskInv'
<1> SUFFICES ASSUME IndInv, DiskInv, [Next]_vars PROVE DiskInv'
  OBVIOUS
<1>1. CASE UNCHANGED vars
  BY <1>1, StillKeepsDisk DEF vars
<1> QED
  BY <1>1, CreateKeepsDisk, TurnKeepsDisk, CloseKeepsDisk, ReaperKeepsDisk,
     BrokerKeepsDisk DEF Next

\* What meta.json calls live is a session of this process, after any crashes.
THEOREM DiskHonesty == Spec => []DiskIsHonest
<1>1. DiskInv => DiskIsHonest
  BY DEF DiskInv
<1> QED
  BY <1>1, InitDisk, StepDisk, RegistryInvariance, PTL DEF Spec

\* Once meta.json says closed it always does, after any crashes and restarts and
\* any number of closes, unless a kill tears the write of a second close.
THEOREM ClosedForGood == Spec => ClosedOnDisk
<1>1. ASSUME IndInv, DiskInv, [Next]_vars, NEW s \in Sessions, meta[s] = "closed"
      PROVE  \/ meta'[s] = "closed"
             \/ ~up' /\ Closing(s) /\ meta'[s] = "torn"
  <2>0. /\ s \notin consuming /\ cpc[s] \notin {"ready", "connecting"}
        /\ meta \in [Sessions -> Terminal \cup {"live", "none", "torn"}]
        /\ state \in [Sessions -> Live \cup Terminal \cup {"none"}]
    BY <1>1, OverIsCalled DEF DiskInv, IndInv, TypeOK
  <2>1. ASSUME NEW t \in Sessions, CreateNext(t) PROVE meta'[s] = "closed"
    BY <1>1, <2>0, <2>1
       DEF CreateNext, Create, Connected, ConnectFails, GraceEnds, Created, WritesMeta
  <2>2. ASSUME NEW t \in Sessions, TurnNext(t) PROVE meta'[s] = "closed"
    BY <1>1, <2>0, <2>2
       DEF TurnNext, InitMessage, Result, Send, StreamEnds, RateLimited, Fails,
           Revives, WritesMeta
  <2>3. ASSUME NEW t \in Sessions, NEW k \in Closers,
               Close(t, k) \/ Disconnected(t, k) \/ CloseLocked(t, k)
        PROVE  meta'[s] = "closed"
    <3>1. CASE CloseLocked(t, k)
      <4>1. state'[t] = "closed"
        BY <2>0, <3>1 DEF CloseLocked, Moves
      <4>2. meta' = meta \/ meta' = [meta EXCEPT ![t] = "closed"]
        BY <3>1, <4>1 DEF CloseLocked, WritesMeta, Live
      <4> QED
        BY <1>1, <2>0, <4>2
    <3>2. CASE Close(t, k) \/ Disconnected(t, k)
      BY <1>1, <3>2 DEF Close, Disconnected
    <3> QED
      BY <2>3, <3>1, <3>2
  <2>4. ASSUME NEW t \in Sessions, Ages(t) PROVE meta'[s] = "closed"
    BY <1>1, <2>4 DEF Ages
  <2>5. CASE ReaperNext
    BY <1>1, <2>5 DEF ReaperNext, Wakes, Visits, Reaps, ReapDisconnects
  <2>6. CASE Crash
    <3>1. CASE meta' = meta
      BY <1>1, <3>1
    <3>2. CASE meta' # meta
      <4>1. PICK t \in Sessions :
               /\ t \in consuming \/ cpc[t] = "connecting" \/ Closing(t)
               /\ meta' = [meta EXCEPT ![t] = "torn"]
        BY <2>6, <3>2 DEF Crash
      <4>2. ~up'
        BY <2>6 DEF Crash, Dies
      <4> QED
        BY <1>1, <2>0, <4>1, <4>2
    <3> QED
      BY <3>1, <3>2
  <2>7. CASE Restart \/ RestartFails \/ RestartDies
    <3>1. \A S \in SUBSET Sessions : /\ Recovered(S)[s] = "closed"
                                     /\ DOMAIN Recovered(S) = Sessions
      BY <1>1 DEF Recovered
    <3>2. CASE Restart
      BY <3>1, <3>2 DEF Restart
    <3>3. CASE RestartFails
      BY <3>1, <3>3 DEF RestartFails
    <3>4. CASE RestartDies
      <4>1. PICK S \in SUBSET Sessions, t \in Sessions :
               meta[t] = "live" /\ meta' = [Recovered(S) EXCEPT ![t] = "torn"]
        BY <3>4 DEF RestartDies
      <4> QED
        BY <1>1, <3>1, <4>1
    <3> QED
      BY <2>7, <3>2, <3>3, <3>4
  <2>8. CASE UNCHANGED vars
    BY <1>1, <2>8 DEF vars
  <2> QED
    BY <1>1, <2>1, <2>2, <2>3, <2>4, <2>5, <2>6, <2>7, <2>8 DEF Next, CloseNext
<1>2. IndInv /\ DiskInv /\ [Next]_vars =>
         [\A s \in Sessions : meta[s] = "closed" =>
             \/ meta'[s] = "closed"
             \/ ~up' /\ Closing(s) /\ meta'[s] = "torn"]_vars
  BY <1>1
<1> QED
  BY <1>2, InitDisk, StepDisk, RegistryInvariance, PTL DEF Spec, ClosedOnDisk
=============================================================================
