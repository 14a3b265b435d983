--------------------------- MODULE Admission_proofs ---------------------------
(***************************************************************************)
(* Admission for every number of connections, every limit and every length *)
(* of the rate window: the limiter's counts are exact and bound the live   *)
(* connections and the rate of handshakes.                                 *)
(***************************************************************************)
EXTENDS Admission, SequenceTheorems, FiniteSetTheorems, TLAPS

USE DEF limiterVars, redisVars, connVars, shutdownVars, envVars

LEMMA WindowType == ASSUME now \in 0..MaxTime PROVE WindowSlot \in Windows
BY DEF WindowSlot, Windows

LEMMA SubInterval ==
    ASSUME NEW m \in Nat, NEW S, S \subseteq 1..m
    PROVE  IsFiniteSet(S) /\ Cardinality(S) \in 0..m
<1>1. IsFiniteSet(1..m) /\ Cardinality(1..m) = m
  BY FS_Interval
<1>2. IsFiniteSet(S) /\ Cardinality(S) <= m
  BY <1>1, FS_Subset
<1>3. Cardinality(S) \in Nat
  BY <1>2, FS_CardinalityType
<1> QED
  BY <1>2, <1>3

\* What is left of the timestamps after the filter: the last ones, none of those
\* dropped inside the window.
LEMMA RecentIsSuffix ==
    ASSUME handshakeTimestamps \in Seq(Nat), now \in Nat,
           \A j, k \in 1..Len(handshakeTimestamps) :
              j <= k => handshakeTimestamps[j] <= handshakeTimestamps[k]
    PROVE  \E n \in 0..Len(handshakeTimestamps) :
              /\ Recent \in Seq(Nat) /\ Len(Recent) = Len(handshakeTimestamps) - n
              /\ \A k \in 1..Len(Recent) : Recent[k] = handshakeTimestamps[n + k]
              /\ \A k \in 1..n : handshakeTimestamps[k] < now - Window
<1> DEFINE L == Len(handshakeTimestamps)
           n == Cardinality(Stale)
<1>1. L \in Nat /\ DOMAIN handshakeTimestamps = 1..L
  BY LenProperties
<1>3. Stale \subseteq 1..L
  BY <1>1 DEF Stale
<1> HIDE DEF L
<1>4. n \in 0..L
  BY <1>1, <1>3, SubInterval
<1>5. \A k \in 1..L : handshakeTimestamps[k] \in Nat
  BY <1>1, ElementOfSeq
<1> HIDE DEF n
<1>6. ASSUME NEW k \in 1..n, ~(handshakeTimestamps[k] < now - Window) PROVE FALSE
  \* a fresh one among the first n leaves fewer than n stale ones
  <2>1. Stale \subseteq 1..(k - 1)
    BY <1>1, <1>4, <1>5, <1>6, LimitsAssumption DEF Stale, L
  <2>2. k - 1 \in Nat /\ n \in Nat /\ k - 1 < n
    BY <1>1, <1>4
  <2>3. Cardinality(Stale) \in 0..(k - 1)
    BY <2>1, <2>2, SubInterval
  <2> QED
    BY <2>2, <2>3 DEF n
<1>7. /\ Recent \in Seq(Nat)
      /\ Len(Recent) = L - n
      /\ \A k \in 1..(L - n) : Recent[k] = handshakeTimestamps[n + k]
  <2>1. \A k \in (n + 1)..L : handshakeTimestamps[k] \in Nat
    BY <1>4, <1>5
  <2>2. /\ SubSeq(handshakeTimestamps, n + 1, L) \in Seq(Nat)
        /\ Len(SubSeq(handshakeTimestamps, n + 1, L)) = IF n + 1 <= L THEN L - (n + 1) + 1 ELSE 0
        /\ \A k \in 1..(L - (n + 1) + 1) :
              SubSeq(handshakeTimestamps, n + 1, L)[k] = handshakeTimestamps[n + 1 + k - 1]
    BY <1>1, <1>4, <2>1, SubSeqProperties
  <2>3. Recent = SubSeq(handshakeTimestamps, n + 1, L)
    BY DEF Recent, n, L
  <2> QED
    BY <1>1, <1>4, <2>2, <2>3
<1> QED
  BY <1>4, <1>6, <1>7 DEF L

\* Without their order, that it is a sequence of times.
LEMMA RecentType ==
    ASSUME handshakeTimestamps \in Seq(Nat) PROVE Recent \in Seq(Nat)
<1> DEFINE L == Len(handshakeTimestamps)
           n == Cardinality(Stale)
<1>1. L \in Nat /\ DOMAIN handshakeTimestamps = 1..L
  BY LenProperties
<1>2. Stale \subseteq 1..L
  BY <1>1 DEF Stale
<1>3. \A k \in 1..L : handshakeTimestamps[k] \in Nat
  BY <1>1, ElementOfSeq
<1> HIDE DEF L
<1>4. n \in 0..L
  BY <1>1, <1>2, SubInterval
<1> HIDE DEF n
<1>5. SubSeq(handshakeTimestamps, n + 1, L) \in Seq(Nat)
  BY <1>1, <1>3, <1>4, SubSeqProperties
<1> QED
  BY <1>5 DEF Recent, n, L

-----------------------------------------------------------------------------
LEMMA TypeInit == Init => TypeOK
<1> SUFFICES ASSUME Init PROVE TypeOK
  OBVIOUS
<1>1. /\ awaits \in BOOLEAN /\ up \in BOOLEAN /\ vital \in BOOLEAN /\ polling \in BOOLEAN
  BY Zenon DEF Init
<1>2. now \in 0..MaxTime /\ handshakeTimestamps \in Seq(Nat) /\ granted \in Seq(Nat)
  BY LimitsAssumption, EmptySeq DEF Init
<1>3. counts \in [Asking -> [Windows -> Nat]] /\ others \in Nat
  BY DEF Init
<1> QED
  BY <1>1, <1>2, <1>3 DEF Init, TypeOK, Asking

LEMMA LessType == \A n \in Nat : Less(n) \in Nat
BY DEF Less

LEMMA TypeStep == TypeOK /\ [Next]_vars => TypeOK'
<1> SUFFICES ASSUME TypeOK, [Next]_vars PROVE TypeOK'
  OBVIOUS
<1> USE LimitsAssumption, LessType DEF Asking
<1>0. now \in Nat /\ WindowSlot \in Windows
  BY WindowType DEF TypeOK
<1>1. ASSUME NEW i \in Conns, Accept(i) PROVE TypeOK'
  <2>1. CASE Open /\ ConnectionFree
    <3>1. /\ activeConnections' = activeConnections + 1
          /\ stage' = [stage EXCEPT ![i] = "askConnection"]
          /\ socket' = [socket EXCEPT ![i] = "open"]
          /\ slot' = [slot EXCEPT ![i] = WindowSlot]
      BY <1>1, <2>1 DEF Accept
    <3>2. /\ slot' \in [Conns -> Windows \cup {NoWindow}]
          /\ \A j \in Conns : stage'[j] \in Asking => slot'[j] \in Windows
      BY <1>0, <3>1 DEF TypeOK
    <3>3. /\ activeConnections' \in Nat
          /\ stage' \in [Conns -> {"none", "refused", "served"} \cup Asking]
          /\ socket' \in [Conns -> {"none", "open", "destroyed", "closed"}]
      BY <3>1 DEF TypeOK
    <3>4. UNCHANGED <<envVars, activeHandshakes, handshakeTimestamps, granted, redisVars,
                      connectionReleased, handshakeSlotReleased, shutdownVars, closedEarly>>
      BY <1>1 DEF Accept
    <3> QED
      BY <3>2, <3>3, <3>4 DEF TypeOK
  <2>2. CASE ~(Open /\ ConnectionFree)
    <3>1. Refuse(i) /\ UNCHANGED activeConnections
      BY <1>1, <2>2 DEF Accept
    <3> QED
      BY <1>1, <3>1 DEF TypeOK, Accept, Refuse
  <2> QED
    BY <2>1, <2>2
\* checkLimit counts up a number
<1>2. ASSUME NEW i \in Conns, stage[i] \in Asking, Incr(i)
      PROVE  counts' \in [Asking -> [Windows -> Nat]]
  <2>1. slot[i] \in Windows /\ counts[stage[i]] \in [Windows -> Nat]
    BY <1>2 DEF TypeOK
  <2>2. counts[stage[i]][slot[i]] + 1 \in Nat
    BY <2>1
  <2>3. CASE awaits
    <3> DEFINE row == [counts[stage[i]] EXCEPT ![slot[i]] = counts[stage[i]][slot[i]] + 1]
    <3>1. row \in [Windows -> Nat]
      BY <2>1, <2>2
    <3>2. counts' = [counts EXCEPT ![stage[i]] = row]
      BY <1>2, <2>3 DEF Incr
    <3> HIDE DEF row
    <3> QED
      BY <1>2, <3>1, <3>2 DEF TypeOK
  <2>4. CASE ~awaits
    BY <1>2, <2>4 DEF Incr, TypeOK
  <2> QED
    BY <2>3, <2>4
<1>3. ASSUME NEW i \in Conns, ConnectionAnswer(i) PROVE TypeOK'
  <2>1. counts' \in [Asking -> [Windows -> Nat]]
    BY <1>2, <1>3 DEF ConnectionAnswer
  <2>2. Recent \in Seq(Nat)
    BY RecentType DEF TypeOK
  <2>3. Append(Recent, now) \in Seq(Nat) /\ Append(granted, now) \in Seq(Nat)
    BY <1>0, <2>2, AppendProperties DEF TypeOK
  <2>4. CASE Allowed(i, MaxConnections) /\ HandshakeFree
    <3>1. /\ AcquireHandshake /\ UNCHANGED <<activeConnections, socket>>
          /\ stage' = [stage EXCEPT ![i] = "askHandshake"]
          /\ slot' = [slot EXCEPT ![i] = WindowSlot]
      BY <1>3, <2>4 DEF ConnectionAnswer
    <3>2. /\ slot' \in [Conns -> Windows \cup {NoWindow}]
          /\ \A j \in Conns : stage'[j] \in Asking => slot'[j] \in Windows
      BY <1>0, <3>1 DEF TypeOK
    <3>3. handshakeTimestamps' \in Seq(Nat) /\ granted' \in Seq(Nat) /\ activeHandshakes' \in Nat
      BY <2>3, <3>1 DEF AcquireHandshake, TypeOK
    <3> QED
      BY <1>3, <2>1, <3>1, <3>2, <3>3 DEF TypeOK, ConnectionAnswer
  <2>5. CASE ~(Allowed(i, MaxConnections) /\ HandshakeFree)
    <3>1. handshakeTimestamps' \in Seq(Nat)
      BY <1>3, <2>2, <2>5 DEF TypeOK, ConnectionAnswer
    <3>2. Refuse(i) /\ activeConnections' = ReleaseOnRefusal /\ UNCHANGED <<activeHandshakes, granted>>
      BY <1>3, <2>5 DEF ConnectionAnswer
    <3> QED
      BY <1>3, <2>1, <3>1, <3>2 DEF TypeOK, ConnectionAnswer, Refuse, ReleaseOnRefusal
  <2> QED
    BY <2>4, <2>5
<1>4. ASSUME NEW i \in Conns, HandshakeAnswer(i) PROVE TypeOK'
  <2>1. counts' \in [Asking -> [Windows -> Nat]]
    BY <1>2, <1>4 DEF HandshakeAnswer
  <2>2. CASE Allowed(i, MaxHandshakes)
    <3>1. /\ handshakeTimestamps' = handshakeTimestamps /\ granted' = granted
          /\ activeHandshakes' = activeHandshakes /\ activeConnections' = activeConnections
      BY <1>4, <2>2 DEF HandshakeAnswer
    <3>2. stage' = [stage EXCEPT ![i] = "served"] /\ slot' = [slot EXCEPT ![i] = NoWindow]
      BY <1>4, <2>2 DEF HandshakeAnswer
    <3> QED
      BY <1>4, <2>1, <2>2, <3>1, <3>2 DEF TypeOK, HandshakeAnswer
  <2>3. CASE ~Allowed(i, MaxHandshakes)
    <3>1. Refuse(i) /\ activeConnections' = ReleaseOnRefusal
      BY <1>4, <2>3 DEF HandshakeAnswer
    <3>2. activeConnections' \in Nat
      BY <3>1 DEF TypeOK, ReleaseOnRefusal
    <3> QED
      BY <1>4, <2>1, <2>3, <3>1, <3>2 DEF TypeOK, HandshakeAnswer, Refuse
  <2> QED
    BY <2>2, <2>3
<1>5. ASSUME ProcessEnds PROVE TypeOK'
  <2>1. <<>> \in Seq(Nat)
    BY EmptySeq
  <2> QED
    BY <1>5, <2>1 DEF TypeOK, ProcessEnds
<1>6. ASSUME NEW i \in Conns, LimiterFails(i) \/ SocketErrorWhileAsking(i) PROVE TypeOK'
  BY <1>5, <1>6 DEF LimiterFails, SocketErrorWhileAsking
<1>7. ASSUME NEW i \in Conns, SocketCloseWhileAsking(i) PROVE TypeOK'
  BY <1>7 DEF TypeOK, SocketCloseWhileAsking
<1>8. ASSUME NEW i \in Conns, Fails(i) PROVE TypeOK'
  BY <1>8 DEF TypeOK, Fails, ReleaseHandshake
<1>9. ASSUME NEW i \in Conns, SocketError(i) PROVE TypeOK'
  BY <1>9 DEF TypeOK, SocketError, ReleaseConnection
<1>10. ASSUME NEW i \in Conns, SocketClose(i) PROVE TypeOK'
  BY <1>10 DEF TypeOK, SocketClose, ReleaseConnection, ReleaseHandshake, StopTracking
<1>11. CASE Shutdown \/ ShutdownPoll
  BY <1>11 DEF TypeOK, Shutdown, ShutdownPoll
<1>12. CASE ShutdownDeadline
  BY <1>12 DEF TypeOK, ShutdownDeadline
<1>13. CASE OtherInstance
  <2>1. PICK type \in Asking : counts' = [counts EXCEPT ![type][WindowSlot] = @ + 1]
    BY <1>13 DEF OtherInstance
  <2> DEFINE row == [counts[type] EXCEPT ![WindowSlot] = counts[type][WindowSlot] + 1]
  <2>a. counts[type] \in [Windows -> Nat]
    BY DEF TypeOK
  <2>b. counts[type][WindowSlot] + 1 \in Nat
    BY <1>0, <2>a
  <2>2. row \in [Windows -> Nat]
    BY <2>a, <2>b
  <2>3. counts' = [counts EXCEPT ![type] = row]
    BY <2>1
  <2> HIDE DEF row
  <2>4. counts' \in [Asking -> [Windows -> Nat]]
    BY <2>2, <2>3 DEF TypeOK
  <2>5. others' \in Nat
    BY <1>13 DEF TypeOK, OtherInstance
  <2>6. UNCHANGED <<envVars, limiterVars, connVars, shutdownVars, closedEarly>>
    BY <1>13 DEF OtherInstance
  <2> QED
    BY <2>4, <2>5, <2>6 DEF TypeOK
<1>14. CASE OrganismPulse
  <2>1. vital' \in BOOLEAN
    BY <1>14 DEF TypeOK, OrganismPulse
  <2> QED
    BY <1>14, <2>1 DEF TypeOK, OrganismPulse
<1>15. CASE Tick
  <2>1. now' \in 0..MaxTime
    BY <1>15 DEF TypeOK, Tick
  <2> QED
    BY <1>15, <2>1 DEF TypeOK, Tick
<1>16. CASE UNCHANGED vars
  BY <1>16 DEF TypeOK, vars
<1> QED
  BY <1>1, <1>3, <1>4, <1>6, <1>7, <1>8, <1>9, <1>10, <1>11, <1>12, <1>13, <1>14,
     <1>15, <1>16 DEF Next

\* The limiter, Redis, the connections and the shutdown stay well-typed.
THEOREM TypeCorrect == Spec => []TypeOK
BY TypeInit, TypeStep, PTL DEF Spec

-----------------------------------------------------------------------------
(***************************************************************************)
(* The connections                                                         *)
(***************************************************************************)
LEMMA HoldingFinite == ASSUME NEW S, S \subseteq Conns PROVE IsFiniteSet(S) /\ Cardinality(S) \in Nat
<1>1. IsFiniteSet(Conns)
  BY FS_Interval, LimitsAssumption DEF Conns
<1>2. IsFiniteSet(S)
  BY <1>1, FS_Subset
<1> QED
  BY <1>2, FS_CardinalityType

\* A connection that stops holding a slot takes one off the count, which is not 0.
LEMMA HoldingLess ==
    ASSUME SlotsAccounted, activeConnections <= MaxConnections, NEW i \in Holding,
           Holding' = Holding \ {i}, activeConnections' = Less(activeConnections)
    PROVE  SlotsAccounted' /\ activeConnections' <= MaxConnections
<1>1. IsFiniteSet(Holding) /\ Cardinality(Holding) \in Nat
  BY HoldingFinite DEF Holding
<1>2. /\ Cardinality(Holding \ {i}) = Cardinality(Holding) - 1
      /\ Cardinality(Holding \ {i}) \in Nat
  <2>1. IsFiniteSet(Holding \ {i}) /\ Cardinality(Holding \ {i}) = Cardinality(Holding) - 1
    BY <1>1, FS_RemoveElement
  <2> QED
    BY <2>1, FS_CardinalityType
<1>3. Cardinality(Holding') = Cardinality(Holding) - 1
  BY <1>2
<1> QED
  BY <1>1, <1>2, <1>3, LimitsAssumption DEF SlotsAccounted, Less

\* One that starts to hold a slot adds one, below the cap.
LEMMA HoldingMore ==
    ASSUME SlotsAccounted, ConnectionFree, NEW i \in Conns, i \notin Holding,
           Holding' = Holding \cup {i}, activeConnections' = activeConnections + 1
    PROVE  SlotsAccounted' /\ activeConnections' <= MaxConnections
<1>1. IsFiniteSet(Holding) /\ Cardinality(Holding) \in Nat
  BY HoldingFinite DEF Holding
<1>2. Cardinality(Holding \cup {i}) = Cardinality(Holding) + 1
  BY <1>1, FS_AddElement
<1> QED
  BY <1>1, <1>2, LimitsAssumption DEF SlotsAccounted, ConnectionFree

LEMMA HoldingSame ==
    ASSUME SlotsAccounted, activeConnections <= MaxConnections,
           Holding' = Holding, activeConnections' = activeConnections
    PROVE  SlotsAccounted' /\ activeConnections' <= MaxConnections
BY DEF SlotsAccounted

\* AdmissionInv for one connection.
Consistent(i) ==
    /\ connectionReleased[i] => stage[i] = "served" /\ socket[i] # "open"
    /\ i \in activeSockets => stage[i] = "served"
    /\ socket[i] = "closed" /\ i \notin closedEarly =>
          /\ i \notin activeSockets
          /\ stage[i] = "refused" \/ (stage[i] = "served" /\ connectionReleased[i])
    /\ ~awaits /\ stage[i] \in Asking => vital /\ shutdown = "running"

LEMMA AdmissionParts ==
    AdmissionInv <=> /\ SlotsAccounted /\ activeConnections <= MaxConnections
                     /\ \A i \in Conns : Consistent(i)
BY DEF AdmissionInv, Consistent

LEMMA AdmissionInit == Init => AdmissionInv
<1> SUFFICES ASSUME Init PROVE AdmissionInv
  OBVIOUS
<1>1. Holding = {}
  BY DEF Init, Holding, Asking
<1>2. SlotsAccounted /\ activeConnections <= MaxConnections
  BY <1>1, FS_EmptySet, LimitsAssumption DEF Init, SlotsAccounted
<1>3. \A i \in Conns : Consistent(i)
  BY DEF Init, Consistent, Asking
<1> QED
  BY <1>2, <1>3, AdmissionParts

LEMMA SlotsStep ==
    ASSUME TypeOK, AdmissionInv, [Next]_vars
    PROVE  SlotsAccounted' /\ activeConnections' <= MaxConnections
<1> USE DEF Asking
<1>0. SlotsAccounted /\ activeConnections <= MaxConnections /\ activeConnections \in Nat
  BY DEF AdmissionInv, TypeOK
<1>a. /\ stage \in [Conns -> {"none", "refused", "served"} \cup Asking]
      /\ connectionReleased \in [Conns -> BOOLEAN]
      /\ \A i \in Conns : connectionReleased[i] => stage[i] = "served"
  BY DEF TypeOK, AdmissionInv
<1>1. ASSUME UNCHANGED <<stage, connectionReleased, activeConnections>>
      PROVE  SlotsAccounted' /\ activeConnections' <= MaxConnections
  BY <1>0, <1>1, HoldingSame DEF Holding
<1>2. ASSUME NEW i \in Conns, Accept(i)
      PROVE  SlotsAccounted' /\ activeConnections' <= MaxConnections
  <2>1. CASE Open /\ ConnectionFree
    <3>1. i \notin Holding /\ Holding' = Holding \cup {i} /\ activeConnections' = activeConnections + 1
      BY <1>2, <1>a, <2>1 DEF Accept, Holding
    <3> QED
      BY <1>0, <2>1, <3>1, HoldingMore
  <2>2. CASE ~(Open /\ ConnectionFree)
    <3>1. Refuse(i) /\ UNCHANGED <<activeConnections, connectionReleased>> /\ stage[i] = "none"
      BY <1>2, <2>2 DEF Accept
    <3>2. Holding' = Holding
      BY <1>a, <3>1 DEF Refuse, Holding
    <3> QED
      BY <1>0, <3>1, <3>2, HoldingSame
  <2> QED
    BY <2>1, <2>2
<1>3. ASSUME NEW i \in Conns, stage[i] \in Asking, Refuse(i), UNCHANGED connectionReleased,
             activeConnections' = ReleaseOnRefusal
      PROVE  SlotsAccounted' /\ activeConnections' <= MaxConnections
  <2>1. i \in Holding /\ Holding' = Holding \ {i}
    BY <1>3, <1>a DEF Refuse, Holding
  <2> QED
    BY <1>0, <1>3, <2>1, HoldingLess DEF ReleaseOnRefusal
<1>4. ASSUME NEW i \in Conns, ConnectionAnswer(i)
      PROVE  SlotsAccounted' /\ activeConnections' <= MaxConnections
  <2>1. CASE Allowed(i, MaxConnections) /\ HandshakeFree
    <3>1. Holding' = Holding /\ activeConnections' = activeConnections
      BY <1>4, <1>a, <2>1 DEF ConnectionAnswer, Holding
    <3> QED
      BY <1>0, <3>1, HoldingSame
  <2>2. CASE ~(Allowed(i, MaxConnections) /\ HandshakeFree)
    BY <1>3, <1>4, <2>2 DEF ConnectionAnswer
  <2> QED
    BY <2>1, <2>2
<1>5. ASSUME NEW i \in Conns, HandshakeAnswer(i)
      PROVE  SlotsAccounted' /\ activeConnections' <= MaxConnections
  <2>1. CASE Allowed(i, MaxHandshakes)
    <3>1. Holding' = Holding /\ activeConnections' = activeConnections
      BY <1>5, <1>a, <2>1 DEF HandshakeAnswer, Holding
    <3> QED
      BY <1>0, <3>1, HoldingSame
  <2>2. CASE ~Allowed(i, MaxHandshakes)
    BY <1>3, <1>5, <2>2 DEF HandshakeAnswer
  <2> QED
    BY <2>1, <2>2
<1>6. ASSUME NEW i \in Conns, LimiterFails(i) \/ SocketErrorWhileAsking(i)
      PROVE  SlotsAccounted' /\ activeConnections' <= MaxConnections
  <2>1. Holding' = {} /\ activeConnections' = 0
    BY <1>6 DEF LimiterFails, SocketErrorWhileAsking, ProcessEnds, Holding
  <2> QED
    BY <2>1, FS_EmptySet, LimitsAssumption DEF SlotsAccounted
<1>7. ASSUME NEW i \in Conns, stage[i] = "served", ReleaseConnection(i), UNCHANGED stage
      PROVE  SlotsAccounted' /\ activeConnections' <= MaxConnections
  <2>1. CASE connectionReleased[i]
    <3>1. Holding' = Holding /\ activeConnections' = activeConnections
      BY <1>7, <1>a, <2>1 DEF ReleaseConnection, Holding
    <3> QED
      BY <1>0, <3>1, HoldingSame
  <2>2. CASE ~connectionReleased[i]
    <3>1. i \in Holding /\ Holding' = Holding \ {i} /\ activeConnections' = Less(activeConnections)
      BY <1>7, <1>a, <2>2 DEF ReleaseConnection, Holding
    <3> QED
      BY <1>0, <3>1, HoldingLess
  <2> QED
    BY <2>1, <2>2
<1>8. ASSUME NEW i \in Conns, SocketError(i) \/ SocketClose(i)
      PROVE  SlotsAccounted' /\ activeConnections' <= MaxConnections
  BY <1>7, <1>8 DEF SocketError, SocketClose
<1>9. ASSUME NEW i \in Conns, SocketCloseWhileAsking(i) \/ Fails(i)
      PROVE  SlotsAccounted' /\ activeConnections' <= MaxConnections
  BY <1>1, <1>9 DEF SocketCloseWhileAsking, Fails
<1>10. CASE Shutdown \/ ShutdownPoll \/ ShutdownDeadline \/ OtherInstance \/ OrganismPulse \/ Tick
  BY <1>1, <1>10 DEF Shutdown, ShutdownPoll, ShutdownDeadline, OtherInstance, OrganismPulse, Tick
<1>11. CASE UNCHANGED vars
  BY <1>1, <1>11 DEF vars
<1> QED
  BY <1>2, <1>4, <1>5, <1>6, <1>8, <1>9, <1>10, <1>11 DEF Next

\* Where accepts do not wait, nothing but their own steps comes between them.
LEMMA TurnIsFree ==
    ASSUME Turn, NEW i \in Conns, ~awaits PROVE stage[i] \notin Asking
BY DEF Turn

LEMMA ConsistentStep ==
    ASSUME TypeOK, AdmissionInv, [Next]_vars, NEW j \in Conns
    PROVE  Consistent(j)'
<1> USE DEF Asking, Consistent
<1>0. Consistent(j)
  BY DEF AdmissionInv
<1>a. /\ stage \in [Conns -> {"none", "refused", "served"} \cup Asking]
      /\ socket \in [Conns -> {"none", "open", "destroyed", "closed"}]
      /\ connectionReleased \in [Conns -> BOOLEAN]
  BY DEF TypeOK
<1>1. ASSUME NEW i \in Conns, Accept(i) PROVE Consistent(j)'
  <2>1. CASE Open /\ ConnectionFree
    BY <1>0, <1>a, <1>1, <2>1 DEF Accept, Open
  <2>2. CASE ~(Open /\ ConnectionFree)
    BY <1>0, <1>a, <1>1, <2>2 DEF Accept, Refuse
  <2> QED
    BY <2>1, <2>2
<1>2. ASSUME NEW i \in Conns, ConnectionAnswer(i) PROVE Consistent(j)'
  <2>1. CASE Allowed(i, MaxConnections) /\ HandshakeFree
    BY <1>0, <1>a, <1>2, <2>1 DEF ConnectionAnswer
  <2>2. CASE ~(Allowed(i, MaxConnections) /\ HandshakeFree)
    BY <1>0, <1>a, <1>2, <2>2 DEF ConnectionAnswer, Refuse
  <2> QED
    BY <2>1, <2>2
<1>3. ASSUME NEW i \in Conns, HandshakeAnswer(i) PROVE Consistent(j)'
  <2>1. CASE Allowed(i, MaxHandshakes)
    BY <1>0, <1>a, <1>3, <2>1 DEF HandshakeAnswer
  <2>2. CASE ~Allowed(i, MaxHandshakes)
    BY <1>0, <1>a, <1>3, <2>2 DEF HandshakeAnswer, Refuse
  <2> QED
    BY <2>1, <2>2
<1>4. ASSUME NEW i \in Conns, LimiterFails(i) \/ SocketErrorWhileAsking(i) PROVE Consistent(j)'
  BY <1>4 DEF LimiterFails, SocketErrorWhileAsking, ProcessEnds
<1>5. ASSUME NEW i \in Conns, SocketCloseWhileAsking(i) PROVE Consistent(j)'
  BY <1>0, <1>a, <1>5 DEF SocketCloseWhileAsking
<1>6. ASSUME NEW i \in Conns, Fails(i) PROVE Consistent(j)'
  BY <1>0, <1>6 DEF Fails
<1>7. ASSUME NEW i \in Conns, SocketError(i) PROVE Consistent(j)'
  BY <1>0, <1>a, <1>7 DEF SocketError, ReleaseConnection
<1>8. ASSUME NEW i \in Conns, SocketClose(i) PROVE Consistent(j)'
  BY <1>0, <1>a, <1>8 DEF SocketClose, ReleaseConnection, StopTracking
<1>9. CASE Shutdown
  BY <1>0, <1>9, TurnIsFree DEF Shutdown
<1>10. CASE ShutdownPoll
  BY <1>0, <1>10, TurnIsFree DEF ShutdownPoll
<1>11. CASE ShutdownDeadline
  <2>1. socket'[j] = socket[j] \/ (socket[j] = "open" /\ socket'[j] = "destroyed")
    BY <1>a, <1>11 DEF ShutdownDeadline
  <2>2. ~awaits => stage[j] \notin Asking
    BY <1>11, TurnIsFree DEF ShutdownDeadline
  <2> QED
    BY <1>0, <1>11, <2>1, <2>2 DEF ShutdownDeadline
<1>12. CASE OrganismPulse
  BY <1>0, <1>12, TurnIsFree DEF OrganismPulse
<1>13. CASE OtherInstance \/ Tick
  BY <1>0, <1>13 DEF OtherInstance, Tick
<1>14. CASE UNCHANGED vars
  BY <1>0, <1>14 DEF vars
<1> QED
  BY <1>1, <1>2, <1>3, <1>4, <1>5, <1>6, <1>7, <1>8, <1>9, <1>10, <1>11, <1>12,
     <1>13, <1>14 DEF Next

LEMMA AdmissionStep == TypeOK /\ AdmissionInv /\ [Next]_vars => AdmissionInv'
<1> SUFFICES ASSUME TypeOK, AdmissionInv, [Next]_vars PROVE AdmissionInv'
  OBVIOUS
<1>1. SlotsAccounted' /\ activeConnections' <= MaxConnections
  BY SlotsStep
<1>2. \A i \in Conns : Consistent(i)'
  BY ConsistentStep
<1> QED
  BY <1>1, <1>2 DEF AdmissionInv, Consistent

\* The inductive invariant: exact counts, and what is released, closed or half
\* accepted.
THEOREM AdmissionInvariant == Spec => []AdmissionInv
BY AdmissionInit, AdmissionStep, TypeCorrect, PTL DEF Spec

\* The limiter's count is the number of connections that hold a slot.
THEOREM SlotsExact == Spec => []SlotsAccounted
<1>1. AdmissionInv => SlotsAccounted
  BY DEF AdmissionInv
<1> QED
  BY <1>1, AdmissionInvariant, PTL

\* Never more live connections than maxConnections.
THEOREM CapHolds == Spec => []CapRespected
<1>1. AdmissionInv => CapRespected
  <2> SUFFICES ASSUME AdmissionInv PROVE CapRespected
    OBVIOUS
  <2> DEFINE live == {i \in Conns : stage[i] = "served" /\ socket[i] = "open"}
  <2>1. live \subseteq Holding
    BY DEF AdmissionInv, Holding
  <2>2. IsFiniteSet(Holding) /\ Cardinality(Holding) \in Nat
    BY HoldingFinite DEF Holding
  <2>3. live \subseteq Conns
    OBVIOUS
  <2> HIDE DEF live
  <2>4. Cardinality(live) <= Cardinality(Holding) /\ Cardinality(live) \in Nat
    BY <2>1, <2>2, <2>3, FS_Subset, HoldingFinite
  <2> QED
    BY <2>2, <2>4, LimitsAssumption DEF AdmissionInv, SlotsAccounted, CapRespected, live
<1> QED
  BY <1>1, AdmissionInvariant, PTL

\* A closed socket holds no slot and keeps no shutdown waiting, unless it closed
\* while Redis was asked.
THEOREM ClosedForgotten == Spec => []ClosedIsForgotten
<1>1. AdmissionInv => ClosedIsForgotten
  BY DEF AdmissionInv, ClosedIsForgotten, Holding, Asking
<1> QED
  BY <1>1, AdmissionInvariant, PTL

\* Without Redis, admission is decided on a current view of the organism and the
\* shutdown.
THEOREM CurrentView == Spec => AdmittedOnCurrentView
<1> DEFINE Admits == \A i \in Conns :
              ~awaits /\ stage[i] # "served" /\ stage'[i] = "served" =>
                 vital /\ shutdown = "running"
<1>1. TypeOK /\ AdmissionInv /\ [Next]_vars => [Admits]_vars
  <2> SUFFICES ASSUME TypeOK, AdmissionInv, Next, NEW i \in Conns,
                      stage[i] # "served", stage'[i] = "served"
               PROVE  stage[i] \in Asking
    BY DEF AdmissionInv
  <2>0. stage \in [Conns -> {"none", "refused", "served"} \cup Asking]
    BY DEF TypeOK
  <2>1. ASSUME NEW k \in Conns, Accept(k) PROVE FALSE
    BY <2>0, <2>1 DEF Accept, Refuse, Asking
  <2>2. ASSUME NEW k \in Conns, ConnectionAnswer(k) PROVE FALSE
    BY <2>0, <2>2 DEF ConnectionAnswer, Refuse, Asking
  <2>3. ASSUME NEW k \in Conns, HandshakeAnswer(k) PROVE stage[i] \in Asking
    BY <2>0, <2>3 DEF HandshakeAnswer, Refuse, Asking
  <2>4. ASSUME NEW k \in Conns, LimiterFails(k) \/ SocketErrorWhileAsking(k) PROVE FALSE
    BY <2>4 DEF LimiterFails, SocketErrorWhileAsking, ProcessEnds
  <2>5. ASSUME NEW k \in Conns, \/ SocketCloseWhileAsking(k) \/ Fails(k)
                                \/ SocketError(k) \/ SocketClose(k)
        PROVE  FALSE
    BY <2>5 DEF SocketCloseWhileAsking, Fails, SocketError, SocketClose
  <2>6. CASE \/ Shutdown \/ ShutdownPoll \/ ShutdownDeadline
             \/ OtherInstance \/ OrganismPulse \/ Tick
    BY <2>6 DEF Shutdown, ShutdownPoll, ShutdownDeadline, OtherInstance, OrganismPulse, Tick
  <2> QED
    BY <2>1, <2>2, <2>3, <2>4, <2>5, <2>6 DEF Next
<1> QED
  BY <1>1, TypeCorrect, AdmissionInvariant, PTL DEF Spec, AdmittedOnCurrentView

-----------------------------------------------------------------------------
(***************************************************************************)
(* The rate of handshakes                                                  *)
(***************************************************************************)
\* The timestamps kept are the last of all that were granted; those dropped have
\* left the window.
Kept(old, kept, time) ==
    /\ \A j, k \in 1..Len(old) : j <= k => old[j] <= old[k]
    /\ \A k \in 1..Len(old) : old[k] <= time
    /\ Len(kept) <= Len(old)
    /\ \A k \in 1..Len(kept) : kept[k] = old[Len(old) - Len(kept) + k]
    /\ \A k \in 1..(Len(old) - Len(kept)) : old[k] < time - Window

RateInv == Kept(granted, handshakeTimestamps, now) /\ HandshakeRate

\* The filter keeps that.
LEMMA RecentKept ==
    ASSUME TypeOK, Kept(granted, handshakeTimestamps, now)
    PROVE  Kept(granted, Recent, now) /\ Recent \in Seq(Nat)
<1> DEFINE L == Len(granted)
           M == Len(handshakeTimestamps)
<1>1. /\ L \in Nat /\ M \in Nat /\ now \in Nat /\ Window \in Nat /\ M <= L
      /\ \A k \in 1..L : granted[k] \in Nat
  BY LenProperties, ElementOfSeq, LimitsAssumption DEF TypeOK, Kept
<1>a. \A j, k \in 1..L : j <= k => granted[j] <= granted[k]
  BY DEF Kept
<1>4. \A k \in 1..M : handshakeTimestamps[k] = granted[L - M + k]
  BY DEF Kept
<1>2. ASSUME NEW j \in 1..M, NEW k \in 1..M, j <= k
      PROVE  handshakeTimestamps[j] <= handshakeTimestamps[k]
  <2> HIDE DEF L, M
  <2>1. L - M + j \in 1..L /\ L - M + k \in 1..L /\ L - M + j <= L - M + k
    BY <1>1, <1>2
  <2> QED
    BY <1>4, <1>a, <2>1
<1>3. PICK n \in 0..M :
         /\ Recent \in Seq(Nat) /\ Len(Recent) = M - n
         /\ \A k \in 1..Len(Recent) : Recent[k] = handshakeTimestamps[n + k]
         /\ \A k \in 1..n : handshakeTimestamps[k] < now - Window
  BY <1>1, <1>2, RecentIsSuffix DEF TypeOK
<1>5. \A k \in 1..(L - M) : granted[k] < now - Window
  BY DEF Kept
<1> HIDE DEF L, M
<1>6. \A k \in 1..Len(Recent) : Recent[k] = granted[L - Len(Recent) + k]
  BY <1>1, <1>3, <1>4
<1>7. ASSUME NEW k \in 1..(L - Len(Recent)) PROVE granted[k] < now - Window
  <2>1. CASE k \in 1..(L - M)
    BY <1>5, <2>1
  <2>2. CASE k \notin 1..(L - M)
    <3>1. k - (L - M) \in 1..n /\ k - (L - M) \in 1..M
      BY <1>1, <1>3, <2>2
    <3>2. handshakeTimestamps[k - (L - M)] = granted[k]
      BY <1>1, <1>4, <3>1
    <3> QED
      BY <1>3, <3>1, <3>2
  <2> QED
    BY <2>1, <2>2
<1>8. Len(Recent) <= L
  BY <1>1, <1>3
<1> QED
  BY <1>3, <1>6, <1>7, <1>8 DEF Kept, L

\* A grant keeps it too, and the rate: the grant MaxHandshakes places back was
\* dropped.
LEMMA GrantKeeps ==
    ASSUME TypeOK, RateInv, HandshakeFree, AcquireHandshake, now' = now
    PROVE  RateInv'
<1> DEFINE L == Len(granted)
           R == Len(Recent)
<1>1. Kept(granted, Recent, now) /\ Recent \in Seq(Nat)
  BY RecentKept DEF RateInv
<1>2. /\ L \in Nat /\ R \in Nat /\ now \in Nat /\ Window \in Nat \ {0} /\ MaxHandshakes \in Nat \ {0}
      /\ R < MaxHandshakes /\ \A k \in 1..L : granted[k] \in Nat
  BY <1>1, LenProperties, ElementOfSeq, LimitsAssumption DEF TypeOK, HandshakeFree
<1>3. /\ Len(granted') = L + 1 /\ granted'[L + 1] = now
      /\ \A k \in 1..L : granted'[k] = granted[k]
  BY AppendProperties DEF TypeOK, AcquireHandshake
<1>4. /\ Len(handshakeTimestamps') = R + 1 /\ handshakeTimestamps'[R + 1] = now
      /\ \A k \in 1..R : handshakeTimestamps'[k] = Recent[k]
  BY <1>1, <1>2, AppendProperties DEF TypeOK, AcquireHandshake
<1>5. /\ \A j, k \in 1..L : j <= k => granted[j] <= granted[k]
      /\ \A k \in 1..L : granted[k] <= now
      /\ R <= L
      /\ \A k \in 1..R : Recent[k] = granted[L - R + k]
      /\ \A k \in 1..(L - R) : granted[k] < now - Window
  BY <1>1 DEF Kept
<1>6. \A k \in 1..(L - MaxHandshakes) : granted[k + MaxHandshakes] > granted[k] + Window
  BY DEF RateInv, HandshakeRate
<1> HIDE DEF L, R
<1>7. \A j, k \in 1..(L + 1) : j <= k => granted'[j] <= granted'[k]
  BY <1>2, <1>3, <1>5
<1>8. \A k \in 1..(L + 1) : granted'[k] <= now
  BY <1>2, <1>3, <1>5
<1>9. ASSUME NEW k \in 1..(R + 1) PROVE handshakeTimestamps'[k] = granted'[L + 1 - (R + 1) + k]
  <2>1. CASE k \in 1..R
    <3>1. L - R + k \in 1..L /\ L + 1 - (R + 1) + k = L - R + k
      BY <1>2, <1>5, <2>1
    <3> QED
      BY <1>3, <1>4, <1>5, <2>1, <3>1
  <2>2. CASE k = R + 1
    <3>1. L + 1 - (R + 1) + k = L + 1
      BY <1>2, <2>2
    <3> QED
      BY <1>3, <1>4, <2>2, <3>1
  <2> QED
    BY <1>2, <2>1, <2>2
<1>10. \A k \in 1..(L + 1 - (R + 1)) : granted'[k] < now - Window
  BY <1>2, <1>3, <1>5
<1>11. ASSUME NEW k \in 1..(L + 1 - MaxHandshakes)
       PROVE  granted'[k + MaxHandshakes] > granted'[k] + Window
  <2>1. CASE k \in 1..(L - MaxHandshakes)
    <3>1. k \in 1..L /\ k + MaxHandshakes \in 1..L
      BY <1>2, <2>1
    <3> QED
      BY <1>3, <1>6, <2>1, <3>1
  <2>2. CASE k = L + 1 - MaxHandshakes
    <3>1. k + MaxHandshakes = L + 1 /\ k \in 1..(L - R) /\ k \in 1..L
      BY <1>2, <2>2
    <3> QED
      BY <1>2, <1>3, <1>5, <3>1
  <2> QED
    BY <1>2, <2>1, <2>2
<1>12. R + 1 <= L + 1
  BY <1>2, <1>5
<1>13. Kept(granted, handshakeTimestamps, now)'
  BY <1>2, <1>3, <1>4, <1>7, <1>8, <1>9, <1>10, <1>12 DEF Kept
<1>14. HandshakeRate'
  BY <1>2, <1>3, <1>11 DEF HandshakeRate
<1> QED
  BY <1>13, <1>14 DEF RateInv

\* The clock only moves the window on.
LEMMA TimeKeeps ==
    ASSUME TypeOK, RateInv, UNCHANGED <<granted, handshakeTimestamps>>, now' \in Nat, now <= now'
    PROVE  RateInv'
<1>1. /\ Len(granted) \in Nat /\ Len(handshakeTimestamps) \in Nat /\ now \in Nat /\ Window \in Nat
      /\ \A k \in 1..Len(granted) : granted[k] \in Nat
  BY LenProperties, ElementOfSeq, LimitsAssumption DEF TypeOK
<1>2. Kept(granted, handshakeTimestamps, now)'
  BY <1>1 DEF RateInv, Kept
<1>3. HandshakeRate'
  BY DEF RateInv, HandshakeRate
<1> QED
  BY <1>2, <1>3 DEF RateInv

LEMMA EmptyKeeps ==
    ASSUME granted = <<>>, handshakeTimestamps = <<>> PROVE RateInv
BY LimitsAssumption DEF RateInv, Kept, HandshakeRate

LEMMA RateStep == TypeOK /\ TypeOK' /\ RateInv /\ [Next]_vars => RateInv'
<1> SUFFICES ASSUME TypeOK, TypeOK', RateInv, [Next]_vars PROVE RateInv'
  OBVIOUS
<1>0. now \in Nat /\ now' \in Nat
  BY DEF TypeOK
<1>1. ASSUME UNCHANGED <<granted, handshakeTimestamps, now>> PROVE RateInv'
  BY <1>0, <1>1, TimeKeeps
<1>2. ASSUME NEW i \in Conns, ConnectionAnswer(i) PROVE RateInv'
  <2>1. CASE Allowed(i, MaxConnections) /\ HandshakeFree
    BY <1>2, <2>1, GrantKeeps DEF ConnectionAnswer
  <2>2. CASE Allowed(i, MaxConnections) /\ ~HandshakeFree
    <3>1. handshakeTimestamps' = Recent /\ UNCHANGED <<granted, now>>
      BY <1>2, <2>2 DEF ConnectionAnswer
    <3>2. Kept(granted, handshakeTimestamps, now)'
      BY <3>1, RecentKept DEF RateInv
    <3>3. HandshakeRate'
      BY <3>1 DEF RateInv, HandshakeRate
    <3> QED
      BY <3>2, <3>3 DEF RateInv
  <2>3. CASE ~Allowed(i, MaxConnections)
    BY <1>1, <1>2, <2>3 DEF ConnectionAnswer
  <2> QED
    BY <2>1, <2>2, <2>3
<1>3. ASSUME NEW i \in Conns, LimiterFails(i) \/ SocketErrorWhileAsking(i) PROVE RateInv'
  <2>1. granted' = <<>> /\ handshakeTimestamps' = <<>>
    BY <1>3 DEF LimiterFails, SocketErrorWhileAsking, ProcessEnds
  <2> QED
    BY <2>1, LimitsAssumption DEF RateInv, Kept, HandshakeRate
<1>4. ASSUME NEW i \in Conns, \/ Accept(i) \/ HandshakeAnswer(i) \/ SocketCloseWhileAsking(i)
                              \/ Fails(i) \/ SocketError(i) \/ SocketClose(i)
      PROVE  RateInv'
  BY <1>1, <1>4 DEF Accept, HandshakeAnswer, SocketCloseWhileAsking, Fails, SocketError, SocketClose
<1>5. CASE Shutdown \/ ShutdownPoll \/ ShutdownDeadline \/ OtherInstance \/ OrganismPulse
  BY <1>1, <1>5 DEF Shutdown, ShutdownPoll, ShutdownDeadline, OtherInstance, OrganismPulse
<1>6. CASE Tick
  BY <1>0, <1>6, TimeKeeps DEF Tick
<1>7. CASE UNCHANGED vars
  BY <1>1, <1>7 DEF vars
<1> QED
  BY <1>2, <1>3, <1>4, <1>5, <1>6, <1>7 DEF Next

\* In every window of 60 s, wherever it begins, at most maxHandshakesPerMinute
\* handshakes are granted.
THEOREM RateHolds == Spec => []HandshakeRate
<1>1. Init => RateInv
  BY EmptyKeeps DEF Init
<1>2. RateInv => HandshakeRate
  BY DEF RateInv
<1> QED
  BY <1>1, <1>2, RateStep, TypeCorrect, PTL DEF Spec
=============================================================================
