-------------------------- MODULE Connection_proofs --------------------------
(***************************************************************************)
(* What reaches an end of a connection and when.  The replay guard, for    *)
(* every set of nonces, skew, lifetime and capacity, alone and behind the  *)
(* parsing of a stream that is cut anywhere; the heartbeats of the two     *)
(* ends, for every interval and delay; the sidecar's clients.              *)
(***************************************************************************)
EXTENDS Intake, Sidecar, FiniteSetTheorems, SequenceTheorems, TLAPS

(***************************************************************************)
(* The replay guard                                                        *)
(***************************************************************************)
LEMMA TypeInit == GuardInit => TypeOK
BY OptionsAssumption DEF GuardInit, TypeOK

LEMMA TypeStep == TypeOK /\ [GuardNext]_guardVars => TypeOK'
<1> SUFFICES ASSUME TypeOK, [GuardNext]_guardVars PROVE TypeOK'
  OBVIOUS
<1> USE OptionsAssumption DEF TypeOK
<1>1. \A out \in Evictions : out \subseteq Nonces
  BY DEF Evictions, Fresh
<1>2. ASSUME NEW n \in Nonces, Accept(n) PROVE TypeOK'
  <2>1. PICK out \in Evictions :
          /\ expiresAt' = [m \in (Fresh \ out) \cup {n} |->
                             IF m = n THEN Expiry(n) ELSE expiresAt[m]]
          /\ evicted' = evicted \cup out
          /\ UNCHANGED <<now, timestamp>>
          /\ accepted' = [accepted EXCEPT ![n] = @ + 1]
          /\ first' = [first EXCEPT ![n] = IF accepted[n] = 0 THEN now ELSE @]
    BY <1>2 DEF Accept
  <2>2. Expiry(n) \in Nat
    BY DEF Expiry
  <2> QED
    BY <1>1, <2>1, <2>2 DEF Fresh
<1>3. ASSUME NEW n \in Nonces, Reject(n) PROVE TypeOK'
  BY <1>1, <1>3 DEF Reject, Restricted, Fresh
<1>4. CASE Tick
  BY <1>4 DEF Tick
<1>5. CASE UNCHANGED guardVars
  BY <1>5 DEF guardVars
<1> QED
  BY <1>2, <1>3, <1>4, <1>5 DEF GuardNext

\* The guard's clock, table and counters stay well-typed.
THEOREM TypeCorrect == GuardSpec => []TypeOK
BY TypeInit, TypeStep, PTL DEF GuardSpec

-----------------------------------------------------------------------------
\* What is left of a bounded table after purge and eviction has room for one.
LEMMA RoomForOne ==
    ASSUME TypeOK, IsFiniteSet(DOMAIN expiresAt), TableBounded, NEW out \in Evictions
    PROVE  /\ IsFiniteSet(Fresh \ out)
           /\ Cardinality(Fresh \ out) \in Nat
           /\ Cardinality(Fresh \ out) < MaxEntries
<1> USE OptionsAssumption
<1>1. /\ Fresh \subseteq DOMAIN expiresAt
      /\ IsFiniteSet(Fresh) /\ Cardinality(Fresh) \in Nat
      /\ Cardinality(Fresh) <= MaxEntries
  BY FS_Subset, FS_CardinalityType DEF Fresh, TableBounded
<1>2. CASE Cardinality(Fresh) < MaxEntries
  <2>1. Fresh \ out = Fresh
    BY <1>2 DEF Evictions
  <2> QED
    BY <1>1, <1>2, <2>1
<1>3. CASE ~(Cardinality(Fresh) < MaxEntries)
  <2>1. PICK n \in Fresh : out = {n}
    BY <1>3 DEF Evictions
  <2>2. IsFiniteSet(Fresh \ {n}) /\ Cardinality(Fresh \ {n}) = Cardinality(Fresh) - 1
    BY <1>1, FS_RemoveElement
  <2> QED
    BY <1>1, <1>3, <2>1, <2>2
<1> QED
  BY <1>2, <1>3

TableInv == IsFiniteSet(DOMAIN expiresAt) /\ TableBounded

LEMMA TableInit == GuardInit => TableInv
BY FS_EmptySet, OptionsAssumption DEF GuardInit, TableInv, TableBounded

LEMMA TableStep == TypeOK /\ TableInv /\ [GuardNext]_guardVars => TableInv'
<1> SUFFICES ASSUME TypeOK, TableInv, [GuardNext]_guardVars PROVE TableInv'
  OBVIOUS
<1> USE OptionsAssumption DEF TableInv
<1>1. ASSUME NEW n \in Nonces, Accept(n) PROVE TableInv'
  <2>1. PICK out \in Evictions :
          n \notin Fresh \ out /\ DOMAIN expiresAt' = (Fresh \ out) \cup {n}
    BY <1>1 DEF Accept
  <2> DEFINE kept == Fresh \ out
  <2>2. IsFiniteSet(kept) /\ Cardinality(kept) \in Nat /\ Cardinality(kept) < MaxEntries
    BY <2>1, RoomForOne
  <2>3. n \notin kept /\ DOMAIN expiresAt' = kept \cup {n}
    BY <2>1
  <2> HIDE DEF kept
  <2>4. /\ IsFiniteSet(kept \cup {n})
        /\ Cardinality(kept \cup {n}) = Cardinality(kept) + 1
    BY <2>2, <2>3, FS_AddElement
  <2> QED
    BY <2>2, <2>3, <2>4 DEF TableBounded
<1>2. ASSUME NEW n \in Nonces, Reject(n) PROVE TableInv'
  <2>1. PICK out \in Evictions : DOMAIN expiresAt' = Fresh \ out
    BY <1>2 DEF Reject, Restricted
  <2> QED
    BY <2>1, RoomForOne DEF TableBounded
<1>3. CASE Tick
  BY <1>3 DEF Tick, TableBounded
<1>4. CASE UNCHANGED guardVars
  BY <1>4 DEF guardVars, TableBounded
<1> QED
  BY <1>1, <1>2, <1>3, <1>4 DEF GuardNext

\* No flood of messages grows the table past maxEntries.
THEOREM TableStaysBounded == GuardSpec => []TableBounded
<1>1. TableInv => TableBounded
  BY DEF TableInv
<1> QED
  BY <1>1, TypeCorrect, TableInit, TableStep, PTL DEF GuardSpec

-----------------------------------------------------------------------------
LEMMA ReplayInit == GuardInit => ReplayInv
BY DEF GuardInit, ReplayInv, AcceptedOnce

LEMMA ReplayStep ==
    ASSUME NonceTtl >= 2 * MaxClockSkew, NonceTtl > 0
    PROVE  TypeOK /\ ReplayInv /\ [GuardNext]_guardVars => ReplayInv'
<1> SUFFICES ASSUME TypeOK, ReplayInv, [GuardNext]_guardVars PROVE ReplayInv'
  OBVIOUS
<1> USE OptionsAssumption DEF TypeOK
\* What the invariant says of one nonce.
<1> DEFINE Kept(m) ==
      /\ accepted[m] <= 1 \/ (accepted[m] = 2 /\ TakenAtBothEdges(m))
      /\ accepted[m] = 1 =>
            /\ first[m] >= timestamp[m] - MaxClockSkew
            /\ \/ now >= first[m] + NonceTtl
               \/ m \in DOMAIN expiresAt /\ expiresAt[m] = first[m] + NonceTtl
      /\ accepted[m] = 2 =>
            \/ now > timestamp[m] + MaxClockSkew
            \/ m \in DOMAIN expiresAt /\ expiresAt[m] > now
<1>0. /\ \A m \in Nonces \ evicted : Kept(m)
      /\ (\A m \in Nonces \ evicted' : Kept(m)') => ReplayInv'
  BY DEF ReplayInv, AcceptedOnce, TakenAtBothEdges
<1>1. ASSUME NEW n \in Nonces, Accept(n) PROVE ReplayInv'
  <2>1. PICK out \in Evictions :
          /\ InTime(n) /\ n \notin Fresh \ out
          /\ expiresAt' = [m \in (Fresh \ out) \cup {n} |->
                             IF m = n THEN Expiry(n) ELSE expiresAt[m]]
          /\ accepted' = [accepted EXCEPT ![n] = @ + 1]
          /\ first' = [first EXCEPT ![n] = IF accepted[n] = 0 THEN now ELSE @]
          /\ evicted' = evicted \cup out
          /\ UNCHANGED <<now, timestamp>>
    BY <1>1 DEF Accept
  <2>2. /\ now - timestamp[n] <= MaxClockSkew /\ timestamp[n] - now <= MaxClockSkew
        /\ n \in DOMAIN expiresAt' /\ expiresAt'[n] = now + NonceTtl
        /\ accepted'[n] = accepted[n] + 1
        /\ first'[n] = IF accepted[n] = 0 THEN now ELSE first[n]
        /\ now' = now /\ timestamp' = timestamp
    BY <2>1 DEF InTime, Expiry
  <2>3. ASSUME n \notin evicted' PROVE Kept(n)'
    <3>1. Kept(n) /\ n \notin evicted /\ n \notin out /\ n \notin Fresh
      BY <1>0, <2>1, <2>3
    <3>2. n \in DOMAIN expiresAt => expiresAt[n] <= now
      BY <3>1 DEF Fresh
    <3>3. CASE accepted[n] = 0
      BY <2>2, <3>3
    \* Forgotten, and still in time: both edges.
    <3>4. CASE accepted[n] = 1
      <4>1. now >= first[n] + NonceTtl /\ first[n] >= timestamp[n] - MaxClockSkew
        BY <3>1, <3>2, <3>4
      <4>2. first[n] = timestamp[n] - MaxClockSkew /\ now >= timestamp[n] + MaxClockSkew
        BY <2>2, <4>1
      <4> QED  BY <2>2, <3>4, <4>2 DEF TakenAtBothEdges
    <3>5. accepted[n] # 2
      BY <2>2, <3>1, <3>2
    <3> QED  BY <3>1, <3>3, <3>4, <3>5
  <2>4. ASSUME NEW m \in Nonces \ evicted', m # n PROVE Kept(m)'
    <3>1. Kept(m) /\ m \notin evicted /\ m \notin out
      BY <1>0, <2>1
    <3>2. accepted'[m] = accepted[m] /\ first'[m] = first[m]
      BY <2>1, <2>4
    <3>3. \/ m \in DOMAIN expiresAt => expiresAt[m] <= now
          \/ m \in DOMAIN expiresAt' /\ expiresAt'[m] = expiresAt[m]
      BY <2>1, <2>4, <3>1 DEF Fresh
    <3> QED  BY <2>2, <3>1, <3>2, <3>3 DEF TakenAtBothEdges
  <2> HIDE DEF Kept
  <2> QED
    BY <1>0, <2>3, <2>4
<1>2. ASSUME NEW n \in Nonces, Reject(n) PROVE ReplayInv'
  <2>1. PICK out \in Evictions :
          /\ expiresAt' = [m \in Fresh \ out |-> expiresAt[m]]
          /\ evicted' = evicted \cup out
          /\ UNCHANGED <<now, timestamp, accepted, first>>
    BY <1>2 DEF Reject, Restricted
  <2>2. ASSUME NEW m \in Nonces \ evicted' PROVE Kept(m)'
    <3>1. Kept(m) /\ m \notin out
      BY <1>0, <2>1
    <3>2. \/ m \in DOMAIN expiresAt => expiresAt[m] <= now
          \/ m \in DOMAIN expiresAt' /\ expiresAt'[m] = expiresAt[m]
      BY <2>1, <3>1 DEF Fresh
    <3> QED  BY <2>1, <3>1, <3>2 DEF TakenAtBothEdges
  <2> HIDE DEF Kept
  <2> QED
    BY <1>0, <2>2
<1>3. CASE Tick
  <2>1. ASSUME NEW m \in Nonces \ evicted' PROVE Kept(m)'
    <3>1. Kept(m) /\ now' = now + 1
      BY <1>0, <1>3 DEF Tick
    <3>2. UNCHANGED <<timestamp, expiresAt, accepted, first>>
      BY <1>3 DEF Tick
    <3>3. accepted[m] = 2 => now' > timestamp[m] + MaxClockSkew
      BY <3>1 DEF TakenAtBothEdges
    <3> QED  BY <3>1, <3>2, <3>3 DEF TakenAtBothEdges
  <2> HIDE DEF Kept
  <2> QED
    BY <1>0, <2>1
<1>4. CASE UNCHANGED guardVars
  BY <1>4 DEF guardVars, ReplayInv, AcceptedOnce, TakenAtBothEdges
<1> QED
  BY <1>1, <1>2, <1>3, <1>4 DEF GuardNext

\* If a nonce is kept for at least twice the clock skew, as both services have it, a
\* message that a full table did not give up passes once, or twice if it is taken at
\* the first and again at the last instant of its window, and never a third time.
THEOREM MessagesAcceptedOnce ==
    ASSUME NonceTtl >= 2 * MaxClockSkew, NonceTtl > 0
    PROVE  GuardSpec => []AcceptedOnce
<1>1. ReplayInv => AcceptedOnce
  BY DEF ReplayInv
<1> QED
  BY <1>1, TypeCorrect, ReplayInit, ReplayStep, PTL DEF GuardSpec

-----------------------------------------------------------------------------
(***************************************************************************)
(* Intake                                                                  *)
(***************************************************************************)
\* The least number of a set of them.
LEMMA FirstOf ==
    ASSUME NEW T \in SUBSET Nat, T # {}
    PROVE  \E n \in T : \A m \in T : n <= m
<1> DEFINE Below == {p \in Nat \X Nat : p[1] < p[2]}
<1>1. IsWellFoundedOn(Below, Nat)
  BY NatLessThanWellFounded DEF OpToRel
<1>2. PICK n \in T : \A m \in T : ~(<<m, n>> \in Below)
  BY <1>1, WFMin
<1>3. ASSUME NEW m \in T, m < n PROVE FALSE
  <2>1. <<m, n>> \in Nat \X Nat /\ <<m, n>>[1] < <<m, n>>[2]
    BY <1>3
  <2>2. <<m, n>> \in Below
    BY <2>1
  <2> QED  BY <1>2, <2>2
<1> QED
  BY <1>3

\* parseMessages hands over the next frames of the stream, without a gap, and none
\* with a bad length.
LEMMA WholeIsNext ==
    ASSUME consumed \in 0..MaxFrames, NEW upTo \in Nat
    PROVE  \E k \in 0..MaxFrames - consumed :
             /\ Cardinality(Whole(upTo)) = k
             /\ \A i \in consumed + 1..consumed + k : stream[i] # Bad
<1> USE StreamAssumption
<1> DEFINE T == {j \in Nat : consumed + j + 1 \notin Whole(upTo)}
<1>1. MaxFrames - consumed \in Nat /\ MaxFrames - consumed \in T
  BY DEF Whole
<1>2. T \in SUBSET Nat /\ \A j \in Nat : j \in T <=> consumed + j + 1 \notin Whole(upTo)
  OBVIOUS
<1> HIDE DEF T
<1>3. PICK k \in T : \A m \in T : k <= m
  BY <1>1, <1>2, FirstOf
<1>4. k \in 0..MaxFrames - consumed
  BY <1>1, <1>2, <1>3
<1>5. ASSUME NEW i \in consumed + 1..consumed + k PROVE i \in Whole(upTo)
  <2>1. i - consumed - 1 \in Nat /\ i - consumed - 1 < k
    BY <1>4
  <2>2. i - consumed - 1 \notin T
    BY <1>3, <1>4, <2>1
  <2>3. consumed + (i - consumed - 1) + 1 = i
    BY <1>4
  <2> QED
    BY <1>2, <2>1, <2>2, <2>3
<1>6. ASSUME NEW i \in Whole(upTo) PROVE i \in consumed + 1..consumed + k
  <2> SUFFICES ASSUME i > consumed + k PROVE FALSE
    BY <1>4 DEF Whole
  <2>1. consumed + k + 1 \in Whole(upTo)
    BY <1>4 DEF Whole
  <2> QED
    BY <1>2, <1>3, <2>1
<1>7. Whole(upTo) = consumed + 1..consumed + k
  BY <1>4, <1>5, <1>6
<1>8. Cardinality(Whole(upTo)) = k
  BY <1>4, <1>7, FS_Interval
<1>9. \A i \in consumed + 1..consumed + k : stream[i] # Bad
  BY <1>4, <1>5 DEF Whole
<1> QED
  BY <1>4, <1>8, <1>9

StreamOK ==
    /\ stream \in [1..MaxFrames -> Nonces \cup {Bad}]
    /\ arrived \in Nat
    /\ consumed \in 0..MaxFrames
    /\ queue \in Seq(Nonces)
    /\ handled \in Seq(Nonces)
    /\ failed \in BOOLEAN

\* What has left the buffer is in the queue or handled, until a bad length or a
\* refused message.
NothingSkipped == ~failed => handled \o queue = SubSeq(stream, 1, consumed)

IntakeInv == StreamOK /\ NothingSkipped

LEMMA IntakeBegins == IntakeInit => IntakeInv
<1> SUFFICES ASSUME IntakeInit PROVE IntakeInv
  OBVIOUS
<1>1. StreamOK
  <2>1. stream \in [1..MaxFrames -> Nonces \cup {Bad}]
    BY DEF IntakeInit, Streams
  <2>2. <<>> \in Seq(Nonces)
    OBVIOUS
  <2>3. 0 \in 0..MaxFrames
    BY StreamAssumption
  <2> QED
    BY <2>1, <2>2, <2>3 DEF IntakeInit, StreamOK
<1>2. SubSeq(stream, 1, 0) = <<>> /\ <<>> \o <<>> = <<>>
  BY SubSeqEmpty, ConcatEmptySeq, EmptySeq
<1>3. NothingSkipped
  BY <1>2 DEF IntakeInit, NothingSkipped
<1> QED
  BY <1>1, <1>3 DEF IntakeInv

LEMMA ChunkKeepsOrder == IntakeInv /\ Chunk => IntakeInv'
<1> SUFFICES ASSUME IntakeInv, Chunk PROVE IntakeInv'
  OBVIOUS
<1> USE StreamAssumption DEF IntakeInv, StreamOK
<1>1. PICK upTo \in arrived + 1..2 * MaxFrames :
        /\ arrived' = upTo
        /\ queue' = queue \o Parsed(upTo)
        /\ consumed' = Remaining(upTo)
        /\ failed' = (failed \/ Throws(upTo))
  BY DEF Chunk
<1>2. stream' = stream /\ handled' = handled
  BY DEF Chunk
<1>3. upTo \in Nat
  BY <1>1
<1>4. PICK k \in 0..MaxFrames - consumed :
        /\ Cardinality(Whole(upTo)) = k
        /\ \A i \in consumed + 1..consumed + k : stream[i] # Bad
  BY <1>3, WholeIsNext
<1>5. /\ Parsed(upTo) = SubSeq(stream, consumed + 1, consumed + k)
      /\ Parsed(upTo) \in Seq(Nonces)
  <2>1. \A i \in consumed + 1..consumed + k : stream[i] \in Nonces
    BY <1>4
  <2>2. SubSeq(stream, consumed + 1, consumed + k) \in Seq(Nonces)
    BY <2>1, SubSeqProperties
  <2> QED
    BY <1>4, <2>2 DEF Parsed
<1>6. StreamOK'
  <2>1. queue' \in Seq(Nonces)
    BY <1>1, <1>5, ConcatProperties
  <2>2. consumed' \in 0..MaxFrames
    BY <1>1, <1>4 DEF Remaining
  <2>3. failed' \in BOOLEAN
    BY <1>1 DEF Throws
  <2> QED
    BY <1>1, <1>2, <1>3, <2>1, <2>2, <2>3
<1>7. NothingSkipped'
  <2> SUFFICES ASSUME ~failed' PROVE handled' \o queue' = SubSeq(stream', 1, consumed')
    BY DEF NothingSkipped
  <2>1. ~failed /\ consumed' = consumed + k
    BY <1>1, <1>4 DEF Remaining
  <2>2. handled \o (queue \o Parsed(upTo)) = (handled \o queue) \o Parsed(upTo)
    <3>1. handled \in Seq(Nonces) /\ queue \in Seq(Nonces) /\ Parsed(upTo) \in Seq(Nonces)
      BY <1>5
    <3> QED
      BY ONLY <3>1, ConcatAssociative
  <2>3. stream \in Seq(Nonces \cup {Bad}) /\ Len(stream) = MaxFrames
    BY DEF StreamOK
  <2>4. SubSeq(stream, 1, consumed) \o SubSeq(stream, consumed + 1, consumed + k)
          = SubSeq(stream, 1, consumed + k)
    <3>1. consumed \in 1 - 1..Len(stream) /\ consumed + k \in consumed..Len(stream)
      BY <1>4, <2>3
    <3>2. 1 \in 1..Len(stream) + 1
      BY <2>3
    <3> QED
      BY <2>3, <3>1, <3>2, ConcatAdjacentSubSeq
  <2> QED
    BY <1>1, <1>2, <1>5, <2>1, <2>2, <2>4 DEF NothingSkipped
<1> QED
  BY <1>6, <1>7

LEMMA HandleKeepsOrder == IntakeInv /\ Handle => IntakeInv'
<1> SUFFICES ASSUME IntakeInv, Handle PROVE IntakeInv'
  OBVIOUS
<1> USE DEF IntakeInv, StreamOK
<1>1. /\ queue # <<>> /\ queue' = Tail(queue)
      /\ stream' = stream /\ arrived' = arrived /\ consumed' = consumed
  BY DEF Handle
<1>2. /\ Head(queue) \in Nonces /\ queue' \in Seq(Nonces)
      /\ queue = <<Head(queue)>> \o queue'
  <2>1. Len(queue') = Len(queue) - 1 /\ \A i \in 1..Len(queue') : queue'[i] = queue[i + 1]
    BY <1>1, HeadTailProperties
  <2>2. Head(queue) \in Nonces /\ queue' \in Seq(Nonces) /\ Len(queue) \in Nat \ {0}
    BY <1>1, HeadTailProperties, EmptySeq
  <2> DEFINE one == <<Head(queue)>>
  <2>3. one \in Seq(Nonces) /\ Len(one) = 1 /\ one[1] = queue[1]
    BY <2>2
  <2> HIDE DEF one
  <2>4. /\ one \o queue' \in Seq(Nonces) /\ Len(one \o queue') = Len(queue)
        /\ \A i \in 1..Len(queue) : (one \o queue')[i] = queue[i]
    <3>1. Len(one \o queue') = Len(one) + Len(queue')
      BY <2>2, <2>3, ConcatProperties
    <3>2. one \o queue' \in Seq(Nonces)
      BY <2>2, <2>3, ConcatProperties
    <3>3. ASSUME NEW i \in 1..Len(queue) PROVE (one \o queue')[i] = queue[i]
      <4>1. i \in 1..Len(one) + Len(queue')
        BY <2>1, <2>2, <2>3
      <4>2. (one \o queue')[i] = IF i <= 1 THEN one[i] ELSE queue'[i - 1]
        <5>1. queue' \in Seq(Nonces) /\ one \in Seq(Nonces)
          BY <2>2, <2>3
        <5>2. \A j \in 1..Len(one) + Len(queue') :
                (one \o queue')[j] = IF j <= Len(one) THEN one[j] ELSE queue'[j - Len(one)]
          BY ONLY <5>1, ConcatProperties
        <5> QED
          BY <2>3, <4>1, <5>2
      <4>3. i > 1 => i - 1 \in 1..Len(queue')
        BY <2>1, <2>2
      <4> QED
        BY <2>1, <2>3, <4>2, <4>3
    <3> QED
      BY <2>1, <2>2, <2>3, <3>1, <3>2, <3>3
  <2>5. queue = one \o queue'
    BY <2>4, SeqEqual
  <2> QED
    BY <2>2, <2>5 DEF one
<1>3. CASE handled' = Append(handled, Head(queue)) /\ UNCHANGED failed
  <2>1. handled' \in Seq(Nonces)
    BY <1>2, <1>3, AppendProperties
  <2>2. handled' = handled \o <<Head(queue)>>
    BY <1>2, <1>3, AppendIsConcat
  <2>3. (handled \o <<Head(queue)>>) \o queue' = handled \o (<<Head(queue)>> \o queue')
    BY <1>2, ConcatAssociative
  <2>4. handled' \o queue' = handled \o queue
    BY <1>2, <2>2, <2>3
  <2> QED
    BY <1>1, <1>2, <1>3, <2>1, <2>4 DEF NothingSkipped
<1>4. CASE failed' = TRUE /\ UNCHANGED handled
  BY <1>1, <1>2, <1>4 DEF NothingSkipped
<1> QED
  BY <1>3, <1>4 DEF Handle

LEMMA IntakeStep == IntakeInv /\ [IntakeNext]_<<guardVars, intakeVars>> => IntakeInv'
<1> SUFFICES ASSUME IntakeInv, UNCHANGED intakeVars PROVE IntakeInv'
  BY ChunkKeepsOrder, HandleKeepsOrder DEF IntakeNext
<1> QED
  BY DEF IntakeInv, StreamOK, NothingSkipped, intakeVars

\* Until an end fails its handlers have run for the first messages of the stream, in
\* their order, whatever the chunks were.
THEOREM HandlesInOrder == IntakeSpec => []HandledInOrder
<1>1. IntakeInv => HandledInOrder
  <2> SUFFICES ASSUME IntakeInv, ~failed PROVE handled = SubSeq(stream, 1, Len(handled))
    BY DEF HandledInOrder
  <2> USE StreamAssumption DEF IntakeInv, StreamOK
  <2>1. \A i \in 1..consumed : stream[i] \in Nonces \cup {Bad}
    OBVIOUS
  <2>2. /\ Len(handled \o queue) = consumed
        /\ \A i \in 1..consumed : (handled \o queue)[i] = stream[i]
    BY <2>1, SubSeqProperties DEF NothingSkipped
  <2>3. /\ Len(handled) \in 0..consumed
        /\ \A i \in 1..Len(handled) : handled[i] = stream[i]
    BY <2>2, ConcatProperties
  <2>4. /\ SubSeq(stream, 1, Len(handled)) \in Seq(Nonces \cup {Bad})
        /\ Len(SubSeq(stream, 1, Len(handled))) = Len(handled)
        /\ \A i \in 1..Len(handled) : SubSeq(stream, 1, Len(handled))[i] = stream[i]
    BY <2>1, <2>3, SubSeqProperties
  <2>5. handled \in Seq(Nonces \cup {Bad})
    BY SeqMonotonic
  <2> QED
    BY <2>3, <2>4, <2>5, SeqEqual
<1> QED
  BY <1>1, IntakeBegins, IntakeStep, PTL DEF IntakeSpec

\* What a step of the intake is to the guard: nothing, a tick, or one message that
\* carries a timestamp, whose handler runs exactly if the guard accepts it.
LEMMA GuardSteps ==
    ASSUME IntakeInv, [IntakeNext]_<<guardVars, intakeVars>>
    PROVE  \/ UNCHANGED <<guardVars, handled>>
           \/ Tick /\ UNCHANGED handled
           \/ \E n \in Nonces : \/ Accept(n) /\ handled' = Append(handled, n)
                                \/ Reject(n) /\ UNCHANGED handled
           \/ \E n \in Nonces : /\ ~Guarded(n) /\ UNCHANGED guardVars
                                /\ handled' = Append(handled, n)
<1>1. CASE Chunk
  BY <1>1 DEF Chunk
<1>2. CASE Handle
  <2>1. Head(queue) \in Nonces
    BY <1>2, HeadTailProperties DEF Handle, IntakeInv, StreamOK
  <2> QED
    BY <1>2, <2>1 DEF Handle
<1>3. CASE Tick /\ UNCHANGED intakeVars
  BY <1>3 DEF intakeVars
<1>4. CASE UNCHANGED <<guardVars, intakeVars>>
  BY <1>4 DEF intakeVars
<1> QED
  BY <1>1, <1>2, <1>3, <1>4 DEF IntakeNext

\* Behind the queue the guard sees nothing that it would not see alone: what holds of
\* it under any delivery holds of an end.
THEOREM IntakeIsGuarded == IntakeSpec => GuardSpec
<1>1. IntakeInit => GuardInit
  BY DEF IntakeInit
<1>2. IntakeInv /\ [IntakeNext]_<<guardVars, intakeVars>> => [GuardNext]_guardVars
  BY GuardSteps DEF GuardNext
<1> QED
  BY <1>1, <1>2, IntakeBegins, IntakeStep, PTL DEF IntakeSpec, GuardSpec

\* The guard's count of a message that carries a timestamp is how often its handler ran.
RunsCounted == \A n \in Nonces : Guarded(n) => Runs(n) = accepted[n]

LEMMA OneMoreRun ==
    ASSUME handled \in Seq(Nonces), NEW n, NEW m, handled' = Append(handled, n)
    PROVE  Runs(m)' = IF m = n THEN Runs(m) + 1 ELSE Runs(m)
<1> DEFINE At(h, x) == {i \in 1..Len(h) : h[i] = x}
           last == Len(handled) + 1
           old == At(handled, m)
<1>1. /\ Len(handled) \in Nat /\ Len(handled') = Len(handled) + 1
      /\ \A i \in 1..Len(handled) : handled'[i] = handled[i]
      /\ handled'[Len(handled) + 1] = n
  OBVIOUS
<1>2. IsFiniteSet(old) /\ last \notin old
  <2>1. IsFiniteSet(1..Len(handled)) /\ old \subseteq 1..Len(handled)
    BY <1>1, FS_Interval
  <2>2. last \notin 1..Len(handled)
    BY <1>1
  <2> QED  BY <2>1, <2>2, FS_Subset
<1>3. At(handled', m) = IF m = n THEN old \cup {last} ELSE old
  <2>1. 1..Len(handled') = (1..Len(handled)) \cup {last}
    BY <1>1
  <2> QED  BY <1>1, <1>2, <2>1
<1>4. Runs(m) = Cardinality(old) /\ Runs(m)' = Cardinality(At(handled', m))
  BY DEF Runs
<1> HIDE DEF old, last, At
<1>5. Cardinality(old \cup {last}) = Cardinality(old) + 1
  BY <1>2, FS_AddElement
<1> QED
  BY <1>3, <1>4, <1>5

LEMMA CountStep ==
    ASSUME TypeOK, IntakeInv, RunsCounted, [IntakeNext]_<<guardVars, intakeVars>>
    PROVE  RunsCounted'
<1>1. handled \in Seq(Nonces) /\ accepted \in [Nonces -> Nat]
  BY DEF IntakeInv, StreamOK, TypeOK
<1>2. timestamp' = timestamp
  BY GuardSteps DEF guardVars, Tick, Accept, Reject
<1>3. CASE UNCHANGED <<accepted, handled>>
  BY <1>2, <1>3 DEF RunsCounted, Runs, Guarded
<1>4. ASSUME NEW n \in Nonces, Accept(n), handled' = Append(handled, n)
      PROVE  RunsCounted'
  <2>1. accepted' = [accepted EXCEPT ![n] = @ + 1]
    BY <1>4 DEF Accept
  <2>2. ASSUME NEW m \in Nonces, Guarded(m)' PROVE Runs(m)' = accepted'[m]
    <3>1. Runs(m) = accepted[m]
      BY <1>2, <2>2 DEF RunsCounted, Guarded
    <3> QED  BY <1>1, <1>4, <2>1, <3>1, OneMoreRun
  <2> QED  BY <2>2 DEF RunsCounted
<1>5. ASSUME NEW n \in Nonces, ~Guarded(n), UNCHANGED guardVars, handled' = Append(handled, n)
      PROVE  RunsCounted'
  <2>1. accepted' = accepted
    BY <1>5 DEF guardVars
  <2>2. ASSUME NEW m \in Nonces, Guarded(m)' PROVE Runs(m)' = accepted'[m]
    <3>1. Runs(m) = accepted[m] /\ m # n
      BY <1>2, <1>5, <2>2 DEF RunsCounted, Guarded
    <3> QED  BY <1>1, <1>5, <2>1, <3>1, OneMoreRun
  <2> QED  BY <2>2 DEF RunsCounted
<1>6. ASSUME NEW n \in Nonces, Reject(n), UNCHANGED handled PROVE UNCHANGED <<accepted, handled>>
  BY <1>6 DEF Reject
<1>7. Tick \/ UNCHANGED guardVars => UNCHANGED accepted
  BY DEF Tick, guardVars
<1> QED
  BY <1>3, <1>4, <1>5, <1>6, <1>7, GuardSteps

\* The handler of a message with a timestamp runs once behind any chunks, but for the
\* two edges of its window and for what a full table gave up, and the table is bounded.
THEOREM IntakeAcceptsOnce ==
    ASSUME NonceTtl >= 2 * MaxClockSkew, NonceTtl > 0
    PROVE  IntakeSpec => [](HandledOnce /\ TableBounded)
<1>1. IntakeInit => RunsCounted
  <2> SUFFICES ASSUME IntakeInit, NEW n \in Nonces PROVE Runs(n) = accepted[n]
    BY DEF RunsCounted
  <2>1. {i \in 1..Len(handled) : handled[i] = n} = {} /\ accepted[n] = 0
    BY DEF IntakeInit, GuardInit
  <2> QED  BY <2>1, FS_EmptySet DEF Runs
<1>2. AcceptedOnce /\ RunsCounted => HandledOnce
  BY DEF AcceptedOnce, RunsCounted, HandledOnce
<1> QED
  BY <1>1, <1>2, CountStep, IntakeBegins, IntakeStep, IntakeIsGuarded, TypeCorrect,
     MessagesAcceptedOnce, TableStaysBounded, PTL DEF IntakeSpec

-----------------------------------------------------------------------------
(***************************************************************************)
(* The sidecar's client                                                    *)
(***************************************************************************)
Alive == {"setup", "up"}

ClientInv ==
    /\ phase \in [Ends -> Alive \cup Over]
    /\ NoneForgottenAlive

LEMMA ClientBegins == Init => ClientInv
BY DEF Init, LinkInit, ClientInv, NoneForgottenAlive, Alive, Over

\* What the connection does alone brings no client back.
LEMMA LinkLeavesClient ==
    ASSUME ClientInv, LinkSteps, UNCHANGED localVars
    PROVE  ClientInv'
<1> USE DEF ClientInv, NoneForgottenAlive, Alive, Over, Ends
<1>1. \/ UNCHANGED phase
      \/ phase' = [phase EXCEPT !["server"] = "up"]
      \/ \E e \in Ends, how \in Over : phase' = [phase EXCEPT ![e] = how]
  BY DEF LinkSteps, Establish, HandleRequest, Respond, HandleAnswer, Vanishes, Elapse,
         Ping, PresumeDead, HandlePing, HandlePong, Closes, Leaves
<1>2. phase' \in [Ends -> Alive \cup Over] /\ (phase'["client"] \in Alive => phase["client"] \in Alive)
  BY <1>1
<1> QED
  BY <1>2 DEF localVars

LEMMA ClientStep == ClientInv /\ [Next]_vars => ClientInv'
<1> SUFFICES ASSUME ClientInv, [Next]_vars PROVE ClientInv'
  OBVIOUS
<1> USE DEF ClientInv, NoneForgottenAlive, Alive, Over, Ends
<1>1. CASE LinkSteps /\ UNCHANGED localVars
  BY <1>1, LinkLeavesClient
<1>2. CASE HandshakeDone
  BY <1>2 DEF HandshakeDone, Completes
<1>3. CASE SetupFails
  BY <1>3 DEF SetupFails, Cleanup, Disconnects
<1>4. CASE LocalWrites
  BY <1>4 DEF LocalWrites, linkVars
<1>5. CASE Forward
  <2>1. phase' = phase \/ phase' = [phase EXCEPT !["client"] = "closed"]
    BY <1>5 DEF Forward, Request, Leaves, linkVars
  <2>2. active' = active /\ missed' = missed /\ (local' = "closed" => local = "closed")
    BY <1>5 DEF Forward, EndLocal
  <2> QED
    BY <2>1, <2>2
<1>6. CASE LocalLeaves
  BY <1>6 DEF LocalLeaves, linkVars
<1>7. CASE LocalClose
  BY <1>7 DEF LocalClose, Cleanup, Disconnects, linkVars
<1>8. CASE LocalReset
  BY <1>8 DEF LocalReset, Cleanup, Disconnects, Leaves
<1>9. CASE Stop
  BY <1>9 DEF Stop, Cleanup, Disconnects
<1>10. CASE UNCHANGED vars
  BY <1>10 DEF vars, linkVars, localVars
<1> QED
  BY <1>1, <1>2, <1>3, <1>4, <1>5, <1>6, <1>7, <1>8, <1>9, <1>10 DEF Next

\* stop() finds every client that lives, and none outlives a local socket whose end
\* was heard.
THEOREM NoneIsForgotten == Spec => []NoneForgottenAlive
<1>1. ClientInv => NoneForgottenAlive
  BY DEF ClientInv
<1> QED
  BY <1>1, ClientBegins, ClientStep, PTL DEF Spec

-----------------------------------------------------------------------------
(***************************************************************************)
(* The heartbeats.  An invariant in time: how long it can still take until *)
(* an end hears of the other, and until what is on the wire is handled.    *)
(***************************************************************************)
Kinds == {"ping", "pong", "request", "answer", "server_auth_response"}
Frames == [kind : Kinds, sent : 0..MaxDelay, stamp : Nat]

\* What services may cost: a number of requests, and all that may be outstanding.
Worth(n) == n * MaxService
Work == Worth(MaxOutstanding)

LEMMA Timely ==
    /\ Interval \in Nat \ {0} /\ Skew \in Nat /\ MaxSetup \in Nat /\ MaxDelay \in Nat
    /\ MaxService \in Nat /\ MaxOutstanding \in Nat /\ Work \in Nat
    /\ MaxSetup + 3 * MaxDelay + Work <= 2 * Interval
    /\ 2 * MaxDelay + Work <= Skew
    /\ Threshold = 3 * Interval
<1>1. Work = MaxOutstanding * MaxService
  BY DEF Work, Worth
<1>2. MaxOutstanding * MaxService \in Nat
  BY TimingAssumption
<1> QED
  BY <1>1, <1>2, TimingAssumption, TimelyAssumption DEF Threshold

LEMMA Ways == MaxDelay \in Nat /\ MaxService \in Nat /\ Work \in Nat
BY Timely

LEMMA WorthGrows ==
    ASSUME NEW n \in Int
    PROVE  /\ Worth(n) \in Int
           /\ Worth(n + 1) = Worth(n) + MaxService
           /\ n <= MaxOutstanding => Worth(n) <= Work
<1> USE TimingAssumption
<1>1. Worth(n) \in Int /\ Worth(n + 1) = Worth(n) + MaxService
  BY DEF Worth
<1>2. ASSUME n <= MaxOutstanding PROVE n * MaxService <= MaxOutstanding * MaxService
  <2> DEFINE d == MaxOutstanding - n
  <2>1. d \in Nat
    BY <1>2
  <2>2. d * MaxService \in Nat
    BY <2>1
  <2>3. MaxOutstanding * MaxService = n * MaxService + d * MaxService
    OBVIOUS
  <2> QED
    BY <2>2, <2>3
<1> QED
  BY <1>1, <1>2 DEF Work, Worth

LEMMA PartsOf ==
    ASSUME NEW q \in Seq(Frames), NEW i \in 1..Len(q)
    PROVE  /\ q[i] \in Frames /\ q[i].kind \in Kinds
           /\ q[i].sent \in 0..MaxDelay /\ q[i].sent \in Nat /\ q[i].stamp \in Nat
<1>1. q[i] \in Frames
  BY ElementOfSeq
<1> DEFINE x == q[i]
<1>2. x.kind \in Kinds /\ x.sent \in 0..MaxDelay /\ x.stamp \in Nat
  BY ONLY <1>1 DEF Frames
<1> HIDE DEF x
<1>3. x.sent \in Nat
  BY <1>2, Timely
<1> QED
  BY <1>1, <1>2, <1>3 DEF x

\* f[i] is what the first i frames of q will cost, those of this kind alone.
Cost(x, kind) == IF x.kind = kind THEN MaxService ELSE 0
Tallies(f, q, kind) ==
    /\ f \in [0..Len(q) -> Nat]
    /\ f[0] = 0
    /\ \A i \in 1..Len(q) : f[i] = f[i - 1] + Cost(q[i], kind)
    /\ \A i, j \in 0..Len(q) : i <= j => f[i] <= f[j]

\* A frame is older than those behind it.
InAge(q) == \A i, j \in 1..Len(q) : i <= j => q[j].sent <= q[i].sent

LEMMA EmptyTally ==
    ASSUME NEW kind
    PROVE  \E f : Tallies(f, <<>>, kind)
<1> DEFINE f == [i \in 0..0 |-> 0]
<1>1. Tallies(f, <<>>, kind)
  BY DEF Tallies
<1> QED
  BY <1>1

LEMMA Written1 ==
    ASSUME NEW q \in Seq(Frames), NEW x \in Frames, x.sent = 0, InAge(q),
           NEW kind, NEW f, Tallies(f, q, kind)
    PROVE  /\ Append(q, x) \in Seq(Frames) /\ InAge(Append(q, x))
           /\ Len(q) \in Nat /\ Len(Append(q, x)) = Len(q) + 1
           /\ \A i \in 1..Len(q) : Append(q, x)[i] = q[i]
           /\ Append(q, x)[Len(q) + 1] = x
           /\ \E g : /\ Tallies(g, Append(q, x), kind)
                     /\ \A i \in 0..Len(q) : g[i] = f[i]
                     /\ g[Len(q) + 1] = f[Len(q)] + Cost(x, kind)
<1> DEFINE r == Append(q, x)
           g == [i \in 0..Len(q) + 1 |->
                   IF i = Len(q) + 1 THEN f[Len(q)] + Cost(x, kind) ELSE f[i]]
<1>1. /\ r \in Seq(Frames) /\ Len(q) \in Nat /\ Len(r) = Len(q) + 1
      /\ \A i \in 1..Len(q) : r[i] = q[i]
      /\ r[Len(q) + 1] = x
  BY AppendProperties
<1>2. \A i \in 1..Len(q) : q[i] \in Frames
  BY ElementOfSeq
<1> HIDE DEF r
<1>3. InAge(r)
  <2> SUFFICES ASSUME NEW i \in 1..Len(r), NEW j \in 1..Len(r), i <= j
               PROVE  r[j].sent <= r[i].sent
    BY DEF InAge
  <2>1. CASE j = Len(q) + 1
    <3>1. r[i].sent \in Nat /\ r[j].sent = 0
      <4>1. r[i] \in Frames
        BY <1>1, ElementOfSeq
      <4> QED
        BY <1>1, <2>1, <4>1, Timely DEF Frames
    <3> QED
      BY <3>1
  <2>2. CASE j # Len(q) + 1
    <3>1. i \in 1..Len(q) /\ j \in 1..Len(q)
      BY <1>1, <2>2
    <3> QED
      BY <1>1, <3>1 DEF InAge
  <2> QED
    BY <2>1, <2>2
<1>4. Cost(x, kind) \in Nat
  BY Timely DEF Cost
<1>5. /\ \A i \in 0..Len(q) : g[i] = f[i]
      /\ g[Len(q) + 1] = f[Len(q)] + Cost(x, kind)
      /\ g \in [0..Len(r) -> Nat]
  BY <1>1, <1>4 DEF Tallies
<1> HIDE DEF g
<1>6. Tallies(g, r, kind)
  <2>1. g[0] = 0
    BY <1>1, <1>5 DEF Tallies
  <2>2. ASSUME NEW i \in 1..Len(r) PROVE g[i] = g[i - 1] + Cost(r[i], kind)
    BY <1>1, <1>5 DEF Tallies
  <2>3. ASSUME NEW i \in 0..Len(r), NEW j \in 0..Len(r), i <= j PROVE g[i] <= g[j]
    <3>1. CASE j \in 0..Len(q)
      BY <1>1, <1>5, <2>3, <3>1 DEF Tallies
    <3>2. CASE j = Len(q) + 1 /\ i \in 0..Len(q)
      <4>1. f[i] <= f[Len(q)] /\ f[i] \in Nat /\ f[Len(q)] \in Nat
        BY <1>1, <3>2 DEF Tallies
      <4> QED
        BY <1>4, <1>5, <3>2, <4>1
    <3>3. CASE i = Len(q) + 1 /\ j = Len(q) + 1
      BY <1>1, <1>5, <3>3
    <3> QED
      BY <1>1, <2>3, <3>1, <3>2, <3>3
  <2> QED
    BY <1>5, <2>1, <2>2, <2>3 DEF Tallies
<1> QED
  BY <1>1, <1>3, <1>5, <1>6 DEF r

LEMMA Taken ==
    ASSUME NEW q \in Seq(Frames), q # <<>>, InAge(q),
           NEW kind, NEW f, Tallies(f, q, kind)
    PROVE  /\ Tail(q) \in Seq(Frames) /\ InAge(Tail(q))
           /\ Len(q) \in Nat \ {0} /\ Len(Tail(q)) = Len(q) - 1
           /\ \A i \in 1..Len(q) - 1 : Tail(q)[i] = q[i + 1]
           /\ Head(q) = q[1] /\ f[1] = Cost(Head(q), kind)
           /\ \E g : /\ Tallies(g, Tail(q), kind)
                     /\ \A i \in 0..Len(q) - 1 : g[i] = f[i + 1] - f[1]
<1> DEFINE r == Tail(q)
           g == [i \in 0..Len(q) - 1 |-> f[i + 1] - f[1]]
<1>1. /\ r \in Seq(Frames) /\ Len(q) \in Nat \ {0} /\ Len(r) = Len(q) - 1
      /\ \A i \in 1..Len(q) - 1 : r[i] = q[i + 1]
      /\ Head(q) = q[1]
  BY HeadTailProperties, EmptySeq
<1>2. \A i \in 1..Len(q) : q[i] \in Frames
  BY ElementOfSeq
<1> HIDE DEF r
<1>3. InAge(r)
  BY <1>1, <1>2 DEF InAge
<1>4. f[1] = Cost(Head(q), kind) /\ f[1] \in Nat
  <2>1. 1 \in 1..Len(q) /\ 1 - 1 = 0
    BY <1>1
  <2>2. f[1] = f[0] + Cost(q[1], kind) /\ f[0] = 0
    BY <2>1 DEF Tallies
  <2>3. Cost(q[1], kind) \in Nat
    BY Timely DEF Cost
  <2> QED
    BY <1>1, <2>2, <2>3
<1>5. /\ \A i \in 0..Len(q) - 1 : g[i] = f[i + 1] - f[1]
      /\ g \in [0..Len(r) -> Nat]
  <2>1. ASSUME NEW i \in 0..Len(q) - 1 PROVE f[i + 1] - f[1] \in Nat
    <3>1. i + 1 \in 0..Len(q) /\ 1 \in 0..Len(q) /\ 1 <= i + 1
      BY <1>1
    <3>2. f[1] <= f[i + 1] /\ f[i + 1] \in Nat
      BY <3>1 DEF Tallies
    <3> QED
      BY <1>4, <3>2
  <2> QED
    BY <1>1, <2>1
<1> HIDE DEF g
<1>6. Tallies(g, r, kind)
  <2>1. g[0] = 0
    BY <1>1, <1>4, <1>5
  <2>2. ASSUME NEW i \in 1..Len(r) PROVE g[i] = g[i - 1] + Cost(r[i], kind)
    <3>1. f[i + 1] = f[i] + Cost(q[i + 1], kind) /\ f[i] \in Nat /\ f[i + 1] \in Nat
      <4>1. i + 1 \in 1..Len(q) /\ (i + 1) - 1 = i /\ i \in 0..Len(q)
        BY <1>1
      <4> QED
        BY <4>1 DEF Tallies
    <3>2. g[i] = f[i + 1] - f[1] /\ g[i - 1] = f[i] - f[1]
      <4>1. i \in 0..Len(q) - 1 /\ i - 1 \in 0..Len(q) - 1 /\ (i - 1) + 1 = i
        BY <1>1
      <4> QED
        BY <1>5, <4>1
    <3>3. r[i] = q[i + 1] /\ Cost(q[i + 1], kind) \in Nat
      BY <1>1, Timely DEF Cost
    <3> QED
      BY <1>4, <3>1, <3>2, <3>3
  <2>3. ASSUME NEW i \in 0..Len(r), NEW j \in 0..Len(r), i <= j PROVE g[i] <= g[j]
    <3>1. /\ i + 1 \in 0..Len(q) /\ j + 1 \in 0..Len(q) /\ i + 1 <= j + 1
          /\ i \in 0..Len(q) - 1 /\ j \in 0..Len(q) - 1
      BY <1>1, <2>3
    <3>2. f[i + 1] <= f[j + 1] /\ f[i + 1] \in Nat /\ f[j + 1] \in Nat
      BY <3>1 DEF Tallies
    <3> QED
      BY <1>4, <1>5, <3>1, <3>2
  <2> QED
    BY <1>5, <2>1, <2>2, <2>3 DEF Tallies
<1> QED
  BY <1>1, <1>3, <1>4, <1>5, <1>6 DEF r

LEMMA Changed ==
    ASSUME NEW K, NEW A, NEW B, NEW x \in [kind : K, sent : A, stamp : B],
           NEW a \in A, NEW b \in B, NEW y, y = [x EXCEPT !.sent = a, !.stamp = b]
    PROVE  /\ y \in [kind : K, sent : A, stamp : B]
           /\ y.kind = x.kind /\ y.sent = a /\ y.stamp = b
OBVIOUS

LEMMA Aged ==
    ASSUME NEW q \in Seq(Frames), InAge(q)
    PROVE  /\ Older(q) \in Seq(Frames) /\ InAge(Older(q))
           /\ Len(q) \in Nat /\ Len(Older(q)) = Len(q)
           /\ \A i \in 1..Len(q) :
                /\ Older(q)[i].kind = q[i].kind
                /\ Older(q)[i].sent = IF q[i].sent + 1 < MaxDelay THEN q[i].sent + 1
                                                                  ELSE MaxDelay
                /\ Older(q)[i].stamp <= q[i].stamp + 1
           /\ \A f, kind : Tallies(f, q, kind) => Tallies(f, Older(q), kind)
<1> DEFINE r == Older(q)
           Aging(x) == [x EXCEPT !.sent = AtMost(MaxDelay, @ + 1),
                                 !.stamp = AtMost(Skew + 1, @ + 1)]
<1>1. \A i \in 1..Len(q) : q[i] \in Frames /\ Len(q) \in Nat
  BY ElementOfSeq
<1>2. ASSUME NEW x \in Frames
      PROVE  /\ Aging(x) \in Frames /\ Aging(x).kind = x.kind
             /\ Aging(x).sent = IF x.sent + 1 < MaxDelay THEN x.sent + 1 ELSE MaxDelay
             /\ Aging(x).stamp <= x.stamp + 1
  <2> DEFINE sent == AtMost(MaxDelay, x.sent + 1)
             stamp == AtMost(Skew + 1, x.stamp + 1)
  <2>1. x \in Frames /\ x.kind \in Kinds /\ x.sent \in 0..MaxDelay /\ x.stamp \in Nat
    BY DEF Frames
  <2>2. /\ sent \in 0..MaxDelay
        /\ sent = IF x.sent + 1 < MaxDelay THEN x.sent + 1 ELSE MaxDelay
        /\ stamp \in Nat /\ stamp <= x.stamp + 1
    BY <2>1, Timely DEF AtMost
  <2>3. Aging(x) = [x EXCEPT !.sent = sent, !.stamp = stamp]
    OBVIOUS
  <2> HIDE DEF Aging, sent, stamp
  <2>4. /\ Aging(x) \in Frames
        /\ Aging(x).kind = x.kind /\ Aging(x).sent = sent /\ Aging(x).stamp = stamp
    BY <2>2, <2>3, Changed DEF Frames
  <2> QED
    BY <2>2, <2>4
<1>3. r = [i \in 1..Len(q) |-> Aging(q[i])]
  BY DEF Older
<1> HIDE DEF Aging, r
<1>4. Len(q) \in Nat
  OBVIOUS
<1>5. r \in Seq(Frames) /\ Len(r) = Len(q) /\ \A i \in 1..Len(q) : r[i] = Aging(q[i])
  BY <1>1, <1>2, <1>3, <1>4
<1>6. \A i \in 1..Len(q) :
        /\ r[i].kind = q[i].kind
        /\ r[i].sent = IF q[i].sent + 1 < MaxDelay THEN q[i].sent + 1 ELSE MaxDelay
        /\ r[i].stamp <= q[i].stamp + 1
  BY <1>1, <1>2, <1>5
<1>7. InAge(r)
  <2> SUFFICES ASSUME NEW i \in 1..Len(q), NEW j \in 1..Len(q), i <= j
               PROVE  r[j].sent <= r[i].sent
    BY <1>5 DEF InAge
  <2>1. q[j].sent <= q[i].sent /\ q[i].sent \in Nat /\ q[j].sent \in Nat
    BY <1>1 DEF InAge, Frames
  <2> QED
    BY <1>6, <2>1, Timely
<1>8. ASSUME NEW f, NEW kind, Tallies(f, q, kind) PROVE Tallies(f, r, kind)
  BY <1>5, <1>6, <1>8 DEF Tallies, Cost
<1> QED
  BY <1>4, <1>5, <1>6, <1>7, <1>8 DEF r

-----------------------------------------------------------------------------
\* What waits for the server, behind requests that cost f and a service that may last
\* left: a frame's age and what is before it are no more than a way and all services.
Fits(q, f, left) ==
    \A i \in 1..Len(q) :
        /\ q[i].stamp + f[i] <= q[i].sent + Work
        /\ q[i].stamp + f[i] + left <= MaxDelay + Work

LEMMA FitsWritten ==
    ASSUME NEW q \in Seq(Frames), NEW x \in Frames, x.sent = 0, x.stamp = 0,
           NEW f \in [0..Len(q) -> Nat], NEW g, NEW left \in Nat, NEW cost \in Nat,
           \A i \in 0..Len(q) : g[i] = f[i], g[Len(q) + 1] = f[Len(q)] + cost,
           f[Len(q)] + cost + left <= Work,
           Fits(q, f, left)
    PROVE  Fits(Append(q, x), g, left)
<1>1. /\ Len(q) \in Nat /\ Len(Append(q, x)) = Len(q) + 1
      /\ \A i \in 1..Len(q) : Append(q, x)[i] = q[i]
      /\ Append(q, x)[Len(q) + 1] = x
  BY AppendProperties
<1>2. f[Len(q)] \in Nat
  BY <1>1
<1> SUFFICES ASSUME NEW i \in 1..Len(q) + 1
             PROVE  /\ Append(q, x)[i].stamp + g[i] <= Append(q, x)[i].sent + Work
                    /\ Append(q, x)[i].stamp + g[i] + left <= MaxDelay + Work
  BY <1>1 DEF Fits
<1>3. CASE i = Len(q) + 1
  BY <1>1, <1>2, <1>3, Ways
<1>4. CASE i \in 1..Len(q)
  <2>1. g[i] = f[i] /\ Append(q, x)[i] = q[i]
    BY <1>1, <1>4
  <2> QED
    BY <1>4, <2>1 DEF Fits
<1>5. i = Len(q) + 1 \/ i \in 1..Len(q)
  BY <1>1
<1> QED
  BY ONLY <1>3, <1>4, <1>5

LEMMA FitsTaken ==
    ASSUME NEW q \in Seq(Frames), q # <<>>,
           NEW f \in [0..Len(q) -> Nat], NEW g, NEW left \in Nat, NEW after \in Nat,
           \A i \in 0..Len(q) - 1 : g[i] = f[i + 1] - f[1],
           after <= left + f[1],
           Fits(q, f, left)
    PROVE  Fits(Tail(q), g, after)
<1>1. /\ Len(q) \in Nat \ {0} /\ Len(Tail(q)) = Len(q) - 1
      /\ \A i \in 1..Len(q) - 1 : Tail(q)[i] = q[i + 1]
  BY HeadTailProperties, EmptySeq
<1> SUFFICES ASSUME NEW i \in 1..Len(q) - 1
             PROVE  /\ q[i + 1].stamp + g[i] <= q[i + 1].sent + Work
                    /\ q[i + 1].stamp + g[i] + after <= MaxDelay + Work
  BY <1>1 DEF Fits
<1>2. i + 1 \in 1..Len(q) /\ 1 \in 0..Len(q) /\ i \in 0..Len(q) - 1
  BY <1>1
<1>3. q[i + 1].stamp \in Nat /\ q[i + 1].sent \in Nat
  BY <1>2, PartsOf
<1>4. f[i + 1] \in Nat /\ f[1] \in Nat /\ g[i] = f[i + 1] - f[1]
  BY <1>2
<1>5. q[i + 1].stamp + f[i + 1] <= q[i + 1].sent + Work
      /\ q[i + 1].stamp + f[i + 1] + left <= MaxDelay + Work
  BY <1>2 DEF Fits
<1> DEFINE cost == f[i + 1]
           headCost == f[1]
           stamp == q[i + 1].stamp
           sent == q[i + 1].sent
<1>6. /\ cost \in Nat /\ headCost \in Nat /\ stamp \in Nat /\ sent \in Nat
      /\ g[i] = cost - headCost /\ after <= left + headCost
      /\ stamp + cost <= sent + Work /\ stamp + cost + left <= MaxDelay + Work
  BY <1>3, <1>4, <1>5
<1> HIDE DEF cost, headCost, stamp, sent
<1>7. stamp + (cost - headCost) <= sent + Work /\ stamp + (cost - headCost) + after <= MaxDelay + Work
  BY <1>6, Ways
<1> QED
  BY <1>6, <1>7 DEF stamp, sent

\* A unit of time passes: the service goes on or, without one, the first frame is due
\* later.
LEMMA FitsAged ==
    ASSUME NEW q \in Seq(Frames), InAge(q),
           NEW f \in [0..Len(q) -> Nat], NEW left \in Nat,
           left = 0 => (q # <<>> => q[1].sent < MaxDelay),
           Fits(q, f, left)
    PROVE  Fits(Older(q), f, IF left = 0 THEN 0 ELSE left - 1)
<1>1. /\ Len(q) \in Nat /\ Len(Older(q)) = Len(q)
      /\ \A i \in 1..Len(q) :
           /\ Older(q)[i].sent = IF q[i].sent + 1 < MaxDelay THEN q[i].sent + 1
                                                             ELSE MaxDelay
           /\ Older(q)[i].stamp <= q[i].stamp + 1
           /\ Older(q)[i].stamp \in Nat
  <2>1. Older(q) \in Seq(Frames)
    BY Aged
  <2>2. Len(Older(q)) = Len(q)
    BY Aged
  <2>3. \A i \in 1..Len(q) : Older(q)[i].stamp \in Nat
    BY <2>1, <2>2, PartsOf
  <2> QED
    BY <2>3, Aged
<1> DEFINE r == Older(q)
<1> HIDE DEF r
<1> SUFFICES ASSUME NEW i \in 1..Len(q)
             PROVE  /\ r[i].stamp + f[i] <= r[i].sent + Work
                    /\ r[i].stamp + f[i] + (IF left = 0 THEN 0 ELSE left - 1)
                         <= MaxDelay + Work
  BY <1>1 DEF Fits, r
<1>2. /\ q[i].stamp \in Nat /\ q[i].sent \in 0..MaxDelay /\ f[i] \in Nat
      /\ q[i].sent <= q[1].sent /\ q # <<>>
  <2>1. i \in 0..Len(q) /\ 1 \in 1..Len(q) /\ 1 <= i
    BY <1>1
  <2>2. q # <<>>
    BY <2>1
  <2> QED
    BY <2>1, <2>2, PartsOf DEF InAge
<1>3. /\ q[i].stamp + f[i] <= q[i].sent + Work
      /\ q[i].stamp + f[i] + left <= MaxDelay + Work
  BY DEF Fits
<1>4. r[i].sent = (IF q[i].sent + 1 < MaxDelay THEN q[i].sent + 1 ELSE MaxDelay)
      /\ r[i].stamp <= q[i].stamp + 1 /\ r[i].stamp \in Nat
  BY <1>1 DEF r
<1>5. q[1].sent \in Nat
  <2>1. 1 \in 1..Len(q)
    BY <1>1
  <2> QED
    BY <2>1, PartsOf
<1> DEFINE cost == f[i]
           stamp == q[i].stamp
           sent == q[i].sent
           then == r[i].stamp
<1>6. /\ cost \in Nat /\ stamp \in Nat /\ sent \in 0..MaxDelay /\ then \in Nat
      /\ stamp + cost <= sent + Work /\ stamp + cost + left <= MaxDelay + Work
      /\ then <= stamp + 1
      /\ left = 0 => sent < MaxDelay
  BY <1>2, <1>3, <1>4, <1>5, Ways
<1>7. r[i].sent = IF sent + 1 < MaxDelay THEN sent + 1 ELSE MaxDelay
  BY <1>4
<1> HIDE DEF cost, stamp, sent, then
<1>8. then + cost <= (IF sent + 1 < MaxDelay THEN sent + 1 ELSE MaxDelay) + Work
  BY <1>6, Ways
<1>9. then + cost + (IF left = 0 THEN 0 ELSE left - 1) <= MaxDelay + Work
  BY <1>6, Ways
<1> QED
  BY <1>7, <1>8, <1>9 DEF then, cost

\* A frame of a kind that will be handled within a limit.
Coming(q, f, left, kind, limit) ==
    \E i \in 1..Len(q) : /\ q[i].kind = kind
                         /\ f[i] + MaxDelay <= q[i].sent + limit
                         /\ f[i] + left <= limit

LEMMA ComingWritten ==
    ASSUME NEW q \in Seq(Frames), NEW x \in Frames,
           NEW f \in [0..Len(q) -> Nat], NEW g, NEW left \in Nat, NEW kind, NEW limit \in Int,
           \A i \in 0..Len(q) : g[i] = f[i],
           Coming(q, f, left, kind, limit)
    PROVE  Coming(Append(q, x), g, left, kind, limit)
<1>1. /\ Len(q) \in Nat /\ Len(Append(q, x)) = Len(q) + 1
      /\ \A i \in 1..Len(q) : Append(q, x)[i] = q[i]
  BY AppendProperties
<1>2. PICK i \in 1..Len(q) : /\ q[i].kind = kind
                             /\ f[i] + MaxDelay <= q[i].sent + limit
                             /\ f[i] + left <= limit
  BY DEF Coming
<1>3. i \in 1..Len(q) + 1 /\ g[i] = f[i] /\ Append(q, x)[i] = q[i]
  BY <1>1
<1> QED
  BY <1>1, <1>2, <1>3 DEF Coming

LEMMA ComingLast ==
    ASSUME NEW q \in Seq(Frames), NEW x \in Frames, x.sent = 0,
           NEW f \in [0..Len(q) -> Nat], NEW g, NEW left \in Nat, NEW limit \in Int,
           g[Len(q) + 1] = f[Len(q)],
           f[Len(q)] + MaxDelay <= limit, f[Len(q)] + left <= limit
    PROVE  Coming(Append(q, x), g, left, x.kind, limit)
<1>1. /\ Len(q) \in Nat /\ Len(Append(q, x)) = Len(q) + 1
      /\ Append(q, x)[Len(q) + 1] = x
  BY AppendProperties
<1>2. Len(q) + 1 \in 1..Len(Append(q, x))
  BY <1>1
<1>3. g[Len(q) + 1] + MaxDelay <= x.sent + limit
  BY Ways
<1> QED
  BY <1>1, <1>2, <1>3 DEF Coming

LEMMA ComingTaken ==
    ASSUME NEW q \in Seq(Frames), q # <<>>,
           NEW f \in [0..Len(q) -> Nat], NEW g, NEW left \in Nat, NEW after \in Nat,
           NEW kind, NEW limit \in Int,
           \A i \in 0..Len(q) - 1 : g[i] = f[i + 1] - f[1],
           after <= left + f[1],
           Coming(q, f, left, kind, limit)
    PROVE  \/ Head(q).kind = kind /\ 0 <= limit
           \/ Coming(Tail(q), g, after, kind, limit)
<1>1. /\ Len(q) \in Nat \ {0} /\ Len(Tail(q)) = Len(q) - 1
      /\ \A i \in 1..Len(q) - 1 : Tail(q)[i] = q[i + 1]
      /\ Head(q) = q[1]
  BY HeadTailProperties, EmptySeq
<1>2. PICK i \in 1..Len(q) : /\ q[i].kind = kind
                             /\ f[i] + MaxDelay <= q[i].sent + limit
                             /\ f[i] + left <= limit
  BY DEF Coming
<1>3. f[i] \in Nat /\ f[1] \in Nat /\ q[i].sent \in Nat
  <2>1. i \in 0..Len(q) /\ 1 \in 0..Len(q)
    BY <1>1
  <2> QED
    BY <2>1, PartsOf
<1>4. CASE i = 1
  BY <1>1, <1>2, <1>3, <1>4
<1>5. CASE i # 1
  <2>1. /\ i - 1 \in 1..Len(q) - 1 /\ i - 1 \in 0..Len(q) - 1 /\ (i - 1) + 1 = i
    BY <1>1, <1>5
  <2>2. g[i - 1] = f[i] - f[1] /\ Tail(q)[i - 1] = q[i]
    BY <1>1, <2>1
  <2>3. g[i - 1] + MaxDelay <= q[i].sent + limit /\ g[i - 1] + after <= limit
    <3> DEFINE cost == f[i]
               headCost == f[1]
               sent == q[i].sent
    <3>1. /\ cost \in Nat /\ headCost \in Nat /\ sent \in Nat
          /\ cost + MaxDelay <= sent + limit /\ cost + left <= limit
          /\ g[i - 1] = cost - headCost /\ after <= left + headCost
      BY <1>2, <1>3, <2>2
    <3> HIDE DEF cost, headCost, sent
    <3>2. (cost - headCost) + MaxDelay <= sent + limit /\ (cost - headCost) + after <= limit
      BY <3>1, Ways
    <3> QED
      BY <3>1, <3>2 DEF sent
  <2> QED
    BY <1>1, <1>2, <2>1, <2>2, <2>3 DEF Coming
<1> QED
  BY <1>4, <1>5

LEMMA ComingAged ==
    ASSUME NEW q \in Seq(Frames), InAge(q),
           NEW f \in [0..Len(q) -> Nat], NEW left \in Nat, NEW kind, NEW limit \in Int,
           left = 0 => (q # <<>> => q[1].sent < MaxDelay),
           Coming(q, f, left, kind, limit)
    PROVE  Coming(Older(q), f, IF left = 0 THEN 0 ELSE left - 1, kind, limit - 1)
<1>1. PICK i \in 1..Len(q) : /\ q[i].kind = kind
                             /\ f[i] + MaxDelay <= q[i].sent + limit
                             /\ f[i] + left <= limit
  BY DEF Coming
<1>2. /\ Len(q) \in Nat /\ Len(Older(q)) = Len(q)
      /\ Older(q)[i].kind = q[i].kind
      /\ Older(q)[i].sent = IF q[i].sent + 1 < MaxDelay THEN q[i].sent + 1 ELSE MaxDelay
  BY Aged
<1>3. q[i] \in Frames /\ q[1] \in Frames /\ q[i].sent <= q[1].sent /\ q # <<>>
  <2>1. 1 \in 1..Len(q) /\ 1 <= i
    BY <1>2
  <2> QED
    BY <2>1, ElementOfSeq DEF InAge
<1>4. q[i].sent \in 0..MaxDelay /\ q[1].sent \in Nat /\ f[i] \in Nat
  <2>1. 1 \in 1..Len(q) /\ i \in 0..Len(q)
    BY <1>2
  <2> QED
    BY <2>1, PartsOf
<1> DEFINE sent == Older(q)[i].sent
<1>5. /\ f[i] + MaxDelay <= sent + (limit - 1)
      /\ f[i] + (IF left = 0 THEN 0 ELSE left - 1) <= limit - 1
  <2>1. sent = IF q[i].sent + 1 < MaxDelay THEN q[i].sent + 1 ELSE MaxDelay
    BY <1>2
  <2> HIDE DEF sent
  <2>2. CASE left = 0
    BY <1>1, <1>3, <1>4, <2>1, <2>2, Ways
  <2>3. CASE left # 0
    <3>1. left >= 1 /\ f[i] + (left - 1) <= limit - 1 /\ f[i] <= limit - 1
      BY <1>1, <1>4, <2>3
    <3>2. CASE q[i].sent + 1 < MaxDelay
      <4>1. sent = q[i].sent + 1 /\ f[i] + MaxDelay <= q[i].sent + limit
        BY <1>1, <2>1, <3>2
      <4>2. q[i].sent \in Nat /\ f[i] \in Nat /\ MaxDelay \in Nat
        BY <1>4, Ways
      <4>3. f[i] + MaxDelay <= sent + (limit - 1)
        BY <4>1, <4>2
      <4> QED
        BY <2>3, <3>1, <4>3
    <3>3. CASE ~(q[i].sent + 1 < MaxDelay)
      <4>1. sent = MaxDelay /\ MaxDelay \in Nat
        BY <2>1, <3>3, Ways
      <4> QED
        BY <1>4, <2>3, <3>1, <4>1
    <3> QED
      BY <3>2, <3>3
  <2> QED
    BY <2>2, <2>3
<1> QED
  BY <1>1, <1>2, <1>5 DEF Coming

\* The same on the way to the client, which never waits.
Arriving(q, kind, limit) ==
    \E i \in 1..Len(q) : q[i].kind = kind /\ MaxDelay <= q[i].sent + limit

LEMMA ArrivingWritten ==
    ASSUME NEW q \in Seq(Frames), NEW x \in Frames, NEW kind, NEW limit \in Int,
           \/ Arriving(q, kind, limit)
           \/ x.kind = kind /\ MaxDelay <= x.sent + limit
    PROVE  Arriving(Append(q, x), kind, limit)
<1>1. /\ Len(q) \in Nat /\ Len(Append(q, x)) = Len(q) + 1
      /\ \A i \in 1..Len(q) : Append(q, x)[i] = q[i]
      /\ Append(q, x)[Len(q) + 1] = x
  BY AppendProperties
<1>2. CASE Arriving(q, kind, limit)
  <2>1. PICK i \in 1..Len(q) : q[i].kind = kind /\ MaxDelay <= q[i].sent + limit
    BY <1>2 DEF Arriving
  <2>2. i \in 1..Len(Append(q, x)) /\ Append(q, x)[i] = q[i]
    BY <1>1
  <2> QED
    BY <2>1, <2>2 DEF Arriving
<1>3. CASE x.kind = kind /\ MaxDelay <= x.sent + limit
  <2>1. Len(q) + 1 \in 1..Len(Append(q, x))
    BY <1>1
  <2> QED
    BY <1>1, <1>3, <2>1 DEF Arriving
<1> QED
  BY <1>2, <1>3

LEMMA ArrivingTaken ==
    ASSUME NEW q \in Seq(Frames), q # <<>>, NEW kind, NEW limit \in Int,
           Arriving(q, kind, limit)
    PROVE  \/ Head(q).kind = kind /\ 0 <= limit
           \/ Arriving(Tail(q), kind, limit)
<1>1. /\ Len(q) \in Nat \ {0} /\ Len(Tail(q)) = Len(q) - 1
      /\ \A i \in 1..Len(q) - 1 : Tail(q)[i] = q[i + 1]
      /\ Head(q) = q[1]
  BY HeadTailProperties, EmptySeq
<1>2. PICK i \in 1..Len(q) : q[i].kind = kind /\ MaxDelay <= q[i].sent + limit
  BY DEF Arriving
<1>3. q[i].sent \in 0..MaxDelay
  BY PartsOf
<1>4. CASE i = 1
  BY <1>1, <1>2, <1>3, <1>4, Ways
<1>5. CASE i # 1
  <2>1. i - 1 \in 1..Len(q) - 1 /\ (i - 1) + 1 = i
    BY <1>1, <1>5
  <2>2. Tail(q)[i - 1] = q[i]
    BY <1>1, <2>1
  <2> QED
    BY <1>1, <1>2, <2>1, <2>2 DEF Arriving
<1> QED
  BY <1>4, <1>5

LEMMA ArrivingAged ==
    ASSUME NEW q \in Seq(Frames), InAge(q), NEW kind, NEW limit \in Int,
           q # <<>> => q[1].sent < MaxDelay,
           Arriving(q, kind, limit)
    PROVE  Arriving(Older(q), kind, limit - 1)
<1>1. PICK i \in 1..Len(q) : q[i].kind = kind /\ MaxDelay <= q[i].sent + limit
  BY DEF Arriving
<1>2. /\ Len(q) \in Nat /\ Len(Older(q)) = Len(q)
      /\ Older(q)[i].kind = q[i].kind
      /\ Older(q)[i].sent = IF q[i].sent + 1 < MaxDelay THEN q[i].sent + 1 ELSE MaxDelay
  BY Aged
<1>3. q[i] \in Frames /\ q[1] \in Frames /\ q[i].sent <= q[1].sent /\ q # <<>>
  <2>1. 1 \in 1..Len(q) /\ 1 <= i
    BY <1>2
  <2> QED
    BY <2>1, ElementOfSeq DEF InAge
<1>4. q[i].sent \in 0..MaxDelay /\ q[1].sent \in Nat
  <2>1. 1 \in 1..Len(q)
    BY <1>2
  <2> QED
    BY <2>1, PartsOf
<1>5. MaxDelay <= Older(q)[i].sent + (limit - 1)
  BY <1>1, <1>2, <1>3, <1>4, Ways
<1> QED
  BY <1>1, <1>2, <1>5 DEF Arriving

-----------------------------------------------------------------------------
\* A frame joins what waits for the server, a frame is taken from it; the same on the
\* other way.
LEMMA ToServer ==
    ASSUME NEW q \in Seq(Frames), InAge(q), NEW asked, Tallies(asked, q, "request"),
           NEW left \in Nat, NEW x \in Frames, x.sent = 0, x.stamp = 0,
           asked[Len(q)] + Cost(x, "request") + left <= Work
    PROVE  /\ Append(q, x) \in Seq(Frames) /\ InAge(Append(q, x))
           /\ \E g : /\ Tallies(g, Append(q, x), "request")
                     /\ g[Len(Append(q, x))] = asked[Len(q)] + Cost(x, "request")
                     /\ Fits(q, asked, left) => Fits(Append(q, x), g, left)
                     /\ \A kind : \A limit \in Int :
                          Coming(q, asked, left, kind, limit)
                            => Coming(Append(q, x), g, left, kind, limit)
                     /\ \A limit \in Int :
                          x.kind # "request" /\ MaxDelay + Work <= limit
                            => Coming(Append(q, x), g, left, x.kind, limit)
<1>1. /\ Append(q, x) \in Seq(Frames) /\ InAge(Append(q, x))
      /\ Len(q) \in Nat /\ Len(Append(q, x)) = Len(q) + 1
      /\ \A i \in 1..Len(q) : Append(q, x)[i] = q[i]
      /\ Append(q, x)[Len(q) + 1] = x
      /\ \E g : /\ Tallies(g, Append(q, x), "request")
                /\ \A i \in 0..Len(q) : g[i] = asked[i]
                /\ g[Len(q) + 1] = asked[Len(q)] + Cost(x, "request")
  BY Written1
<1>2. PICK g : /\ Tallies(g, Append(q, x), "request")
               /\ \A i \in 0..Len(q) : g[i] = asked[i]
               /\ g[Len(q) + 1] = asked[Len(q)] + Cost(x, "request")
  BY <1>1
<1>3. asked \in [0..Len(q) -> Nat] /\ asked[Len(q)] \in Nat /\ Cost(x, "request") \in Nat
  BY <1>1, Ways DEF Tallies, Cost
<1>4. Fits(q, asked, left) => Fits(Append(q, x), g, left)
  BY <1>2, <1>3, FitsWritten
<1>5. ASSUME NEW kind, NEW limit \in Int, Coming(q, asked, left, kind, limit)
      PROVE  Coming(Append(q, x), g, left, kind, limit)
  BY <1>2, <1>3, <1>5, ComingWritten
<1>6. ASSUME NEW limit \in Int, x.kind # "request", MaxDelay + Work <= limit
      PROVE  Coming(Append(q, x), g, left, x.kind, limit)
  <2> DEFINE before == asked[Len(q)]
  <2>1. Cost(x, "request") = 0 /\ g[Len(q) + 1] = asked[Len(q)]
    BY <1>2, <1>3, <1>6 DEF Cost
  <2>2. before \in Nat /\ before + left <= Work
    BY <1>3, <2>1
  <2> HIDE DEF before
  <2>3. before + MaxDelay <= limit /\ before + left <= limit
    BY <1>6, <2>2, Ways
  <2> QED
    BY <1>3, <2>1, <2>3, ComingLast DEF before
<1> QED
  BY <1>1, <1>2, <1>4, <1>5, <1>6

LEMMA ByServer ==
    ASSUME NEW q \in Seq(Frames), q # <<>>, InAge(q), NEW asked,
           Tallies(asked, q, "request"),
           NEW left \in Nat, NEW after \in Nat, after <= left + Cost(Head(q), "request")
    PROVE  /\ Tail(q) \in Seq(Frames) /\ InAge(Tail(q))
           /\ Head(q) = q[1] /\ asked[1] = Cost(Head(q), "request") /\ Head(q) \in Frames
           /\ \E g : /\ Tallies(g, Tail(q), "request")
                     /\ g[Len(Tail(q))] = asked[Len(q)] - Cost(Head(q), "request")
                     /\ Fits(q, asked, left) => Fits(Tail(q), g, after)
                     /\ \A kind : \A limit \in Int :
                          Coming(q, asked, left, kind, limit)
                            => \/ Head(q).kind = kind /\ 0 <= limit
                               \/ Coming(Tail(q), g, after, kind, limit)
<1>1. /\ Tail(q) \in Seq(Frames) /\ InAge(Tail(q))
      /\ Len(q) \in Nat \ {0} /\ Len(Tail(q)) = Len(q) - 1
      /\ Head(q) = q[1] /\ asked[1] = Cost(Head(q), "request")
      /\ \E g : /\ Tallies(g, Tail(q), "request")
                /\ \A i \in 0..Len(q) - 1 : g[i] = asked[i + 1] - asked[1]
  BY Taken
<1>2. PICK g : /\ Tallies(g, Tail(q), "request")
               /\ \A i \in 0..Len(q) - 1 : g[i] = asked[i + 1] - asked[1]
  BY <1>1
<1>3. asked \in [0..Len(q) -> Nat]
  BY DEF Tallies
<1>4. g[Len(Tail(q))] = asked[Len(q)] - Cost(Head(q), "request")
  BY <1>1, <1>2
<1>5. after <= left + asked[1]
  BY <1>1
<1>6. Fits(q, asked, left) => Fits(Tail(q), g, after)
  BY <1>2, <1>3, <1>5, FitsTaken
<1>7. ASSUME NEW kind, NEW limit \in Int, Coming(q, asked, left, kind, limit)
      PROVE  \/ Head(q).kind = kind /\ 0 <= limit
             \/ Coming(Tail(q), g, after, kind, limit)
  BY <1>2, <1>3, <1>5, <1>7, ComingTaken
<1>8. Head(q) \in Frames
  BY HeadTailProperties
<1> QED
  BY <1>1, <1>2, <1>4, <1>6, <1>7, <1>8

\* What waits for the client: a frame's age is no more than all its ways and services.
Recent(q) == \A i \in 1..Len(q) : q[i].stamp <= q[i].sent + MaxDelay + Work

LEMMA ToClient ==
    ASSUME NEW q \in Seq(Frames), InAge(q), NEW answered, Tallies(answered, q, "answer"),
           NEW x \in Frames, x.sent = 0, x.stamp <= MaxDelay + Work
    PROVE  /\ Append(q, x) \in Seq(Frames) /\ InAge(Append(q, x))
           /\ Append(q, x) # <<>> /\ (q # <<>> => Append(q, x)[1] = q[1])
           /\ Recent(q) => Recent(Append(q, x))
           /\ \A kind : \A limit \in Int :
                /\ Arriving(q, kind, limit) => Arriving(Append(q, x), kind, limit)
                /\ x.kind = kind /\ MaxDelay <= limit => Arriving(Append(q, x), kind, limit)
           /\ \E g : /\ Tallies(g, Append(q, x), "answer")
                     /\ g[Len(Append(q, x))] = answered[Len(q)] + Cost(x, "answer")
<1>1. /\ Append(q, x) \in Seq(Frames) /\ InAge(Append(q, x))
      /\ Len(q) \in Nat /\ Len(Append(q, x)) = Len(q) + 1
      /\ \A i \in 1..Len(q) : Append(q, x)[i] = q[i]
      /\ Append(q, x)[Len(q) + 1] = x
      /\ \E g : /\ Tallies(g, Append(q, x), "answer")
                /\ \A i \in 0..Len(q) : g[i] = answered[i]
                /\ g[Len(q) + 1] = answered[Len(q)] + Cost(x, "answer")
  BY Written1
<1>2. Append(q, x) # <<>> /\ (q # <<>> => Append(q, x)[1] = q[1])
  <2>1. q # <<>> => 1 \in 1..Len(q)
    BY EmptySeq
  <2> QED
    BY <1>1, <2>1, AppendProperties
<1>3. ASSUME Recent(q) PROVE Recent(Append(q, x))
  <2> SUFFICES ASSUME NEW i \in 1..Len(q) + 1
               PROVE  Append(q, x)[i].stamp <= Append(q, x)[i].sent + MaxDelay + Work
    BY <1>1 DEF Recent
  <2>1. CASE i = Len(q) + 1
    BY <1>1, <2>1, Ways
  <2>2. CASE i \in 1..Len(q)
    <3>1. Append(q, x)[i] = q[i]
      BY <1>1, <2>2
    <3> QED
      BY <1>3, <2>2, <3>1 DEF Recent
  <2>3. i = Len(q) + 1 \/ i \in 1..Len(q)
    BY <1>1
  <2> QED
    BY ONLY <2>1, <2>2, <2>3
<1>4. ASSUME NEW kind, NEW limit \in Int
      PROVE  /\ Arriving(q, kind, limit) => Arriving(Append(q, x), kind, limit)
             /\ x.kind = kind /\ MaxDelay <= limit => Arriving(Append(q, x), kind, limit)
  <2>1. MaxDelay <= limit => MaxDelay <= x.sent + limit
    BY Ways
  <2> QED
    BY <2>1, ArrivingWritten
<1> QED
  BY <1>1, <1>2, <1>3, <1>4

LEMMA ByClient ==
    ASSUME NEW q \in Seq(Frames), q # <<>>, InAge(q), NEW answered,
           Tallies(answered, q, "answer")
    PROVE  /\ Tail(q) \in Seq(Frames) /\ InAge(Tail(q))
           /\ Head(q) = q[1] /\ Head(q) \in Frames
           /\ Recent(q) => Recent(Tail(q))
           /\ \A kind : \A limit \in Int :
                Arriving(q, kind, limit)
                  => \/ Head(q).kind = kind /\ 0 <= limit
                     \/ Arriving(Tail(q), kind, limit)
           /\ \E g : /\ Tallies(g, Tail(q), "answer")
                     /\ g[Len(Tail(q))] = answered[Len(q)] - Cost(Head(q), "answer")
<1>1. /\ Tail(q) \in Seq(Frames) /\ InAge(Tail(q))
      /\ Len(q) \in Nat \ {0} /\ Len(Tail(q)) = Len(q) - 1
      /\ \A i \in 1..Len(q) - 1 : Tail(q)[i] = q[i + 1]
      /\ Head(q) = q[1] /\ answered[1] = Cost(Head(q), "answer")
      /\ \E g : /\ Tallies(g, Tail(q), "answer")
                /\ \A i \in 0..Len(q) - 1 : g[i] = answered[i + 1] - answered[1]
  BY Taken
<1>2. PICK g : /\ Tallies(g, Tail(q), "answer")
               /\ \A i \in 0..Len(q) - 1 : g[i] = answered[i + 1] - answered[1]
  BY <1>1
<1>3. g[Len(Tail(q))] = answered[Len(q)] - Cost(Head(q), "answer")
  BY <1>1, <1>2
<1>4. Recent(q) => Recent(Tail(q))
  BY <1>1 DEF Recent
<1>5. Head(q) \in Frames
  BY HeadTailProperties
<1> QED
  BY <1>1, <1>2, <1>3, <1>4, <1>5, ArrivingTaken

-----------------------------------------------------------------------------
LinkTypes ==
    /\ phase \in [Ends -> Alive \cup Over]
    /\ silence \in [Ends -> Nat]
    /\ untilTick \in [Ends -> 0..Interval]
    /\ wire \in [Ends -> Seq(Frames)]
    /\ service = {} \/ \E r \in [elapsed : 0..MaxService, stamp : Nat] : service = {r}
    /\ outstanding \in Int /\ outstanding <= MaxOutstanding
    /\ InAge(wire["client"]) /\ InAge(wire["server"])

\* Until the server's end of the handshake nothing is on the wire; then its last
\* message is, and no end has been silent for longer than that took.
Setups ==
    /\ phase["server"] = "setup" => /\ wire["client"] = <<>> /\ wire["server"] = <<>>
                                    /\ service = {} /\ phase["client"] \notin {"up", "dead"}
    /\ phase["client"] = "setup" /\ phase["server"] = "setup" =>
          silence["client"] = silence["server"] /\ silence["client"] <= MaxSetup
    /\ phase["client"] = "setup" /\ phase["server"] = "up" => wire["server"] # <<>>
    /\ phase["client"] = "setup" /\ wire["server"] # <<>> =>
          silence["client"] <= MaxSetup + wire["server"][1].sent
    /\ \A e \in Ends : phase[e] = "setup" => untilTick[e] = Interval

Ticks == \A e \in Ends : phase[e] = "up" => silence[e] + untilTick[e] <= Threshold + Interval

DeadIsDead == \A e \in Ends : phase[e] = "dead" => phase[Peer(e)] \notin Alive

\* The work that is on the wire is that of the requests not yet answered.
Loaded(asked, answered, left) ==
    /\ Tallies(asked, wire["client"], "request")
    /\ Tallies(answered, wire["server"], "answer")
    /\ left \in 0..MaxService
    /\ service = {} => left = 0
    /\ \A r \in service : r.elapsed + left = MaxService
    /\ asked[Len(wire["client"])] + answered[Len(wire["server"])]
         + (IF service = {} THEN 0 ELSE MaxService) <= Worth(outstanding)

OnTime(asked, left) ==
    /\ phase["server"] = "up" => /\ Fits(wire["client"], asked, left)
                                 /\ \A r \in service : r.stamp + left <= MaxDelay + Work
    /\ phase["client"] \in Alive => Recent(wire["server"])

\* How long an end that is up will still wait for a sign of the other.
Patience(e) == Threshold - silence[e]

\* It hears of the other in time: by a pong that is on its way or will answer a ping
\* that is, or by the answer to the next ping.
ClientHears(asked, left) ==
    phase["client"] = "up" /\ phase["server"] = "up" =>
        \/ untilTick["client"] + 2 * MaxDelay + Work <= Patience("client")
        \/ Coming(wire["client"], asked, left, "ping", Patience("client") - MaxDelay)
        \/ Arriving(wire["server"], "pong", Patience("client"))
ServerHears(asked, left) ==
    phase["client"] \in Alive /\ phase["server"] = "up" =>
        \/ untilTick["server"] + 2 * MaxDelay + Work <= Patience("server")
        \/ Arriving(wire["server"], "ping", Patience("server") - MaxDelay - Work)
        \/ Coming(wire["client"], asked, left, "pong", Patience("server"))

Timing(asked, answered, left) ==
    /\ Loaded(asked, answered, left) /\ OnTime(asked, left)
    /\ ClientHears(asked, left) /\ ServerHears(asked, left)

LinkInv ==
    /\ LinkTypes /\ Setups /\ Ticks /\ DeadIsDead
    /\ \E asked, answered, left : Timing(asked, answered, left)

LEMMA TwoEnds ==
    /\ Ends = {"client", "server"} /\ "client" \in Ends /\ "server" \in Ends
    /\ Peer("client") = "server" /\ Peer("server") = "client" /\ "client" # "server"
    /\ "gone" \notin Alive /\ "dead" \notin Alive /\ "up" \in Alive /\ "setup" \in Alive
BY DEF Ends, Peer, Alive

LEMMA PatienceIs ==
    ASSUME LinkTypes, NEW e \in Ends
    PROVE  Patience(e) \in Int /\ silence[e] \in Nat /\ untilTick[e] \in 0..Interval
BY Timely DEF LinkTypes, Patience

\* No more can be waiting than the services of what is outstanding.
LEMMA LoadOf ==
    ASSUME LinkTypes, NEW asked, NEW answered, NEW left, Loaded(asked, answered, left)
    PROVE  /\ left \in Nat
           /\ asked[Len(wire["client"])] \in Nat /\ answered[Len(wire["server"])] \in Nat
           /\ Worth(outstanding) \in Int /\ Worth(outstanding) <= Work
           /\ asked[Len(wire["client"])] + left <= Work
           /\ outstanding < MaxOutstanding
                => asked[Len(wire["client"])] + MaxService + left <= Work
<1>1. /\ asked[Len(wire["client"])] \in Nat /\ answered[Len(wire["server"])] \in Nat
      /\ left \in Nat /\ left <= IF service = {} THEN 0 ELSE MaxService
  <2>1. /\ wire["client"] \in Seq(Frames) /\ wire["server"] \in Seq(Frames)
        /\ Len(wire["client"]) \in Nat /\ Len(wire["server"]) \in Nat
    BY TwoEnds DEF LinkTypes
  <2>2. /\ asked \in [0..Len(wire["client"]) -> Nat]
        /\ answered \in [0..Len(wire["server"]) -> Nat]
    BY DEF Loaded, Tallies
  <2>3. left \in 0..MaxService /\ (service = {} => left = 0)
    BY DEF Loaded
  <2> QED
    BY <2>1, <2>2, <2>3, Ways
<1>2. outstanding \in Int /\ outstanding <= MaxOutstanding
  BY DEF LinkTypes
<1>3. Worth(outstanding) \in Int /\ Worth(outstanding) <= Work
  BY <1>2, WorthGrows
<1>4. outstanding < MaxOutstanding => Worth(outstanding) + MaxService <= Work
  <2> SUFFICES ASSUME outstanding < MaxOutstanding
               PROVE  Worth(outstanding) + MaxService <= Work
    OBVIOUS
  <2>1. outstanding + 1 \in Int /\ outstanding + 1 <= MaxOutstanding
    BY <1>2, Timely
  <2>2. Worth(outstanding + 1) <= Work
    BY <2>1, WorthGrows
  <2> QED
    BY <1>2, <2>2, WorthGrows
<1> DEFINE a == asked[Len(wire["client"])]
           b == answered[Len(wire["server"])]
           c == IF service = {} THEN 0 ELSE MaxService
<1>5. a + b + c <= Worth(outstanding) /\ a \in Nat /\ b \in Nat /\ c \in Nat /\ left <= c
  BY <1>1, Ways DEF Loaded
<1> HIDE DEF a, b, c
<1>6. /\ a + left <= Work
      /\ outstanding < MaxOutstanding => a + MaxService + left <= Work
  BY <1>1, <1>3, <1>4, <1>5, Ways
<1> QED
  BY <1>1, <1>3, <1>6 DEF a

LEMMA LinkBegins == LinkInit => LinkInv
<1> SUFFICES ASSUME LinkInit PROVE LinkInv
  OBVIOUS
<1>1. /\ phase["client"] = "setup" /\ phase["server"] = "setup"
      /\ silence["client"] = 0 /\ silence["server"] = 0
      /\ untilTick["client"] = Interval /\ untilTick["server"] = Interval
      /\ wire["client"] = <<>> /\ wire["server"] = <<>>
      /\ service = {} /\ outstanding = 0
  BY DEF LinkInit, Ends
<1>2. LinkTypes
  <2>1. <<>> \in Seq(Frames) /\ Len(<<>>) = 0
    OBVIOUS
  <2>2. InAge(<<>>)
    BY <2>1 DEF InAge
  <2> QED
    BY <1>1, <2>1, <2>2, Timely DEF LinkInit, LinkTypes, Alive
<1>3. Setups /\ Ticks /\ DeadIsDead
  BY <1>1, Timely DEF LinkInit, Setups, Ticks, DeadIsDead, Ends
<1>4. PICK asked : Tallies(asked, <<>>, "request")
  BY EmptyTally
<1>5. PICK answered : Tallies(answered, <<>>, "answer")
  BY EmptyTally
<1>6. Loaded(asked, answered, 0)
  <2>1. Worth(0) = 0
    BY Ways DEF Worth
  <2>2. Len(<<>>) = 0 /\ asked[0] = 0 /\ answered[0] = 0
    BY <1>4, <1>5 DEF Tallies
  <2> QED
    BY <1>1, <1>4, <1>5, <2>1, <2>2, Ways DEF Loaded
<1>7. OnTime(asked, 0)
  BY <1>1 DEF OnTime, Recent
<1>8. ClientHears(asked, 0) /\ ServerHears(asked, 0)
  BY <1>1 DEF ClientHears, ServerHears
<1> QED
  BY <1>2, <1>3, <1>6, <1>7, <1>8 DEF LinkInv, Timing

-----------------------------------------------------------------------------
\* While the other lives, an end that is up has patience left whenever its interval
\* fires.
LEMMA NotTooLong ==
    ASSUME LinkInv, NEW e \in Ends, phase[e] = "up", phase[Peer(e)] \in Alive,
           untilTick[e] = 0
    PROVE  0 <= Patience(e)
<1>1. PICK asked, answered, left : Timing(asked, answered, left)
  BY DEF LinkInv
<1>2. LinkTypes /\ Patience(e) \in Int /\ left \in Nat
  BY <1>1, PatienceIs, LoadOf DEF LinkInv, Timing
<1>3. /\ \A q, f, kind : \A limit \in Int :
           q \in Seq(Frames) /\ Tallies(f, q, "request") /\ Coming(q, f, left, kind, limit)
             => 0 <= limit
      /\ \A q, kind : \A limit \in Int :
           q \in Seq(Frames) /\ Arriving(q, kind, limit) => 0 <= limit
  <2>1. ASSUME NEW q \in Seq(Frames), NEW f, Tallies(f, q, "request"),
               NEW kind, NEW limit \in Int, Coming(q, f, left, kind, limit)
        PROVE  0 <= limit
    <3>1. PICK i \in 1..Len(q) : f[i] + left <= limit
      BY <2>1 DEF Coming
    <3>2. f[i] \in Nat
      BY <2>1 DEF Tallies
    <3> QED
      BY <1>2, <3>1, <3>2
  <2>2. ASSUME NEW q \in Seq(Frames), NEW kind, NEW limit \in Int, Arriving(q, kind, limit)
        PROVE  0 <= limit
    <3>1. PICK i \in 1..Len(q) : MaxDelay <= q[i].sent + limit
      BY <2>2 DEF Arriving
    <3>2. q[i].sent \in 0..MaxDelay
      BY PartsOf
    <3> QED
      BY <3>1, <3>2, Ways
  <2> QED
    BY <2>1, <2>2
<1>4. /\ wire["client"] \in Seq(Frames) /\ wire["server"] \in Seq(Frames)
      /\ Tallies(asked, wire["client"], "request")
  BY <1>1, <1>2, TwoEnds DEF LinkTypes, Timing, Loaded
<1>5. CASE e = "client"
  <2>1. phase["server"] = "up"
    BY <1>5, TwoEnds DEF LinkInv, Setups, Alive
  <2>2. \/ 2 * MaxDelay + Work <= Patience("client")
        \/ Coming(wire["client"], asked, left, "ping", Patience("client") - MaxDelay)
        \/ Arriving(wire["server"], "pong", Patience("client"))
    BY <1>1, <1>5, <2>1, Ways DEF Timing, ClientHears
  <2>3. Patience("client") - MaxDelay \in Int
    BY <1>2, <1>5, Ways
  <2>4. \/ 2 * MaxDelay + Work <= Patience("client")
        \/ 0 <= Patience("client") - MaxDelay
        \/ 0 <= Patience("client")
    BY <1>2, <1>3, <1>4, <1>5, <2>2, <2>3
  <2> QED
    BY <1>2, <1>5, <2>4, Ways
<1>6. CASE e = "server"
  <2>1. \/ 2 * MaxDelay + Work <= Patience("server")
        \/ Arriving(wire["server"], "ping", Patience("server") - MaxDelay - Work)
        \/ Coming(wire["client"], asked, left, "pong", Patience("server"))
    BY <1>1, <1>6, TwoEnds, Ways DEF Timing, ServerHears
  <2>2. Patience("server") - MaxDelay - Work \in Int
    BY <1>2, <1>6, Ways
  <2>3. \/ 2 * MaxDelay + Work <= Patience("server")
        \/ 0 <= Patience("server") - MaxDelay - Work
        \/ 0 <= Patience("server")
    BY <1>2, <1>3, <1>4, <1>6, <2>1, <2>2
  <2> QED
    BY <1>2, <1>6, <2>3, Ways
<1> QED
  BY <1>5, <1>6, TwoEnds

\* An end leaves, and not because it presumes a live one dead.
LEMMA LeavingIsSafe ==
    ASSUME LinkInv, NEW e \in Ends, NEW how \in Over,
           phase' = [phase EXCEPT ![e] = how],
           UNCHANGED <<silence, untilTick, wire, service, outstanding>>,
           how = "dead" => phase[Peer(e)] \notin Alive
    PROVE  LinkInv'
<1>1. PICK asked, answered, left : Timing(asked, answered, left)
  BY DEF LinkInv
<1>2. /\ phase' \in [Ends -> Alive \cup Over]
      /\ \A d \in Ends : phase'[d] = phase[d] \/ phase'[d] = how
      /\ \A d \in Ends : phase'[d] \in Alive => phase'[d] = phase[d]
      /\ how \notin Alive
  BY DEF LinkInv, LinkTypes, Alive, Over
<1>3. LinkTypes'
  BY <1>2 DEF LinkInv, LinkTypes
<1>4. Setups'
  BY <1>2, TwoEnds DEF LinkInv, LinkTypes, Setups, Alive
<1>5. Ticks'
  BY <1>2, TwoEnds DEF LinkInv, Ticks
<1>6. DeadIsDead'
  BY <1>2, TwoEnds DEF LinkInv, LinkTypes, DeadIsDead
<1>7. Timing(asked, answered, left)'
  <2>1. Loaded(asked, answered, left)'
    BY <1>1 DEF Timing, Loaded
  <2>2. OnTime(asked, left)'
    BY <1>1, <1>2, TwoEnds DEF Timing, OnTime
  <2>3. ClientHears(asked, left)' /\ ServerHears(asked, left)'
    BY <1>1, <1>2, TwoEnds DEF Timing, ClientHears, ServerHears, Patience
  <2> QED
    BY <2>1, <2>2, <2>3 DEF Timing
<1> QED
  BY <1>3, <1>4, <1>5, <1>6, <1>7 DEF LinkInv

-----------------------------------------------------------------------------
LEMMA NewFrame ==
    ASSUME NEW kind \in Kinds, NEW stamp \in Nat
    PROVE  /\ Frame(kind, stamp) \in Frames
           /\ Frame(kind, stamp).kind = kind
           /\ Frame(kind, stamp).sent = 0 /\ Frame(kind, stamp).stamp = stamp
BY Ways DEF Frame, Frames

\* What a step that handles the next frame leaves on the wire.
LEMMA WireAfter ==
    ASSUME LinkTypes, NEW x \in Frames
    PROVE  /\ LET w == Written("client", <<x>>)
              IN DOMAIN w = Ends /\ w["client"] = Append(wire["client"], x)
                                 /\ w["server"] = Tail(wire["server"])
           /\ LET w == Written("client", <<>>)
              IN DOMAIN w = Ends /\ w["client"] = wire["client"]
                                 /\ w["server"] = Tail(wire["server"])
           /\ LET w == Written("server", <<x>>)
              IN DOMAIN w = Ends /\ w["server"] = Append(wire["server"], x)
                                 /\ w["client"] = Tail(wire["client"])
           /\ LET w == Written("server", <<>>)
              IN DOMAIN w = Ends /\ w["server"] = wire["server"]
                                 /\ w["client"] = Tail(wire["client"])
<1>1. /\ wire \in [Ends -> Seq(Frames)]
      /\ wire["client"] \in Seq(Frames) /\ wire["server"] \in Seq(Frames)
  BY TwoEnds DEF LinkTypes
<1>2. /\ wire["client"] \o <<x>> = Append(wire["client"], x)
      /\ wire["server"] \o <<x>> = Append(wire["server"], x)
  BY <1>1, AppendIsConcat
<1>3. wire["client"] \o <<>> = wire["client"] /\ wire["server"] \o <<>> = wire["server"]
  BY <1>1, ConcatEmptySeq
<1>4. ASSUME NEW e \in Ends, NEW fs
      PROVE  /\ DOMAIN Written(e, fs) = Ends
             /\ Written(e, fs)[e] = wire[e] \o fs
             /\ Written(e, fs)[Peer(e)] = Tail(wire[Peer(e)])
  BY <1>1, TwoEnds DEF Written
<1> QED
  BY <1>2, <1>3, <1>4, TwoEnds

LEMMA WireTypes ==
    ASSUME NEW w, DOMAIN w = Ends, w = [e \in DOMAIN w |-> w[e]],
           w["client"] \in Seq(Frames), w["server"] \in Seq(Frames)
    PROVE  w \in [Ends -> Seq(Frames)]
BY TwoEnds

LEMMA WireFacts ==
    ASSUME LinkTypes
    PROVE  /\ wire["client"] \in Seq(Frames) /\ wire["server"] \in Seq(Frames)
           /\ InAge(wire["client"]) /\ InAge(wire["server"])
           /\ DOMAIN wire = Ends /\ wire = [e \in DOMAIN wire |-> wire[e]]
BY TwoEnds DEF LinkTypes

\* The client writes a ping, or a request.
LEMMA ClientPings == LinkInv /\ Ping("client") => LinkInv'
<1> SUFFICES ASSUME LinkInv, Ping("client") PROVE LinkInv'
  OBVIOUS
<1>1. PICK asked, answered, left : Timing(asked, answered, left)
  BY DEF LinkInv
<1> DEFINE qc == wire["client"]
           x == Frame("ping", 0)
<1>2. /\ phase["client"] = "up" /\ untilTick["client"] = 0 /\ silence["client"] <= Threshold
      /\ phase["server"] # "setup"
      /\ phase' = phase /\ silence' = silence /\ service' = service
      /\ outstanding' = outstanding
      /\ untilTick' = [untilTick EXCEPT !["client"] = Interval]
      /\ wire' = [wire EXCEPT !["client"] = Append(@, x)]
  BY PatienceIs, TwoEnds, Timely DEF Ping, Dead, LinkInv, Setups
<1>3. x \in Frames /\ x.kind = "ping" /\ x.sent = 0 /\ x.stamp = 0 /\ Cost(x, "request") = 0
  BY NewFrame DEF Kinds, Cost
<1>4. LinkTypes /\ Loaded(asked, answered, left) /\ qc \in Seq(Frames) /\ InAge(qc)
  BY <1>1, WireFacts DEF LinkInv, Timing
<1>5. /\ left \in Nat /\ asked[Len(qc)] + left <= Work /\ asked[Len(qc)] \in Nat
      /\ Tallies(asked, qc, "request")
  BY <1>4, LoadOf DEF Loaded
<1>6. /\ Append(qc, x) \in Seq(Frames) /\ InAge(Append(qc, x))
      /\ \E g : /\ Tallies(g, Append(qc, x), "request")
                /\ g[Len(Append(qc, x))] = asked[Len(qc)]
                /\ Fits(qc, asked, left) => Fits(Append(qc, x), g, left)
                /\ \A kind : \A limit \in Int :
                     Coming(qc, asked, left, kind, limit)
                       => Coming(Append(qc, x), g, left, kind, limit)
                /\ \A limit \in Int :
                     MaxDelay + Work <= limit => Coming(Append(qc, x), g, left, "ping", limit)
  <2>1. /\ asked[Len(qc)] + Cost(x, "request") + left <= Work
        /\ asked[Len(qc)] + Cost(x, "request") = asked[Len(qc)]
        /\ x.kind # "request"
    BY <1>3, <1>5
  <2> HIDE DEF x, qc
  <2> QED
    BY <1>3, <1>4, <1>5, <2>1, ToServer
<1>7. PICK g : /\ Tallies(g, Append(qc, x), "request")
               /\ g[Len(Append(qc, x))] = asked[Len(qc)]
               /\ Fits(qc, asked, left) => Fits(Append(qc, x), g, left)
               /\ \A kind : \A limit \in Int :
                    Coming(qc, asked, left, kind, limit)
                      => Coming(Append(qc, x), g, left, kind, limit)
               /\ \A limit \in Int :
                    MaxDelay + Work <= limit => Coming(Append(qc, x), g, left, "ping", limit)
  BY <1>6
<1>8. wire'["client"] = Append(qc, x) /\ wire'["server"] = wire["server"]
  BY <1>2, <1>4, TwoEnds DEF LinkTypes
<1>9. LinkTypes'
  <2>1. wire' \in [Ends -> Seq(Frames)]
    BY <1>2, <1>4, <1>6 DEF LinkTypes
  <2>2. untilTick' \in [Ends -> 0..Interval]
    <3>1. Interval \in 0..Interval /\ untilTick \in [Ends -> 0..Interval]
      BY <1>4, Timely DEF LinkTypes
    <3> QED
      BY <1>2, <3>1
  <2> QED
    BY <1>2, <1>4, <1>6, <1>8, <2>1, <2>2 DEF LinkTypes
<1> HIDE DEF x, qc
<1>10. Setups'
  BY <1>2, <1>4, <1>8, TwoEnds DEF LinkInv, LinkTypes, Setups
<1>11. Ticks'
  BY <1>2, <1>4, TwoEnds, Timely DEF LinkInv, LinkTypes, Ticks
<1>12. DeadIsDead'
  BY <1>2 DEF LinkInv, DeadIsDead
<1>13. Loaded(g, answered, left)'
  BY <1>2, <1>4, <1>7, <1>8 DEF Loaded, qc
<1>14. OnTime(g, left)'
  BY <1>1, <1>2, <1>7, <1>8 DEF Timing, OnTime, qc
<1>15. ClientHears(g, left)'
  <2> SUFFICES ASSUME phase["server"] = "up"
               PROVE  \/ Coming(wire'["client"], g, left, "ping", Patience("client") - MaxDelay)
                      \/ Arriving(wire["server"], "pong", Patience("client"))
    BY <1>2, <1>8 DEF ClientHears, Patience
  <2>1. Patience("client") \in Int /\ Patience("client") - MaxDelay \in Int
    BY <1>4, PatienceIs, TwoEnds, Ways
  <2>2. CASE untilTick["client"] + 2 * MaxDelay + Work <= Patience("client")
    <3>1. MaxDelay + Work <= Patience("client") - MaxDelay
      BY <1>2, <2>1, <2>2, Ways
    <3> QED
      BY <1>7, <1>8, <2>1, <3>1
  <2>3. CASE Coming(qc, asked, left, "ping", Patience("client") - MaxDelay)
    BY <1>7, <1>8, <2>1, <2>3
  <2> QED
    BY <1>1, <1>2, <2>2, <2>3 DEF Timing, ClientHears, qc
<1>16. ServerHears(g, left)'
  <2>1. Patience("server") \in Int /\ Patience("server")' = Patience("server")
        /\ untilTick'["server"] = untilTick["server"]
    BY <1>2, <1>4, PatienceIs, TwoEnds DEF Patience, LinkTypes
  <2> QED
    BY <1>1, <1>2, <1>7, <1>8, <2>1 DEF Timing, ServerHears, qc
<1> QED
  BY <1>9, <1>10, <1>11, <1>12, <1>13, <1>14, <1>15, <1>16 DEF LinkInv, Timing

LEMMA ServerPings == LinkInv /\ Ping("server") => LinkInv'
<1> SUFFICES ASSUME LinkInv, Ping("server") PROVE LinkInv'
  OBVIOUS
<1>1. PICK asked, answered, left : Timing(asked, answered, left)
  BY DEF LinkInv
<1> DEFINE qs == wire["server"]
           x == Frame("ping", 0)
<1>2. /\ phase["server"] = "up" /\ untilTick["server"] = 0 /\ silence["server"] <= Threshold
      /\ phase' = phase /\ silence' = silence /\ service' = service
      /\ outstanding' = outstanding
      /\ untilTick' = [untilTick EXCEPT !["server"] = Interval]
      /\ wire' = [wire EXCEPT !["server"] = Append(@, x)]
  BY PatienceIs, TwoEnds, Timely DEF Ping, Dead, LinkInv, Setups
<1>3. x \in Frames /\ x.kind = "ping" /\ x.sent = 0 /\ x.stamp = 0 /\ Cost(x, "answer") = 0
  BY NewFrame DEF Kinds, Cost
<1>4. LinkTypes /\ Loaded(asked, answered, left) /\ qs \in Seq(Frames) /\ InAge(qs)
      /\ Tallies(answered, qs, "answer")
  BY <1>1, WireFacts DEF LinkInv, Timing, Loaded
<1>5. left \in Nat /\ answered[Len(qs)] \in Nat
  BY <1>4, LoadOf
<1>6. /\ Append(qs, x) \in Seq(Frames) /\ InAge(Append(qs, x))
      /\ Append(qs, x) # <<>> /\ (qs # <<>> => Append(qs, x)[1] = qs[1])
      /\ Recent(qs) => Recent(Append(qs, x))
      /\ \A kind : \A limit \in Int :
           /\ Arriving(qs, kind, limit) => Arriving(Append(qs, x), kind, limit)
           /\ kind = "ping" /\ MaxDelay <= limit => Arriving(Append(qs, x), kind, limit)
      /\ \E g : /\ Tallies(g, Append(qs, x), "answer")
                /\ g[Len(Append(qs, x))] = answered[Len(qs)]
  <2>1. x.stamp <= MaxDelay + Work /\ answered[Len(qs)] + Cost(x, "answer") = answered[Len(qs)]
    BY <1>3, <1>5, Ways
  <2> HIDE DEF x, qs
  <2> QED
    BY <1>3, <1>4, <2>1, ToClient
<1>7. PICK g : /\ Tallies(g, Append(qs, x), "answer")
               /\ g[Len(Append(qs, x))] = answered[Len(qs)]
  BY <1>6
<1>8. wire'["server"] = Append(qs, x) /\ wire'["client"] = wire["client"]
  BY <1>2, <1>4, TwoEnds DEF LinkTypes
<1>9. LinkTypes'
  <2>1. wire' \in [Ends -> Seq(Frames)]
    BY <1>2, <1>4, <1>6 DEF LinkTypes
  <2>2. untilTick' \in [Ends -> 0..Interval]
    <3>1. Interval \in 0..Interval /\ untilTick \in [Ends -> 0..Interval]
      BY <1>4, Timely DEF LinkTypes
    <3> QED
      BY <1>2, <3>1
  <2> QED
    BY <1>2, <1>4, <1>6, <1>8, <2>1, <2>2 DEF LinkTypes
<1> HIDE DEF x, qs
<1>10. Setups'
  <2>1. phase["client"] = "setup" => qs # <<>>
    BY <1>2 DEF LinkInv, Setups, qs
  <2> QED
    BY <1>2, <1>4, <1>6, <1>8, <2>1, TwoEnds DEF LinkInv, LinkTypes, Setups, qs
<1>11. Ticks'
  <2>1. untilTick'["server"] = Interval /\ silence["server"] + Interval <= Threshold + Interval
    <3>1. untilTick \in [Ends -> 0..Interval] /\ silence["server"] \in Nat
      BY <1>4, TwoEnds DEF LinkTypes
    <3> QED
      BY <1>2, <3>1, TwoEnds, Timely
  <2>2. untilTick'["client"] = untilTick["client"]
    BY <1>2, TwoEnds
  <2> QED
    BY <1>2, <2>1, <2>2, TwoEnds DEF LinkInv, Ticks
<1>12. DeadIsDead'
  BY <1>2 DEF LinkInv, DeadIsDead
<1>13. Loaded(asked, g, left)'
  BY <1>2, <1>4, <1>7, <1>8 DEF Loaded, qs
<1>14. OnTime(asked, left)'
  BY <1>1, <1>2, <1>6, <1>8 DEF Timing, OnTime, qs
<1>15. ClientHears(asked, left)'
  <2>1. Patience("client") \in Int /\ Patience("client")' = Patience("client")
        /\ untilTick'["client"] = untilTick["client"]
    BY <1>2, <1>4, PatienceIs, TwoEnds DEF Patience, LinkTypes
  <2> QED
    BY <1>1, <1>2, <1>6, <1>8, <2>1 DEF Timing, ClientHears, qs
<1>16. ServerHears(asked, left)'
  <2> DEFINE limit == Patience("server") - MaxDelay - Work
  <2> SUFFICES ASSUME phase["client"] \in Alive
               PROVE  \/ Arriving(wire'["server"], "ping", limit)
                      \/ Coming(wire["client"], asked, left, "pong", Patience("server"))
    BY <1>2, <1>8 DEF ServerHears, Patience
  <2>1. Patience("server") \in Int /\ limit \in Int
    BY <1>4, PatienceIs, TwoEnds, Ways
  <2>2. CASE untilTick["server"] + 2 * MaxDelay + Work <= Patience("server")
    <3>1. MaxDelay <= limit
      BY <1>2, <2>1, <2>2, Ways
    <3> HIDE DEF limit
    <3> QED
      BY <1>6, <1>8, <2>1, <3>1
  <2>3. CASE Arriving(qs, "ping", limit)
    <3> HIDE DEF limit
    <3> QED
      BY <1>6, <1>8, <2>1, <2>3
  <2> QED
    BY <1>1, <1>2, <2>2, <2>3 DEF Timing, ServerHears, qs
<1> QED
  BY <1>9, <1>10, <1>11, <1>12, <1>13, <1>14, <1>15, <1>16 DEF LinkInv, Timing

LEMMA ClientAsks == LinkInv /\ Request => LinkInv'
<1> SUFFICES ASSUME LinkInv, Request PROVE LinkInv'
  OBVIOUS
<1>1. PICK asked, answered, left : Timing(asked, answered, left)
  BY DEF LinkInv
<1> DEFINE qc == wire["client"]
           x == Frame("request", 0)
<1>2. /\ phase["client"] = "up" /\ outstanding < MaxOutstanding
      /\ phase' = phase /\ silence' = silence /\ service' = service
      /\ outstanding' = outstanding + 1 /\ untilTick' = untilTick
      /\ wire' = [wire EXCEPT !["client"] = Append(@, x)]
  BY DEF Request
<1>3. /\ x \in Frames /\ x.kind = "request" /\ x.sent = 0 /\ x.stamp = 0
      /\ Cost(x, "request") = MaxService
  BY NewFrame DEF Kinds, Cost
<1>4. /\ LinkTypes /\ Loaded(asked, answered, left) /\ qc \in Seq(Frames) /\ InAge(qc)
      /\ outstanding \in Int
  BY <1>1, WireFacts DEF LinkInv, Timing, LinkTypes
<1>5. /\ left \in Nat /\ asked[Len(qc)] + MaxService + left <= Work /\ asked[Len(qc)] \in Nat
      /\ Tallies(asked, qc, "request") /\ answered[Len(wire["server"])] \in Nat
  BY <1>2, <1>4, LoadOf DEF Loaded
<1>6. /\ Append(qc, x) \in Seq(Frames) /\ InAge(Append(qc, x))
      /\ \E g : /\ Tallies(g, Append(qc, x), "request")
                /\ g[Len(Append(qc, x))] = asked[Len(qc)] + MaxService
                /\ Fits(qc, asked, left) => Fits(Append(qc, x), g, left)
                /\ \A kind : \A limit \in Int :
                     Coming(qc, asked, left, kind, limit)
                       => Coming(Append(qc, x), g, left, kind, limit)
  <2> HIDE DEF x, qc
  <2> QED
    BY <1>3, <1>4, <1>5, ToServer
<1>7. PICK g : /\ Tallies(g, Append(qc, x), "request")
               /\ g[Len(Append(qc, x))] = asked[Len(qc)] + MaxService
               /\ Fits(qc, asked, left) => Fits(Append(qc, x), g, left)
               /\ \A kind : \A limit \in Int :
                    Coming(qc, asked, left, kind, limit)
                      => Coming(Append(qc, x), g, left, kind, limit)
  BY <1>6
<1>8. wire'["client"] = Append(qc, x) /\ wire'["server"] = wire["server"]
  BY <1>2, <1>4, TwoEnds DEF LinkTypes
<1>9. LinkTypes'
  <2>1. wire' \in [Ends -> Seq(Frames)]
    BY <1>2, <1>4, <1>6 DEF LinkTypes
  <2>2. outstanding' \in Int /\ outstanding' <= MaxOutstanding
    BY <1>2, <1>4, Timely
  <2> QED
    BY <1>2, <1>4, <1>6, <1>8, <2>1, <2>2 DEF LinkTypes
<1> HIDE DEF x, qc
<1>10. Setups'
  BY <1>2, <1>8 DEF LinkInv, Setups
<1>11. Ticks' /\ DeadIsDead'
  BY <1>2 DEF LinkInv, Ticks, DeadIsDead
<1>12. Loaded(g, answered, left)'
  <2> DEFINE a == asked[Len(qc)]
             b == answered[Len(wire["server"])]
             c == IF service = {} THEN 0 ELSE MaxService
  <2>1. a + b + c <= Worth(outstanding) /\ a \in Nat /\ b \in Nat /\ c \in Nat
    BY <1>4, <1>5, Ways DEF Loaded, qc
  <2>2. Worth(outstanding) \in Int /\ Worth(outstanding + 1) = Worth(outstanding) + MaxService
    BY <1>4, WorthGrows
  <2>3. (a + MaxService) + b + c <= Worth(outstanding + 1)
    <3> HIDE DEF a, b, c
    <3> QED
      BY <2>1, <2>2, Ways
  <2>4. g[Len(wire'["client"])] = a + MaxService
    BY <1>7, <1>8
  <2> QED
    BY <1>2, <1>4, <1>7, <1>8, <2>3, <2>4 DEF Loaded
<1>13. OnTime(g, left)'
  BY <1>1, <1>2, <1>7, <1>8 DEF Timing, OnTime, qc
<1>14. ClientHears(g, left)' /\ ServerHears(g, left)'
  <2>1. /\ Patience("client") \in Int /\ Patience("client")' = Patience("client")
        /\ Patience("server") \in Int /\ Patience("server")' = Patience("server")
        /\ Patience("client") - MaxDelay \in Int
    BY <1>2, <1>4, PatienceIs, TwoEnds, Ways DEF Patience
  <2> QED
    BY <1>1, <1>2, <1>7, <1>8, <2>1 DEF Timing, ClientHears, ServerHears, qc
<1> QED
  BY <1>9, <1>10, <1>11, <1>12, <1>13, <1>14 DEF LinkInv, Timing

-----------------------------------------------------------------------------
\* The client handles a frame.
LEMMA ClientHandlesPing == LinkInv /\ HandlePing("client") => LinkInv'
<1> SUFFICES ASSUME LinkInv, HandlePing("client") PROVE LinkInv'
  OBVIOUS
<1>1. PICK asked, answered, left : Timing(asked, answered, left)
  BY DEF LinkInv
<1> DEFINE qc == wire["client"]
           qs == wire["server"]
           x == Frame("pong", 0)
<1>2. /\ phase["client"] = "up" /\ qs # <<>> /\ Head(qs).kind = "ping"
      /\ phase["server"] # "setup"
      /\ phase' = phase /\ silence' = silence /\ service' = service
      /\ outstanding' = outstanding /\ untilTick' = untilTick
      /\ wire' = Written("client", <<x>>)
  BY TwoEnds DEF HandlePing, NextIs, LinkInv, Setups
<1>3. x \in Frames /\ x.kind = "pong" /\ x.sent = 0 /\ x.stamp = 0 /\ Cost(x, "request") = 0
  BY NewFrame DEF Kinds, Cost
<1>4. /\ LinkTypes /\ Loaded(asked, answered, left)
      /\ qc \in Seq(Frames) /\ InAge(qc) /\ qs \in Seq(Frames) /\ InAge(qs)
      /\ Tallies(asked, qc, "request") /\ Tallies(answered, qs, "answer")
  BY <1>1, WireFacts DEF LinkInv, Timing, Loaded
<1>5. /\ left \in Nat /\ asked[Len(qc)] + left <= Work /\ asked[Len(qc)] \in Nat
      /\ answered[Len(qs)] \in Nat
  BY <1>4, LoadOf
<1>6. DOMAIN wire' = Ends /\ wire'["client"] = Append(qc, x) /\ wire'["server"] = Tail(qs)
      /\ wire' = [e \in DOMAIN wire' |-> wire'[e]]
  BY <1>2, <1>3, <1>4, WireAfter DEF Written
<1>7. /\ Append(qc, x) \in Seq(Frames) /\ InAge(Append(qc, x))
      /\ \E g : /\ Tallies(g, Append(qc, x), "request")
                /\ g[Len(Append(qc, x))] = asked[Len(qc)]
                /\ Fits(qc, asked, left) => Fits(Append(qc, x), g, left)
                /\ \A kind : \A limit \in Int :
                     Coming(qc, asked, left, kind, limit)
                       => Coming(Append(qc, x), g, left, kind, limit)
                /\ \A limit \in Int :
                     MaxDelay + Work <= limit => Coming(Append(qc, x), g, left, "pong", limit)
  <2>1. /\ asked[Len(qc)] + Cost(x, "request") + left <= Work
        /\ asked[Len(qc)] + Cost(x, "request") = asked[Len(qc)]
        /\ x.kind # "request"
    BY <1>3, <1>5
  <2> HIDE DEF x, qc
  <2> QED
    BY <1>3, <1>4, <1>5, <2>1, ToServer
<1>8. /\ Tail(qs) \in Seq(Frames) /\ InAge(Tail(qs))
      /\ Recent(qs) => Recent(Tail(qs))
      /\ \A kind : \A limit \in Int :
           Arriving(qs, kind, limit) => \/ "ping" = kind /\ 0 <= limit
                                        \/ Arriving(Tail(qs), kind, limit)
      /\ \E h : Tallies(h, Tail(qs), "answer") /\ h[Len(Tail(qs))] = answered[Len(qs)]
  <2>1. answered[Len(qs)] - Cost(Head(qs), "answer") = answered[Len(qs)]
    BY <1>2, <1>5 DEF Cost
  <2> HIDE DEF qs
  <2> QED
    BY <1>2, <1>4, <2>1, ByClient
<1>9. PICK g : /\ Tallies(g, Append(qc, x), "request")
               /\ g[Len(Append(qc, x))] = asked[Len(qc)]
               /\ Fits(qc, asked, left) => Fits(Append(qc, x), g, left)
               /\ \A kind : \A limit \in Int :
                    Coming(qc, asked, left, kind, limit)
                      => Coming(Append(qc, x), g, left, kind, limit)
               /\ \A limit \in Int :
                    MaxDelay + Work <= limit => Coming(Append(qc, x), g, left, "pong", limit)
  BY <1>7
<1>10. PICK h : Tallies(h, Tail(qs), "answer") /\ h[Len(Tail(qs))] = answered[Len(qs)]
  BY <1>8
<1>11. LinkTypes'
  <2>1. wire' \in [Ends -> Seq(Frames)]
    BY <1>6, <1>7, <1>8, WireTypes
  <2> QED
    BY <1>2, <1>4, <1>6, <1>7, <1>8, <2>1 DEF LinkTypes
<1> HIDE DEF x, qc, qs
<1>12. Setups' /\ Ticks' /\ DeadIsDead'
  BY <1>2 DEF LinkInv, Setups, Ticks, DeadIsDead
<1>13. Loaded(g, h, left)'
  BY <1>2, <1>4, <1>6, <1>9, <1>10 DEF Loaded, qc, qs
<1>14. OnTime(g, left)'
  BY <1>1, <1>2, <1>6, <1>8, <1>9 DEF Timing, OnTime, qc, qs
<1>15. /\ Patience("client") \in Int /\ Patience("client")' = Patience("client")
       /\ Patience("server") \in Int /\ Patience("server")' = Patience("server")
       /\ Patience("client") - MaxDelay \in Int
       /\ Patience("server") - MaxDelay - Work \in Int
  BY <1>2, <1>4, PatienceIs, TwoEnds, Ways DEF Patience
<1>16. ClientHears(g, left)'
  BY <1>1, <1>2, <1>6, <1>8, <1>9, <1>15 DEF Timing, ClientHears, qc, qs
<1>17. ServerHears(g, left)'
  <2>1. CASE Arriving(qs, "ping", Patience("server") - MaxDelay - Work)
    <3>1. 0 <= Patience("server") - MaxDelay - Work => MaxDelay + Work <= Patience("server")
      BY <1>15, Ways
    <3> QED
      BY <1>2, <1>6, <1>8, <1>9, <1>15, <2>1, <3>1 DEF ServerHears
  <2>2. CASE ~Arriving(qs, "ping", Patience("server") - MaxDelay - Work)
    BY <1>1, <1>2, <1>6, <1>9, <1>15, <2>2 DEF Timing, ServerHears, qc, qs
  <2> QED
    BY <2>1, <2>2
<1> QED
  BY <1>11, <1>12, <1>13, <1>14, <1>16, <1>17 DEF LinkInv, Timing

LEMMA ClientHandlesPong == LinkInv /\ HandlePong("client") => LinkInv'
<1> SUFFICES ASSUME LinkInv, HandlePong("client") PROVE LinkInv'
  OBVIOUS
<1>1. PICK asked, answered, left : Timing(asked, answered, left)
  BY DEF LinkInv
<1> DEFINE qs == wire["server"]
<1>2. /\ phase["client"] = "up" /\ qs # <<>> /\ Head(qs).kind = "pong"
      /\ phase["server"] # "setup"
      /\ silence' = [silence EXCEPT !["client"] = 0]
      /\ phase' = phase /\ service' = service
      /\ outstanding' = outstanding /\ untilTick' = untilTick
      /\ wire' = Written("client", <<>>)
  BY TwoEnds DEF HandlePong, NextIs, LinkInv, Setups
<1>3. /\ LinkTypes /\ Loaded(asked, answered, left)
      /\ qs \in Seq(Frames) /\ InAge(qs) /\ Tallies(answered, qs, "answer")
      /\ wire["client"] \in Seq(Frames)
  BY <1>1, WireFacts DEF LinkInv, Timing, Loaded
<1>4. answered[Len(qs)] \in Nat
  BY <1>3, LoadOf
<1>5. DOMAIN wire' = Ends /\ wire'["client"] = wire["client"] /\ wire'["server"] = Tail(qs)
      /\ wire' = [e \in DOMAIN wire' |-> wire'[e]]
  <2>1. Frame("pong", 0) \in Frames
    BY NewFrame DEF Kinds
  <2> QED
    BY <1>2, <1>3, <2>1, WireAfter DEF Written
<1>6. /\ Tail(qs) \in Seq(Frames) /\ InAge(Tail(qs))
      /\ Recent(qs) => Recent(Tail(qs))
      /\ \A kind : \A limit \in Int :
           Arriving(qs, kind, limit) => \/ "pong" = kind /\ 0 <= limit
                                        \/ Arriving(Tail(qs), kind, limit)
      /\ \E h : Tallies(h, Tail(qs), "answer") /\ h[Len(Tail(qs))] = answered[Len(qs)]
  <2>1. answered[Len(qs)] - Cost(Head(qs), "answer") = answered[Len(qs)]
    BY <1>2, <1>4 DEF Cost
  <2> HIDE DEF qs
  <2> QED
    BY <1>2, <1>3, <2>1, ByClient
<1>7. PICK h : Tallies(h, Tail(qs), "answer") /\ h[Len(Tail(qs))] = answered[Len(qs)]
  BY <1>6
<1>8. LinkTypes'
  <2>1. wire' \in [Ends -> Seq(Frames)]
    BY <1>3, <1>5, <1>6, WireTypes
  <2> QED
    BY <1>2, <1>3, <1>5, <1>6, <2>1 DEF LinkTypes
<1> HIDE DEF qs
<1>9. Setups' /\ Ticks' /\ DeadIsDead'
  BY <1>2, <1>3, TwoEnds, Timely DEF LinkInv, LinkTypes, Setups, Ticks, DeadIsDead
<1>10. Loaded(asked, h, left)'
  BY <1>2, <1>3, <1>5, <1>7 DEF Loaded, qs
<1>11. OnTime(asked, left)'
  BY <1>1, <1>2, <1>5, <1>6 DEF Timing, OnTime, qs
<1>12. /\ Patience("client")' = Threshold
       /\ Patience("server") \in Int /\ Patience("server")' = Patience("server")
       /\ Patience("server") - MaxDelay - Work \in Int
       /\ untilTick["client"] \in 0..Interval
  <2>1. silence'["client"] = 0 /\ silence'["server"] = silence["server"]
    BY <1>2, <1>3, TwoEnds DEF LinkTypes
  <2> QED
    BY <1>3, <2>1, PatienceIs, TwoEnds, Timely DEF Patience
<1>13. ClientHears(asked, left)'
  <2>1. untilTick["client"] + 2 * MaxDelay + Work <= Threshold
    BY <1>12, Timely
  <2> QED
    BY <1>2, <1>12, <2>1 DEF ClientHears
<1>14. ServerHears(asked, left)'
  BY <1>1, <1>2, <1>5, <1>6, <1>12 DEF Timing, ServerHears, qs
<1> QED
  BY <1>8, <1>9, <1>10, <1>11, <1>13, <1>14 DEF LinkInv, Timing

LEMMA ClientHandlesAnswer == LinkInv /\ HandleAnswer => LinkInv'
<1> SUFFICES ASSUME LinkInv, HandleAnswer PROVE LinkInv'
  OBVIOUS
<1>1. PICK asked, answered, left : Timing(asked, answered, left)
  BY DEF LinkInv
<1> DEFINE qs == wire["server"]
<1>2. /\ phase["client"] = "up" /\ qs # <<>> /\ Head(qs).kind = "answer"
      /\ phase["server"] # "setup"
      /\ phase' = phase /\ silence' = silence /\ service' = service
      /\ outstanding' = outstanding - 1 /\ untilTick' = untilTick
      /\ wire' = Written("client", <<>>)
  BY TwoEnds DEF HandleAnswer, NextIs, LinkInv, Setups
<1>3. /\ LinkTypes /\ Loaded(asked, answered, left)
      /\ qs \in Seq(Frames) /\ InAge(qs) /\ Tallies(answered, qs, "answer")
      /\ wire["client"] \in Seq(Frames) /\ outstanding \in Int
  BY <1>1, WireFacts DEF LinkInv, Timing, Loaded, LinkTypes
<1>4. answered[Len(qs)] \in Nat /\ asked[Len(wire["client"])] \in Nat
  BY <1>3, LoadOf
<1>5. DOMAIN wire' = Ends /\ wire'["client"] = wire["client"] /\ wire'["server"] = Tail(qs)
      /\ wire' = [e \in DOMAIN wire' |-> wire'[e]]
  <2>1. Frame("pong", 0) \in Frames
    BY NewFrame DEF Kinds
  <2> QED
    BY <1>2, <1>3, <2>1, WireAfter DEF Written
<1>6. /\ Tail(qs) \in Seq(Frames) /\ InAge(Tail(qs))
      /\ Recent(qs) => Recent(Tail(qs))
      /\ \A kind : \A limit \in Int :
           Arriving(qs, kind, limit) => \/ "answer" = kind /\ 0 <= limit
                                        \/ Arriving(Tail(qs), kind, limit)
      /\ \E h : Tallies(h, Tail(qs), "answer")
                /\ h[Len(Tail(qs))] = answered[Len(qs)] - MaxService
  <2>1. Cost(Head(qs), "answer") = MaxService
    BY <1>2 DEF Cost
  <2> HIDE DEF qs
  <2> QED
    BY <1>2, <1>3, <2>1, ByClient
<1>7. PICK h : Tallies(h, Tail(qs), "answer")
               /\ h[Len(Tail(qs))] = answered[Len(qs)] - MaxService
  BY <1>6
<1>8. LinkTypes'
  <2>1. wire' \in [Ends -> Seq(Frames)]
    BY <1>3, <1>5, <1>6, WireTypes
  <2>2. outstanding' \in Int /\ outstanding' <= MaxOutstanding
    BY <1>2, <1>3, Timely DEF LinkTypes
  <2> QED
    BY <1>2, <1>3, <1>5, <1>6, <2>1, <2>2 DEF LinkTypes
<1> HIDE DEF qs
<1>9. Setups' /\ Ticks' /\ DeadIsDead'
  BY <1>2 DEF LinkInv, Setups, Ticks, DeadIsDead
<1>10. Loaded(asked, h, left)'
  <2> DEFINE a == asked[Len(wire["client"])]
             b == answered[Len(qs)]
             c == IF service = {} THEN 0 ELSE MaxService
  <2>1. a + b + c <= Worth(outstanding) /\ a \in Nat /\ b \in Nat /\ c \in Nat
    BY <1>3, <1>4, Ways DEF Loaded, qs
  <2>2. /\ Worth(outstanding) \in Int /\ Worth(outstanding - 1) \in Int
        /\ Worth(outstanding) = Worth(outstanding - 1) + MaxService
    <3>1. outstanding - 1 \in Int /\ (outstanding - 1) + 1 = outstanding
      BY <1>3
    <3> QED
      BY <1>3, <3>1, WorthGrows
  <2>3. a + (b - MaxService) + c <= Worth(outstanding - 1)
    <3> HIDE DEF a, b, c
    <3> QED
      BY <2>1, <2>2, Ways
  <2> QED
    BY <1>2, <1>3, <1>5, <1>7, <2>3 DEF Loaded
<1>11. OnTime(asked, left)'
  BY <1>1, <1>2, <1>5, <1>6 DEF Timing, OnTime, qs
<1>12. /\ Patience("client") \in Int /\ Patience("client")' = Patience("client")
       /\ Patience("server") \in Int /\ Patience("server")' = Patience("server")
       /\ Patience("server") - MaxDelay - Work \in Int
  BY <1>2, <1>3, PatienceIs, TwoEnds, Ways DEF Patience
<1>13. ClientHears(asked, left)' /\ ServerHears(asked, left)'
  BY <1>1, <1>2, <1>5, <1>6, <1>12 DEF Timing, ClientHears, ServerHears, qs
<1> QED
  BY <1>8, <1>9, <1>10, <1>11, <1>13 DEF LinkInv, Timing

LEMMA ClientCompletes == LinkInv /\ Completes => LinkInv'
<1> SUFFICES ASSUME LinkInv, Completes PROVE LinkInv'
  OBVIOUS
<1>1. PICK asked, answered, left : Timing(asked, answered, left)
  BY DEF LinkInv
<1> DEFINE qs == wire["server"]
<1>2. /\ phase["client"] = "setup" /\ qs # <<>> /\ Head(qs).kind = "server_auth_response"
      /\ phase["server"] # "setup"
      /\ phase' = [phase EXCEPT !["client"] = "up"]
      /\ silence' = silence /\ service' = service
      /\ outstanding' = outstanding /\ untilTick' = untilTick
      /\ wire' = Written("client", <<>>)
  BY TwoEnds DEF Completes, NextIs, LinkInv, Setups
<1>3. /\ LinkTypes /\ Loaded(asked, answered, left)
      /\ qs \in Seq(Frames) /\ InAge(qs) /\ Tallies(answered, qs, "answer")
      /\ wire["client"] \in Seq(Frames)
  BY <1>1, WireFacts DEF LinkInv, Timing, Loaded
<1>4. answered[Len(qs)] \in Nat
  BY <1>3, LoadOf
<1>5. DOMAIN wire' = Ends /\ wire'["client"] = wire["client"] /\ wire'["server"] = Tail(qs)
      /\ wire' = [e \in DOMAIN wire' |-> wire'[e]]
  <2>1. Frame("pong", 0) \in Frames
    BY NewFrame DEF Kinds
  <2> QED
    BY <1>2, <1>3, <2>1, WireAfter DEF Written
<1>6. /\ Tail(qs) \in Seq(Frames) /\ InAge(Tail(qs))
      /\ Recent(qs) => Recent(Tail(qs))
      /\ \A kind : \A limit \in Int :
           Arriving(qs, kind, limit) => \/ "server_auth_response" = kind /\ 0 <= limit
                                        \/ Arriving(Tail(qs), kind, limit)
      /\ \E h : Tallies(h, Tail(qs), "answer") /\ h[Len(Tail(qs))] = answered[Len(qs)]
  <2>1. answered[Len(qs)] - Cost(Head(qs), "answer") = answered[Len(qs)]
    BY <1>2, <1>4 DEF Cost
  <2> HIDE DEF qs
  <2> QED
    BY <1>2, <1>3, <2>1, ByClient
<1>7. PICK h : Tallies(h, Tail(qs), "answer") /\ h[Len(Tail(qs))] = answered[Len(qs)]
  BY <1>6
<1>8. LinkTypes' /\ phase'["client"] = "up" /\ phase'["server"] = phase["server"]
  <2>1. wire' \in [Ends -> Seq(Frames)]
    BY <1>3, <1>5, <1>6, WireTypes
  <2> QED
    BY <1>2, <1>3, <1>5, <1>6, <2>1, TwoEnds DEF LinkTypes
<1>9. /\ untilTick["client"] = Interval /\ silence["client"] \in Nat
      /\ silence["client"] <= MaxSetup + MaxDelay
  <2>1. 1 \in 1..Len(qs)
    BY <1>2, <1>3, EmptySeq
  <2>2. qs[1].sent \in 0..MaxDelay
    BY <1>3, <2>1, PartsOf
  <2>3. silence["client"] <= MaxSetup + qs[1].sent /\ untilTick["client"] = Interval
    BY <1>2, TwoEnds DEF LinkInv, Setups
  <2>4. silence["client"] \in Nat
    BY <1>3, PatienceIs, TwoEnds
  <2> DEFINE quiet == silence["client"]
             sent == qs[1].sent
  <2>5. quiet \in Nat /\ sent \in 0..MaxDelay /\ quiet <= MaxSetup + sent
    BY <2>2, <2>3, <2>4
  <2>6. quiet <= MaxSetup + MaxDelay
    <3> HIDE DEF quiet, sent
    <3> QED
      BY <2>5, Timely
  <2> QED
    BY <2>3, <2>4, <2>6
<1> HIDE DEF qs
<1>10. Setups' /\ DeadIsDead'
  BY <1>2, <1>8, TwoEnds DEF LinkInv, Setups, DeadIsDead
<1>11. Ticks'
  <2>1. silence["client"] + untilTick["client"] <= Threshold + Interval
    BY <1>9, Timely
  <2> QED
    BY <1>2, <1>8, <2>1, TwoEnds DEF LinkInv, Ticks
<1>12. Loaded(asked, h, left)'
  BY <1>2, <1>3, <1>5, <1>7 DEF Loaded, qs
<1>13. OnTime(asked, left)'
  BY <1>1, <1>2, <1>5, <1>6, <1>8, TwoEnds DEF Timing, OnTime, qs
<1>14. /\ Patience("client")' = Patience("client")
       /\ Patience("server") \in Int /\ Patience("server")' = Patience("server")
       /\ Patience("server") - MaxDelay - Work \in Int
  BY <1>2, <1>3, PatienceIs, TwoEnds, Ways DEF Patience
<1>15. ClientHears(asked, left)'
  <2>1. untilTick["client"] + 2 * MaxDelay + Work <= Patience("client")
    BY <1>9, Timely DEF Patience
  <2> QED
    BY <1>2, <1>14, <2>1 DEF ClientHears
<1>16. ServerHears(asked, left)'
  BY <1>1, <1>2, <1>5, <1>6, <1>8, <1>14, TwoEnds DEF Timing, ServerHears, qs
<1> QED
  BY <1>8, <1>10, <1>11, <1>12, <1>13, <1>15, <1>16 DEF LinkInv, Timing

-----------------------------------------------------------------------------
\* The server's end of the handshake is over.
LEMMA ServerEstablishes == LinkInv /\ Establish => LinkInv'
<1> SUFFICES ASSUME LinkInv, Establish PROVE LinkInv'
  OBVIOUS
<1>1. PICK asked, answered, left : Timing(asked, answered, left)
  BY DEF LinkInv
<1> DEFINE x == Frame("server_auth_response", 0)
<1>2. /\ phase["client"] = "setup" /\ phase["server"] = "setup"
      /\ wire["client"] = <<>> /\ wire["server"] = <<>> /\ service = {}
      /\ silence["client"] = silence["server"] /\ silence["client"] <= MaxSetup
      /\ untilTick["server"] = Interval
      /\ phase' = [phase EXCEPT !["server"] = "up"]
      /\ silence' = silence /\ service' = service
      /\ outstanding' = outstanding /\ untilTick' = untilTick
      /\ wire' = [wire EXCEPT !["server"] = <<x>>]
  BY TwoEnds DEF Establish, LinkInv, Setups
<1>3. x \in Frames /\ x.sent = 0 /\ x.stamp = 0 /\ Cost(x, "answer") = 0
  BY NewFrame DEF Kinds, Cost
<1>4. LinkTypes /\ Loaded(asked, answered, left) /\ Tallies(answered, <<>>, "answer")
      /\ <<>> \in Seq(Frames) /\ InAge(<<>>)
  BY <1>1, <1>2, WireFacts DEF LinkInv, Timing, Loaded
<1>5. left = 0 /\ answered[0] = 0 /\ asked[0] = 0 /\ Tallies(asked, <<>>, "request")
  BY <1>2, <1>4 DEF Loaded, Tallies
<1>6. PICK h : Tallies(h, <<x>>, "answer") /\ h[1] = 0
  <2>1. answered[Len(<<>>)] + Cost(x, "answer") = 0 /\ x.stamp <= MaxDelay + Work
    BY <1>3, <1>5, Ways
  <2>2. Append(<<>>, x) = <<x>> /\ Len(<<x>>) = 1
    OBVIOUS
  <2> DEFINE none == <<>>
  <2>3. /\ none \in Seq(Frames) /\ InAge(none) /\ Tallies(answered, none, "answer")
        /\ answered[Len(none)] + Cost(x, "answer") = 0
        /\ Append(none, x) = <<x>>
    BY <1>4, <2>1, <2>2
  <2> HIDE DEF x, none
  <2>4. \E g : /\ Tallies(g, Append(none, x), "answer")
              /\ g[Len(Append(none, x))] = answered[Len(none)] + Cost(x, "answer")
    BY <1>3, <2>1, <2>3, ToClient
  <2> QED
    BY <2>2, <2>3, <2>4
<1>7. <<x>> \in Seq(Frames) /\ Len(<<x>>) = 1 /\ <<x>>[1] = x
  BY <1>3
<1>8. InAge(<<x>>) /\ Recent(<<x>>)
  BY <1>3, <1>7, Ways DEF InAge, Recent
<1>9. wire'["server"] = <<x>> /\ wire'["client"] = <<>>
      /\ phase'["server"] = "up" /\ phase'["client"] = "setup"
  BY <1>2, <1>4, TwoEnds DEF LinkTypes
<1>10. LinkTypes'
  <2>1. wire' \in [Ends -> Seq(Frames)]
    BY <1>2, <1>4, <1>7 DEF LinkTypes
  <2> QED
    BY <1>2, <1>4, <1>8, <1>9, <2>1, TwoEnds DEF LinkTypes
<1> HIDE DEF x
<1>11. silence["server"] \in Nat /\ silence["server"] <= MaxSetup
  BY <1>2, <1>4, PatienceIs, TwoEnds
<1>12. Setups'
  <2>1. /\ wire'["server"] # <<>> /\ wire'["server"][1].sent = 0
        /\ silence["client"] <= MaxSetup + 0
    <3>1. silence["client"] <= MaxSetup + 0
      BY <1>2, <1>11, Timely
    <3>2. <<x>> # <<>> /\ <<x>>[1].sent = 0
      BY <1>3, <1>7
    <3> QED
      BY <1>9, <3>1, <3>2
  <2>2. \A e \in Ends : phase'[e] = "setup" => untilTick'[e] = Interval
    BY <1>2, <1>9, TwoEnds DEF LinkInv, Setups
  <2> QED
    BY <1>2, <1>9, <2>1, <2>2 DEF Setups
<1>13. Ticks' /\ DeadIsDead'
  <2>1. silence["server"] + untilTick["server"] <= Threshold + Interval
    BY <1>2, <1>11, Timely
  <2> QED
    BY <1>2, <1>9, <2>1, TwoEnds DEF LinkInv, Ticks, DeadIsDead
<1>14. Loaded(asked, h, left)'
  BY <1>2, <1>4, <1>5, <1>6, <1>7, <1>9 DEF Loaded
<1>15. OnTime(asked, left)'
  <2>1. Fits(<<>>, asked, left)
    BY DEF Fits
  <2> QED
    BY <1>2, <1>8, <1>9, <2>1 DEF OnTime
<1>16. ClientHears(asked, left)'
  BY <1>9 DEF ClientHears
<1>17. ServerHears(asked, left)'
  <2>1. untilTick["server"] + 2 * MaxDelay + Work <= Threshold - silence["server"]
    BY <1>2, <1>11, Timely
  <2> QED
    BY <1>2, <2>1 DEF ServerHears, Patience
<1> QED
  BY <1>10, <1>12, <1>13, <1>14, <1>15, <1>16, <1>17 DEF LinkInv, Timing

\* The server handles a frame.
LEMMA ServerHandlesPing == LinkInv /\ HandlePing("server") => LinkInv'
<1> SUFFICES ASSUME LinkInv, HandlePing("server") PROVE LinkInv'
  OBVIOUS
<1>1. PICK asked, answered, left : Timing(asked, answered, left)
  BY DEF LinkInv
<1> DEFINE qc == wire["client"]
           qs == wire["server"]
           x == Frame("pong", 0)
<1>2. /\ phase["server"] = "up" /\ qc # <<>> /\ Head(qc).kind = "ping"
      /\ phase' = phase /\ silence' = silence /\ service' = service
      /\ outstanding' = outstanding /\ untilTick' = untilTick
      /\ wire' = Written("server", <<x>>)
  BY TwoEnds DEF HandlePing, NextIs
<1>3. x \in Frames /\ x.kind = "pong" /\ x.sent = 0 /\ x.stamp = 0 /\ Cost(x, "answer") = 0
  BY NewFrame DEF Kinds, Cost
<1>4. /\ LinkTypes /\ Loaded(asked, answered, left)
      /\ qc \in Seq(Frames) /\ InAge(qc) /\ qs \in Seq(Frames) /\ InAge(qs)
      /\ Tallies(asked, qc, "request") /\ Tallies(answered, qs, "answer")
  BY <1>1, WireFacts DEF LinkInv, Timing, Loaded
<1>5. left \in Nat /\ asked[Len(qc)] \in Nat /\ answered[Len(qs)] \in Nat
  BY <1>4, LoadOf
<1>6. DOMAIN wire' = Ends /\ wire'["server"] = Append(qs, x) /\ wire'["client"] = Tail(qc)
      /\ wire' = [e \in DOMAIN wire' |-> wire'[e]]
  BY <1>2, <1>3, <1>4, WireAfter DEF Written
<1>7. /\ Append(qs, x) \in Seq(Frames) /\ InAge(Append(qs, x))
      /\ Append(qs, x) # <<>> /\ (qs # <<>> => Append(qs, x)[1] = qs[1])
      /\ Recent(qs) => Recent(Append(qs, x))
      /\ \A kind : \A limit \in Int :
           /\ Arriving(qs, kind, limit) => Arriving(Append(qs, x), kind, limit)
           /\ kind = "pong" /\ MaxDelay <= limit => Arriving(Append(qs, x), kind, limit)
      /\ \E h : /\ Tallies(h, Append(qs, x), "answer")
                /\ h[Len(Append(qs, x))] = answered[Len(qs)]
  <2>1. x.stamp <= MaxDelay + Work /\ answered[Len(qs)] + Cost(x, "answer") = answered[Len(qs)]
    BY <1>3, <1>5, Ways
  <2> HIDE DEF x, qs
  <2> QED
    BY <1>3, <1>4, <2>1, ToClient
<1>8. /\ Tail(qc) \in Seq(Frames) /\ InAge(Tail(qc))
      /\ \E g : /\ Tallies(g, Tail(qc), "request")
                /\ g[Len(Tail(qc))] = asked[Len(qc)]
                /\ Fits(qc, asked, left) => Fits(Tail(qc), g, left)
                /\ \A kind : \A limit \in Int :
                     Coming(qc, asked, left, kind, limit)
                       => \/ "ping" = kind /\ 0 <= limit
                          \/ Coming(Tail(qc), g, left, kind, limit)
  <2>1. /\ asked[Len(qc)] - Cost(Head(qc), "request") = asked[Len(qc)]
        /\ left <= left + Cost(Head(qc), "request")
    BY <1>2, <1>5 DEF Cost
  <2> HIDE DEF qc
  <2> QED
    BY <1>2, <1>4, <1>5, <2>1, ByServer
<1>9. PICK g : /\ Tallies(g, Tail(qc), "request")
               /\ g[Len(Tail(qc))] = asked[Len(qc)]
               /\ Fits(qc, asked, left) => Fits(Tail(qc), g, left)
               /\ \A kind : \A limit \in Int :
                    Coming(qc, asked, left, kind, limit)
                      => \/ "ping" = kind /\ 0 <= limit
                         \/ Coming(Tail(qc), g, left, kind, limit)
  BY <1>8
<1>10. PICK h : /\ Tallies(h, Append(qs, x), "answer")
                /\ h[Len(Append(qs, x))] = answered[Len(qs)]
  BY <1>7
<1>11. LinkTypes'
  <2>1. wire' \in [Ends -> Seq(Frames)]
    BY <1>6, <1>7, <1>8, WireTypes
  <2> QED
    BY <1>2, <1>4, <1>6, <1>7, <1>8, <2>1 DEF LinkTypes
<1> HIDE DEF x, qc, qs
<1>12. Setups' /\ Ticks' /\ DeadIsDead'
  BY <1>2, <1>6, <1>7 DEF LinkInv, Setups, Ticks, DeadIsDead, qs
<1>13. Loaded(g, h, left)'
  BY <1>2, <1>4, <1>6, <1>9, <1>10 DEF Loaded, qc, qs
<1>14. OnTime(g, left)'
  BY <1>1, <1>2, <1>6, <1>7, <1>9 DEF Timing, OnTime, qc, qs
<1>15. /\ Patience("client") \in Int /\ Patience("client")' = Patience("client")
       /\ Patience("server") \in Int /\ Patience("server")' = Patience("server")
       /\ Patience("client") - MaxDelay \in Int
       /\ Patience("server") - MaxDelay - Work \in Int
  BY <1>2, <1>4, PatienceIs, TwoEnds, Ways DEF Patience
<1>16. ClientHears(g, left)'
  <2>1. CASE Coming(qc, asked, left, "ping", Patience("client") - MaxDelay)
    <3>1. 0 <= Patience("client") - MaxDelay => MaxDelay <= Patience("client")
      BY <1>15, Ways
    <3> QED
      BY <1>2, <1>6, <1>7, <1>9, <1>15, <2>1, <3>1 DEF ClientHears
  <2>2. CASE ~Coming(qc, asked, left, "ping", Patience("client") - MaxDelay)
    BY <1>1, <1>2, <1>6, <1>7, <1>15, <2>2 DEF Timing, ClientHears, qc, qs
  <2> QED
    BY <2>1, <2>2
<1>17. ServerHears(g, left)'
  BY <1>1, <1>2, <1>6, <1>7, <1>9, <1>15 DEF Timing, ServerHears, qc, qs
<1> QED
  BY <1>11, <1>12, <1>13, <1>14, <1>16, <1>17 DEF LinkInv, Timing

LEMMA ServerHandlesPong == LinkInv /\ HandlePong("server") => LinkInv'
<1> SUFFICES ASSUME LinkInv, HandlePong("server") PROVE LinkInv'
  OBVIOUS
<1>1. PICK asked, answered, left : Timing(asked, answered, left)
  BY DEF LinkInv
<1> DEFINE qc == wire["client"]
<1>2. /\ phase["server"] = "up" /\ qc # <<>> /\ Head(qc).kind = "pong"
      /\ silence' = [silence EXCEPT !["server"] = 0]
      /\ phase' = phase /\ service' = service
      /\ outstanding' = outstanding /\ untilTick' = untilTick
      /\ wire' = Written("server", <<>>)
  BY TwoEnds DEF HandlePong, NextIs
<1>3. /\ LinkTypes /\ Loaded(asked, answered, left)
      /\ qc \in Seq(Frames) /\ InAge(qc) /\ Tallies(asked, qc, "request")
      /\ wire["server"] \in Seq(Frames)
  BY <1>1, WireFacts DEF LinkInv, Timing, Loaded
<1>4. left \in Nat /\ asked[Len(qc)] \in Nat
  BY <1>3, LoadOf
<1>5. DOMAIN wire' = Ends /\ wire'["server"] = wire["server"] /\ wire'["client"] = Tail(qc)
      /\ wire' = [e \in DOMAIN wire' |-> wire'[e]]
  <2>1. Frame("pong", 0) \in Frames
    BY NewFrame DEF Kinds
  <2> QED
    BY <1>2, <1>3, <2>1, WireAfter DEF Written
<1>6. /\ Tail(qc) \in Seq(Frames) /\ InAge(Tail(qc))
      /\ \E g : /\ Tallies(g, Tail(qc), "request")
                /\ g[Len(Tail(qc))] = asked[Len(qc)]
                /\ Fits(qc, asked, left) => Fits(Tail(qc), g, left)
                /\ \A kind : \A limit \in Int :
                     Coming(qc, asked, left, kind, limit)
                       => \/ "pong" = kind /\ 0 <= limit
                          \/ Coming(Tail(qc), g, left, kind, limit)
  <2>1. /\ asked[Len(qc)] - Cost(Head(qc), "request") = asked[Len(qc)]
        /\ left <= left + Cost(Head(qc), "request")
    BY <1>2, <1>4 DEF Cost
  <2> HIDE DEF qc
  <2> QED
    BY <1>2, <1>3, <1>4, <2>1, ByServer
<1>7. PICK g : /\ Tallies(g, Tail(qc), "request")
               /\ g[Len(Tail(qc))] = asked[Len(qc)]
               /\ Fits(qc, asked, left) => Fits(Tail(qc), g, left)
               /\ \A kind : \A limit \in Int :
                    Coming(qc, asked, left, kind, limit)
                      => \/ "pong" = kind /\ 0 <= limit
                         \/ Coming(Tail(qc), g, left, kind, limit)
  BY <1>6
<1>8. LinkTypes'
  <2>1. wire' \in [Ends -> Seq(Frames)]
    BY <1>3, <1>5, <1>6, WireTypes
  <2> QED
    BY <1>2, <1>3, <1>5, <1>6, <2>1 DEF LinkTypes
<1> HIDE DEF qc
<1>9. Setups'
  <2>1. silence'["client"] = silence["client"]
    BY <1>2, <1>3, TwoEnds DEF LinkTypes
  <2> QED
    BY <1>2, <1>3, <1>5, <2>1, TwoEnds DEF LinkInv, Setups
<1>10. Ticks' /\ DeadIsDead'
  BY <1>2, <1>3, TwoEnds, Timely DEF LinkInv, LinkTypes, Ticks, DeadIsDead
<1>11. Loaded(g, answered, left)'
  BY <1>2, <1>3, <1>5, <1>7 DEF Loaded, qc
<1>12. OnTime(g, left)'
  BY <1>1, <1>2, <1>5, <1>7 DEF Timing, OnTime, qc
<1>13. /\ Patience("server")' = Threshold
       /\ Patience("client") \in Int /\ Patience("client")' = Patience("client")
       /\ Patience("client") - MaxDelay \in Int
       /\ untilTick["server"] \in 0..Interval
  <2>1. silence'["server"] = 0 /\ silence'["client"] = silence["client"]
    BY <1>2, <1>3, TwoEnds DEF LinkTypes
  <2> QED
    BY <1>3, <2>1, PatienceIs, TwoEnds, Timely DEF Patience
<1>14. ClientHears(g, left)'
  BY <1>1, <1>2, <1>5, <1>7, <1>13 DEF Timing, ClientHears, qc
<1>15. ServerHears(g, left)'
  <2>1. untilTick["server"] + 2 * MaxDelay + Work <= Threshold
    BY <1>13, Timely
  <2> QED
    BY <1>2, <1>13, <2>1 DEF ServerHears
<1> QED
  BY <1>8, <1>9, <1>10, <1>11, <1>12, <1>14, <1>15 DEF LinkInv, Timing

LEMMA ServerHandlesRequest == LinkInv /\ HandleRequest => LinkInv'
<1> SUFFICES ASSUME LinkInv, HandleRequest PROVE LinkInv'
  OBVIOUS
<1>1. PICK asked, answered, left : Timing(asked, answered, left)
  BY DEF LinkInv
<1> DEFINE qc == wire["client"]
           request == [elapsed |-> 0, stamp |-> Head(qc).stamp]
<1>2. /\ phase["server"] = "up" /\ qc # <<>> /\ Head(qc).kind = "request" /\ service = {}
      /\ service' = {request}
      /\ phase' = phase /\ silence' = silence
      /\ outstanding' = outstanding /\ untilTick' = untilTick
      /\ wire' = Written("server", <<>>)
  BY TwoEnds DEF HandleRequest, NextIs
<1>3. /\ LinkTypes /\ Loaded(asked, answered, left)
      /\ qc \in Seq(Frames) /\ InAge(qc) /\ Tallies(asked, qc, "request")
      /\ wire["server"] \in Seq(Frames)
  BY <1>1, WireFacts DEF LinkInv, Timing, Loaded
<1>4. /\ left = 0 /\ left \in Nat /\ asked[Len(qc)] \in Nat /\ MaxService \in Nat
      /\ answered[Len(wire["server"])] \in Nat
  BY <1>2, <1>3, LoadOf, Ways DEF Loaded
<1>5. DOMAIN wire' = Ends /\ wire'["server"] = wire["server"] /\ wire'["client"] = Tail(qc)
      /\ wire' = [e \in DOMAIN wire' |-> wire'[e]]
  <2>1. Frame("pong", 0) \in Frames
    BY NewFrame DEF Kinds
  <2> QED
    BY <1>2, <1>3, <2>1, WireAfter DEF Written
<1>6. /\ Tail(qc) \in Seq(Frames) /\ InAge(Tail(qc))
      /\ Head(qc) = qc[1] /\ asked[1] = MaxService /\ Head(qc) \in Frames
      /\ \E g : /\ Tallies(g, Tail(qc), "request")
                /\ g[Len(Tail(qc))] = asked[Len(qc)] - MaxService
                /\ Fits(qc, asked, left) => Fits(Tail(qc), g, MaxService)
                /\ \A kind : \A limit \in Int :
                     Coming(qc, asked, left, kind, limit)
                       => \/ "request" = kind /\ 0 <= limit
                          \/ Coming(Tail(qc), g, MaxService, kind, limit)
  <2>1. /\ Cost(Head(qc), "request") = MaxService
        /\ MaxService <= left + Cost(Head(qc), "request")
    BY <1>2, <1>4 DEF Cost
  <2> HIDE DEF qc
  <2> QED
    BY <1>2, <1>3, <1>4, <2>1, ByServer
<1>7. PICK g : /\ Tallies(g, Tail(qc), "request")
               /\ g[Len(Tail(qc))] = asked[Len(qc)] - MaxService
               /\ Fits(qc, asked, left) => Fits(Tail(qc), g, MaxService)
               /\ \A kind : \A limit \in Int :
                    Coming(qc, asked, left, kind, limit)
                      => \/ "request" = kind /\ 0 <= limit
                         \/ Coming(Tail(qc), g, MaxService, kind, limit)
  BY <1>6
<1>8. /\ request.elapsed = 0 /\ request.stamp = Head(qc).stamp /\ request.stamp \in Nat
      /\ request \in [elapsed : 0..MaxService, stamp : Nat]
  <2>1. Head(qc).stamp \in Nat
    BY <1>6 DEF Frames
  <2>2. 0 \in 0..MaxService
    BY <1>4
  <2> QED
    BY <2>1, <2>2
<1>9. Fits(qc, asked, left) => request.stamp + MaxService <= MaxDelay + Work
  <2> SUFFICES ASSUME Fits(qc, asked, left)
               PROVE  request.stamp + MaxService <= MaxDelay + Work
    OBVIOUS
  <2>1. 1 \in 1..Len(qc)
    BY <1>2, <1>3, EmptySeq
  <2>2. qc[1].stamp + asked[1] + left <= MaxDelay + Work
    BY <2>1 DEF Fits
  <2> QED
    BY <1>4, <1>6, <1>8, <2>2
<1>10. LinkTypes'
  <2>1. wire' \in [Ends -> Seq(Frames)]
    BY <1>3, <1>5, <1>6, WireTypes
  <2> HIDE DEF request
  <2>2. \E r \in [elapsed : 0..MaxService, stamp : Nat] : service' = {r}
    BY <1>2, <1>8
  <2> QED
    BY <1>2, <1>3, <1>5, <1>6, <2>1, <2>2 DEF LinkTypes
<1> HIDE DEF qc, request
<1>11. Setups' /\ Ticks' /\ DeadIsDead'
  BY <1>2, <1>5 DEF LinkInv, Setups, Ticks, DeadIsDead
<1>12. Loaded(g, answered, MaxService)'
  <2> DEFINE a == asked[Len(qc)]
             b == answered[Len(wire["server"])]
  <2>1. a + b + 0 <= Worth(outstanding) /\ a \in Nat /\ b \in Nat
    BY <1>2, <1>3, <1>4 DEF Loaded, qc
  <2>2. Worth(outstanding) \in Int
    BY <1>3, LoadOf
  <2>3. (a - MaxService) + b + MaxService <= Worth(outstanding)
    <3> HIDE DEF a, b
    <3> QED
      BY <1>4, <2>1, <2>2
  <2>4. /\ service' # {} /\ \A r \in service' : r.elapsed + MaxService = MaxService
        /\ MaxService \in 0..MaxService
    BY <1>2, <1>4, <1>8
  <2> QED
    BY <1>2, <1>3, <1>5, <1>7, <2>3, <2>4 DEF Loaded
<1>13. OnTime(g, MaxService)'
  <2>1. Fits(qc, asked, left) /\ (phase["client"] \in Alive => Recent(wire["server"]))
    BY <1>1, <1>2 DEF Timing, OnTime, qc
  <2> QED
    BY <1>2, <1>5, <1>7, <1>9, <2>1 DEF OnTime
<1>14. /\ Patience("client") \in Int /\ Patience("client")' = Patience("client")
       /\ Patience("server") \in Int /\ Patience("server")' = Patience("server")
       /\ Patience("client") - MaxDelay \in Int
  BY <1>2, <1>3, PatienceIs, TwoEnds, Ways DEF Patience
<1>15. ClientHears(g, MaxService)' /\ ServerHears(g, MaxService)'
  BY <1>1, <1>2, <1>5, <1>7, <1>14 DEF Timing, ClientHears, ServerHears, qc
<1> QED
  BY <1>10, <1>11, <1>12, <1>13, <1>15 DEF LinkInv, Timing

\* Its service has answered.
LEMMA ServerResponds == LinkInv /\ Respond => LinkInv'
<1> SUFFICES ASSUME LinkInv, Respond PROVE LinkInv'
  OBVIOUS
<1>1. PICK asked, answered, left : Timing(asked, answered, left)
  BY DEF LinkInv
<1> DEFINE qc == wire["client"]
           qs == wire["server"]
<1>2. PICK request \in service : wire' = [wire EXCEPT !["server"] =
                                            Append(@, Frame("answer", request.stamp))]
  BY DEF Respond
<1> DEFINE x == Frame("answer", request.stamp)
<1>3. /\ phase["server"] = "up" /\ service' = {} /\ service # {}
      /\ phase' = phase /\ silence' = silence
      /\ outstanding' = outstanding /\ untilTick' = untilTick
      /\ wire' = [wire EXCEPT !["server"] = Append(@, x)]
  BY <1>2 DEF Respond
<1>4. /\ LinkTypes /\ Loaded(asked, answered, left)
      /\ qc \in Seq(Frames) /\ qs \in Seq(Frames) /\ InAge(qs)
      /\ Tallies(asked, qc, "request") /\ Tallies(answered, qs, "answer")
      /\ asked \in [0..Len(qc) -> Nat]
  BY <1>1, WireFacts DEF LinkInv, Timing, Loaded, Tallies
<1>5. /\ left \in Nat /\ asked[Len(qc)] \in Nat /\ answered[Len(qs)] \in Nat
      /\ MaxService \in Nat
  BY <1>4, LoadOf, Ways
<1>6. request.stamp \in Nat /\ request.stamp + left <= MaxDelay + Work
  <2>1. request \in [elapsed : 0..MaxService, stamp : Nat]
    BY <1>2, <1>4 DEF LinkTypes
  <2> QED
    BY <1>1, <1>3, <2>1 DEF Timing, OnTime
<1>7. /\ x \in Frames /\ x.kind = "answer" /\ x.sent = 0
      /\ x.stamp <= MaxDelay + Work /\ Cost(x, "answer") = MaxService
  <2>1. request.stamp <= MaxDelay + Work
    BY <1>5, <1>6, Ways
  <2> QED
    BY <1>6, <2>1, NewFrame DEF Kinds, Cost
<1>8. /\ Append(qs, x) \in Seq(Frames) /\ InAge(Append(qs, x))
      /\ Append(qs, x) # <<>> /\ (qs # <<>> => Append(qs, x)[1] = qs[1])
      /\ Recent(qs) => Recent(Append(qs, x))
      /\ \A kind : \A limit \in Int :
           Arriving(qs, kind, limit) => Arriving(Append(qs, x), kind, limit)
      /\ \E h : /\ Tallies(h, Append(qs, x), "answer")
                /\ h[Len(Append(qs, x))] = answered[Len(qs)] + MaxService
  <2> HIDE DEF x, qs
  <2> QED
    BY <1>4, <1>7, ToClient
<1>9. PICK h : /\ Tallies(h, Append(qs, x), "answer")
               /\ h[Len(Append(qs, x))] = answered[Len(qs)] + MaxService
  BY <1>8
<1>10. wire'["server"] = Append(qs, x) /\ wire'["client"] = qc
  BY <1>3, <1>4, TwoEnds DEF LinkTypes
\* Without a service nothing waits longer.
<1>11. /\ Fits(qc, asked, left) => Fits(qc, asked, 0)
       /\ \A kind : \A limit \in Int :
            Coming(qc, asked, left, kind, limit) => Coming(qc, asked, 0, kind, limit)
  <2> HIDE DEF qc
  <2>1. ASSUME NEW i \in 1..Len(qc)
        PROVE  qc[i].stamp \in Nat /\ asked[i] \in Nat
    <3>1. i \in 0..Len(qc)
      OBVIOUS
    <3> QED
      BY <1>4, <3>1, PartsOf
  <2>2. ASSUME NEW a \in Nat, NEW b \in Nat, NEW c \in Int, a + b + left <= c
        PROVE  a + b + 0 <= c
    BY <1>5, <2>2
  <2>3. ASSUME Fits(qc, asked, left) PROVE Fits(qc, asked, 0)
    <3> SUFFICES ASSUME NEW i \in 1..Len(qc)
                 PROVE  /\ qc[i].stamp + asked[i] <= qc[i].sent + Work
                        /\ qc[i].stamp + asked[i] + 0 <= MaxDelay + Work
      BY DEF Fits
    <3>1. /\ qc[i].stamp + asked[i] <= qc[i].sent + Work
          /\ qc[i].stamp + asked[i] + left <= MaxDelay + Work
      BY <2>3 DEF Fits
    <3>2. MaxDelay + Work \in Int
      BY Ways
    <3> QED
      BY <2>1, <2>2, <3>1, <3>2
  <2>4. ASSUME NEW kind, NEW limit \in Int, Coming(qc, asked, left, kind, limit)
        PROVE  Coming(qc, asked, 0, kind, limit)
    <3>1. PICK i \in 1..Len(qc) : /\ qc[i].kind = kind
                                  /\ asked[i] + MaxDelay <= qc[i].sent + limit
                                  /\ asked[i] + left <= limit
      BY <2>4 DEF Coming
    <3>2. asked[i] + 0 <= limit
      BY <1>5, <2>1, <3>1
    <3> QED
      BY <3>1, <3>2 DEF Coming
  <2> QED
    BY <2>3, <2>4
<1>12. LinkTypes'
  <2>1. wire' \in [Ends -> Seq(Frames)]
    BY <1>3, <1>4, <1>8 DEF LinkTypes
  <2> QED
    BY <1>3, <1>4, <1>8, <1>10, <2>1 DEF LinkTypes
<1> HIDE DEF x, qc, qs
<1>13. Setups' /\ Ticks' /\ DeadIsDead'
  BY <1>3, <1>8, <1>10 DEF LinkInv, Setups, Ticks, DeadIsDead, qs
<1>14. Loaded(asked, h, 0)'
  <2> DEFINE a == asked[Len(qc)]
             b == answered[Len(qs)]
  <2>1. a + b + MaxService <= Worth(outstanding) /\ a \in Nat /\ b \in Nat
    BY <1>3, <1>4, <1>5 DEF Loaded, qc, qs
  <2>2. Worth(outstanding) \in Int
    BY <1>4, LoadOf
  <2>3. a + (b + MaxService) + 0 <= Worth(outstanding)
    <3> HIDE DEF a, b
    <3> QED
      BY <1>5, <2>1, <2>2
  <2>4. 0 \in 0..MaxService
    BY <1>5
  <2> QED
    BY <1>3, <1>4, <1>9, <1>10, <2>3, <2>4 DEF Loaded, qc
<1>15. OnTime(asked, 0)'
  BY <1>1, <1>3, <1>8, <1>10, <1>11 DEF Timing, OnTime, qc, qs
<1>16. /\ Patience("client") \in Int /\ Patience("client")' = Patience("client")
       /\ Patience("server") \in Int /\ Patience("server")' = Patience("server")
       /\ Patience("client") - MaxDelay \in Int
       /\ Patience("server") - MaxDelay - Work \in Int
  BY <1>3, <1>4, PatienceIs, TwoEnds, Ways DEF Patience
<1>17. ClientHears(asked, 0)' /\ ServerHears(asked, 0)'
  BY <1>1, <1>3, <1>8, <1>10, <1>11, <1>16 DEF Timing, ClientHears, ServerHears, qc, qs
<1> QED
  BY <1>12, <1>13, <1>14, <1>15, <1>17 DEF LinkInv, Timing

-----------------------------------------------------------------------------
\* A unit of time passes, and nothing was due.
LEMMA NothingDue ==
    ASSUME LinkTypes, ~Due
    PROVE  /\ \A e \in Ends : phase[e] = "up" => untilTick[e] # 0
           /\ phase["server"] = "up" => phase["client"] \in Alive \cup {"gone"}
           /\ phase["client"] \in Alive /\ wire["server"] # <<>> =>
                 wire["server"][1].sent < MaxDelay
           /\ phase["server"] = "up" /\ service = {} /\ wire["client"] # <<>> =>
                 wire["client"][1].sent < MaxDelay
           /\ phase["server"] = "up" => \A r \in service : r.elapsed < MaxService
           /\ phase["client"] = "setup" /\ phase["server"] = "setup" =>
                 silence["client"] < MaxSetup \/ silence["server"] < MaxSetup
<1>1. ASSUME NEW q \in Seq(Frames), q # <<>>, ~(Head(q).sent >= MaxDelay)
      PROVE  q[1].sent < MaxDelay
  <2>1. Head(q) = q[1] /\ 1 \in 1..Len(q)
    BY <1>1, EmptySeq
  <2> QED
    BY <1>1, <2>1, PartsOf, Ways
<1>2. wire["client"] \in Seq(Frames) /\ wire["server"] \in Seq(Frames)
  BY WireFacts
<1>3. \A e \in Ends : phase[e] = "up" => untilTick[e] # 0
  BY DEF Due
<1>4. phase["server"] = "up" => phase["client"] \in Alive \cup {"gone"}
  BY TwoEnds DEF Due, Told, LinkTypes
<1>5. phase["client"] \in Alive /\ wire["server"] # <<>> => wire["server"][1].sent < MaxDelay
  BY <1>1, <1>2, TwoEnds DEF Due, Alive
<1>6. phase["server"] = "up" /\ service = {} /\ wire["client"] # <<>> =>
          wire["client"][1].sent < MaxDelay
  BY <1>1, <1>2, TwoEnds DEF Due
<1>7. phase["server"] = "up" => \A r \in service : r.elapsed < MaxService
  <2> SUFFICES ASSUME phase["server"] = "up", NEW r \in service PROVE r.elapsed < MaxService
    OBVIOUS
  <2>1. r.elapsed \in 0..MaxService
    BY DEF LinkTypes
  <2>2. ~(r.elapsed >= MaxService)
    BY DEF Due
  <2> QED
    BY <2>1, <2>2, Ways
<1>8. phase["client"] = "setup" /\ phase["server"] = "setup" =>
          silence["client"] < MaxSetup \/ silence["server"] < MaxSetup
  BY TwoEnds, PatienceIs, Timely DEF Due
<1> QED
  BY <1>3, <1>4, <1>5, <1>6, <1>7, <1>8

LEMMA RecentAged ==
    ASSUME NEW q \in Seq(Frames), InAge(q), Recent(q),
           q # <<>> => q[1].sent < MaxDelay
    PROVE  Recent(Older(q))
<1> DEFINE r == Older(q)
<1>1. /\ Len(q) \in Nat /\ Len(r) = Len(q) /\ r \in Seq(Frames)
      /\ \A i \in 1..Len(q) :
           /\ r[i].sent = IF q[i].sent + 1 < MaxDelay THEN q[i].sent + 1 ELSE MaxDelay
           /\ r[i].stamp <= q[i].stamp + 1
  BY Aged
<1> HIDE DEF r
<1> SUFFICES ASSUME NEW i \in 1..Len(q)
             PROVE  r[i].stamp <= r[i].sent + MaxDelay + Work
  BY <1>1 DEF Recent, r
<1>2. /\ q[i].stamp \in Nat /\ q[i].sent \in Nat /\ r[i].stamp \in Nat
      /\ q[i].sent < MaxDelay /\ q[i].stamp <= q[i].sent + MaxDelay + Work
  <2>1. 1 \in 1..Len(q) /\ 1 <= i /\ q # <<>>
    BY <1>1
  <2>2. q[1].sent \in Nat /\ q[i].sent \in Nat /\ q[i].sent <= q[1].sent
    BY <2>1, PartsOf DEF InAge
  <2>3. q[i].sent < MaxDelay
    BY <2>1, <2>2, Ways
  <2> QED
    BY <1>1, <2>3, PartsOf DEF Recent
<1> DEFINE stamp == q[i].stamp
           sent == q[i].sent
           then == r[i].stamp
<1>3. /\ stamp \in Nat /\ sent \in Nat /\ then \in Nat /\ then <= stamp + 1
      /\ sent < MaxDelay /\ stamp <= sent + MaxDelay + Work
  BY <1>1, <1>2
<1>4. r[i].sent = IF sent + 1 < MaxDelay THEN sent + 1 ELSE MaxDelay
  BY <1>1
<1> HIDE DEF stamp, sent, then
<1>5. then <= (IF sent + 1 < MaxDelay THEN sent + 1 ELSE MaxDelay) + MaxDelay + Work
  BY <1>3, Ways
<1> QED
  BY <1>4, <1>5 DEF then

LEMMA OlderEmpty ==
    ASSUME NEW q \in Seq(Frames), InAge(q)
    PROVE  Older(q) = <<>> <=> q = <<>>
<1>1. Older(q) \in Seq(Frames) /\ Len(Older(q)) = Len(q)
  BY Aged
<1> QED
  BY <1>1, EmptySeq

LEMMA TimePasses == LinkInv /\ Elapse => LinkInv'
<1> SUFFICES ASSUME LinkInv, Elapse PROVE LinkInv'
  OBVIOUS
<1>1. PICK asked, answered, left : Timing(asked, answered, left)
  BY DEF LinkInv
<1> DEFINE qc == wire["client"]
           qs == wire["server"]
           after == IF left = 0 THEN 0 ELSE left - 1
<1>2. /\ ~Due /\ phase["client"] \in Alive
      /\ silence' = [e \in Ends |-> AtMost(Threshold + Interval + 1, silence[e] + 1)]
      /\ untilTick' = [e \in Ends |-> untilTick[e] - IF phase[e] = "up" THEN 1 ELSE 0]
      /\ wire' = [e \in Ends |-> Older(wire[e])]
      /\ service' = {[elapsed |-> AtMost(MaxService, r.elapsed + 1),
                      stamp |-> AtMost(Skew + 1, r.stamp + 1)] : r \in service}
      /\ phase' = phase /\ outstanding' = outstanding
  BY DEF Elapse, Alive
<1>3. /\ LinkTypes /\ Loaded(asked, answered, left)
      /\ qc \in Seq(Frames) /\ InAge(qc) /\ qs \in Seq(Frames) /\ InAge(qs)
      /\ Tallies(asked, qc, "request") /\ Tallies(answered, qs, "answer")
      /\ asked \in [0..Len(qc) -> Nat] /\ left \in Nat /\ left \in 0..MaxService
  BY <1>1, WireFacts, LoadOf DEF LinkInv, Timing, Loaded, Tallies
<1>4. wire'["client"] = Older(qc) /\ wire'["server"] = Older(qs)
  BY <1>2, TwoEnds
<1>5. /\ Older(qc) \in Seq(Frames) /\ InAge(Older(qc)) /\ Len(Older(qc)) = Len(qc)
      /\ Older(qs) \in Seq(Frames) /\ InAge(Older(qs)) /\ Len(Older(qs)) = Len(qs)
      /\ Tallies(asked, Older(qc), "request") /\ Tallies(answered, Older(qs), "answer")
      /\ Older(qc) = <<>> <=> qc = <<>>
      /\ Older(qs) = <<>> <=> qs = <<>>
  BY <1>3, Aged, OlderEmpty
<1>6. after \in Nat /\ after \in 0..MaxService
  BY <1>3, Ways
\* The service, which goes on.
<1>7. /\ service = {} => service' = {}
      /\ service # {} =>
           \E r \in service, n \in [elapsed : 0..MaxService, stamp : Nat] :
              /\ service = {r} /\ service' = {n}
              /\ r.elapsed \in 0..MaxService /\ r.stamp \in Nat
              /\ n.elapsed + after = MaxService
              /\ n.stamp <= r.stamp + 1
  <2>1. service = {} => service' = {}
    BY <1>2
  <2>2. ASSUME service # {}
        PROVE  \E r \in service, n \in [elapsed : 0..MaxService, stamp : Nat] :
                 /\ service = {r} /\ service' = {n}
                 /\ r.elapsed \in 0..MaxService /\ r.stamp \in Nat
                 /\ n.elapsed + after = MaxService
                 /\ n.stamp <= r.stamp + 1
    <3>1. PICK r \in [elapsed : 0..MaxService, stamp : Nat] : service = {r}
      BY <1>3, <2>2 DEF LinkTypes
    <3> DEFINE elapsed == AtMost(MaxService, r.elapsed + 1)
               stamp == AtMost(Skew + 1, r.stamp + 1)
               n == [elapsed |-> elapsed, stamp |-> stamp]
    <3>2. service' = {n}
      BY <1>2, <3>1
    <3>3. r.elapsed \in 0..MaxService /\ r.stamp \in Nat /\ r.elapsed + left = MaxService
      BY <1>3, <3>1 DEF Loaded
    <3>4. elapsed \in 0..MaxService /\ elapsed + after = MaxService
      BY <1>3, <3>3, Ways DEF AtMost
    <3>5. stamp \in Nat /\ stamp <= r.stamp + 1
      BY <3>3, Timely DEF AtMost
    <3> HIDE DEF elapsed, stamp
    <3>6. n \in [elapsed : 0..MaxService, stamp : Nat] /\ n.elapsed = elapsed /\ n.stamp = stamp
      BY <3>4, <3>5
    <3> QED
      BY <3>1, <3>2, <3>3, <3>4, <3>5, <3>6
  <2> QED
    BY <2>1, <2>2
\* Nothing is late.
<1>8. /\ \A e \in Ends : phase[e] = "up" => untilTick[e] # 0
      /\ qs # <<>> => qs[1].sent < MaxDelay
      /\ phase["server"] = "up" /\ left = 0 /\ qc # <<>> => qc[1].sent < MaxDelay
      /\ phase["server"] = "up" /\ service # {} => left # 0
      /\ phase["client"] = "setup" /\ phase["server"] = "setup" =>
            silence["client"] < MaxSetup \/ silence["server"] < MaxSetup
  <2>1. phase["server"] = "up" /\ service # {} => left # 0
    <3> SUFFICES ASSUME phase["server"] = "up", service # {}, left = 0 PROVE FALSE
      OBVIOUS
    <3>1. PICK r \in service : r.elapsed \in 0..MaxService /\ r.elapsed + left = MaxService
      BY <1>3, <1>7 DEF Loaded
    <3>2. r.elapsed < MaxService
      BY <1>2, <1>3, NothingDue
    <3> QED
      BY <3>1, <3>2, Ways
  <2> QED
    BY <1>2, <1>3, <2>1, NothingDue
<1>9. \A e \in Ends :
        /\ silence[e] \in Nat /\ silence'[e] \in Nat /\ silence'[e] <= silence[e] + 1
        /\ silence[e] <= Threshold + Interval => silence'[e] = silence[e] + 1
        /\ untilTick[e] \in 0..Interval /\ untilTick'[e] \in 0..Interval
        /\ phase[e] = "up" => untilTick'[e] = untilTick[e] - 1
        /\ phase[e] # "up" => untilTick'[e] = untilTick[e]
  <2> SUFFICES ASSUME NEW e \in Ends
               PROVE  /\ silence[e] \in Nat /\ silence'[e] \in Nat
                      /\ silence'[e] <= silence[e] + 1
                      /\ silence[e] <= Threshold + Interval => silence'[e] = silence[e] + 1
                      /\ untilTick[e] \in 0..Interval /\ untilTick'[e] \in 0..Interval
                      /\ phase[e] = "up" => untilTick'[e] = untilTick[e] - 1
                      /\ phase[e] # "up" => untilTick'[e] = untilTick[e]
    OBVIOUS
  <2>1. silence[e] \in Nat /\ untilTick[e] \in 0..Interval
    BY <1>3, PatienceIs
  <2>2. /\ silence'[e] = AtMost(Threshold + Interval + 1, silence[e] + 1)
        /\ untilTick'[e] = untilTick[e] - IF phase[e] = "up" THEN 1 ELSE 0
    BY <1>2
  <2>3. /\ silence'[e] \in Nat /\ silence'[e] <= silence[e] + 1
        /\ silence[e] <= Threshold + Interval => silence'[e] = silence[e] + 1
    BY <2>1, <2>2, Timely DEF AtMost
  <2>4. /\ untilTick'[e] \in 0..Interval
        /\ phase[e] = "up" => untilTick'[e] = untilTick[e] - 1
        /\ phase[e] # "up" => untilTick'[e] = untilTick[e]
    BY <1>8, <2>1, <2>2, Timely
  <2> QED
    BY <2>1, <2>3, <2>4
<1>10. LinkTypes'
  <2>1. wire' \in [Ends -> Seq(Frames)]
    <3>1. \A e \in Ends : Older(wire[e]) \in Seq(Frames)
      BY <1>5, TwoEnds
    <3> QED
      BY <1>2, <3>1
  <2>2. silence' \in [Ends -> Nat] /\ untilTick' \in [Ends -> 0..Interval]
    BY <1>2, <1>9
  <2>3. service' = {} \/ \E r \in [elapsed : 0..MaxService, stamp : Nat] : service' = {r}
    BY <1>7
  <2> QED
    BY <1>2, <1>3, <1>4, <1>5, <2>1, <2>2, <2>3 DEF LinkTypes
<1> HIDE DEF qc, qs, after
<1>11. Setups'
  <2>1. phase["server"] = "setup" => Older(qc) = <<>> /\ Older(qs) = <<>> /\ service' = {}
    BY <1>5, <1>7 DEF LinkInv, Setups, qc, qs
  <2>2. phase["client"] = "setup" /\ phase["server"] = "setup" =>
          silence'["client"] = silence'["server"] /\ silence'["client"] <= MaxSetup
    <3> SUFFICES ASSUME phase["client"] = "setup", phase["server"] = "setup"
                 PROVE  silence'["client"] = silence'["server"] /\ silence'["client"] <= MaxSetup
      OBVIOUS
    <3>1. silence["client"] = silence["server"] /\ silence["client"] < MaxSetup
      BY <1>8 DEF LinkInv, Setups
    <3> QED
      BY <1>9, <3>1, TwoEnds, Timely
  <2>3. phase["client"] = "setup" /\ Older(qs) # <<>> =>
          silence'["client"] <= MaxSetup + Older(qs)[1].sent
    <3> SUFFICES ASSUME phase["client"] = "setup", Older(qs) # <<>>
                 PROVE  silence'["client"] <= MaxSetup + Older(qs)[1].sent
      OBVIOUS
    <3>1. qs # <<>> /\ 1 \in 1..Len(qs)
      BY <1>3, <1>5, EmptySeq
    <3>2. /\ Older(qs)[1].sent = IF qs[1].sent + 1 < MaxDelay THEN qs[1].sent + 1 ELSE MaxDelay
          /\ qs[1].sent \in Nat /\ qs[1].sent < MaxDelay
      BY <1>3, <1>8, <3>1, Aged, PartsOf
    <3>3. Older(qs)[1].sent = qs[1].sent + 1
      BY <3>2, Ways
    <3>4. silence["client"] <= MaxSetup + qs[1].sent
      BY <3>1 DEF LinkInv, Setups, qs
    <3> DEFINE sent == qs[1].sent
    <3>5. /\ silence["client"] <= MaxSetup + sent /\ sent \in Nat
          /\ Older(qs)[1].sent = sent + 1
      BY <3>2, <3>3, <3>4
    <3>6. silence["client"] \in Nat /\ silence'["client"] \in Nat
          /\ silence'["client"] <= silence["client"] + 1
      BY <1>9, TwoEnds
    <3> HIDE DEF sent
    <3>7. silence'["client"] <= MaxSetup + (sent + 1)
      BY <3>5, <3>6, Timely
    <3> QED
      BY <3>5, <3>7
  <2>4. \A e \in Ends : phase[e] = "setup" => untilTick'[e] = Interval
    BY <1>9 DEF LinkInv, Setups
  <2> QED
    BY <1>2, <1>4, <1>5, <2>1, <2>2, <2>3, <2>4 DEF LinkInv, Setups, qs
<1>12. Ticks'
  <2> SUFFICES ASSUME NEW e \in Ends, phase[e] = "up"
               PROVE  silence'[e] + untilTick'[e] <= Threshold + Interval
    BY <1>2 DEF Ticks
  <2>1. silence[e] + untilTick[e] <= Threshold + Interval
    BY DEF LinkInv, Ticks
  <2> QED
    BY <1>9, <2>1, Timely
<1>13. DeadIsDead'
  BY <1>2 DEF LinkInv, DeadIsDead
<1>14. Loaded(asked, answered, after)'
  <2>1. /\ service' = {} => after = 0
        /\ \A r \in service' : r.elapsed + after = MaxService
        /\ service' = {} <=> service = {}
    <3>1. service = {} => after = 0
      BY <1>3 DEF Loaded, after
    <3> QED
      BY <1>7, <3>1
  <2> QED
    BY <1>2, <1>3, <1>4, <1>5, <1>6, <2>1 DEF Loaded, qc, qs
<1>15. OnTime(asked, after)'
  <2>1. ASSUME phase["server"] = "up"
        PROVE  /\ Fits(Older(qc), asked, after)
               /\ \A r \in service' : r.stamp + after <= MaxDelay + Work
    <3>1. Fits(qc, asked, left) /\ \A r \in service : r.stamp + left <= MaxDelay + Work
      BY <1>1, <2>1 DEF Timing, OnTime, qc
    <3>2. Fits(Older(qc), asked, after)
      BY <1>3, <1>8, <2>1, <3>1, FitsAged DEF after
    <3>3. ASSUME NEW n \in service' PROVE n.stamp + after <= MaxDelay + Work
      <4>1. PICK r \in service : /\ r.stamp \in Nat /\ n.stamp \in Nat
                                 /\ n.stamp <= r.stamp + 1
        BY <1>7, <3>3
      <4>2. r.stamp + left <= MaxDelay + Work /\ left # 0
        BY <1>8, <2>1, <3>1, <4>1
      <4> QED
        BY <1>3, <4>1, <4>2, Ways DEF after
    <3> QED
      BY <3>2, <3>3
  <2>2. Recent(Older(qs))
    <3>1. Recent(qs)
      BY <1>1, <1>2 DEF Timing, OnTime, qs
    <3> QED
      BY <1>3, <1>8, <3>1, RecentAged
  <2> QED
    BY <1>2, <1>4, <2>1, <2>2 DEF OnTime
<1>16. \A e \in Ends : phase[e] = "up" => /\ Patience(e) \in Int
                                          /\ Patience(e)' = Patience(e) - 1
  <2> SUFFICES ASSUME NEW e \in Ends, phase[e] = "up"
               PROVE  Patience(e) \in Int /\ Patience(e)' = Patience(e) - 1
    OBVIOUS
  <2>1. silence[e] + untilTick[e] <= Threshold + Interval
    BY DEF LinkInv, Ticks
  <2>2. silence[e] <= Threshold + Interval
    BY <1>9, <2>1, Timely
  <2> QED
    BY <1>9, <2>2, Timely DEF Patience
<1>17. phase["server"] = "up" =>
         \A kind : \A limit \in Int :
           Coming(qc, asked, left, kind, limit)
             => Coming(Older(qc), asked, after, kind, limit - 1)
  BY <1>3, <1>8, ComingAged DEF after
<1>18. \A kind : \A limit \in Int :
         Arriving(qs, kind, limit) => Arriving(Older(qs), kind, limit - 1)
  BY <1>3, <1>8, ArrivingAged
<1>19. ClientHears(asked, after)'
  <2> SUFFICES ASSUME phase["client"] = "up", phase["server"] = "up"
               PROVE  \/ untilTick'["client"] + 2 * MaxDelay + Work <= Patience("client")'
                      \/ Coming(Older(qc), asked, after, "ping", Patience("client")' - MaxDelay)
                      \/ Arriving(Older(qs), "pong", Patience("client")')
    BY <1>2, <1>4 DEF ClientHears
  <2>1. /\ Patience("client") \in Int /\ Patience("client")' = Patience("client") - 1
        /\ Patience("client") - MaxDelay \in Int
        /\ Patience("client")' - MaxDelay = (Patience("client") - MaxDelay) - 1
    BY <1>16, TwoEnds, Ways
  <2>2. CASE untilTick["client"] + 2 * MaxDelay + Work <= Patience("client")
    BY <1>9, <2>1, <2>2, TwoEnds, Ways
  <2>3. CASE Coming(qc, asked, left, "ping", Patience("client") - MaxDelay)
    BY <1>17, <2>1, <2>3
  <2>4. CASE Arriving(qs, "pong", Patience("client"))
    BY <1>18, <2>1, <2>4
  <2> QED
    BY <1>1, <2>2, <2>3, <2>4 DEF Timing, ClientHears, qc, qs
<1>20. ServerHears(asked, after)'
  <2> SUFFICES ASSUME phase["server"] = "up"
               PROVE  \/ untilTick'["server"] + 2 * MaxDelay + Work <= Patience("server")'
                      \/ Arriving(Older(qs), "ping", Patience("server")' - MaxDelay - Work)
                      \/ Coming(Older(qc), asked, after, "pong", Patience("server")')
    BY <1>2, <1>4 DEF ServerHears
  <2>1. /\ Patience("server") \in Int /\ Patience("server")' = Patience("server") - 1
        /\ Patience("server") - MaxDelay - Work \in Int
        /\ Patience("server")' - MaxDelay - Work = (Patience("server") - MaxDelay - Work) - 1
    BY <1>16, TwoEnds, Ways
  <2>2. CASE untilTick["server"] + 2 * MaxDelay + Work <= Patience("server")
    BY <1>9, <2>1, <2>2, TwoEnds, Ways
  <2>3. CASE Arriving(qs, "ping", Patience("server") - MaxDelay - Work)
    BY <1>18, <2>1, <2>3
  <2>4. CASE Coming(qc, asked, left, "pong", Patience("server"))
    BY <1>17, <2>1, <2>4
  <2> QED
    BY <1>1, <1>2, <2>2, <2>3, <2>4 DEF Timing, ServerHears, qc, qs
<1> QED
  BY <1>10, <1>11, <1>12, <1>13, <1>14, <1>15, <1>19, <1>20 DEF LinkInv, Timing

-----------------------------------------------------------------------------
LEMMA Leaving ==
    ASSUME LinkInv, NEW e \in Ends, NEW how \in Over \ {"dead"}, Leaves(e, how)
    PROVE  LinkInv'
BY LeavingIsSafe DEF Leaves

\* Nobody presumes a live end dead: it would have run out of patience.
LEMMA Presuming ==
    ASSUME LinkInv, NEW e \in Ends, PresumeDead(e)
    PROVE  LinkInv'
<1>1. phase[e] = "up" /\ untilTick[e] = 0 /\ silence[e] > Threshold
  BY DEF PresumeDead, Dead
<1>2. silence[e] \in Nat /\ Threshold \in Nat
  BY PatienceIs, Timely DEF LinkInv
<1>3. ~(0 <= Patience(e))
  BY <1>1, <1>2 DEF Patience
<1>4. phase[Peer(e)] \notin Alive
  BY <1>1, <1>3, NotTooLong
<1> QED
  BY <1>4, LeavingIsSafe DEF PresumeDead, Leaves, Over

LEMMA Disconnecting ==
    ASSUME LinkInv, Disconnects
    PROVE  LinkInv'
<1>1. phase["client"] \in Over \/ phase["client"] \notin Over
  OBVIOUS
<1>2. phase = [phase EXCEPT !["client"] = phase["client"]]
  BY TwoEnds DEF LinkInv, LinkTypes
<1>3. CASE phase["client"] \in Over
  <2>1. phase' = [phase EXCEPT !["client"] = phase["client"]]
    BY <1>3 DEF Disconnects
  <2>2. phase["client"] = "dead" => phase[Peer("client")] \notin Alive
    BY TwoEnds DEF LinkInv, DeadIsDead
  <2> QED
    BY <1>3, <2>1, <2>2, TwoEnds, LeavingIsSafe DEF Disconnects
<1>4. CASE phase["client"] \notin Over
  <2>1. phase' = [phase EXCEPT !["client"] = "ended"]
    BY <1>4 DEF Disconnects
  <2>2. "ended" \in Over /\ "ended" # "dead"
    BY DEF Over
  <2> QED
    BY <2>1, <2>2, TwoEnds, LeavingIsSafe DEF Disconnects
<1> QED
  BY <1>3, <1>4

LEMMA LinkRests == LinkInv /\ UNCHANGED linkVars => LinkInv'
<1> SUFFICES ASSUME LinkInv, UNCHANGED linkVars PROVE LinkInv'
  OBVIOUS
<1>1. /\ phase' = phase /\ silence' = silence /\ untilTick' = untilTick
      /\ wire' = wire /\ service' = service /\ outstanding' = outstanding
  BY DEF linkVars
<1>2. PICK asked, answered, left : Timing(asked, answered, left)
  BY DEF LinkInv
<1>3. LinkTypes' /\ Setups' /\ Ticks' /\ DeadIsDead'
  BY <1>1 DEF LinkInv, LinkTypes, Setups, Ticks, DeadIsDead
<1>4. Timing(asked, answered, left)'
  BY <1>1, <1>2 DEF Timing, Loaded, OnTime, ClientHears, ServerHears, Patience
<1> QED
  BY <1>3, <1>4 DEF LinkInv

LEMMA LinkMoves == LinkInv /\ LinkSteps => LinkInv'
<1> SUFFICES ASSUME LinkInv, LinkSteps PROVE LinkInv'
  OBVIOUS
<1>1. CASE Establish
  BY <1>1, ServerEstablishes
<1>2. CASE HandleRequest
  BY <1>2, ServerHandlesRequest
<1>3. CASE Respond
  BY <1>3, ServerResponds
<1>4. CASE HandleAnswer
  BY <1>4, ClientHandlesAnswer
<1>5. CASE Vanishes
  BY <1>5, TwoEnds, Leaving DEF Vanishes, Over
<1>6. CASE Elapse
  BY <1>6, TimePasses
<1>7. ASSUME NEW e \in Ends, Ping(e) PROVE LinkInv'
  BY <1>7, TwoEnds, ClientPings, ServerPings
<1>8. ASSUME NEW e \in Ends, PresumeDead(e) PROVE LinkInv'
  BY <1>8, Presuming
<1>9. ASSUME NEW e \in Ends, HandlePing(e) PROVE LinkInv'
  BY <1>9, TwoEnds, ClientHandlesPing, ServerHandlesPing
<1>10. ASSUME NEW e \in Ends, HandlePong(e) PROVE LinkInv'
  BY <1>10, TwoEnds, ClientHandlesPong, ServerHandlesPong
<1>11. ASSUME NEW e \in Ends, Closes(e) PROVE LinkInv'
  BY <1>11, Leaving DEF Closes, Over
<1> QED
  BY <1>1, <1>2, <1>3, <1>4, <1>5, <1>6, <1>7, <1>8, <1>9, <1>10, <1>11 DEF LinkSteps

LEMMA LinkStep == LinkInv /\ [Next]_vars => LinkInv'
<1> SUFFICES ASSUME LinkInv, [Next]_vars PROVE LinkInv'
  OBVIOUS
<1>1. CASE LinkSteps /\ UNCHANGED localVars
  BY <1>1, LinkMoves
<1>2. CASE HandshakeDone
  BY <1>2, ClientCompletes DEF HandshakeDone
<1>3. CASE SetupFails
  BY <1>3, Disconnecting DEF SetupFails, Cleanup
<1>4. CASE LocalWrites
  BY <1>4, LinkRests DEF LocalWrites
<1>5. CASE Forward
  <2>1. CASE Request
    BY <2>1, ClientAsks
  <2>2. CASE Leaves("client", "closed")
    BY <2>2, TwoEnds, Leaving DEF Over
  <2>3. CASE UNCHANGED linkVars
    BY <2>3, LinkRests
  <2> QED
    BY <1>5, <2>1, <2>2, <2>3 DEF Forward
<1>6. CASE LocalLeaves
  BY <1>6, LinkRests DEF LocalLeaves
<1>7. CASE LocalClose
  <2>1. Cleanup \/ UNCHANGED linkVars
    BY <1>7 DEF LocalClose
  <2> QED
    BY <2>1, Disconnecting, LinkRests DEF Cleanup
<1>8. CASE LocalReset
  <2>1. Cleanup \/ Leaves("client", "closed")
    BY <1>8 DEF LocalReset
  <2> QED
    BY <2>1, TwoEnds, Disconnecting, Leaving DEF Cleanup, Over
<1>9. CASE Stop
  BY <1>9, Disconnecting DEF Stop, Cleanup
<1>10. CASE UNCHANGED vars
  BY <1>10, LinkRests DEF vars
<1> QED
  BY <1>1, <1>2, <1>3, <1>4, <1>5, <1>6, <1>7, <1>8, <1>9, <1>10 DEF Next

LEMMA StampsPass ==
    ASSUME LinkInv, NEW e \in Ends, phase[e] = "up", NEW i \in 1..Len(wire[Peer(e)])
    PROVE  wire[Peer(e)][i].stamp <= Skew
<1>1. PICK asked, answered, left : Timing(asked, answered, left)
  BY DEF LinkInv
<1> DEFINE q == wire[Peer(e)]
           stamp == q[i].stamp
           sent == q[i].sent
<1>2. q \in Seq(Frames) /\ i \in 1..Len(q)
  BY TwoEnds, WireFacts DEF LinkInv
<1>3. stamp \in Nat /\ sent \in 0..MaxDelay
  BY <1>2, PartsOf
<1>4. CASE e = "server"
  <2> DEFINE before == asked[i]
  <2>1. Fits(q, asked, left)
    BY <1>1, <1>4, TwoEnds DEF Timing, OnTime
  <2>2. left \in Nat
    BY <1>1, LoadOf DEF Timing, LinkInv
  <2>3. before \in Nat
    <3>1. asked \in [0..Len(q) -> Nat]
      BY <1>1, <1>4, TwoEnds DEF Timing, Loaded, Tallies
    <3>2. i \in 0..Len(q)
      BY <1>2
    <3> QED
      BY <3>1, <3>2
  <2>4. stamp + before + left <= MaxDelay + Work
    BY <1>2, <2>1 DEF Fits
  <2> HIDE DEF stamp, sent, before
  <2>5. stamp <= Skew
    BY <1>3, <2>2, <2>3, <2>4, Timely
  <2> QED
    BY <2>5 DEF stamp
<1>5. CASE e = "client"
  <2>1. Recent(q)
    BY <1>1, <1>5, TwoEnds DEF Timing, OnTime
  <2>2. stamp <= sent + MaxDelay + Work
    BY <1>2, <2>1 DEF Recent
  <2> HIDE DEF stamp, sent
  <2>3. stamp <= Skew
    BY <1>3, <2>2, Timely
  <2> QED
    BY <2>3 DEF stamp
<1> QED
  BY <1>4, <1>5, TwoEnds

\* No end that is up is presumed dead, no message outlives the skew on its way, and
\* silence lasts no longer than four intervals.
THEOREM VerdictsHold == Spec => []VerdictsAreTrue
<1>1. LinkInv => VerdictsAreTrue
  <2> SUFFICES ASSUME LinkInv, NEW e \in Ends
               PROVE  /\ phase[e] = "dead" => phase[Peer(e)] \notin {"setup", "up"}
                      /\ phase[e] = "up" =>
                            /\ silence[e] <= Threshold + Interval
                            /\ \A i \in 1..Len(wire[Peer(e)]) :
                                 wire[Peer(e)][i].stamp <= Skew
    BY DEF VerdictsAreTrue
  <2>1. phase[e] = "dead" => phase[Peer(e)] \notin {"setup", "up"}
    BY DEF LinkInv, DeadIsDead, Alive
  <2>2. phase[e] = "up" => silence[e] <= Threshold + Interval
    <3>1. silence[e] \in Nat /\ untilTick[e] \in Nat /\ Threshold + Interval \in Nat
      BY PatienceIs, Timely DEF LinkInv
    <3>2. phase[e] = "up" => silence[e] + untilTick[e] <= Threshold + Interval
      BY DEF LinkInv, Ticks
    <3> HIDE DEF VerdictsAreTrue
    <3> QED
      BY <3>1, <3>2
  <2> QED
    BY <2>1, <2>2, StampsPass
<1>2. Init => LinkInv
  BY LinkBegins DEF Init
<1> QED
  BY <1>1, <1>2, LinkStep, PTL DEF Spec
=============================================================================
