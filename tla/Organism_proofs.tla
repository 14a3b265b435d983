--------------------------- MODULE Organism_proofs ---------------------------
(***************************************************************************)
(* Proofs about Organism, for every number of pulses that wait for Redis.  *)
(***************************************************************************)
EXTENDS Organism, TLAPS

PulseType == [at : 1..12, anyCritical : BOOLEAN,
              result : {NoResult, "vital", "critical", "throws"}]

\* A clean pulse will lift the lockdown if nothing else happens to it.
Clean(p) == ~p.anyCritical

\* Pulses run together only after the answers of Redis, and none at all waits
\* without Redis.
TogetherAfterRedis ==
    /\ Len(ready) > 1 => \A k \in 1..Len(ready) :
          /\ ready[k].at >= RedisAt
          /\ ready[k].at = RedisAt => ready[k].result # NoResult
    /\ ~pings => waiting = <<>> /\ Len(ready) <= 1
    /\ "rate_limit_nerves" \in unset => ~pings

\* A finding that waits to be written is still what the check would find.
FindingsCurrent ==
    \A k \in 1..Len(ready) :
        ready[k].result # NoResult =>
            /\ ready[k].at <= 11
            /\ ready[k].result = Finding(Order[ready[k].at])

\* A clean pulse past the rate limiter's organ has seen all that the organs behind
\* it depend on, and it still holds.
HasSeen(k) ==
    Clean(ready[k]) /\ ready[k].at > RedisAt =>
        /\ Fit("rate_limit_nerves")
           \/ ("rate_limit_nerves" \in unset /\ ready[k].at <= 10)
        /\ ready[k].at > 9 \/ ready[k].result # NoResult
              => \A d \in DependsOn["pqc_lungs"] : Fit(d)
        /\ ready[k].at > 9 => Fit("pqc_lungs")
        /\ ready[k].at > 10 \/ (ready[k].at = 10 /\ ready[k].result # NoResult)
              => \A d \in DependsOn["gateway_skin"] : Fit(d)
        /\ ready[k].at > 10 => Fit("gateway_skin")
        /\ ready[k].at > 11 \/ (ready[k].at = 11 /\ ready[k].result # NoResult)
              => \A d \in DependsOn["vault_marrow"] : Fit(d)
        /\ ready[k].at > 11 => Fit("vault_marrow")
CleanHasSeen == \A k \in 1..Len(ready) : HasSeen(k)

\* The one organ without a dependent follows the core.
SpleenFollowsCore ==
    Fit("supply_spleen") \/ ~Fit("crypto_core")
        \/ \E k \in 1..Len(ready) : ready[k].at = 2

\* What was found broken is written down as such, or is about to be.
FoundIsWritten ==
    \A o \in found :
        /\ o \in Checked /\ ~health[o]
        /\ ~Fit(o) \/ \E k \in 1..Len(ready) :
                         /\ ready[k].result # NoResult
                         /\ Order[ready[k].at] = o

\* Answers that come together agree.
AnswersAgree ==
    \A k \in 1..Len(ready) :
        Clean(ready[k]) /\ ready[k].at > RedisAt /\ Len(ready) > 1
            => Finding("rate_limit_nerves") = "vital"

OrganismInv ==
    /\ TogetherAfterRedis /\ FindingsCurrent /\ CleanHasSeen
    /\ SpleenFollowsCore /\ FoundIsWritten /\ AnswersAgree

-----------------------------------------------------------------------------
\* What Order is, as facts.
LEMMA OrderFacts ==
    /\ Len(Order) = 11
    /\ \A k \in 1..11 : Order[k] \in Organs
    /\ \A k \in 1..11 :
          /\ (Order[k] = "crypto_core") <=> (k = 1)
          /\ (Order[k] = "supply_spleen") <=> (k = 2)
          /\ (Order[k] = "rate_limit_nerves") <=> (k = 8)
          /\ (Order[k] = "pqc_lungs") <=> (k = 9)
          /\ (Order[k] = "gateway_skin") <=> (k = 10)
          /\ (Order[k] = "vault_marrow") <=> (k = 11)
<1>1. Len(Order) = 11  BY DEF Order
<1>2. \A k \in 1..11 : k = 1 \/ k = 2 \/ k = 3 \/ k = 4 \/ k = 5 \/ k = 6 \/ k = 7
                       \/ k = 8 \/ k = 9 \/ k = 10 \/ k = 11
  OBVIOUS
<1>3. /\ Order[1] = "crypto_core" /\ Order[2] = "supply_spleen"
      /\ Order[3] = "audit_immune" /\ Order[4] = "tpm_skeletal"
      /\ Order[5] = "hsm_heart" /\ Order[6] = "ca_liver"
      /\ Order[7] = "console_brain" /\ Order[8] = "rate_limit_nerves"
      /\ Order[9] = "pqc_lungs" /\ Order[10] = "gateway_skin"
      /\ Order[11] = "vault_marrow"
  BY DEF Order
<1> QED  BY <1>1, <1>2, <1>3 DEF Organs

\* A sequence whose head is replaced, moved to the end, or dropped.
LEMMA HeadReplaced ==
    ASSUME NEW S, NEW s \in Seq(S), s # <<>>, NEW e \in S
    PROVE  LET t == <<e>> \o Tail(s)
           IN /\ t \in Seq(S) /\ Len(t) = Len(s) /\ t[1] = e
              /\ \A k \in 2..Len(s) : t[k] = s[k]
  OBVIOUS

LEMMA HeadMoved ==
    ASSUME NEW S, NEW s \in Seq(S), s # <<>>, NEW e \in S
    PROVE  LET t == Append(Tail(s), e)
           IN /\ t \in Seq(S) /\ Len(t) = Len(s) /\ t[Len(s)] = e
              /\ \A k \in 1..(Len(s) - 1) : t[k] = s[k + 1]
  OBVIOUS

LEMMA HeadDropped ==
    ASSUME NEW S, NEW s \in Seq(S), s # <<>>
    PROVE  LET t == Tail(s)
           IN /\ t \in Seq(S) /\ Len(t) = Len(s) - 1
              /\ \A k \in 1..(Len(s) - 1) : t[k] = s[k + 1]
  OBVIOUS

-----------------------------------------------------------------------------
(***************************************************************************)
(* Types                                                                   *)
(***************************************************************************)
LEMMA ReadyType == TypeOK => ready \in Seq(PulseType)
BY OrderFacts DEF TypeOK, PulseType

LEMMA PulseTyped ==
    ASSUME NEW at \in 1..12, NEW a \in BOOLEAN,
           NEW r \in {NoResult, "vital", "critical", "throws"}
    PROVE  Pulse(at, a, r) \in PulseType
BY DEF Pulse, PulseType

LEMMA PulseFields ==
    ASSUME NEW at, NEW a, NEW r
    PROVE  Pulse(at, a, r).at = at /\ Pulse(at, a, r).anyCritical = a
           /\ Pulse(at, a, r).result = r
BY DEF Pulse

LEMMA FirstPulseTyped == << Pulse(1, FALSE, NoResult) >> \in Seq(PulseType)
<1>1. 1 \in 1..12 /\ NoResult \in {NoResult, "vital", "critical", "throws"}  OBVIOUS
<1>2. FALSE \in BOOLEAN  BY Zenon
<1>3. Pulse(1, FALSE, NoResult) \in PulseType  BY <1>1, <1>2, PulseTyped
<1>4. ASSUME NEW S, NEW e \in S PROVE <<e>> \in Seq(S)  OBVIOUS
<1> QED  BY <1>3, <1>4

LEMMA FindingTyped ==
    ASSUME NEW o PROVE Finding(o) \in {"vital", "critical", "throws"}
BY DEF Finding

\* The pulse at the head, and what replaces it.
LEMMA CurrentTyped ==
    ASSUME TypeOK, ready # <<>>
    PROVE  Current = ready[1] /\ Current \in PulseType /\ Len(ready) \in Nat \ {0}
BY ReadyType DEF Current

LEMMA GoOnFacts ==
    ASSUME TypeOK, ready # <<>>, NEW a \in BOOLEAN, Current.at <= 11, GoOn(a)
    PROVE  /\ ready' \in Seq(PulseType) /\ Len(ready') = Len(ready)
           /\ ready'[1].at = Current.at + 1 /\ ready'[1].anyCritical = a
           /\ ready'[1].result = NoResult
           /\ \A k \in 2..Len(ready) : ready'[k] = ready[k]
<1>1. Current.at \in 1..12  BY CurrentTyped DEF PulseType
<1>2. Pulse(Current.at + 1, a, NoResult) \in PulseType  BY <1>1, PulseTyped
<1>3. /\ ready' \in Seq(PulseType) /\ Len(ready') = Len(ready)
      /\ ready'[1] = Pulse(Current.at + 1, a, NoResult)
      /\ \A k \in 2..Len(ready) : ready'[k] = ready[k]
  BY <1>2, ReadyType, HeadReplaced DEF GoOn
<1> QED  BY <1>3, PulseFields

LEMMA ArrivesFacts ==
    ASSUME TypeOK, NEW o, Arrives(o)
    PROVE  /\ ready # <<>> /\ Current.at \in 1..11 /\ o = Order[Current.at]
           /\ o \in Organs /\ Current.result = NoResult
<1>1. ready # <<>> /\ Current.result = NoResult  BY DEF Arrives, IsAt, Running
<1>2. Current.at \in 1..11  BY <1>1, CurrentTyped, OrderFacts DEF Arrives, IsAt, PulseType
<1> QED  BY <1>1, <1>2, OrderFacts DEF Arrives, IsAt

LEMMA CheckFacts ==
    ASSUME TypeOK, NEW o, CheckOrgan(o)
    PROVE  /\ ready' \in Seq(PulseType) /\ Len(ready') = Len(ready)
           /\ ready'[Len(ready)] = Pulse(Current.at, Current.anyCritical, Finding(o))
           /\ \A k \in 1..(Len(ready) - 1) : ready'[k] = ready[k + 1]
<1>1. ready # <<>> /\ Current.at \in 1..11  BY ArrivesFacts DEF CheckOrgan
<1>2. Current.anyCritical \in BOOLEAN  BY <1>1, CurrentTyped DEF PulseType
<1>3. Pulse(Current.at, Current.anyCritical, Finding(o)) \in PulseType
  BY <1>1, <1>2, FindingTyped, PulseTyped
<1> QED  BY <1>1, <1>3, ReadyType, HeadMoved DEF CheckOrgan

LEMMA PingFacts ==
    ASSUME TypeOK, NEW n \in 1..MaxWaiting, PingReplies(n)
    PROVE  /\ ready' \in Seq(PulseType) /\ Len(ready') = n
           /\ \A k \in 1..n :
                 ready'[k] = Pulse(RedisAt, waiting[k], Finding("rate_limit_nerves"))
           /\ waiting' \in Seq(BOOLEAN)
<1>1. n \in Nat /\ n <= Len(waiting)  BY WaitingAssumption DEF PingReplies
<1>2. \A k \in 1..n : waiting[k] \in BOOLEAN  BY <1>1 DEF TypeOK
<1>3. RedisAt \in 1..12  BY DEF RedisAt
<1>4. \A k \in 1..n : Pulse(RedisAt, waiting[k], Finding("rate_limit_nerves")) \in PulseType
  BY <1>2, <1>3, FindingTyped, PulseTyped
<1>5. ready' = [k \in 1..n |-> Pulse(RedisAt, waiting[k], Finding("rate_limit_nerves"))]
  BY DEF PingReplies
<1>6. ready' \in Seq(PulseType) /\ Len(ready') = n  BY <1>1, <1>4, <1>5
<1>7. waiting' \in Seq(BOOLEAN)  BY <1>1 DEF PingReplies, TypeOK
<1> QED  BY <1>5, <1>6, <1>7

\* The catch of a failed pulse touches lockdown alone.
LEMMA CatchFacts ==
    ASSUME PulseFails
    PROVE  /\ UNCHANGED <<pings, unset, health, statuses, ready, waiting, found>>
           /\ lockdown' /\ pulseFailed' /\ life' \in {life, "ended"}
BY DEF PulseFails, pulseVars

LEMMA TypeInit == Init => TypeOK
<1> SUFFICES ASSUME Init PROVE TypeOK  OBVIOUS
<1>1. ready \in Seq(PulseType)  BY FirstPulseTyped, Zenon DEF Init
<1>2. pings \in BOOLEAN  BY Zenon DEF Init
<1>3. waiting \in Seq(BOOLEAN) /\ found \subseteq Checked  BY DEF Init
<1>4. lockdown \in BOOLEAN /\ pulseFailed \in BOOLEAN /\ rejected \in Nat
  <2>1. lockdown = FALSE /\ pulseFailed = FALSE  BY Zenon DEF Init
  <2>2. rejected \in Nat  BY DEF Init
  <2> QED  BY <2>1, <2>2, Zenon
<1>5. /\ unset \subseteq {"hsm_heart", "rate_limit_nerves"}
      /\ health \in [Checked -> BOOLEAN] /\ life \in {"awakening", "awake", "ended"}
      /\ statuses \in [Organs -> {"pending", "vital", "critical"}]
  BY DEF Init
<1> QED  BY <1>1, <1>2, <1>3, <1>4, <1>5, OrderFacts DEF TypeOK, PulseType

\* What a step must establish, without the record type spelled out.
LEMMA TypeFromParts ==
    ASSUME TypeOK, ready' \in Seq(PulseType), waiting' \in Seq(BOOLEAN),
           lockdown' \in BOOLEAN, pulseFailed' \in BOOLEAN, rejected' \in Nat,
           UNCHANGED <<pings, unset>>,
           health' \in [Checked -> BOOLEAN], found' \subseteq Checked,
           life' \in {"awakening", "awake", "ended"},
           statuses' \in [Organs -> {"pending", "vital", "critical"}]
    PROVE  TypeOK'
<1>1. pings' \in BOOLEAN  BY DEF TypeOK
<1> QED  BY <1>1, OrderFacts DEF TypeOK, PulseType

LEMMA FoundTyped ==
    ASSUME TypeOK, NEW o, Finds(o) PROVE found' \subseteq Checked
BY DEF Finds, Finding, TypeOK

LEMMA TypeStep == TypeOK /\ [Next]_vars => TypeOK'
<1> SUFFICES ASSUME TypeOK, [Next]_vars PROVE TypeOK'  OBVIOUS
<1>0. /\ waiting \in Seq(BOOLEAN) /\ lockdown \in BOOLEAN
      /\ pulseFailed \in BOOLEAN /\ rejected \in Nat
      /\ health \in [Checked -> BOOLEAN] /\ found \subseteq Checked
      /\ life \in {"awakening", "awake", "ended"}
      /\ statuses \in [Organs -> {"pending", "vital", "critical"}]
  BY DEF TypeOK
<1>1. ASSUME EndPulse \/ EndPulseUnrecorded PROVE TypeOK'
  <2>1. PulseEnds /\ ready # <<>>
    BY <1>1 DEF EndPulse, EndPulseUnrecorded, PulseEnds, Running
  <2>2. ready' \in Seq(PulseType)  BY <2>1, ReadyType, HeadDropped DEF PulseEnds
  <2>3. Current.anyCritical \in BOOLEAN  BY <2>1, CurrentTyped DEF PulseType
  <2>4. lockdown' \in BOOLEAN  BY <2>1, <2>3 DEF PulseEnds, LockdownAfter
  <2>5. pulseFailed' \in BOOLEAN
    <3>1. pulseFailed' = FALSE  BY <2>1, Zenon DEF PulseEnds
    <3> QED  BY <3>1, Zenon
  <2>6. life' \in {"awakening", "awake", "ended"} /\ rejected' \in Nat
    BY <1>0, <1>1 DEF EndPulse, EndPulseUnrecorded
  <2> QED  BY <1>0, <2>1, <2>2, <2>4, <2>5, <2>6, TypeFromParts DEF PulseEnds
<1>2. ASSUME PulseFails PROVE TypeOK'
  <2>1. lockdown' \in BOOLEAN /\ pulseFailed' \in BOOLEAN
    <3>1. lockdown' = TRUE /\ pulseFailed' = TRUE  BY <1>2, Zenon DEF PulseFails
    <3> QED  BY <3>1, Zenon
  <2>2. life' \in {"awakening", "awake", "ended"} /\ rejected' \in Nat
    BY <1>0, <1>2 DEF PulseFails
  <2>3. ready' \in Seq(PulseType)  BY <1>2, ReadyType, CatchFacts
  <2> QED  BY <1>0, <1>2, <2>1, <2>2, <2>3, TypeFromParts, CatchFacts
<1>3. ASSUME NEW o \in Organs, SkipOrgan(o) PROVE TypeOK'
  <2>1. ready # <<>> /\ Current.at <= 11  BY <1>3, ArrivesFacts DEF SkipOrgan
  <2>2. GoOn(TRUE)  BY <1>3 DEF SkipOrgan
  <2>3. ready' \in Seq(PulseType)  BY <2>1, <2>2, GoOnFacts
  <2>4. statuses' \in [Organs -> {"pending", "vital", "critical"}]
    BY <1>0, <1>3 DEF SkipOrgan
  <2> QED  BY <1>0, <1>3, <2>3, <2>4, TypeFromParts DEF SkipOrgan
<1>4. ASSUME NEW o \in Organs, CheckOrgan(o) PROVE TypeOK'
  <2>1. ready' \in Seq(PulseType)  BY <1>4, CheckFacts
  <2>2. found' \subseteq Checked  BY <1>4, FoundTyped DEF CheckOrgan
  <2> QED  BY <1>0, <1>4, <2>1, <2>2, TypeFromParts DEF CheckOrgan, bodyVars
<1>5. ASSUME NEW o \in Organs, AskRedis(o) PROVE TypeOK'
  <2>1. ready # <<>>  BY <1>5, ArrivesFacts DEF AskRedis
  <2>2. ready' \in Seq(PulseType)  BY <1>5, <2>1, ReadyType, HeadDropped DEF AskRedis
  <2>3. Current.anyCritical \in BOOLEAN  BY <2>1, CurrentTyped DEF PulseType
  <2>4. waiting' \in Seq(BOOLEAN)  BY <1>0, <1>5, <2>3 DEF AskRedis
  <2> QED  BY <1>0, <1>5, <2>2, <2>4, TypeFromParts DEF AskRedis, bodyVars
<1>6. ASSUME NEW o \in Organs, WriteOrgan(o) PROVE TypeOK'
  <2>1. ready # <<>>  BY <1>6 DEF WriteOrgan, IsAt, Running
  <2>2. Current \in PulseType  BY <2>1, CurrentTyped
  <2>3. Current.at <= 11  BY <1>6, OrderFacts DEF WriteOrgan, IsAt
  <2>4. (Current.anyCritical \/ Current.result = "throws") \in BOOLEAN
    BY <2>2, Zenon DEF PulseType
  <2>5. ready' \in Seq(PulseType)  BY <1>6, <2>1, <2>3, <2>4, GoOnFacts DEF WriteOrgan
  <2>6. statuses' \in [Organs -> {"pending", "vital", "critical"}]
    BY <1>0, <1>6 DEF WriteOrgan
  <2> QED  BY <1>0, <1>6, <2>5, <2>6, TypeFromParts DEF WriteOrgan
<1>7. ASSUME PulseTimer PROVE TypeOK'
  <2>1. ready' \in Seq(PulseType)  BY <1>7, FirstPulseTyped, Zenon DEF PulseTimer
  <2> QED  BY <1>0, <1>7, <2>1, TypeFromParts DEF PulseTimer, bodyVars
<1>8. ASSUME NEW n \in 1..MaxWaiting, PingReplies(n) PROVE TypeOK'
  <2>1. ready' \in Seq(PulseType) /\ waiting' \in Seq(BOOLEAN)  BY <1>8, PingFacts
  <2>2. found' \subseteq Checked  BY <1>8, FoundTyped DEF PingReplies
  <2> QED  BY <1>0, <1>8, <2>1, <2>2, TypeFromParts DEF PingReplies, bodyVars
<1>9. ASSUME NEW o \in Checked, Breaks(o) \/ Recovers(o) PROVE TypeOK'
  <2>1. ready' \in Seq(PulseType) /\ waiting' \in Seq(BOOLEAN)
    BY <1>0, <1>9, ReadyType DEF Breaks, Recovers, pulseVars
  <2>2. health' \in [Checked -> BOOLEAN]  BY <1>0, <1>9 DEF Breaks, Recovers
  <2>3. found' \subseteq Checked  BY <1>0, <1>9 DEF Breaks, Recovers
  <2> QED
    BY <1>0, <1>9, <2>1, <2>2, <2>3, TypeFromParts DEF Breaks, Recovers, bodyVars
<1>10. ASSUME UNCHANGED vars PROVE TypeOK'
  BY <1>10 DEF vars, bodyVars, pulseVars, TypeOK
<1> QED
  BY <1>1, <1>2, <1>3, <1>4, <1>5, <1>6, <1>7, <1>8, <1>9, <1>10 DEF Next, Microtask

\* The statuses, the pulses and the rest have their types in every reachable state.
THEOREM TypeCorrect == Spec => []TypeOK
<1>1. Init => TypeOK  BY TypeInit
<1>2. TypeOK /\ [Next]_vars => TypeOK'  BY TypeStep
<1> QED  BY <1>1, <1>2, PTL DEF Spec
-----------------------------------------------------------------------------
(***************************************************************************)
(* What each step does to the pulses, index by index                       *)
(***************************************************************************)
LEMMA SkipFacts ==
    ASSUME TypeOK, NEW o \in Organs, SkipOrgan(o)
    PROVE  /\ Len(ready) \in Nat \ {0} /\ Len(ready') = Len(ready)
           /\ ready[1] \in PulseType /\ ready[1].at \in 1..11
           /\ o = Order[ready[1].at] /\ ready[1].result = NoResult
           /\ ready'[1].at = ready[1].at + 1 /\ ready'[1].anyCritical
           /\ ready'[1].result = NoResult
           /\ \A k \in 2..Len(ready) : ready'[k] = ready[k]
           /\ ~DependenciesSatisfied(o)
           /\ statuses'[o] = "critical"
           /\ \A p \in Organs \ {o} : statuses'[p] = statuses[p]
           /\ UNCHANGED <<pings, unset, health, life, lockdown, waiting, found>>
<1>1. /\ ready # <<>> /\ Current.at \in 1..11 /\ o = Order[Current.at]
      /\ Current.result = NoResult
  BY ArrivesFacts DEF SkipOrgan
<1>2. Current = ready[1] /\ Current \in PulseType /\ Len(ready) \in Nat \ {0}
  BY <1>1, CurrentTyped
<1>3. Current.at <= 11  BY <1>1
<1>4. GoOn(TRUE) /\ TRUE \in BOOLEAN  BY Zenon DEF SkipOrgan
<1>5. /\ Len(ready') = Len(ready)
      /\ ready'[1].at = Current.at + 1 /\ ready'[1].anyCritical = TRUE
      /\ ready'[1].result = NoResult
      /\ \A k \in 2..Len(ready) : ready'[k] = ready[k]
  BY <1>1, <1>3, <1>4, GoOnFacts, Zenon
<1>6. statuses' = [statuses EXCEPT ![o] = "critical"]  BY DEF SkipOrgan
<1>7. statuses'[o] = "critical" /\ \A p \in Organs \ {o} : statuses'[p] = statuses[p]
  BY <1>6 DEF TypeOK
<1>8. ready'[1].anyCritical  BY <1>5, Zenon
<1> QED  BY <1>1, <1>2, <1>5, <1>7, <1>8 DEF SkipOrgan

LEMMA WriteFacts ==
    ASSUME TypeOK, NEW o \in Organs, WriteOrgan(o)
    PROVE  /\ Len(ready) \in Nat \ {0} /\ Len(ready') = Len(ready)
           /\ ready[1] \in PulseType /\ ready[1].at \in 1..11
           /\ o = Order[ready[1].at] /\ ready[1].result # NoResult
           /\ ready'[1].at = ready[1].at + 1 /\ ready'[1].result = NoResult
           /\ Clean(ready[1])' => Clean(ready[1]) /\ ready[1].result # "throws"
           /\ \A k \in 2..Len(ready) : ready'[k] = ready[k]
           /\ (statuses'[o] = "vital") <=> (ready[1].result = "vital")
           /\ \A p \in Organs \ {o} : statuses'[p] = statuses[p]
           /\ UNCHANGED <<pings, unset, health, life, lockdown, waiting, found>>
<1>1. /\ ready # <<>> /\ o = Order[Current.at] /\ Current.result # NoResult
      /\ Current.at <= 11
  BY OrderFacts DEF WriteOrgan, IsAt, Running
<1>2. Current = ready[1] /\ Current \in PulseType /\ Len(ready) \in Nat \ {0}
  BY <1>1, CurrentTyped
<1> DEFINE a == Current.anyCritical \/ Current.result = "throws"
<1>3. a \in BOOLEAN  BY <1>2, Zenon DEF PulseType
<1>4. GoOn(a)  BY DEF WriteOrgan
<1> HIDE DEF a
<1>5. /\ Len(ready') = Len(ready)
      /\ ready'[1].at = Current.at + 1 /\ ready'[1].anyCritical = a
      /\ ready'[1].result = NoResult
      /\ \A k \in 2..Len(ready) : ready'[k] = ready[k]
  BY <1>1, <1>3, <1>4, GoOnFacts
<1>6. ready'[1].anyCritical = a  BY <1>5
<1>7. statuses' = [statuses EXCEPT ![o] =
                     IF Current.result = "vital" THEN "vital" ELSE "critical"]
  BY DEF WriteOrgan
<1>8. /\ (statuses'[o] = "vital") <=> (Current.result = "vital")
      /\ \A p \in Organs \ {o} : statuses'[p] = statuses[p]
  BY <1>7 DEF TypeOK
<1>9. Clean(ready[1])' => Clean(ready[1]) /\ ready[1].result # "throws"
  BY <1>2, <1>6, Zenon DEF Clean, a
<1>10. ready[1].at \in 1..11  BY <1>1, <1>2 DEF PulseType
<1>11. ready'[1].at = ready[1].at + 1 /\ ready'[1].result = NoResult
  BY <1>2, <1>5
<1> QED  BY <1>1, <1>2, <1>5, <1>8, <1>9, <1>10, <1>11 DEF WriteOrgan

LEMMA MoveFacts ==
    ASSUME TypeOK, NEW o \in Organs, CheckOrgan(o)
    PROVE  /\ Len(ready) \in Nat \ {0} /\ Len(ready') = Len(ready)
           /\ ready[1] \in PulseType /\ ready[1].at \in 1..11
           /\ o = Order[ready[1].at] /\ ready[1].result = NoResult
           /\ ready'[Len(ready)].at = ready[1].at
           /\ Clean(ready[Len(ready)])' => Clean(ready[1])
           /\ ready'[Len(ready)].result = Finding(o)
           /\ \A k \in 1..(Len(ready) - 1) : ready'[k] = ready[k + 1]
           /\ DependenciesSatisfied(o) /\ Finds(o)
           /\ ~(pings /\ o = "rate_limit_nerves")
           /\ UNCHANGED <<pings, unset, health, life, statuses, lockdown, waiting>>
<1>1. /\ ready # <<>> /\ Current.at \in 1..11 /\ o = Order[Current.at]
      /\ Current.result = NoResult
  BY ArrivesFacts DEF CheckOrgan
<1>2. Current = ready[1] /\ Current \in PulseType /\ Len(ready) \in Nat \ {0}
  BY <1>1, CurrentTyped
<1>3. /\ Len(ready') = Len(ready)
      /\ ready'[Len(ready)] = Pulse(Current.at, Current.anyCritical, Finding(o))
      /\ \A k \in 1..(Len(ready) - 1) : ready'[k] = ready[k + 1]
  BY CheckFacts
<1>4. ready'[Len(ready)].anyCritical = ready[1].anyCritical  BY <1>2, <1>3, PulseFields
<1>5. Clean(ready[Len(ready)])' => Clean(ready[1])  BY <1>3, <1>4 DEF Clean
<1>6. /\ ready'[Len(ready)].at = ready[1].at
      /\ ready'[Len(ready)].result = Finding(o)
  BY <1>2, <1>3, PulseFields
<1> QED  BY <1>1, <1>2, <1>3, <1>5, <1>6 DEF CheckOrgan, bodyVars

\* The head leaves the queue: it ends, or waits for Redis.
Leaves == EndPulse \/ EndPulseUnrecorded \/ \E o \in Organs : AskRedis(o)

LEMMA DropFacts ==
    ASSUME TypeOK, Leaves
    PROVE  /\ Len(ready) \in Nat \ {0} /\ Len(ready') = Len(ready) - 1
           /\ ready[1] \in PulseType /\ ready[1].result = NoResult
           /\ ready[1].at \in {8, 12}
           /\ \A k \in 1..(Len(ready) - 1) : ready'[k] = ready[k + 1]
           /\ pings \/ UNCHANGED waiting
           /\ UNCHANGED <<pings, unset, health, statuses, found>>
<1>1. /\ ready # <<>> /\ ready' = Tail(ready) /\ Current.result = NoResult
      /\ pings \/ UNCHANGED waiting
      /\ UNCHANGED <<pings, unset, health, statuses, found>>
  BY Zenon
     DEF Leaves, EndPulse, EndPulseUnrecorded, PulseEnds, AskRedis, Arrives, IsAt,
         Running, bodyVars
<1>2. Current = ready[1] /\ Current \in PulseType /\ Len(ready) \in Nat \ {0}
  BY <1>1, CurrentTyped
<1>3. Current.at \in 1..12  BY <1>2 DEF PulseType
<1>4. CASE EndPulse \/ EndPulseUnrecorded
  <2>1. Current.at > 11  BY <1>4, OrderFacts DEF EndPulse, EndPulseUnrecorded, PulseEnds
  <2> QED  BY <1>1, <1>2, <1>3, <2>1, ReadyType, HeadDropped
<1>5. ASSUME NEW o \in Organs, AskRedis(o) PROVE Current.at = 8
  <2>1. Arrives(o) /\ o = "rate_limit_nerves"  BY <1>5 DEF AskRedis
  <2>2. Current.at \in 1..11 /\ o = Order[Current.at]  BY <2>1, ArrivesFacts
  <2> QED  BY <2>1, <2>2, OrderFacts
<1> QED  BY <1>1, <1>2, <1>4, <1>5, ReadyType, HeadDropped DEF Leaves

\* The steps of the event loop find no pulse running.
LEMMA StartFacts ==
    ASSUME TypeOK, PulseTimer
    PROVE  /\ Len(ready) = 0 /\ Len(ready') = 1
           /\ ready'[1].at = 1 /\ ready'[1].result = NoResult
           /\ UNCHANGED <<pings, unset, health, statuses, waiting, found>>
<1>1. PICK a : ready' = << Pulse(1, a, NoResult) >>  BY Zenon DEF PulseTimer
<1>2. Len(ready') = 1 /\ ready'[1] = Pulse(1, a, NoResult)  BY <1>1
<1>3. ready'[1].at = 1 /\ ready'[1].result = NoResult  BY <1>2, PulseFields
<1>4. Len(ready) = 0  BY DEF PulseTimer, Turn
<1> QED  BY <1>2, <1>3, <1>4, Zenon DEF PulseTimer, bodyVars

LEMMA ReplyFacts ==
    ASSUME TypeOK, NEW n \in 1..MaxWaiting, PingReplies(n)
    PROVE  /\ n \in Nat \ {0} /\ Len(ready) = 0 /\ Len(ready') = n /\ waiting # <<>>
           /\ \A k \in 1..n : /\ ready'[k].at = 8
                             /\ ready'[k].result = Finding("rate_limit_nerves")
           /\ Finds("rate_limit_nerves")
           /\ UNCHANGED <<pings, unset, health, statuses>>
<1>1. n \in Nat \ {0} /\ n <= Len(waiting) /\ ready = <<>>
  BY WaitingAssumption DEF PingReplies, Turn
<1>2. Len(ready) = 0 /\ waiting # <<>>  BY <1>1 DEF TypeOK
<1> QED  BY <1>1, <1>2, PingFacts, PulseFields DEF PingReplies, RedisAt, bodyVars

LEMMA OutsideFacts ==
    ASSUME TypeOK, NEW o \in Checked, Breaks(o) \/ Recovers(o)
    PROVE  /\ Len(ready) = 0 /\ Len(ready') = 0
           /\ UNCHANGED <<pings, unset, statuses, waiting>>
BY DEF Breaks, Recovers, Turn, bodyVars, pulseVars

\* Where the pulse at k stands once the head has left.
LEMMA Shifted ==
    ASSUME Len(ready) \in Nat \ {0}, NEW k \in 2..Len(ready),
           \A j \in 1..(Len(ready) - 1) : ready'[j] = ready[j + 1]
    PROVE  k - 1 \in 1..(Len(ready) - 1) /\ ready'[k - 1] = ready[k]
<1>1. k - 1 \in 1..(Len(ready) - 1) /\ (k - 1) + 1 = k  OBVIOUS
<1> QED  BY <1>1

\* Every other step.
Moves == Next /\ ~PulseFails

\* The kinds of step, as the proofs below distinguish them.
LEMMA StepKinds ==
    ASSUME Moves
    PROVE  \/ Leaves
           \/ \E o \in Organs : SkipOrgan(o) \/ CheckOrgan(o) \/ WriteOrgan(o)
           \/ PulseTimer
           \/ \E n \in 1..MaxWaiting : PingReplies(n)
           \/ \E o \in Checked : Breaks(o) \/ Recovers(o)
BY Zenon DEF Moves, Next, Microtask, Leaves

-----------------------------------------------------------------------------
(***************************************************************************)
(* The parts of the invariant, one by one                                  *)
(***************************************************************************)
LEMMA FindingSame ==
    ASSUME UNCHANGED <<health, unset>>, NEW o PROVE Finding(o)' = Finding(o)
BY DEF Finding, Returning

LEMMA FindingsStep ==
    ASSUME TypeOK, FindingsCurrent, Moves PROVE FindingsCurrent'
<1>1. CASE Leaves
  <2>1. UNCHANGED <<health, unset>>  BY <1>1, DropFacts
  <2> QED  BY <1>1, <2>1, DropFacts, FindingSame DEF FindingsCurrent
<1>2. ASSUME NEW o \in Organs, SkipOrgan(o) PROVE FindingsCurrent'
  <2>1. UNCHANGED <<health, unset>>  BY <1>2, SkipFacts
  <2> QED  BY <1>2, <2>1, SkipFacts, FindingSame DEF FindingsCurrent
<1>3. ASSUME NEW o \in Organs, CheckOrgan(o) PROVE FindingsCurrent'
  <2>1. UNCHANGED <<health, unset>>  BY <1>3, MoveFacts
  <2> QED  BY <1>3, <2>1, MoveFacts, FindingSame DEF FindingsCurrent
<1>4. ASSUME NEW o \in Organs, WriteOrgan(o) PROVE FindingsCurrent'
  <2>1. UNCHANGED <<health, unset>>  BY <1>4, WriteFacts
  <2> QED  BY <1>4, <2>1, WriteFacts, FindingSame DEF FindingsCurrent
<1>5. CASE PulseTimer
  <2>1. Len(ready') = 1 /\ ready'[1].result = NoResult  BY <1>5, StartFacts
  <2> QED  BY <2>1 DEF FindingsCurrent
<1>6. ASSUME NEW n \in 1..MaxWaiting, PingReplies(n) PROVE FindingsCurrent'
  <2>1. UNCHANGED <<health, unset>>  BY <1>6, ReplyFacts
  <2> QED  BY <1>6, <2>1, ReplyFacts, FindingSame, OrderFacts DEF FindingsCurrent
<1>7. ASSUME NEW o \in Checked, Breaks(o) \/ Recovers(o) PROVE FindingsCurrent'
  BY <1>7, OutsideFacts DEF FindingsCurrent
<1> QED  BY <1>1, <1>2, <1>3, <1>4, <1>5, <1>6, <1>7, StepKinds

LEMMA TogetherStep ==
    ASSUME TypeOK, TogetherAfterRedis, FindingsCurrent, Moves PROVE TogetherAfterRedis'
<1>1. CASE Leaves  BY <1>1, DropFacts DEF TogetherAfterRedis, RedisAt
<1>2. ASSUME NEW o \in Organs, SkipOrgan(o) PROVE TogetherAfterRedis'
  BY <1>2, SkipFacts DEF TogetherAfterRedis, RedisAt
<1>3. ASSUME NEW o \in Organs, CheckOrgan(o) PROVE TogetherAfterRedis'
  BY <1>3, MoveFacts DEF TogetherAfterRedis, RedisAt
<1>4. ASSUME NEW o \in Organs, WriteOrgan(o) PROVE TogetherAfterRedis'
  BY <1>4, WriteFacts DEF TogetherAfterRedis, RedisAt
<1>5. CASE PulseTimer
  <2>1. Len(ready') = 1 /\ UNCHANGED <<pings, unset, waiting>>  BY <1>5, StartFacts
  <2> QED  BY <2>1 DEF TogetherAfterRedis
<1>6. ASSUME NEW n \in 1..MaxWaiting, PingReplies(n) PROVE TogetherAfterRedis'
  <2>1. pings  BY <1>6, ReplyFacts DEF TogetherAfterRedis
  <2>2. Finding("rate_limit_nerves") # NoResult  BY FindingTyped DEF NoResult
  <2>3. \A k \in 1..Len(ready') :
           ready'[k].at = RedisAt /\ ready'[k].result # NoResult
    BY <1>6, <2>2, ReplyFacts DEF RedisAt
  <2>4. UNCHANGED <<pings, unset>> /\ RedisAt \in Nat  BY <1>6, ReplyFacts DEF RedisAt
  <2> QED  BY <2>1, <2>3, <2>4 DEF TogetherAfterRedis
<1>7. ASSUME NEW o \in Checked, Breaks(o) \/ Recovers(o) PROVE TogetherAfterRedis'
  BY <1>7, OutsideFacts DEF TogetherAfterRedis
<1> QED  BY <1>1, <1>2, <1>3, <1>4, <1>5, <1>6, <1>7, StepKinds

LEMMA FoundStep ==
    ASSUME TypeOK, FindingsCurrent, FoundIsWritten, Moves PROVE FoundIsWritten'
<1>0. found \subseteq Checked /\ health \in [Checked -> BOOLEAN] /\ Checked \subseteq Organs
  BY DEF TypeOK, Checked, Organs
<1>1. CASE Leaves
  <2>1. ASSUME NEW k \in 1..Len(ready), ready[k].result # NoResult
        PROVE  k - 1 \in 1..Len(ready') /\ ready'[k - 1] = ready[k]
    <3>1. k \in 2..Len(ready)  BY <1>1, <2>1, DropFacts
    <3> QED  BY <1>1, <3>1, DropFacts, Shifted
  <2>2. UNCHANGED <<health, statuses, found>>  BY <1>1, DropFacts
  <2> QED  BY <2>1, <2>2 DEF FoundIsWritten, Fit
<1>2. ASSUME NEW o \in Organs, SkipOrgan(o) PROVE FoundIsWritten'
  BY <1>0, <1>2, SkipFacts DEF FoundIsWritten, Fit
<1>3. ASSUME NEW o \in Organs, CheckOrgan(o) PROVE FoundIsWritten'
  <2>1. ASSUME NEW p \in found' PROVE p \in Checked /\ ~health[p]
    BY <1>3, MoveFacts DEF FoundIsWritten, Finds, Finding
  <2>2. ASSUME NEW p \in found
        PROVE  ~Fit(p) \/ \E k \in 1..Len(ready') : /\ ready'[k].result # NoResult
                                                   /\ Order[ready'[k].at] = p
    <3>1. ASSUME NEW k \in 1..Len(ready), ready[k].result # NoResult
          PROVE  k - 1 \in 1..Len(ready') /\ ready'[k - 1] = ready[k]
      <4>1. k \in 2..Len(ready)  BY <1>3, <3>1, MoveFacts
      <4> QED  BY <1>3, <4>1, MoveFacts, Shifted
    <3> QED  BY <3>1 DEF FoundIsWritten
  <2>3. ready'[Len(ready)].result # NoResult /\ Order[ready'[Len(ready)].at] = o
    BY <1>3, MoveFacts, FindingTyped DEF NoResult
  <2>4. found' = found \/ found' = found \cup {o}  BY <1>3, MoveFacts DEF Finds
  <2>5. Len(ready) \in 1..Len(ready')  BY <1>3, MoveFacts
  <2>6. UNCHANGED <<health, statuses>>  BY <1>3, MoveFacts
  <2> QED  BY <2>1, <2>2, <2>3, <2>4, <2>5, <2>6 DEF FoundIsWritten, Fit
<1>4. ASSUME NEW o \in Organs, WriteOrgan(o) PROVE FoundIsWritten'
  <2>1. ready[1].result = Finding(o)  BY <1>4, WriteFacts DEF FindingsCurrent
  <2>2. o \in found => Finding(o) # "vital"  BY DEF FoundIsWritten, Finding
  <2>3. o \in found => ~Fit(o)'  BY <1>4, <2>1, <2>2, WriteFacts DEF Fit
  <2>4. ASSUME NEW p \in found, p # o
        PROVE  ~Fit(p)' \/ \E k \in 1..Len(ready') : /\ ready'[k].result # NoResult
                                                    /\ Order[ready'[k].at] = p
    <3>1. p \in Organs \ {o}  BY <1>0, <2>4
    <3>2. statuses'[p] = statuses[p]  BY <1>4, <3>1, WriteFacts
    <3>3. CASE ~Fit(p)  BY <3>2, <3>3 DEF Fit
    <3>4. ASSUME NEW k \in 1..Len(ready), ready[k].result # NoResult, Order[ready[k].at] = p
          PROVE  k \in 1..Len(ready') /\ ready'[k] = ready[k]
      BY <1>4, <2>4, <3>4, WriteFacts
    <3> QED  BY <3>3, <3>4 DEF FoundIsWritten
  <2>5. UNCHANGED <<health, found>>  BY <1>4, WriteFacts
  <2> QED  BY <1>0, <2>3, <2>4, <2>5 DEF FoundIsWritten
<1>5. CASE PulseTimer
  <2>1. Len(ready) = 0 /\ UNCHANGED <<health, found, statuses>>  BY <1>5, StartFacts
  <2> QED  BY <2>1 DEF FoundIsWritten, Fit
<1>6. ASSUME NEW n \in 1..MaxWaiting, PingReplies(n) PROVE FoundIsWritten'
  <2>1. /\ n \in Nat \ {0} /\ Len(ready) = 0 /\ Len(ready') = n
        /\ Finds("rate_limit_nerves") /\ UNCHANGED <<health, statuses>>
    BY <1>6, ReplyFacts
  <2>2. ready'[1].result # NoResult /\ Order[ready'[1].at] = "rate_limit_nerves"
    BY <1>6, <2>1, ReplyFacts, FindingTyped, OrderFacts DEF NoResult
  <2>3. ASSUME NEW p \in found' PROVE p \in Checked /\ ~health[p]
    BY <2>1 DEF FoundIsWritten, Finds, Finding
  <2>4. ASSUME NEW p \in found PROVE ~Fit(p)  BY <2>1 DEF FoundIsWritten
  <2>5. found' = found \/ found' = found \cup {"rate_limit_nerves"}
    BY <2>1 DEF Finds
  <2>6. 1 \in 1..Len(ready')  BY <2>1
  <2> QED  BY <2>1, <2>2, <2>3, <2>4, <2>5, <2>6 DEF FoundIsWritten, Fit
<1>7. ASSUME NEW o \in Checked, Breaks(o) \/ Recovers(o) PROVE FoundIsWritten'
  <2>1. Len(ready) = 0 /\ UNCHANGED statuses  BY <1>7, OutsideFacts
  <2>2. \A p \in found' : p \in found /\ ~health'[p]
    BY <1>0, <1>7 DEF Breaks, Recovers, FoundIsWritten
  <2> QED  BY <2>1, <2>2 DEF FoundIsWritten, Fit
<1> QED  BY <1>1, <1>2, <1>3, <1>4, <1>5, <1>6, <1>7, StepKinds

LEMMA SpleenStep ==
    ASSUME TypeOK, FindingsCurrent, SpleenFollowsCore, Moves PROVE SpleenFollowsCore'
<1>0. "supply_spleen" \in Organs /\ "crypto_core" \in Organs  BY DEF Organs
<1>1. CASE Leaves
  <2>1. ASSUME NEW k \in 1..Len(ready), ready[k].at = 2
        PROVE  k - 1 \in 1..Len(ready') /\ ready'[k - 1] = ready[k]
    <3>1. k \in 2..Len(ready)  BY <1>1, <2>1, DropFacts
    <3> QED  BY <1>1, <3>1, DropFacts, Shifted
  <2>2. UNCHANGED statuses  BY <1>1, DropFacts
  <2> QED  BY <2>1, <2>2 DEF SpleenFollowsCore, Fit
<1>2. ASSUME NEW o \in Organs, SkipOrgan(o) PROVE SpleenFollowsCore'
  <2>1. CASE o = "crypto_core"  BY <1>2, <2>1, SkipFacts DEF SpleenFollowsCore, Fit
  <2>2. CASE o = "supply_spleen"
    <3>1. ~Fit("crypto_core")
      BY <1>2, <2>2, SkipFacts DEF DependenciesSatisfied, DependsOn
    <3> QED  BY <1>0, <1>2, <2>2, <3>1, SkipFacts DEF SpleenFollowsCore, Fit
  <2>3. CASE o # "crypto_core" /\ o # "supply_spleen"
    <3>1. ready[1].at # 2  BY <1>2, <2>3, SkipFacts, OrderFacts
    <3> QED  BY <1>0, <1>2, <2>3, <3>1, SkipFacts DEF SpleenFollowsCore, Fit
  <2> QED  BY <2>1, <2>2, <2>3
<1>3. ASSUME NEW o \in Organs, CheckOrgan(o) PROVE SpleenFollowsCore'
  <2>1. ASSUME NEW k \in 1..Len(ready), ready[k].at = 2
        PROVE  \E j \in 1..Len(ready') : ready'[j].at = 2
    <3>1. CASE k = 1
      <4>1. Len(ready) \in 1..Len(ready') /\ ready'[Len(ready)].at = 2
        BY <1>3, <2>1, <3>1, MoveFacts
      <4> QED  BY <4>1
    <3>2. CASE k # 1
      <4>1. k \in 2..Len(ready)  BY <1>3, <3>2, MoveFacts
      <4>2. k - 1 \in 1..Len(ready') /\ ready'[k - 1] = ready[k]
        BY <1>3, <4>1, MoveFacts, Shifted
      <4> QED  BY <2>1, <4>2
    <3> QED  BY <3>1, <3>2
  <2>2. UNCHANGED statuses  BY <1>3, MoveFacts
  <2> QED  BY <2>1, <2>2 DEF SpleenFollowsCore, Fit
<1>4. ASSUME NEW o \in Organs, WriteOrgan(o) PROVE SpleenFollowsCore'
  <2>1. CASE o = "crypto_core"
    <3>1. /\ ready[1].at \in 1..11 /\ o = Order[ready[1].at]
          /\ ready'[1].at = ready[1].at + 1
          /\ Len(ready') \in Nat \ {0}
      BY <1>4, WriteFacts
    <3>2. ready[1].at = 1  BY <2>1, <3>1, OrderFacts
    <3>3. ready'[1].at = 2 /\ 1 \in 1..Len(ready')  BY <3>1, <3>2
    <3> QED  BY <3>3 DEF SpleenFollowsCore
  <2>2. CASE o = "supply_spleen"
    <3>1. ready[1].result = Finding(o)  BY <1>4, WriteFacts DEF FindingsCurrent
    <3>2. ready[1].result = "vital"  BY <2>2, <3>1 DEF Finding, Checked
    <3> QED  BY <1>4, <2>2, <3>2, WriteFacts DEF SpleenFollowsCore, Fit
  <2>3. CASE o # "crypto_core" /\ o # "supply_spleen"
    <3>1. ready[1].at # 2  BY <1>4, <2>3, WriteFacts, OrderFacts
    <3> QED  BY <1>0, <1>4, <2>3, <3>1, WriteFacts DEF SpleenFollowsCore, Fit
  <2> QED  BY <2>1, <2>2, <2>3
<1>5. CASE PulseTimer
  <2>1. Len(ready) = 0 /\ UNCHANGED statuses  BY <1>5, StartFacts
  <2> QED  BY <2>1 DEF SpleenFollowsCore, Fit
<1>6. ASSUME NEW n \in 1..MaxWaiting, PingReplies(n) PROVE SpleenFollowsCore'
  <2>1. Len(ready) = 0 /\ UNCHANGED statuses  BY <1>6, ReplyFacts
  <2> QED  BY <2>1 DEF SpleenFollowsCore, Fit
<1>7. ASSUME NEW o \in Checked, Breaks(o) \/ Recovers(o) PROVE SpleenFollowsCore'
  BY <1>7, OutsideFacts DEF SpleenFollowsCore, Fit
<1> QED  BY <1>1, <1>2, <1>3, <1>4, <1>5, <1>6, <1>7, StepKinds

LEMMA AgreeStep ==
    ASSUME TypeOK, TogetherAfterRedis, FindingsCurrent, AnswersAgree, Moves
    PROVE  AnswersAgree'
<1>1. CASE Leaves
  <2>1. UNCHANGED <<health, unset>>  BY <1>1, DropFacts
  <2> QED  BY <1>1, <2>1, DropFacts, FindingSame DEF AnswersAgree, Clean
<1>2. ASSUME NEW o \in Organs, SkipOrgan(o) PROVE AnswersAgree'
  <2>1. UNCHANGED <<health, unset>>  BY <1>2, SkipFacts
  <2> QED  BY <1>2, <2>1, SkipFacts, FindingSame DEF AnswersAgree, Clean
<1>3. ASSUME NEW o \in Organs, CheckOrgan(o) PROVE AnswersAgree'
  <2>1. UNCHANGED <<health, unset>>  BY <1>3, MoveFacts
  <2> QED  BY <1>3, <2>1, MoveFacts, FindingSame DEF AnswersAgree, Clean
<1>4. ASSUME NEW o \in Organs, WriteOrgan(o) PROVE AnswersAgree'
  <2>1. UNCHANGED <<health, unset>>  BY <1>4, WriteFacts
  <2>2. ready[1].result = Finding(o)  BY <1>4, WriteFacts DEF FindingsCurrent
  <2>3. ASSUME Clean(ready[1])', ready[1].at = 8, Len(ready) > 1
        PROVE  Finding("rate_limit_nerves") = "vital"
    <3>1. o = "rate_limit_nerves"  BY <1>4, <2>3, WriteFacts, OrderFacts
    <3>2. o \notin unset  BY <2>3, <3>1 DEF TogetherAfterRedis
    <3>3. Finding(o) # "throws"  BY <1>4, <2>2, <2>3, WriteFacts
    <3> QED  BY <3>1, <3>2, <3>3 DEF Finding, Returning
  <2>4. ASSUME NEW k \in 1..Len(ready'), Clean(ready[k])', ready'[k].at > RedisAt,
               Len(ready') > 1
        PROVE  Finding("rate_limit_nerves") = "vital"
    <3>1. CASE k = 1
      BY <1>4, <2>3, <2>4, <3>1, WriteFacts DEF AnswersAgree, RedisAt, PulseType
    <3>2. CASE k # 1  BY <1>4, <2>4, <3>2, WriteFacts DEF AnswersAgree, Clean
    <3> QED  BY <3>1, <3>2
  <2> QED  BY <2>1, <2>4, FindingSame DEF AnswersAgree
<1>5. CASE PulseTimer
  <2>1. Len(ready') = 1  BY <1>5, StartFacts
  <2> QED  BY <2>1 DEF AnswersAgree
<1>6. ASSUME NEW n \in 1..MaxWaiting, PingReplies(n) PROVE AnswersAgree'
  BY <1>6, ReplyFacts DEF AnswersAgree, RedisAt
<1>7. ASSUME NEW o \in Checked, Breaks(o) \/ Recovers(o) PROVE AnswersAgree'
  BY <1>7, OutsideFacts DEF AnswersAgree
<1> QED  BY <1>1, <1>2, <1>3, <1>4, <1>5, <1>6, <1>7, StepKinds

\* What the organs behind the rate limiter's depend on, and that no check of
\* theirs fails.
LEMMA Behind ==
    /\ DependsOn["pqc_lungs"] = {"hsm_heart", "ca_liver", "audit_immune", "crypto_core"}
    /\ DependsOn["gateway_skin"] =
           {"console_brain", "pqc_lungs", "audit_immune", "rate_limit_nerves"}
    /\ DependsOn["vault_marrow"] = {"tpm_skeletal", "hsm_heart", "audit_immune", "crypto_core"}
    /\ \A o \in {"pqc_lungs", "gateway_skin", "vault_marrow"} : Finding(o) = "vital"
BY DEF DependsOn, Finding, Checked

\* While no organ loses its fitness, a pulse that stays where it is has still seen
\* what it has seen.
LEMMA SeenGrows ==
    ASSUME NEW k, NEW j, HasSeen(j), ready'[k] = ready[j], UNCHANGED unset,
           \A o \in Organs : Fit(o) => Fit(o)'
    PROVE  HasSeen(k)'
<1>1. \A o \in {"rate_limit_nerves", "pqc_lungs", "gateway_skin", "vault_marrow"}
              \cup DependsOn["pqc_lungs"] \cup DependsOn["gateway_skin"]
              \cup DependsOn["vault_marrow"] : Fit(o) => Fit(o)'
  BY Behind DEF Organs
<1> QED  BY <1>1 DEF HasSeen, Clean

\* A pulse behind the head finds nothing that a clean pulse has relied on unfit.
LEMMA SkipLeavesSeen ==
    ASSUME TypeOK, TogetherAfterRedis, CleanHasSeen, NEW o \in Organs, SkipOrgan(o),
           NEW k \in 2..Len(ready)
    PROVE  HasSeen(k)'
<1>1. ready[1].at \in 9..11  BY SkipFacts DEF TogetherAfterRedis, RedisAt
<1>2. o \in {"pqc_lungs", "gateway_skin", "vault_marrow"}
  <2>1. ready[1].at = 9 \/ ready[1].at = 10 \/ ready[1].at = 11  BY <1>1
  <2> QED  BY <2>1, SkipFacts, OrderFacts
<1>3. ready'[k] = ready[k] /\ UNCHANGED unset  BY SkipFacts
<1>4. HasSeen(k) /\ ready[k] \in PulseType  BY SkipFacts, ReadyType DEF CleanHasSeen
<1>5. \A p \in Organs \ {o} : Fit(p) => Fit(p)'  BY SkipFacts DEF Fit
<1>6. ~\A d \in DependsOn[o] : Fit(d)  BY SkipFacts DEF DependenciesSatisfied
<1> DEFINE needs == {"rate_limit_nerves", "pqc_lungs", "gateway_skin", "vault_marrow"}
              \cup DependsOn["pqc_lungs"] \cup DependsOn["gateway_skin"]
              \cup DependsOn["vault_marrow"]
<1>7. \A p \in needs \ {o} : Fit(p) => Fit(p)'  BY <1>5, Behind DEF Organs
<1>8. CASE o = "pqc_lungs"
  <2>1. Clean(ready[k]) /\ ready[k].at > RedisAt => ready[k].at <= 9 /\ ready[k].result = NoResult
    BY <1>4, <1>6, <1>8 DEF HasSeen, PulseType
  <2> QED  BY <1>3, <1>4, <1>7, <1>8, <2>1, Behind DEF HasSeen, Clean, PulseType
<1>9. CASE o = "gateway_skin"
  <2>1. Clean(ready[k]) /\ ready[k].at > RedisAt => ready[k].at <= 10
    BY <1>4, <1>6, <1>9 DEF HasSeen, PulseType
  <2> QED  BY <1>3, <1>4, <1>7, <1>9, <2>1, Behind DEF HasSeen, Clean, PulseType
<1>10. CASE o = "vault_marrow"
  <2>1. Clean(ready[k]) /\ ready[k].at > RedisAt => ready[k].at <= 11
    BY <1>4, <1>6, <1>10 DEF HasSeen, PulseType
  <2> QED  BY <1>3, <1>4, <1>7, <1>10, <2>1, Behind DEF HasSeen, Clean, PulseType
<1> QED  BY <1>2, <1>8, <1>9, <1>10

\* What is written behind the rate limiter's organ is "vital".
LEMMA WriteGrows ==
    ASSUME TypeOK, FindingsCurrent, NEW o \in Organs, WriteOrgan(o),
           Finding(o) = "vital"
    PROVE  Fit(o)' /\ \A p \in Organs : Fit(p) => Fit(p)'
<1>1. ready[1].result = Finding(o)  BY WriteFacts DEF FindingsCurrent
<1>2. statuses'[o] = "vital"  BY <1>1, WriteFacts
<1> QED  BY <1>2, WriteFacts DEF Fit

LEMMA WriteSeen ==
    ASSUME TypeOK, TogetherAfterRedis, FindingsCurrent, CleanHasSeen, AnswersAgree,
           NEW o \in Organs, WriteOrgan(o)
    PROVE  CleanHasSeen'
<1>1. /\ Len(ready) \in Nat \ {0} /\ Len(ready') = Len(ready)
      /\ ready[1].at \in 1..11 /\ o = Order[ready[1].at]
      /\ ready'[1].at = ready[1].at + 1 /\ ready'[1].result = NoResult
      /\ UNCHANGED unset /\ ready[1].result # NoResult
      /\ Clean(ready[1])' => Clean(ready[1]) /\ ready[1].result # "throws"
      /\ \A k \in 2..Len(ready) : ready'[k] = ready[k]
  BY WriteFacts
<1>2. ready[1].result = Finding(o)  BY <1>1 DEF FindingsCurrent
<1>3. ready[1].at \in 9..11 => o \in {"pqc_lungs", "gateway_skin", "vault_marrow"}
  <2>1. ready[1].at \in 9..11 => ready[1].at = 9 \/ ready[1].at = 10 \/ ready[1].at = 11
    OBVIOUS
  <2> QED  BY <1>1, <2>1, OrderFacts
<1>4. ASSUME NEW k \in 2..Len(ready) PROVE HasSeen(k)'
  <2>1. Len(ready) > 1 /\ ready[1].at >= 8  BY <1>1, <1>4 DEF TogetherAfterRedis, RedisAt
  <2>2. CASE Clean(ready[k]) /\ ready[k].at > RedisAt
    <3>1. Finding("rate_limit_nerves") = "vital"  BY <1>1, <2>1, <2>2 DEF AnswersAgree
    <3>2. Finding(o) = "vital"
      <4>1. CASE ready[1].at = 8  BY <1>1, <3>1, <4>1, OrderFacts
      <4>2. CASE ready[1].at \in 9..11  BY <1>3, <4>2, Behind
      <4> QED  BY <1>1, <2>1, <4>1, <4>2
    <3>3. HasSeen(k)  BY <1>1, <1>4 DEF CleanHasSeen
    <3> QED  BY <1>1, <1>4, <3>2, <3>3, WriteGrows, SeenGrows
  <2>3. CASE ~(Clean(ready[k]) /\ ready[k].at > RedisAt)
    BY <1>1, <1>4, <2>3 DEF HasSeen, Clean
  <2> QED  BY <2>2, <2>3
<1>5. ASSUME Clean(ready[1])', ready'[1].at > RedisAt PROVE HasSeen(1)'
  <2>1. HasSeen(1) /\ Clean(ready[1])  BY <1>1, <1>5 DEF CleanHasSeen
  <2>2. CASE ready[1].at = 8
    <3>1. o = "rate_limit_nerves"  BY <1>1, <2>2, OrderFacts
    <3>2. Finding(o) = "vital" \/ o \in unset
      BY <1>1, <1>2, <1>5, <3>1 DEF Finding, Returning
    <3>3. Fit(o)' \/ o \in unset  BY <3>2, WriteGrows
    <3> QED  BY <1>1, <2>2, <3>1, <3>3 DEF HasSeen
  <2>3. CASE ready[1].at \in 9..11
    <3>1. Finding(o) = "vital"  BY <1>3, <2>3, Behind
    <3>2. Fit(o)' /\ \A p \in Organs : Fit(p) => Fit(p)'  BY <3>1, WriteGrows
    <3>3. \A p \in {"rate_limit_nerves", "pqc_lungs", "gateway_skin", "vault_marrow"}
              \cup DependsOn["pqc_lungs"] \cup DependsOn["gateway_skin"]
              \cup DependsOn["vault_marrow"] : Fit(p) => Fit(p)'
      BY <3>2, Behind DEF Organs
    <3>4. CASE ready[1].at = 9
      <4>1. o = "pqc_lungs"  BY <1>1, <3>4, OrderFacts
      <4> QED  BY <1>1, <2>1, <3>2, <3>3, <3>4, <4>1, Behind DEF HasSeen, RedisAt
    <3>5. CASE ready[1].at = 10
      <4>1. o = "gateway_skin"  BY <1>1, <3>5, OrderFacts
      <4> QED  BY <1>1, <2>1, <3>2, <3>3, <3>5, <4>1, Behind DEF HasSeen, RedisAt
    <3>6. CASE ready[1].at = 11
      <4>1. o = "vault_marrow"  BY <1>1, <3>6, OrderFacts
      <4> QED  BY <1>1, <2>1, <3>2, <3>3, <3>6, <4>1, Behind DEF HasSeen, RedisAt
    <3> QED  BY <2>3, <3>4, <3>5, <3>6
  <2> QED  BY <1>1, <1>5, <2>2, <2>3 DEF RedisAt
<1>6. HasSeen(1)'  BY <1>5 DEF HasSeen
<1> QED  BY <1>1, <1>4, <1>6 DEF CleanHasSeen

LEMMA SeenStep ==
    ASSUME TypeOK, TogetherAfterRedis, FindingsCurrent, CleanHasSeen, AnswersAgree, Moves
    PROVE  CleanHasSeen'
<1>1. CASE Leaves
  <2>1. \A p \in Organs : Fit(p) => Fit(p)'  BY <1>1, DropFacts DEF Fit
  <2>2. ASSUME NEW k \in 1..Len(ready') PROVE HasSeen(k)'
    <3>1. k + 1 \in 1..Len(ready) /\ ready'[k] = ready[k + 1] /\ UNCHANGED unset
      BY <1>1, <2>2, DropFacts
    <3>2. HasSeen(k + 1)  BY <3>1 DEF CleanHasSeen
    <3> QED  BY <2>1, <3>1, <3>2, SeenGrows
  <2> QED  BY <2>2 DEF CleanHasSeen
<1>2. ASSUME NEW o \in Organs, SkipOrgan(o) PROVE CleanHasSeen'
  <2>1. HasSeen(1)'  BY <1>2, SkipFacts DEF HasSeen, Clean
  <2>2. Len(ready') = Len(ready) /\ Len(ready) \in Nat \ {0}  BY <1>2, SkipFacts
  <2>3. \A k \in 2..Len(ready) : HasSeen(k)'  BY <1>2, SkipLeavesSeen
  <2> QED  BY <2>1, <2>2, <2>3 DEF CleanHasSeen
<1>3. ASSUME NEW o \in Organs, CheckOrgan(o) PROVE CleanHasSeen'
  <2>1. \A p \in Organs : Fit(p) => Fit(p)'  BY <1>3, MoveFacts DEF Fit
  <2>2. /\ Len(ready) \in Nat \ {0} /\ Len(ready') = Len(ready)
        /\ ready[1] \in PulseType /\ o = Order[ready[1].at] /\ UNCHANGED unset
        /\ \A k \in 1..(Len(ready) - 1) : ready'[k] = ready[k + 1]
    BY <1>3, MoveFacts
  <2>3. ASSUME NEW k \in 1..(Len(ready) - 1) PROVE HasSeen(k)'
    <3>1. k + 1 \in 1..Len(ready) /\ ready'[k] = ready[k + 1]  BY <2>2, <2>3
    <3>2. HasSeen(k + 1)  BY <3>1 DEF CleanHasSeen
    <3> QED  BY <2>1, <2>2, <3>1, <3>2, SeenGrows
  <2>4. HasSeen(Len(ready))'
    <3> DEFINE n == Len(ready)
    <3>1. /\ ready'[n].at = ready[1].at /\ ready[1].at \in 1..11
          /\ Clean(ready[n])' => Clean(ready[1])
          /\ UNCHANGED statuses
          /\ \A d \in DependsOn[o] : Fit(d)
      BY <1>3, MoveFacts DEF DependenciesSatisfied
    <3>2. HasSeen(1)  BY <2>2 DEF CleanHasSeen
    <3>3. /\ ready[1].at = 9 => o = "pqc_lungs"
          /\ ready[1].at = 10 => o = "gateway_skin"
          /\ ready[1].at = 11 => o = "vault_marrow"
      BY <2>2, OrderFacts
    <3> QED  BY <2>2, <3>1, <3>2, <3>3 DEF HasSeen, Fit, RedisAt
  <2> QED  BY <2>2, <2>3, <2>4 DEF CleanHasSeen
<1>4. ASSUME NEW o \in Organs, WriteOrgan(o) PROVE CleanHasSeen'  BY <1>4, WriteSeen
<1>5. CASE PulseTimer
  <2>1. Len(ready') = 1 /\ ready'[1].at = 1  BY <1>5, StartFacts
  <2> QED  BY <2>1 DEF CleanHasSeen, HasSeen, RedisAt
<1>6. ASSUME NEW n \in 1..MaxWaiting, PingReplies(n) PROVE CleanHasSeen'
  BY <1>6, ReplyFacts DEF CleanHasSeen, HasSeen, RedisAt
<1>7. ASSUME NEW o \in Checked, Breaks(o) \/ Recovers(o) PROVE CleanHasSeen'
  BY <1>7, OutsideFacts DEF CleanHasSeen
<1> QED  BY <1>1, <1>2, <1>3, <1>4, <1>5, <1>6, <1>7, StepKinds

-----------------------------------------------------------------------------
(***************************************************************************)
(* The theorems                                                            *)
(***************************************************************************)
LEMMA InvInit == Init => OrganismInv
<1> SUFFICES ASSUME Init PROVE OrganismInv  OBVIOUS
<1>1. PICK a : ready = << Pulse(1, a, NoResult) >>  BY Zenon DEF Init
<1>2. Len(ready) = 1 /\ ready[1] = Pulse(1, a, NoResult)  BY <1>1
<1>3. ready[1].at = 1 /\ ready[1].result = NoResult  BY <1>2, PulseFields
<1>4. "rate_limit_nerves" \in unset => ~pings  BY Zenon DEF Init
<1>5. waiting = <<>> /\ found = {} /\ statuses = [o \in Organs |-> "pending"]  BY DEF Init
<1>6. TogetherAfterRedis  BY <1>2, <1>4, <1>5 DEF TogetherAfterRedis
<1>7. FindingsCurrent /\ AnswersAgree  BY <1>2, <1>3 DEF FindingsCurrent, AnswersAgree
<1>8. CleanHasSeen  BY <1>2, <1>3 DEF CleanHasSeen, HasSeen, RedisAt
<1>9. SpleenFollowsCore /\ FoundIsWritten
  BY <1>5 DEF SpleenFollowsCore, FoundIsWritten, Fit, Organs
<1> QED  BY <1>6, <1>7, <1>8, <1>9 DEF OrganismInv

LEMMA InvStep == TypeOK /\ OrganismInv /\ [Next]_vars => OrganismInv'
<1> SUFFICES ASSUME TypeOK, OrganismInv, [Next]_vars PROVE OrganismInv'  OBVIOUS
<1>1. CASE Moves
  BY <1>1, TogetherStep, FindingsStep, SeenStep, SpleenStep, FoundStep, AgreeStep
  DEF OrganismInv
<1>2. CASE PulseFails \/ UNCHANGED vars
  <2>1. /\ ready' = ready /\ waiting' = waiting /\ pings' = pings /\ unset' = unset
        /\ health' = health /\ statuses' = statuses /\ found' = found
    BY <1>2, CatchFacts DEF vars, bodyVars, pulseVars
  <2>2. \A o : Finding(o)' = Finding(o)  BY <2>1, FindingSame
  <2> QED
    BY <2>1, <2>2 DEF OrganismInv, TogetherAfterRedis, FindingsCurrent, CleanHasSeen,
       HasSeen, SpleenFollowsCore, FoundIsWritten, AnswersAgree, Clean, Fit
<1> QED  BY <1>1, <1>2 DEF Moves

\* The invariant the two properties below rest on: what pulses that run together may
\* have missed of one another.
THEOREM InvCorrect == Spec => [](TypeOK /\ OrganismInv)
<1>1. Init => TypeOK /\ OrganismInv  BY TypeInit, InvInit
<1>2. TypeOK /\ OrganismInv /\ [Next]_vars => (TypeOK /\ OrganismInv)'
  BY TypeStep, InvStep
<1> QED  BY <1>1, <1>2, PTL DEF Spec

\* A pulse that ends clean leaves every organ vital.
LEMMA CleanEnd ==
    ASSUME TypeOK, OrganismInv, EndPulse \/ EndPulseUnrecorded, ~lockdown'
    PROVE  \A o \in Organs : statuses[o] = "vital" /\ statuses'[o] = "vital"
<1>1. Leaves /\ Current = ready[1]
  BY CurrentTyped DEF Leaves, EndPulse, EndPulseUnrecorded, PulseEnds, Running
<1>2. /\ Len(ready) \in Nat \ {0} /\ ready[1] \in PulseType /\ UNCHANGED statuses
  BY <1>1, DropFacts
<1>3. ready[1].at = 12  BY <1>1, <1>2, OrderFacts DEF EndPulse, EndPulseUnrecorded, PulseEnds, PulseType
<1>4. Clean(ready[1])
  BY <1>1, Zenon DEF EndPulse, EndPulseUnrecorded, PulseEnds, LockdownAfter, Clean
<1>5. HasSeen(1)  BY <1>2 DEF OrganismInv, CleanHasSeen
<1>6. \A o \in {"rate_limit_nerves", "pqc_lungs", "gateway_skin", "vault_marrow"}
            \cup DependsOn["pqc_lungs"] \cup DependsOn["gateway_skin"]
            \cup DependsOn["vault_marrow"] : Fit(o)
  BY <1>3, <1>4, <1>5 DEF HasSeen, RedisAt
<1>7. \A o \in Organs \ {"supply_spleen"} : Fit(o)  BY <1>6, Behind DEF Organs
<1>8. \A k \in 1..Len(ready) : ready[k].at # 2
  BY <1>2, <1>3 DEF OrganismInv, TogetherAfterRedis, RedisAt
<1>9. Fit("supply_spleen")
  BY <1>7, <1>8 DEF OrganismInv, SpleenFollowsCore, Organs
<1> QED  BY <1>2, <1>7, <1>9 DEF Fit

\* Lockdown is lifted only over a body all of whose organs are vital, however many
\* pulses overlapped while Redis was asked.
THEOREM WholeRelease == Spec => ReleasedWhole
<1>1. TypeOK /\ OrganismInv /\ [Next]_vars
        => [lockdown /\ ~lockdown' => \A o \in Organs : statuses'[o] = "vital"]_vars
  <2> SUFFICES ASSUME TypeOK, OrganismInv, Next, lockdown, ~lockdown'
               PROVE  \A o \in Organs : statuses'[o] = "vital"
    OBVIOUS
  <2>1. EndPulse \/ EndPulseUnrecorded
    BY Zenon DEF Next, Microtask, PulseFails, SkipOrgan, CheckOrgan, AskRedis,
       WriteOrgan, PulseTimer, PingReplies, Breaks, Recovers, bodyVars
  <2> QED  BY <2>1, CleanEnd
<1> QED  BY <1>1, InvCorrect, PTL DEF Spec, ReleasedWhole

\* An organ that a pulse has found broken keeps isVital() false until it is put
\* right, whichever pulse ends last.
THEOREM BrokenNeverTrusted == Spec => []BrokenNotTrusted
<1>1. TypeOK /\ OrganismInv => BrokenNotTrusted
  <2> SUFFICES ASSUME OrganismInv, ready = <<>>, found # {} PROVE ~IsVital
    BY DEF BrokenNotTrusted
  <2>1. PICK o \in found : TRUE  OBVIOUS
  <2>2. o \in Organs /\ ~Fit(o)
    BY <2>1 DEF OrganismInv, FoundIsWritten, Checked, Organs
  <2> QED  BY <2>2 DEF IsVital
<1> QED  BY <1>1, InvCorrect, PTL

-----------------------------------------------------------------------------
(***************************************************************************)
(* Lockdown and the organs agree.  A pulse whose anyCritical is set has a  *)
(* cause: an organ it has passed that is critical.  A younger pulse may    *)
(* mend that organ, so that only the youngest, which ends last, needs to   *)
(* have one still (LastCaused); that it does end last is because pulses    *)
(* that run together go through the remaining organs in step, as all find  *)
(* the same dependencies fit.                                              *)
(***************************************************************************)
Written(o) == statuses[o] # "pending"
Critical(o) == statuses[o] = "critical"
StatusOf(finding) == IF finding = "vital" THEN "vital" ELSE "critical"

\* A pulse before the rate limiter's organ, or at it and not yet checked.
Early(k) ==
    ready[k].at < RedisAt \/ (ready[k].at = RedisAt /\ ready[k].result = NoResult)

\* Behind the head every pulse has a result to write.
TailChecked == \A k \in 2..Len(ready) : ready[k].result # NoResult

\* What a pulse has passed has been written.
WrittenInOrder ==
    /\ \A k \in 1..Len(ready) : \A j \in 1..11 : j < ready[k].at => Written(Order[j])
    /\ waiting # <<>> => \A j \in 1..7 : Written(Order[j])
    /\ life = "awake" => \A o \in Organs : Written(o)

\* Pulses that run together write the same for the rate limiter's organ,
NervesAgree ==
    Len(ready) > 1 => \A k \in 1..Len(ready) :
        ready[k].at > 8 =>
            statuses["rate_limit_nerves"] = StatusOf(Finding("rate_limit_nerves"))

\* and leave the next as its dependencies are;
LungsFollow ==
    \A k \in 1..Len(ready) :
        ready[k].at > 9 => (Fit("pqc_lungs") <=> \A d \in DependsOn["pqc_lungs"] : Fit(d))

\* what a check behind it has relied on still holds.
CheckedFit ==
    \A k \in 1..Len(ready) :
        ready[k].result # NoResult /\ ready[k].at > 8 =>
            \A d \in DependsOn[Order[ready[k].at]] : Fit(d)

Caused(k) == ready[k].anyCritical => \E j \in 1..8 : j < ready[k].at /\ Critical(Order[j])
EarlyCaused == \A k \in 1..Len(ready) : Early(k) => Caused(k)

\* The last that waits for Redis has its cause, unless a younger is on the way there.
WaitingCaused ==
    waiting # <<>> /\ waiting[Len(waiting)] /\ (\A k \in 1..Len(ready) : ~Early(k)) =>
        \E j \in 1..7 : Critical(Order[j])

\* j ends before k.
Ahead(j, k) ==
    \/ ready[j].at > ready[k].at
    \/ /\ ready[j].at = ready[k].at
       /\ IF j < k THEN ready[j].result # NoResult ELSE ready[k].result = NoResult
Last(k) == Caused(k) /\ \A j \in 1..Len(ready) : j # k => Ahead(j, k)
LastCaused == ready # <<>> /\ waiting = <<>> => \E k \in 1..Len(ready) : Last(k)

LockInv ==
    /\ TailChecked /\ WrittenInOrder /\ NervesAgree /\ LungsFollow /\ CheckedFit
    /\ EarlyCaused /\ WaitingCaused /\ LastCaused

\* Where an organ stands in Order.
Place == [crypto_core |-> 1, supply_spleen |-> 2, audit_immune |-> 3, tpm_skeletal |-> 4,
          hsm_heart |-> 5, ca_liver |-> 6, console_brain |-> 7, rate_limit_nerves |-> 8,
          pqc_lungs |-> 9, gateway_skin |-> 10, vault_marrow |-> 11]

LEMMA Placed ==
    /\ \A j \in 1..11 : Order[j] \in Organs /\ Place[Order[j]] = j
    /\ \A o \in Organs : Place[o] \in 1..11 /\ Order[Place[o]] = o
    /\ \A o \in Checked : Place[o] \in 1..8
    /\ \A o \in DependsOn["pqc_lungs"] \cup DependsOn["vault_marrow"] :
          o \in Organs /\ Place[o] \in 1..7
    /\ \A o \in DependsOn["gateway_skin"] : o \in Organs /\ Place[o] \in {3, 7, 8, 9}
    /\ DependsOn["rate_limit_nerves"] = {"audit_immune"}
    /\ Order[3] = "audit_immune" /\ Order[8] = "rate_limit_nerves"
    /\ Order[9] = "pqc_lungs" /\ Order[10] = "gateway_skin" /\ Order[11] = "vault_marrow"
<1>1. \A k \in 1..11 : k = 1 \/ k = 2 \/ k = 3 \/ k = 4 \/ k = 5 \/ k = 6 \/ k = 7
                       \/ k = 8 \/ k = 9 \/ k = 10 \/ k = 11
  OBVIOUS
<1>2. /\ Order[1] = "crypto_core" /\ Order[2] = "supply_spleen"
      /\ Order[3] = "audit_immune" /\ Order[4] = "tpm_skeletal"
      /\ Order[5] = "hsm_heart" /\ Order[6] = "ca_liver"
      /\ Order[7] = "console_brain" /\ Order[8] = "rate_limit_nerves"
      /\ Order[9] = "pqc_lungs" /\ Order[10] = "gateway_skin"
      /\ Order[11] = "vault_marrow"
  BY DEF Order
<1>3. /\ Place["crypto_core"] = 1 /\ Place["supply_spleen"] = 2
      /\ Place["audit_immune"] = 3 /\ Place["tpm_skeletal"] = 4
      /\ Place["hsm_heart"] = 5 /\ Place["ca_liver"] = 6
      /\ Place["console_brain"] = 7 /\ Place["rate_limit_nerves"] = 8
      /\ Place["pqc_lungs"] = 9 /\ Place["gateway_skin"] = 10
      /\ Place["vault_marrow"] = 11
  BY DEF Place
<1>4. \A j \in 1..11 : Order[j] \in Organs /\ Place[Order[j]] = j
  BY <1>1, <1>2, <1>3 DEF Organs
<1>5. \A o \in Organs : Place[o] \in 1..11 /\ Order[Place[o]] = o
  BY <1>2, <1>3 DEF Organs
<1>6. \A o \in Checked : Place[o] \in 1..8
  BY <1>3 DEF Checked
<1>7. DependsOn["rate_limit_nerves"] = {"audit_immune"}
  BY DEF DependsOn
<1>8. \A o \in DependsOn["pqc_lungs"] \cup DependsOn["vault_marrow"] :
          o \in Organs /\ Place[o] \in 1..7
  BY <1>3, Behind DEF Organs
<1>9. \A o \in DependsOn["gateway_skin"] : o \in Organs /\ Place[o] \in {3, 7, 8, 9}
  BY <1>3, Behind DEF Organs
<1> QED  BY <1>2, <1>4, <1>5, <1>6, <1>7, <1>8, <1>9

\* What the steps do beyond the facts above.
LEMMA SkipMore ==
    ASSUME TypeOK, NEW o \in Organs, SkipOrgan(o)
    PROVE  o = Order[ready[1].at] /\ Place[o] = ready[1].at
<1>1. ready[1].at \in 1..11 /\ o = Order[ready[1].at]  BY SkipFacts
<1> QED  BY <1>1, Placed

LEMMA WriteMore ==
    ASSUME TypeOK, FindingsCurrent, NEW o \in Organs, WriteOrgan(o)
    PROVE  /\ Place[o] = ready[1].at /\ ready[1].result = Finding(o)
           /\ statuses'[o] = StatusOf(Finding(o))
           /\ ready'[1].anyCritical => ready[1].anyCritical \/ Finding(o) = "throws"
<1>1. /\ ready # <<>> /\ o = Order[Current.at] /\ Current.result # NoResult
      /\ Current.at <= 11
  BY OrderFacts DEF WriteOrgan, IsAt, Running
<1>2. Current = ready[1] /\ Current \in PulseType /\ Len(ready) \in Nat \ {0}
  BY <1>1, CurrentTyped
<1> DEFINE a == Current.anyCritical \/ Current.result = "throws"
<1>3. a \in BOOLEAN  BY <1>2, Zenon DEF PulseType
<1>4. GoOn(a)  BY DEF WriteOrgan
<1> HIDE DEF a
<1>5. ready'[1].anyCritical = a  BY <1>1, <1>3, <1>4, GoOnFacts
<1>6. ready[1].result = Finding(o)  BY <1>1, <1>2 DEF FindingsCurrent
<1>7. statuses'[o] = StatusOf(Current.result)
  BY DEF WriteOrgan, TypeOK, StatusOf
<1>8. Place[o] = ready[1].at
  <2>1. ready[1].at \in 1..11 /\ o = Order[ready[1].at]  BY WriteFacts
  <2> QED  BY <2>1, Placed
<1>9. ready'[1].anyCritical => Current.anyCritical \/ Current.result = "throws"
  BY <1>5, Zenon DEF a
<1> QED  BY <1>2, <1>6, <1>7, <1>8, <1>9

LEMMA MoveMore ==
    ASSUME TypeOK, NEW o \in Organs, CheckOrgan(o)
    PROVE  Place[o] = ready[1].at /\ ready'[Len(ready)].anyCritical = ready[1].anyCritical
<1>1. ready # <<>>  BY ArrivesFacts DEF CheckOrgan
<1>2. Current = ready[1]  BY <1>1, CurrentTyped
<1>3. ready'[Len(ready)].anyCritical = ready[1].anyCritical
  BY <1>2, CheckFacts, PulseFields
<1> QED  BY <1>3, MoveFacts, Placed

LEMMA AskMore ==
    ASSUME TypeOK, NEW o \in Organs, AskRedis(o)
    PROVE  /\ Leaves /\ ready[1].at = 8 /\ ready[1].result = NoResult
           /\ waiting' # <<>> /\ waiting'[Len(waiting')] = ready[1].anyCritical
           /\ life' = life
<1>1. Leaves  BY DEF Leaves
<1>2. ready # <<>> /\ Current.at \in 1..11 /\ o = Order[Current.at] /\ Current.result = NoResult
  BY ArrivesFacts DEF AskRedis
<1>3. Current = ready[1] /\ Current \in PulseType  BY <1>2, CurrentTyped
<1>4. Current.at = 8  BY <1>2, OrderFacts DEF AskRedis
<1>5. waiting' = Append(waiting, Current.anyCritical) /\ life' = life
  BY DEF AskRedis
<1>6. waiting \in Seq(BOOLEAN) /\ Current.anyCritical \in BOOLEAN
  BY <1>3 DEF TypeOK, PulseType
<1>7. waiting' # <<>> /\ waiting'[Len(waiting')] = Current.anyCritical
  BY <1>5, <1>6
<1> QED  BY <1>1, <1>2, <1>3, <1>4, <1>7, <1>5

LEMMA EndMore ==
    ASSUME TypeOK, EndPulse \/ EndPulseUnrecorded
    PROVE  /\ Leaves /\ ready[1].at = 12 /\ waiting' = waiting
           /\ lockdown' = ready[1].anyCritical
<1>1. ready # <<>> /\ Current.at > 11 /\ waiting' = waiting /\ Leaves
  BY OrderFacts DEF Leaves, EndPulse, EndPulseUnrecorded, PulseEnds, Running
<1>2. Current = ready[1] /\ Current \in PulseType  BY <1>1, CurrentTyped
<1>3. ready[1].at = 12  BY <1>1, <1>2 DEF PulseType
<1>4. lockdown' = ready[1].anyCritical
  BY <1>2, Zenon DEF EndPulse, EndPulseUnrecorded, PulseEnds, LockdownAfter
<1> QED  BY <1>1, <1>3, <1>4

LEMMA StartMore ==
    ASSUME TypeOK, PulseTimer
    PROVE  ~ready'[1].anyCritical /\ life' = life
<1>1. ready' = << Pulse(1, FALSE, NoResult) >> /\ life' = life
  BY Zenon DEF PulseTimer
<1>2. ready'[1] = Pulse(1, FALSE, NoResult)  BY <1>1
<1>3. ASSUME NEW a PROVE Pulse(1, a, NoResult).anyCritical = a  BY PulseFields
<1>4. ready'[1].anyCritical = FALSE  BY <1>2, <1>3, Zenon
<1> QED  BY <1>1, <1>4

LEMMA RestOf ==
    ASSUME NEW S, NEW s \in Seq(S), NEW n \in Nat, n <= Len(s)
    PROVE  LET t == SubSeq(s, n + 1, Len(s))
           IN /\ t \in Seq(S) /\ Len(t) = Len(s) - n
              /\ \A k \in 1..(Len(s) - n) : t[k] = s[k + n]
  OBVIOUS

LEMMA ReplyMore ==
    ASSUME TypeOK, NEW n \in 1..MaxWaiting, PingReplies(n)
    PROVE  /\ \A k \in 1..n : ready'[k].anyCritical = waiting[k]
           /\ waiting' = <<>> => n = Len(waiting)
           /\ waiting' # <<>> => waiting'[Len(waiting')] = waiting[Len(waiting)]
           /\ ready'[n].result # NoResult /\ life' = life
<1>1. n \in Nat \ {0} /\ n <= Len(waiting) /\ waiting \in Seq(BOOLEAN)
      /\ waiting' = SubSeq(waiting, n + 1, Len(waiting)) /\ life' = life
  BY WaitingAssumption DEF PingReplies, TypeOK
<1>2. /\ waiting' = <<>> => n = Len(waiting)
      /\ waiting' # <<>> => waiting'[Len(waiting')] = waiting[Len(waiting)]
  <2>1. /\ Len(waiting') = Len(waiting) - n /\ waiting' \in Seq(BOOLEAN)
        /\ \A k \in 1..(Len(waiting) - n) : waiting'[k] = waiting[k + n]
    BY <1>1, RestOf
  <2>2. Len(waiting) \in Nat  BY <1>1
  <2>3. waiting' = <<>> => Len(waiting') = 0  OBVIOUS
  <2>4. waiting' # <<>> => Len(waiting') # 0  BY <2>1
  <2>5. Len(waiting') # 0 => Len(waiting') \in 1..(Len(waiting) - n)
                             /\ Len(waiting') + n = Len(waiting)
    BY <1>1, <2>1, <2>2
  <2>6. waiting' = <<>> => n = Len(waiting)  BY <1>1, <2>1, <2>2, <2>3
  <2>7. waiting' # <<>> => waiting'[Len(waiting')] = waiting[Len(waiting)]
    <3> SUFFICES ASSUME waiting' # <<>> PROVE waiting'[Len(waiting')] = waiting[Len(waiting)]
      OBVIOUS
    <3>1. waiting'[Len(waiting')] = waiting[Len(waiting') + n]  BY <2>1, <2>4, <2>5
    <3> QED  BY <2>4, <2>5, <3>1
  <2> QED  BY <2>6, <2>7
<1>3. \A k \in 1..n : ready'[k].anyCritical = waiting[k]
  BY PingFacts, PulseFields
<1>4. ready'[n].result # NoResult
  BY <1>1, ReplyFacts, FindingTyped DEF NoResult
<1> QED  BY <1>1, <1>2, <1>3, <1>4

\* The head goes on: what stays as it is.
Advances(o) == SkipOrgan(o) \/ WriteOrgan(o)

LEMMA AdvanceFacts ==
    ASSUME TypeOK, FindingsCurrent, NEW o \in Organs, Advances(o)
    PROVE  /\ Len(ready) \in Nat \ {0} /\ Len(ready') = Len(ready)
           /\ ready[1].at \in 1..11 /\ Place[o] = ready[1].at /\ o = Order[ready[1].at]
           /\ ready'[1].at = ready[1].at + 1 /\ ready'[1].result = NoResult
           /\ \A k \in 2..Len(ready) : ready'[k] = ready[k]
           /\ statuses'[o] \in {"vital", "critical"}
           /\ \A p \in Organs \ {o} : statuses'[p] = statuses[p]
           /\ UNCHANGED <<pings, unset, health, life, lockdown, waiting>>
<1>1. CASE SkipOrgan(o)  BY <1>1, SkipFacts, SkipMore
<1>2. CASE WriteOrgan(o)
  <2>1. statuses'[o] \in {"vital", "critical"}  BY <1>2, WriteMore DEF StatusOf
  <2> QED  BY <1>2, <2>1, WriteFacts, WriteMore
<1> QED  BY <1>1, <1>2 DEF Advances

LEMMA LockKinds ==
    ASSUME Moves
    PROVE  \/ EndPulse \/ EndPulseUnrecorded \/ PulseTimer
           \/ \E o \in Organs : Advances(o) \/ CheckOrgan(o) \/ AskRedis(o)
           \/ \E n \in 1..MaxWaiting : PingReplies(n)
           \/ \E o \in Checked : Breaks(o) \/ Recovers(o)
BY Zenon DEF Moves, Next, Microtask, Advances

\* Pulses behind a head that advances are past the rate limiter's wait.
LEMMA Behind8 ==
    ASSUME TypeOK, TogetherAfterRedis, FindingsCurrent, TailChecked,
           NEW k \in 2..Len(ready), Len(ready) \in Nat
    PROVE  /\ ready[1].at >= 8 /\ (ready[1].at = 8 => ready[1].result # NoResult)
           /\ ready[k].at \in 8..11 /\ ready[k].result # NoResult
           /\ ready[1].at \in 1..12
<1>1. Len(ready) > 1 /\ k \in 1..Len(ready) /\ 1 \in 1..Len(ready)  OBVIOUS
<1>2. ready[k] \in PulseType /\ ready[1] \in PulseType  BY <1>1, ReadyType
<1>3. ready[k].at \in 1..12 /\ ready[1].at \in 1..12  BY <1>2 DEF PulseType
<1>4. ready[k].result # NoResult  BY DEF TailChecked
<1>5. ready[k].at <= 11  BY <1>1, <1>4 DEF FindingsCurrent
<1> QED  BY <1>1, <1>3, <1>4, <1>5 DEF TogetherAfterRedis, RedisAt

LEMMA TailStep ==
    ASSUME TypeOK, FindingsCurrent, TailChecked, Moves PROVE TailChecked'
<1>1. ASSUME NEW o \in Organs, Advances(o) PROVE TailChecked'
  BY <1>1, AdvanceFacts DEF TailChecked
<1>2. ASSUME NEW o \in Organs, CheckOrgan(o) PROVE TailChecked'
  <2>1. Finding(o) # NoResult  BY FindingTyped DEF NoResult
  <2>2. ASSUME NEW k \in 2..Len(ready') PROVE ready'[k].result # NoResult
    <3>1. CASE k = Len(ready)  BY <1>2, <2>1, <3>1, MoveFacts
    <3>2. CASE k # Len(ready)
      <4>1. k \in 1..(Len(ready) - 1) /\ k + 1 \in 2..Len(ready)
        BY <1>2, <2>2, <3>2, MoveFacts
      <4> QED  BY <1>2, <4>1, MoveFacts DEF TailChecked
    <3> QED  BY <3>1, <3>2
  <2> QED  BY <2>2 DEF TailChecked
<1>3. CASE Leaves
  <2>1. ASSUME NEW k \in 2..Len(ready') PROVE ready'[k].result # NoResult
    <3>1. k \in 1..(Len(ready) - 1) /\ k + 1 \in 2..Len(ready)
      BY <1>3, <2>1, DropFacts
    <3> QED  BY <1>3, <3>1, DropFacts DEF TailChecked
  <2> QED  BY <2>1 DEF TailChecked
<1>4. CASE PulseTimer
  <2>1. Len(ready') = 1  BY <1>4, StartFacts
  <2>2. 2..1 = {}  OBVIOUS
  <2> QED  BY <2>1, <2>2 DEF TailChecked
<1>5. ASSUME NEW n \in 1..MaxWaiting, PingReplies(n) PROVE TailChecked'
  <2>1. Finding("rate_limit_nerves") # NoResult  BY FindingTyped DEF NoResult
  <2> QED  BY <1>5, <2>1, ReplyFacts DEF TailChecked
<1>6. ASSUME NEW o \in Checked, Breaks(o) \/ Recovers(o) PROVE TailChecked'
  BY <1>6, OutsideFacts DEF TailChecked
<1> QED  BY <1>1, <1>2, <1>3, <1>4, <1>5, <1>6, StepKinds DEF Advances

LEMMA WrittenStep ==
    ASSUME TypeOK, FindingsCurrent, WrittenInOrder, Moves PROVE WrittenInOrder'
<1>1. ASSUME NEW o \in Organs, Advances(o) PROVE WrittenInOrder'
  <2>1. \A p \in Organs : Written(p) => Written(p)'
    BY <1>1, AdvanceFacts DEF Written
  <2>2. Written(o)'  BY <1>1, AdvanceFacts DEF Written
  <2>3. ASSUME NEW k \in 1..Len(ready'), NEW j \in 1..11, j < ready'[k].at
        PROVE  Written(Order[j])'
    <3>1. CASE k = 1
      <4>1. j < ready[1].at \/ j = ready[1].at  BY <1>1, <2>3, <3>1, AdvanceFacts
      <4> QED  BY <1>1, <2>1, <2>2, <4>1, AdvanceFacts, Placed DEF WrittenInOrder
    <3>2. CASE k # 1
      <4>1. k \in 2..Len(ready) /\ k \in 1..Len(ready)  BY <1>1, <3>2, AdvanceFacts
      <4> QED  BY <1>1, <2>1, <2>3, <4>1, AdvanceFacts, Placed DEF WrittenInOrder
    <3> QED  BY <3>1, <3>2
  <2>4. UNCHANGED <<waiting, life>>  BY <1>1, AdvanceFacts
  <2>5. \A j \in 1..7 : Order[j] \in Organs  BY Placed
  <2> QED  BY <2>1, <2>3, <2>4, <2>5 DEF WrittenInOrder
<1>2. ASSUME NEW o \in Organs, CheckOrgan(o) PROVE WrittenInOrder'
  <2>1. UNCHANGED <<statuses, waiting, life>>  BY <1>2, MoveFacts
  <2>2. ASSUME NEW k \in 1..Len(ready') PROVE \E i \in 1..Len(ready) : ready'[k].at = ready[i].at
    <3>1. CASE k = Len(ready)  BY <1>2, <3>1, MoveFacts
    <3>2. CASE k # Len(ready)
      <4>1. k \in 1..(Len(ready) - 1) /\ k + 1 \in 1..Len(ready)
        BY <1>2, <2>2, <3>2, MoveFacts
      <4> QED  BY <1>2, <4>1, MoveFacts
    <3> QED  BY <3>1, <3>2
  <2> QED  BY <2>1, <2>2 DEF WrittenInOrder, Written
<1>3. CASE Leaves
  <2>1. UNCHANGED statuses  BY <1>3, DropFacts
  <2>2. ASSUME NEW k \in 1..Len(ready') PROVE \E i \in 1..Len(ready) : ready'[k] = ready[i]
    <3>1. k \in 1..(Len(ready) - 1) /\ k + 1 \in 1..Len(ready)  BY <1>3, <2>2, DropFacts
    <3> QED  BY <1>3, <3>1, DropFacts
  <2>3. \A j \in 1..7 : j \in 1..11 /\ j < 8 /\ j < 12  OBVIOUS
  <2>4. 1 \in 1..Len(ready)  BY <1>3, DropFacts
  <2>5. \A j \in 1..7 : Written(Order[j])
    BY <1>3, <2>3, <2>4, DropFacts DEF WrittenInOrder
  <2>6. ASSUME life' = "awake" PROVE \A p \in Organs : Written(p)
    <3>1. CASE life = "awake"  BY <3>1 DEF WrittenInOrder
    <3>2. CASE EndPulse \/ EndPulseUnrecorded
      <4>1. \A j \in 1..11 : Written(Order[j])
        BY <2>4, <3>2, EndMore DEF WrittenInOrder
      <4> QED  BY <4>1, Placed
    <3>3. ASSUME NEW o \in Organs, AskRedis(o) PROVE life' = life
      BY <3>3, AskMore
    <3> QED  BY <1>3, <2>6, <3>1, <3>2, <3>3 DEF Leaves
  <2> QED  BY <2>1, <2>2, <2>5, <2>6 DEF WrittenInOrder, Written
<1>4. CASE PulseTimer
  <2>1. /\ Len(ready') = 1 /\ ready'[1].at = 1 /\ UNCHANGED <<statuses, waiting, life>>
    BY <1>4, StartFacts, StartMore
  <2> QED  BY <2>1 DEF WrittenInOrder, Written
<1>5. ASSUME NEW n \in 1..MaxWaiting, PingReplies(n) PROVE WrittenInOrder'
  <2>1. \A j \in 1..7 : Written(Order[j])  BY <1>5, ReplyFacts DEF WrittenInOrder
  <2>2. /\ Len(ready') = n /\ \A k \in 1..n : ready'[k].at = 8
        /\ UNCHANGED <<statuses, life>>
    BY <1>5, ReplyFacts, ReplyMore
  <2>3. \A j \in 1..11 : j < 8 => j \in 1..7  OBVIOUS
  <2> QED  BY <2>1, <2>2, <2>3 DEF WrittenInOrder, Written
<1>6. ASSUME NEW o \in Checked, Breaks(o) \/ Recovers(o) PROVE WrittenInOrder'
  <2>1. Len(ready') = 0 /\ UNCHANGED <<statuses, waiting>>  BY <1>6, OutsideFacts
  <2>2. life' = life  BY <1>6 DEF Breaks, Recovers
  <2> QED  BY <2>1, <2>2 DEF WrittenInOrder, Written
<1> QED  BY <1>1, <1>2, <1>3, <1>4, <1>5, <1>6, StepKinds DEF Advances

LEMMA NervesStep ==
    ASSUME TypeOK, TogetherAfterRedis, FindingsCurrent, TailChecked, NervesAgree, Moves
    PROVE  NervesAgree'
<1> DEFINE nerves == "rate_limit_nerves"
<1>1. ASSUME NEW o \in Organs, Advances(o) PROVE NervesAgree'
  <2> SUFFICES ASSUME Len(ready') > 1, NEW k \in 1..Len(ready'), ready'[k].at > 8
               PROVE  statuses'[nerves] = StatusOf(Finding(nerves))'
    BY DEF NervesAgree
  <2>1. Finding(nerves)' = Finding(nerves)  BY <1>1, AdvanceFacts, FindingSame
  <2>2. /\ Len(ready) > 1 /\ Len(ready) \in Nat /\ 2 \in 2..Len(ready)
        /\ k \in 1..Len(ready) /\ Len(ready') = Len(ready)
    BY <1>1, AdvanceFacts
  <2>3. ready[1].at >= 8 /\ (ready[1].at = 8 => ready[1].result # NoResult)
    BY <2>2, Behind8
  <2>4. CASE ready[1].at = 8
    <3>1. WriteOrgan(o)  BY <1>1, <2>3, <2>4, SkipFacts DEF Advances
    <3>2. o = nerves  BY <1>1, <2>4, AdvanceFacts, OrderFacts
    <3> QED  BY <2>1, <3>1, <3>2, WriteMore DEF StatusOf
  <2>5. CASE ready[1].at # 8
    <3>1. o # nerves /\ nerves \in Organs
      BY <1>1, <2>5, AdvanceFacts, OrderFacts DEF Organs
    <3>2. statuses'[nerves] = statuses[nerves]  BY <1>1, <3>1, AdvanceFacts
    <3>3. ready[k].at > 8
      <4>1. CASE k = 1  BY <1>1, <2>3, <2>5, <4>1, AdvanceFacts
      <4>2. CASE k # 1
        <5>1. k \in 2..Len(ready)  BY <2>2, <4>2
        <5> QED  BY <1>1, <5>1, AdvanceFacts
      <4> QED  BY <4>1, <4>2
    <3> QED  BY <2>1, <2>2, <3>2, <3>3 DEF NervesAgree, StatusOf
  <2> QED  BY <2>4, <2>5
<1>2. ASSUME NEW o \in Organs, CheckOrgan(o) PROVE NervesAgree'
  <2>1. Finding(nerves)' = Finding(nerves)  BY <1>2, MoveFacts, FindingSame
  <2>2. UNCHANGED statuses /\ Len(ready') = Len(ready)  BY <1>2, MoveFacts
  <2>3. ASSUME NEW k \in 1..Len(ready') PROVE \E i \in 1..Len(ready) : ready'[k].at = ready[i].at
    <3>1. CASE k = Len(ready)  BY <1>2, <3>1, MoveFacts
    <3>2. CASE k # Len(ready)
      <4>1. k \in 1..(Len(ready) - 1) /\ k + 1 \in 1..Len(ready)
        BY <1>2, <2>3, <3>2, MoveFacts
      <4> QED  BY <1>2, <4>1, MoveFacts
    <3> QED  BY <3>1, <3>2
  <2> QED  BY <2>1, <2>2, <2>3 DEF NervesAgree, StatusOf
<1>3. CASE Leaves
  <2>1. Finding(nerves)' = Finding(nerves)  BY <1>3, DropFacts, FindingSame
  <2>2. /\ UNCHANGED statuses /\ Len(ready) \in Nat /\ Len(ready') = Len(ready) - 1
        /\ \A k \in 1..(Len(ready) - 1) : ready'[k] = ready[k + 1]
    BY <1>3, DropFacts
  <2>3. \A k \in 1..Len(ready') : k + 1 \in 1..Len(ready) /\ ready'[k] = ready[k + 1]
    BY <2>2
  <2>4. Len(ready') > 1 => Len(ready) > 1  BY <2>2
  <2> QED  BY <2>1, <2>2, <2>3, <2>4 DEF NervesAgree, StatusOf
<1>4. CASE PulseTimer
  <2>1. Len(ready') = 1  BY <1>4, StartFacts
  <2> QED  BY <2>1 DEF NervesAgree
<1>5. ASSUME NEW n \in 1..MaxWaiting, PingReplies(n) PROVE NervesAgree'
  BY <1>5, ReplyFacts DEF NervesAgree
<1>6. ASSUME NEW o \in Checked, Breaks(o) \/ Recovers(o) PROVE NervesAgree'
  BY <1>6, OutsideFacts DEF NervesAgree
<1> QED  BY <1>1, <1>2, <1>3, <1>4, <1>5, <1>6, StepKinds DEF Advances

\* Where the pulses stand once the head has been checked, and once it has left.
LEMMA Moved ==
    ASSUME TypeOK, NEW o \in Organs, CheckOrgan(o), NEW k \in 1..Len(ready')
    PROVE  \/ k = Len(ready)
           \/ k \in 1..(Len(ready) - 1) /\ k + 1 \in 2..Len(ready) /\ ready'[k] = ready[k + 1]
<1>1. /\ Len(ready) \in Nat \ {0} /\ Len(ready') = Len(ready)
      /\ \A i \in 1..(Len(ready) - 1) : ready'[i] = ready[i + 1]
  BY MoveFacts
<1>2. k = Len(ready) \/ (k \in 1..(Len(ready) - 1) /\ k + 1 \in 2..Len(ready))
  BY <1>1
<1> QED  BY <1>1, <1>2

LEMMA Left ==
    ASSUME TypeOK, Leaves, NEW k \in 1..Len(ready')
    PROVE  k \in 1..(Len(ready) - 1) /\ k + 1 \in 2..Len(ready) /\ ready'[k] = ready[k + 1]
<1>1. /\ Len(ready) \in Nat \ {0} /\ Len(ready') = Len(ready) - 1
      /\ \A i \in 1..(Len(ready) - 1) : ready'[i] = ready[i + 1]
  BY DropFacts
<1>2. k \in 1..(Len(ready) - 1) /\ k + 1 \in 2..Len(ready)  BY <1>1
<1> QED  BY <1>1, <1>2

\* An organ that stands before the head's, or behind it, keeps its status.
LEMMA OthersKeep ==
    ASSUME TypeOK, FindingsCurrent, NEW o \in Organs, Advances(o), NEW p \in Organs,
           Place[p] # ready[1].at
    PROVE  statuses'[p] = statuses[p]
BY AdvanceFacts

LEMMA LungsStep ==
    ASSUME TypeOK, TogetherAfterRedis, FindingsCurrent, TailChecked, LungsFollow,
           CheckedFit, Moves
    PROVE  LungsFollow'
<1> DEFINE lungs == "pqc_lungs"
<1>1. ASSUME NEW o \in Organs, Advances(o) PROVE LungsFollow'
  <2> SUFFICES ASSUME NEW k \in 1..Len(ready'), ready'[k].at > 9
               PROVE  Fit(lungs)' <=> \A d \in DependsOn[lungs] : Fit(d)'
    BY DEF LungsFollow
  <2>1. /\ Len(ready) \in Nat \ {0} /\ k \in 1..Len(ready) /\ ready[1].at \in 1..11
        /\ 1 \in 1..Len(ready)
    BY <1>1, AdvanceFacts
  <2>2. ready[1].at >= 8
    <3>1. CASE k = 1  BY <1>1, <2>1, <3>1, AdvanceFacts
    <3>2. CASE k # 1
      <4>1. k \in 2..Len(ready)  BY <2>1, <3>2
      <4> QED  BY <2>1, <4>1, Behind8
    <3> QED  BY <3>1, <3>2
  <2>3. \A d \in DependsOn[lungs] : Fit(d)' <=> Fit(d)
    <3> SUFFICES ASSUME NEW d \in DependsOn[lungs] PROVE statuses'[d] = statuses[d]
      BY DEF Fit
    <3>1. d \in Organs /\ Place[d] \in 1..7  BY Placed
    <3> QED  BY <1>1, <2>2, <3>1, OthersKeep
  <2>4. CASE ready[1].at = 9
    <3>1. o = lungs  BY <1>1, <2>4, AdvanceFacts, OrderFacts
    <3>2. CASE SkipOrgan(o)
      BY <2>3, <3>1, <3>2, SkipFacts DEF DependenciesSatisfied, Fit
    <3>3. CASE WriteOrgan(o)
      <4>1. Finding(o) = "vital"  BY <3>1, Behind
      <4>2. Fit(lungs)'  BY <3>1, <3>3, <4>1, WriteMore DEF StatusOf, Fit
      <4>3. \A d \in DependsOn[lungs] : Fit(d)
        BY <2>1, <2>4, <3>3, WriteFacts, OrderFacts, Placed DEF CheckedFit
      <4> QED  BY <2>3, <4>2, <4>3
    <3> QED  BY <1>1, <3>2, <3>3 DEF Advances
  <2>5. CASE ready[1].at # 9
    <3>1. lungs \in Organs /\ Place[lungs] = 9  BY Placed
    <3>2. Fit(lungs)' <=> Fit(lungs)  BY <1>1, <2>5, <3>1, OthersKeep DEF Fit
    <3>3. ready[k].at > 9
      <4>1. CASE k = 1  BY <1>1, <2>1, <2>5, <4>1, AdvanceFacts
      <4>2. CASE k # 1
        <5>1. k \in 2..Len(ready)  BY <2>1, <4>2
        <5> QED  BY <1>1, <5>1, AdvanceFacts
      <4> QED  BY <4>1, <4>2
    <3> QED  BY <2>1, <2>3, <3>2, <3>3 DEF LungsFollow
  <2> QED  BY <2>4, <2>5
<1>2. ASSUME NEW o \in Organs, CheckOrgan(o) PROVE LungsFollow'
  <2>1. UNCHANGED statuses  BY <1>2, MoveFacts
  <2>2. ASSUME NEW k \in 1..Len(ready') PROVE \E i \in 1..Len(ready) : ready'[k].at = ready[i].at
    <3>1. 1 \in 1..Len(ready) /\ 2..Len(ready) \subseteq 1..Len(ready)
          /\ ready'[Len(ready)].at = ready[1].at
      BY <1>2, MoveFacts
    <3> QED  BY <1>2, <3>1, Moved
  <2> QED  BY <2>1, <2>2 DEF LungsFollow, Fit
<1>3. CASE Leaves
  <2>1. UNCHANGED statuses /\ 2..Len(ready) \subseteq 1..Len(ready)  BY <1>3, DropFacts
  <2>2. \A k \in 1..Len(ready') : \E i \in 1..Len(ready) : ready'[k] = ready[i]
    BY <1>3, <2>1, Left
  <2> QED  BY <2>1, <2>2 DEF LungsFollow, Fit
<1>4. CASE PulseTimer
  <2>1. Len(ready') = 1 /\ ready'[1].at = 1  BY <1>4, StartFacts
  <2> QED  BY <2>1 DEF LungsFollow
<1>5. ASSUME NEW n \in 1..MaxWaiting, PingReplies(n) PROVE LungsFollow'
  BY <1>5, ReplyFacts DEF LungsFollow
<1>6. ASSUME NEW o \in Checked, Breaks(o) \/ Recovers(o) PROVE LungsFollow'
  BY <1>6, OutsideFacts DEF LungsFollow
<1> QED  BY <1>1, <1>2, <1>3, <1>4, <1>5, <1>6, StepKinds DEF Advances

LEMMA CheckedStep ==
    ASSUME TypeOK, TogetherAfterRedis, FindingsCurrent, TailChecked, NervesAgree,
           LungsFollow, CheckedFit, Moves
    PROVE  CheckedFit'
<1>1. ASSUME NEW o \in Organs, Advances(o) PROVE CheckedFit'
  <2> SUFFICES ASSUME NEW k \in 1..Len(ready'), ready'[k].result # NoResult, ready'[k].at > 8
               PROVE  \A d \in DependsOn[Order[ready'[k].at]] : Fit(d)'
    BY DEF CheckedFit
  <2>1. /\ Len(ready) \in Nat \ {0} /\ k \in 2..Len(ready) /\ k \in 1..Len(ready)
        /\ ready'[k] = ready[k] /\ ready[1].at \in 1..11
    <3>1. k # 1  BY <1>1, AdvanceFacts
    <3>2. Len(ready) \in Nat \ {0} /\ Len(ready') = Len(ready) /\ ready[1].at \in 1..11
      BY <1>1, AdvanceFacts
    <3>3. k \in 2..Len(ready)  BY <3>1, <3>2
    <3> QED  BY <1>1, <3>2, <3>3, AdvanceFacts
  <2>2. /\ ready[1].at >= 8 /\ (ready[1].at = 8 => ready[1].result # NoResult)
        /\ ready[k].at \in 8..11
    BY <2>1, Behind8
  <2>3. \A d \in DependsOn[Order[ready[k].at]] : Fit(d)  BY <2>1 DEF CheckedFit
  <2>4. ASSUME NEW d \in DependsOn[Order[ready[k].at]]
        PROVE  d \in Organs /\ (Place[d] \in 1..7 \/ (ready[k].at = 10 /\ Place[d] \in {8, 9}))
    <3>1. ready[k].at = 9 \/ ready[k].at = 10 \/ ready[k].at = 11  BY <2>1, <2>2
    <3> QED  BY <3>1, Placed
  <2>5. ASSUME NEW d \in DependsOn[Order[ready[k].at]], Place[d] # ready[1].at PROVE Fit(d)'
    BY <1>1, <2>3, <2>4, <2>5, OthersKeep DEF Fit
  <2>6. ASSUME NEW d \in DependsOn[Order[ready[k].at]], Place[d] = ready[1].at PROVE Fit(d)'
    <3>1. ready[k].at = 10 /\ (ready[1].at = 8 \/ ready[1].at = 9)  BY <2>2, <2>4, <2>6
    <3>2. d = o
      <4>1. Order[Place[d]] = d /\ Order[Place[o]] = o  BY <2>4, Placed
      <4> QED  BY <1>1, <2>6, <4>1, AdvanceFacts
    <3>3. CASE ready[1].at = 8
      <4>1. WriteOrgan(o)  BY <1>1, <2>2, <3>3, SkipFacts DEF Advances
      <4>2. o = "rate_limit_nerves"  BY <1>1, <3>3, AdvanceFacts, OrderFacts
      <4>3. statuses[o] = StatusOf(Finding(o))
        <5>1. Len(ready) > 1  BY <2>1
        <5> QED  BY <2>1, <3>1, <4>2, <5>1 DEF NervesAgree
      <4> QED  BY <2>3, <3>2, <4>1, <4>3, WriteMore DEF Fit
    <3>4. CASE ready[1].at = 9
      <4>1. o = "pqc_lungs"  BY <1>1, <3>4, AdvanceFacts, OrderFacts
      <4>2. Fit(o)  BY <2>3, <3>2
      <4>3. DependenciesSatisfied(o)
        BY <2>1, <3>1, <4>1, <4>2 DEF LungsFollow, DependenciesSatisfied
      <4>4. WriteOrgan(o)  BY <1>1, <4>3, SkipFacts DEF Advances
      <4>5. Finding(o) = "vital"  BY <4>1, Behind
      <4> QED  BY <3>2, <4>4, <4>5, WriteMore DEF StatusOf, Fit
    <3> QED  BY <3>1, <3>3, <3>4
  <2> QED  BY <2>1, <2>5, <2>6
<1>2. ASSUME NEW o \in Organs, CheckOrgan(o) PROVE CheckedFit'
  <2>1. /\ UNCHANGED statuses /\ DependenciesSatisfied(o) /\ o = Order[ready[1].at]
        /\ ready'[Len(ready)].at = ready[1].at
        /\ 2..Len(ready) \subseteq 1..Len(ready)
    BY <1>2, MoveFacts
  <2>2. ASSUME NEW k \in 1..Len(ready'), ready'[k].result # NoResult, ready'[k].at > 8
        PROVE  \A d \in DependsOn[Order[ready'[k].at]] : Fit(d)
    <3>1. CASE k = Len(ready)  BY <2>1, <3>1 DEF DependenciesSatisfied
    <3>2. CASE k # Len(ready)
      BY <1>2, <2>1, <2>2, <3>2, Moved DEF CheckedFit
    <3> QED  BY <3>1, <3>2
  <2> QED  BY <2>1, <2>2 DEF CheckedFit, Fit
<1>3. CASE Leaves
  <2>1. UNCHANGED statuses /\ 2..Len(ready) \subseteq 1..Len(ready)  BY <1>3, DropFacts
  <2>2. \A k \in 1..Len(ready') : \E i \in 1..Len(ready) : ready'[k] = ready[i]
    BY <1>3, <2>1, Left
  <2> QED  BY <2>1, <2>2 DEF CheckedFit, Fit
<1>4. CASE PulseTimer
  <2>1. Len(ready') = 1 /\ ready'[1].result = NoResult  BY <1>4, StartFacts
  <2> QED  BY <2>1 DEF CheckedFit
<1>5. ASSUME NEW n \in 1..MaxWaiting, PingReplies(n) PROVE CheckedFit'
  BY <1>5, ReplyFacts DEF CheckedFit
<1>6. ASSUME NEW o \in Checked, Breaks(o) \/ Recovers(o) PROVE CheckedFit'
  BY <1>6, OutsideFacts DEF CheckedFit
<1> QED  BY <1>1, <1>2, <1>3, <1>4, <1>5, <1>6, StepKinds DEF Advances

\* A cause outlives what the head writes, and whatever sets anyCritical is one.
LEMMA CausedOn ==
    ASSUME TypeOK, TogetherAfterRedis, FindingsCurrent, TailChecked, WrittenInOrder,
           NervesAgree, LungsFollow, NEW o \in Organs, Advances(o),
           NEW k \in 1..Len(ready), Caused(k)
    PROVE  Caused(k)'
<1>1. /\ Len(ready) \in Nat \ {0} /\ ready[1].at \in 1..11 /\ o = Order[ready[1].at]
      /\ Place[o] = ready[1].at /\ 1 \in 1..Len(ready)
      /\ ready'[1].at = ready[1].at + 1
      /\ statuses'[o] \in {"vital", "critical"}
  BY AdvanceFacts
<1>2. CASE k # 1
  <2>1. k \in 2..Len(ready) /\ Len(ready) > 1  BY <1>1, <1>2
  <2>2. /\ ready[1].at >= 8 /\ (ready[1].at = 8 => ready[1].result # NoResult)
        /\ ready'[k] = ready[k]
    BY <1>1, <2>1, Behind8, AdvanceFacts
  <2>3. ASSUME NEW j \in 1..8, j < ready[k].at, Critical(Order[j]) PROVE Critical(Order[j])'
    <3>1. Order[j] \in Organs /\ Place[Order[j]] = j  BY Placed
    <3>2. CASE j # ready[1].at  BY <2>3, <3>1, <3>2, OthersKeep DEF Critical
    <3>3. CASE j = ready[1].at
      <4>1. j = 8  BY <2>2, <3>3
      <4>2. WriteOrgan(o)  BY <2>2, <3>3, <4>1, SkipFacts DEF Advances
      <4>3. o = "rate_limit_nerves" /\ Order[j] = o  BY <1>1, <3>3, <4>1, OrderFacts
      <4>4. statuses[o] = StatusOf(Finding(o))
        BY <2>1, <2>3, <4>1, <4>3 DEF NervesAgree
      <4> QED  BY <2>3, <4>2, <4>3, <4>4, WriteMore DEF Critical
    <3> QED  BY <3>2, <3>3
  <2> QED  BY <2>2, <2>3 DEF Caused
<1>3. CASE k = 1
  <2> SUFFICES ASSUME ready'[1].anyCritical
               PROVE  \E j \in 1..8 : j < ready[1].at + 1 /\ Critical(Order[j])'
    BY <1>1, <1>3 DEF Caused
  <2>1. ASSUME NEW p \in Organs, Place[p] < ready[1].at, Place[p] \in 1..8, Critical(p)
        PROVE  \E j \in 1..8 : j < ready[1].at + 1 /\ Critical(Order[j])'
    <3>1. Critical(p)'  BY <1>1, <2>1, OthersKeep DEF Critical
    <3>2. Order[Place[p]] = p  BY <2>1, Placed
    <3>3. Place[p] < ready[1].at + 1  BY <1>1, <2>1
    <3> QED  BY <2>1, <3>1, <3>2, <3>3
  <2>2. CASE ready[1].anyCritical
    <3>1. PICK j \in 1..8 : j < ready[1].at /\ Critical(Order[j])
      BY <1>3, <2>2 DEF Caused
    <3>2. Order[j] \in Organs /\ Place[Order[j]] = j  BY Placed
    <3> QED  BY <2>1, <3>1, <3>2
  <2>3. ASSUME ready[1].at \in 1..8, statuses'[o] = "critical"
        PROVE  \E j \in 1..8 : j < ready[1].at + 1 /\ Critical(Order[j])'
    BY <1>1, <2>3 DEF Critical
  <2>4. ASSUME NEW p \in Organs, Place[p] < ready[1].at, ~Fit(p) PROVE Critical(p)
    <3>1. Place[p] \in 1..11 /\ Order[Place[p]] = p  BY Placed
    <3>2. Written(p)  BY <1>1, <2>4, <3>1 DEF WrittenInOrder
    <3>3. statuses[p] \in {"pending", "vital", "critical"}  BY DEF TypeOK
    <3> QED  BY <2>4, <3>2, <3>3 DEF Written, Fit, Critical
  <2>5. ASSUME ready[1].at > 8, NEW d \in DependsOn[o], ~Fit(d)
        PROVE  \E p \in Organs : Place[p] \in 1..8 /\ ~Fit(p)
    <3>1. ready[1].at = 9 \/ ready[1].at = 10 \/ ready[1].at = 11  BY <1>1, <2>5
    <3>2. CASE Place[d] \in 1..8 /\ d \in Organs  BY <2>5, <3>2
    <3>3. CASE ~(Place[d] \in 1..8 /\ d \in Organs)
      <4>1. ready[1].at = 10 /\ d \in Organs /\ Place[d] = 9
        BY <1>1, <2>5, <3>1, <3>3, Placed
      <4>2. d = "pqc_lungs"  BY <4>1, Placed
      <4>3. PICK e \in DependsOn["pqc_lungs"] : ~Fit(e)
        BY <1>1, <2>5, <4>1, <4>2 DEF LungsFollow
      <4> QED  BY <4>3, Placed
    <3> QED  BY <3>2, <3>3
  <2>6. CASE SkipOrgan(o) /\ ready[1].at > 8
    <3>1. PICK d \in DependsOn[o] : ~Fit(d)  BY <2>6, SkipFacts DEF DependenciesSatisfied
    <3>2. PICK p \in Organs : Place[p] \in 1..8 /\ ~Fit(p)  BY <2>5, <2>6, <3>1
    <3>3. Place[p] < ready[1].at  BY <1>1, <2>6, <3>2
    <3> QED  BY <2>1, <2>4, <3>2, <3>3
  <2>7. CASE SkipOrgan(o) /\ ~(ready[1].at > 8)  BY <1>1, <2>3, <2>7, SkipFacts
  <2>8. CASE WriteOrgan(o) /\ ~ready[1].anyCritical
    <3>1. Finding(o) = "throws"  BY <2>8, WriteMore
    <3>2. o \in Checked  BY <3>1 DEF Finding
    <3>3. statuses'[o] = "critical"  BY <2>8, <3>1, WriteMore DEF StatusOf
    <3> QED  BY <1>1, <2>3, <3>2, <3>3, Placed
  <2> QED  BY <2>2, <2>6, <2>7, <2>8 DEF Advances
<1> QED  BY <1>2, <1>3

LEMMA EarlyStep ==
    ASSUME TypeOK, OrganismInv, LockInv, Moves PROVE EarlyCaused'
<1> USE DEF OrganismInv, LockInv
<1>1. ASSUME NEW o \in Organs, Advances(o) PROVE EarlyCaused'
  <2> SUFFICES ASSUME NEW k \in 1..Len(ready'), Early(k)' PROVE Caused(k)'
    BY DEF EarlyCaused
  <2>1. /\ Len(ready) \in Nat \ {0} /\ k \in 1..Len(ready) /\ ready[1].at \in 1..11
        /\ ready'[1].at = ready[1].at + 1
        /\ \A i \in 2..Len(ready) : ready'[i] = ready[i]
    BY <1>1, AdvanceFacts
  <2>2. Early(k)
    <3>1. CASE k = 1  BY <2>1, <3>1 DEF Early, RedisAt
    <3>2. CASE k # 1  BY <2>1, <3>2 DEF Early
    <3> QED  BY <3>1, <3>2
  <2> QED  BY <1>1, <2>1, <2>2, CausedOn DEF EarlyCaused
<1>2. ASSUME NEW o \in Organs, CheckOrgan(o) PROVE EarlyCaused'
  <2>1. /\ UNCHANGED statuses /\ 1 \in 1..Len(ready) /\ 2..Len(ready) \subseteq 1..Len(ready)
        /\ ready'[Len(ready)].at = ready[1].at
        /\ ready'[Len(ready)].anyCritical = ready[1].anyCritical
        /\ ready'[Len(ready)].result # NoResult /\ ready[1].result = NoResult
    BY <1>2, MoveFacts, MoveMore, FindingTyped DEF NoResult
  <2>2. ASSUME NEW k \in 1..Len(ready'), Early(k)' PROVE Caused(k)'
    <3>1. CASE k = Len(ready)
      <4>1. Early(1)  BY <2>1, <2>2, <3>1 DEF Early
      <4> QED  BY <2>1, <3>1, <4>1 DEF EarlyCaused, Caused, Critical
    <3>2. CASE k # Len(ready)
      <4>1. k + 1 \in 1..Len(ready) /\ ready'[k] = ready[k + 1]  BY <1>2, <2>1, <3>2, Moved
      <4>2. Early(k + 1)  BY <2>2, <4>1 DEF Early
      <4> QED  BY <2>1, <4>1, <4>2 DEF EarlyCaused, Caused, Critical
    <3> QED  BY <3>1, <3>2
  <2> QED  BY <2>2 DEF EarlyCaused
<1>3. CASE Leaves
  <2>1. UNCHANGED statuses /\ 2..Len(ready) \subseteq 1..Len(ready)  BY <1>3, DropFacts
  <2>2. ASSUME NEW k \in 1..Len(ready'), Early(k)' PROVE Caused(k)'
    <3>1. k + 1 \in 1..Len(ready) /\ ready'[k] = ready[k + 1]  BY <1>3, <2>1, Left
    <3>2. Early(k + 1)  BY <2>2, <3>1 DEF Early
    <3> QED  BY <2>1, <3>1, <3>2 DEF EarlyCaused, Caused, Critical
  <2> QED  BY <2>2 DEF EarlyCaused
<1>4. CASE PulseTimer
  <2>1. Len(ready') = 1 /\ ~ready'[1].anyCritical  BY <1>4, StartFacts, StartMore
  <2> QED  BY <2>1 DEF EarlyCaused, Caused
<1>5. ASSUME NEW n \in 1..MaxWaiting, PingReplies(n) PROVE EarlyCaused'
  <2>1. Finding("rate_limit_nerves") # NoResult  BY FindingTyped DEF NoResult
  <2>2. \A k \in 1..Len(ready') : ~Early(k)'
    BY <1>5, <2>1, ReplyFacts DEF Early, RedisAt
  <2> QED  BY <2>2 DEF EarlyCaused
<1>6. ASSUME NEW o \in Checked, Breaks(o) \/ Recovers(o) PROVE EarlyCaused'
  BY <1>6, OutsideFacts DEF EarlyCaused
<1> QED  BY <1>1, <1>2, <1>3, <1>4, <1>5, <1>6, StepKinds DEF Advances

LEMMA WaitingStep ==
    ASSUME TypeOK, OrganismInv, LockInv, Moves PROVE WaitingCaused'
<1> USE DEF OrganismInv, LockInv
<1>1. ASSUME NEW o \in Organs, Advances(o) PROVE WaitingCaused'
  <2> SUFFICES ASSUME waiting # <<>>, waiting[Len(waiting)],
                      \A k \in 1..Len(ready') : ~Early(k)'
               PROVE  \E j \in 1..7 : Critical(Order[j])'
    BY <1>1, AdvanceFacts DEF WaitingCaused
  <2>1. /\ Len(ready) \in Nat \ {0} /\ Len(ready') = Len(ready) /\ 1 \in 1..Len(ready)
        /\ ready[1].at \in 1..11 /\ ready'[1].at = ready[1].at + 1
        /\ ready'[1].result = NoResult
        /\ \A i \in 2..Len(ready) : ready'[i] = ready[i]
    BY <1>1, AdvanceFacts
  <2>2. ready[1].at + 1 > 8  BY <2>1 DEF Early, RedisAt
  <2>3. ASSUME NEW j \in 1..7, Critical(Order[j]) PROVE Critical(Order[j])'
    <3>1. Order[j] \in Organs /\ Place[Order[j]] = j  BY Placed
    <3> QED  BY <1>1, <2>1, <2>2, <2>3, <3>1, OthersKeep DEF Critical
  <2>4. CASE Early(1)
    <3>1. ready[1].at = 8 /\ ready[1].result = NoResult  BY <2>1, <2>2, <2>4 DEF Early, RedisAt
    <3>2. SkipOrgan(o)  BY <1>1, <3>1, WriteFacts DEF Advances
    <3>3. o = "rate_limit_nerves"  BY <1>1, <3>1, AdvanceFacts, OrderFacts
    <3>4. ~Fit("audit_immune")  BY <3>2, <3>3, SkipFacts, Placed DEF DependenciesSatisfied
    <3>5. Written(Order[3])  BY <2>1, <3>1 DEF WrittenInOrder
    <3>6. statuses["audit_immune"] \in {"pending", "vital", "critical"}
      BY DEF TypeOK, Organs
    <3>7. Critical(Order[3])  BY <3>4, <3>5, <3>6, Placed DEF Written, Fit, Critical
    <3> QED  BY <2>3, <3>7
  <2>5. CASE ~Early(1)
    <3>1. \A k \in 2..Len(ready) : ~Early(k)  BY <2>1 DEF Early
    <3>2. \A k \in 1..Len(ready) : k = 1 \/ k \in 2..Len(ready)  BY <2>1
    <3> QED  BY <2>3, <2>5, <3>1, <3>2 DEF WaitingCaused
  <2> QED  BY <2>4, <2>5
<1>2. ASSUME NEW o \in Organs, CheckOrgan(o) PROVE WaitingCaused'
  <2> SUFFICES ASSUME waiting # <<>>, waiting[Len(waiting)],
                      \A k \in 1..Len(ready') : ~Early(k)'
               PROVE  \E j \in 1..7 : Critical(Order[j])
    BY <1>2, MoveFacts DEF WaitingCaused, Critical
  <2>1. /\ Len(ready) \in Nat \ {0} /\ Len(ready') = Len(ready)
        /\ ready[1].at \in 1..11 /\ o = Order[ready[1].at]
        /\ ready'[Len(ready)].at = ready[1].at
        /\ ready'[Len(ready)].result # NoResult
        /\ \A k \in 1..(Len(ready) - 1) : ready'[k] = ready[k + 1]
        /\ ~(pings /\ o = "rate_limit_nerves")
    BY <1>2, MoveFacts, FindingTyped DEF NoResult
  <2>2. pings  BY DEF TogetherAfterRedis
  <2>3. ready[1].at # 8  BY <2>1, <2>2, OrderFacts
  <2>4. ~Early(1)
    <3>1. ~Early(Len(ready))'  BY <2>1
    <3> QED  BY <2>1, <2>3, <3>1 DEF Early, RedisAt
  <2>5. ASSUME NEW k \in 2..Len(ready) PROVE ~Early(k)
    <3>1. k - 1 \in 1..Len(ready') /\ k - 1 \in 1..(Len(ready) - 1) /\ (k - 1) + 1 = k
      BY <2>1
    <3>2. ~Early(k - 1)' /\ ready'[k - 1] = ready[k]  BY <2>1, <3>1
    <3> QED  BY <3>2 DEF Early
  <2>6. \A k \in 1..Len(ready) : k = 1 \/ k \in 2..Len(ready)  BY <2>1
  <2> QED  BY <2>4, <2>5, <2>6 DEF WaitingCaused
<1>3. CASE EndPulse \/ EndPulseUnrecorded
  <2>1. Leaves /\ ready[1].at = 12 /\ waiting' = waiting  BY <1>3, EndMore
  <2>2. /\ Len(ready) \in Nat \ {0} /\ Len(ready') = Len(ready) - 1 /\ UNCHANGED statuses
        /\ \A k \in 1..(Len(ready) - 1) : ready'[k] = ready[k + 1]
    BY <2>1, DropFacts
  <2>3. ~Early(1)  BY <2>1 DEF Early, RedisAt
  <2>4. ASSUME NEW k \in 2..Len(ready), \A i \in 1..Len(ready') : ~Early(i)' PROVE ~Early(k)
    <3>1. k - 1 \in 1..Len(ready') /\ ready'[k - 1] = ready[k]  BY <2>2, Shifted
    <3> QED  BY <2>4, <3>1 DEF Early
  <2>5. \A k \in 1..Len(ready) : k = 1 \/ k \in 2..Len(ready)  BY <2>2
  <2> QED  BY <2>1, <2>2, <2>3, <2>4, <2>5 DEF WaitingCaused, Critical
<1>4. ASSUME NEW o \in Organs, AskRedis(o) PROVE WaitingCaused'
  <2>1. /\ Leaves /\ ready[1].at = 8 /\ ready[1].result = NoResult
        /\ waiting' # <<>> /\ waiting'[Len(waiting')] = ready[1].anyCritical
    BY <1>4, AskMore
  <2>2. UNCHANGED statuses /\ 1 \in 1..Len(ready)  BY <2>1, DropFacts
  <2>3. Caused(1)  BY <2>1, <2>2 DEF EarlyCaused, Early, RedisAt
  <2>4. ready[1].anyCritical => \E j \in 1..7 : Critical(Order[j])
    BY <2>1, <2>3 DEF Caused
  <2> QED  BY <2>1, <2>2, <2>4 DEF WaitingCaused, Critical
<1>5. CASE PulseTimer
  <2>1. Len(ready') = 1 /\ ready'[1].at = 1  BY <1>5, StartFacts
  <2>2. 1 \in 1..Len(ready') /\ Early(1)'  BY <2>1 DEF Early, RedisAt
  <2> QED  BY <2>2 DEF WaitingCaused
<1>6. ASSUME NEW n \in 1..MaxWaiting, PingReplies(n) PROVE WaitingCaused'
  <2>1. Len(ready) = 0 /\ waiting # <<>> /\ UNCHANGED statuses  BY <1>6, ReplyFacts
  <2>2. waiting' # <<>> => waiting'[Len(waiting')] = waiting[Len(waiting)]
    BY <1>6, ReplyMore
  <2>3. waiting[Len(waiting)] => \E j \in 1..7 : Critical(Order[j])
    BY <2>1 DEF WaitingCaused
  <2> QED  BY <2>1, <2>2, <2>3 DEF WaitingCaused, Critical
<1>7. ASSUME NEW o \in Checked, Breaks(o) \/ Recovers(o) PROVE WaitingCaused'
  <2>1. Len(ready) = 0 /\ UNCHANGED <<statuses, waiting>>  BY <1>7, OutsideFacts
  <2> QED  BY <2>1 DEF WaitingCaused, Critical
<1> QED  BY <1>1, <1>2, <1>3, <1>4, <1>5, <1>6, <1>7, LockKinds

\* The pulse that is to end last stays the last, and does not end before another.
LEMMA LastOn ==
    ASSUME TypeOK, OrganismInv, LockInv, NEW o \in Organs, Advances(o),
           NEW k \in 1..Len(ready), Last(k)
    PROVE  Last(k)'
<1> USE DEF OrganismInv, LockInv
<1>1. /\ Len(ready) \in Nat \ {0} /\ Len(ready') = Len(ready) /\ 1 \in 1..Len(ready)
      /\ ready[1].at \in 1..11 /\ ready'[1].at = ready[1].at + 1
      /\ ready'[1].result = NoResult /\ o = Order[ready[1].at]
      /\ \A i \in 2..Len(ready) : ready'[i] = ready[i]
  BY AdvanceFacts
<1>2. Caused(k)'  BY CausedOn DEF Last
<1>3. ASSUME NEW j \in 1..Len(ready), j # k PROVE Ahead(j, k)'
  <2>1. Ahead(j, k)  BY <1>3 DEF Last
  <2>2. CASE j # 1 /\ k # 1
    <3>1. ready'[j] = ready[j] /\ ready'[k] = ready[k]  BY <1>1, <2>2
    <3> QED  BY <2>1, <3>1 DEF Ahead
  <2>3. CASE j = 1
    <3>1. k \in 2..Len(ready)  BY <1>1, <1>3, <2>3
    <3>2. ready'[k] = ready[k] /\ ready[k].at \in 8..11  BY <1>1, <3>1, Behind8
    <3> QED  BY <1>1, <2>1, <2>3, <3>2 DEF Ahead
  <2>4. CASE k = 1
    <3>1. j \in 2..Len(ready) /\ ~(j < k)  BY <1>1, <1>3, <2>4
    <3>2. /\ ready'[j] = ready[j] /\ ready[j].at \in 8..11 /\ ready[j].result # NoResult
          /\ ready[1].at >= 8 /\ (ready[1].at = 8 => ready[1].result # NoResult)
      BY <1>1, <3>1, Behind8
    <3>3. ready[j].at > ready[1].at
      <4>1. CASE WriteOrgan(o)  BY <2>1, <2>4, <3>1, <4>1, WriteFacts DEF Ahead
      <4>2. CASE SkipOrgan(o)
        <5>1. ready[1].result = NoResult /\ ~DependenciesSatisfied(o)  BY <4>2, SkipFacts
        <5>2. ready[1].at > 8  BY <1>1, <3>2, <5>1
        <5>3. ready[j].at # ready[1].at
          BY <1>1, <3>2, <5>1, <5>2 DEF CheckedFit, DependenciesSatisfied
        <5> QED  BY <1>1, <2>1, <2>4, <3>2, <5>3 DEF Ahead
      <4> QED  BY <4>1, <4>2 DEF Advances
    <3>4. ready'[j].at >= ready'[1].at  BY <1>1, <3>2, <3>3
    <3> QED  BY <1>1, <2>4, <3>1, <3>2, <3>4 DEF Ahead
  <2> QED  BY <2>2, <2>3, <2>4
<1> QED  BY <1>1, <1>2, <1>3 DEF Last

\* What is true of Ahead when both pulses keep their place, order and result.
LEMMA AheadKept ==
    ASSUME NEW j, NEW k, NEW i \in Int, NEW m \in Int, Ahead(i, m),
           ready'[j] = ready[i], ready'[k] = ready[m], (j < k) = (i < m)
    PROVE  Ahead(j, k)'
BY DEF Ahead

LEMMA LastStep ==
    ASSUME TypeOK, OrganismInv, LockInv, Moves PROVE LastCaused'
<1> USE DEF OrganismInv, LockInv
<1>1. ASSUME NEW o \in Organs, Advances(o) PROVE LastCaused'
  <2>1. waiting' = waiting /\ Len(ready') = Len(ready) /\ ready # <<>>
    BY <1>1, AdvanceFacts
  <2> QED  BY <1>1, <2>1, LastOn DEF LastCaused
<1>2. ASSUME NEW o \in Organs, CheckOrgan(o) PROVE LastCaused'
  <2> SUFFICES ASSUME waiting = <<>> PROVE \E k \in 1..Len(ready') : Last(k)'
    BY <1>2, MoveFacts DEF LastCaused
  <2>1. /\ Len(ready) \in Nat \ {0} /\ Len(ready') = Len(ready) /\ UNCHANGED statuses
        /\ ready'[Len(ready)].at = ready[1].at
        /\ ready'[Len(ready)].anyCritical = ready[1].anyCritical
        /\ ready'[Len(ready)].result # NoResult /\ ready[1].result = NoResult
        /\ \A i \in 1..(Len(ready) - 1) : ready'[i] = ready[i + 1]
    BY <1>2, MoveFacts, MoveMore, FindingTyped DEF NoResult
  <2>2. PICK k \in 1..Len(ready) : Last(k)  BY <2>1 DEF LastCaused
  <2>3. CASE k = 1
    <3>1. Caused(Len(ready))'  BY <2>1, <2>2, <2>3 DEF Last, Caused, Critical
    <3>2. ASSUME NEW j \in 1..Len(ready), j # Len(ready) PROVE Ahead(j, Len(ready))'
      <4>1. /\ j \in 1..(Len(ready) - 1) /\ j < Len(ready) /\ j + 1 \in 2..Len(ready)
            /\ j + 1 # 1 /\ ~(j + 1 < 1) /\ j + 1 \in 1..Len(ready)
        BY <2>1, <3>2
      <4>2. Ahead(j + 1, 1)  BY <2>2, <2>3, <4>1 DEF Last
      <4>3. ready'[j] = ready[j + 1] /\ ready[j + 1].result # NoResult
        BY <2>1, <4>1 DEF TailChecked
      <4> QED  BY <2>1, <4>1, <4>2, <4>3 DEF Ahead
    <3>3. Len(ready) \in 1..Len(ready')  BY <2>1
    <3> QED  BY <2>1, <3>1, <3>2, <3>3 DEF Last
  <2>4. CASE k # 1
    <3>1. PICK m \in 1..(Len(ready) - 1) : m + 1 = k
      <4>1. k - 1 \in 1..(Len(ready) - 1) /\ (k - 1) + 1 = k  BY <2>1, <2>4
      <4> QED  BY <4>1
    <3>2. ready'[m] = ready[k] /\ m \in 1..Len(ready') /\ m < Len(ready)  BY <2>1, <3>1
    <3>3. Caused(m)'  BY <2>1, <2>2, <3>2 DEF Last, Caused, Critical
    <3>4. ASSUME NEW j \in 1..Len(ready), j # m PROVE Ahead(j, m)'
      <4>1. CASE j = Len(ready)
        <5>1. Ahead(1, k) /\ 1 < k  BY <2>1, <2>2, <2>4 DEF Last
        <5>2. ready[1].at > ready[k].at  BY <2>1, <5>1 DEF Ahead
        <5> QED  BY <2>1, <3>2, <4>1, <5>2 DEF Ahead
      <4>2. CASE j # Len(ready)
        <5>1. /\ j \in 1..(Len(ready) - 1) /\ j + 1 \in 1..Len(ready) /\ j + 1 # k
              /\ (j < m) = (j + 1 < k)
          BY <2>1, <3>1, <3>4, <4>2
        <5>2. Ahead(j + 1, k)  BY <2>2, <5>1 DEF Last
        <5>3. ready'[j] = ready[j + 1]  BY <2>1, <5>1
        <5> QED  BY <3>2, <5>1, <5>2, <5>3, AheadKept
      <4> QED  BY <4>1, <4>2
    <3> QED  BY <2>1, <3>2, <3>3, <3>4 DEF Last
  <2> QED  BY <2>3, <2>4
<1>3. CASE EndPulse \/ EndPulseUnrecorded
  <2> SUFFICES ASSUME waiting = <<>>, ready' # <<>> PROVE \E k \in 1..Len(ready') : Last(k)'
    BY <1>3, EndMore DEF LastCaused
  <2>1. Leaves /\ ready[1].at = 12  BY <1>3, EndMore
  <2>2. /\ Len(ready) \in Nat \ {0} /\ Len(ready') = Len(ready) - 1 /\ UNCHANGED statuses
        /\ \A i \in 1..(Len(ready) - 1) : ready'[i] = ready[i + 1]
        /\ ready # <<>> /\ 1 \in 1..Len(ready)
    BY <2>1, DropFacts DEF TypeOK
  <2>3. PICK k \in 1..Len(ready) : Last(k)  BY <2>2 DEF LastCaused
  <2>4. 2 \in 2..Len(ready) /\ 2 \in 1..Len(ready)
    <3>1. ready' \in Seq(PulseType)  BY <2>1, <2>2, ReadyType, HeadDropped
      DEF Leaves, EndPulse, EndPulseUnrecorded, PulseEnds, AskRedis
    <3>2. Len(ready') # 0  BY <3>1
    <3> QED  BY <2>2, <3>2
  <2>5. k # 1
    <3>1. ready[2].at \in 8..11  BY <2>2, <2>4, Behind8
    <3>2. ASSUME k = 1 PROVE FALSE
      <4>1. Ahead(2, 1)  BY <2>3, <2>4, <3>2 DEF Last
      <4> QED  BY <2>1, <3>1, <4>1 DEF Ahead
    <3> QED  BY <3>2
  <2>6. PICK m \in 1..(Len(ready) - 1) : m + 1 = k
    <3>1. k - 1 \in 1..(Len(ready) - 1) /\ (k - 1) + 1 = k  BY <2>2, <2>5
    <3> QED  BY <3>1
  <2>7. ready'[m] = ready[k] /\ m \in 1..Len(ready')  BY <2>2, <2>6
  <2>8. Caused(m)'  BY <2>2, <2>3, <2>7 DEF Last, Caused, Critical
  <2>9. ASSUME NEW j \in 1..Len(ready'), j # m PROVE Ahead(j, m)'
    <3>1. /\ j \in 1..(Len(ready) - 1) /\ j + 1 \in 1..Len(ready) /\ j + 1 # k
          /\ (j < m) = (j + 1 < k)
      BY <2>2, <2>6, <2>9
    <3>2. Ahead(j + 1, k)  BY <2>3, <3>1 DEF Last
    <3>3. ready'[j] = ready[j + 1]  BY <2>2, <3>1
    <3> QED  BY <2>7, <3>1, <3>2, <3>3, AheadKept
  <2> QED  BY <2>7, <2>8, <2>9 DEF Last
<1>4. ASSUME NEW o \in Organs, AskRedis(o) PROVE LastCaused'
  BY <1>4, AskMore DEF LastCaused
<1>5. CASE PulseTimer
  <2>1. Len(ready') = 1 /\ ~ready'[1].anyCritical  BY <1>5, StartFacts, StartMore
  <2>2. 1 \in 1..Len(ready') /\ Last(1)'  BY <2>1 DEF Last, Caused
  <2> QED  BY <2>2 DEF LastCaused
<1>6. ASSUME NEW n \in 1..MaxWaiting, PingReplies(n) PROVE LastCaused'
  <2> SUFFICES ASSUME waiting' = <<>> PROVE \E k \in 1..Len(ready') : Last(k)'
    BY DEF LastCaused
  <2>1. /\ n \in Nat \ {0} /\ Len(ready) = 0 /\ Len(ready') = n /\ waiting # <<>>
        /\ n = Len(waiting) /\ UNCHANGED statuses
        /\ \A k \in 1..n : ready'[k].at = 8 /\ ready'[k].anyCritical = waiting[k]
    BY <1>6, ReplyFacts, ReplyMore
  <2>2. \A k \in 1..n : ready'[k].result # NoResult
    BY <1>6, ReplyFacts, FindingTyped DEF NoResult
  <2>3. n \in 1..n  BY <2>1
  <2>4. Caused(n)'
    <3>1. waiting[n] => \E j \in 1..7 : Critical(Order[j])  BY <2>1 DEF WaitingCaused
    <3> QED  BY <2>1, <2>3, <3>1 DEF Caused, Critical
  <2>5. \A j \in 1..n : j # n => Ahead(j, n)'  BY <2>1, <2>2, <2>3 DEF Ahead
  <2> QED  BY <2>1, <2>3, <2>4, <2>5 DEF Last
<1>7. ASSUME NEW o \in Checked, Breaks(o) \/ Recovers(o) PROVE LastCaused'
  <2>1. ready = <<>> /\ ready' = ready  BY <1>7 DEF Breaks, Recovers, Turn, pulseVars
  <2> QED  BY <2>1 DEF LastCaused
<1> QED  BY <1>1, <1>2, <1>3, <1>4, <1>5, <1>6, <1>7, LockKinds

LEMMA LockStep == TypeOK /\ OrganismInv /\ LockInv /\ [Next]_vars => LockInv'
<1> SUFFICES ASSUME TypeOK, OrganismInv, LockInv, [Next]_vars PROVE LockInv'  OBVIOUS
<1>1. CASE Moves
  BY <1>1, TailStep, WrittenStep, NervesStep, LungsStep, CheckedStep, EarlyStep, WaitingStep,
     LastStep
  DEF OrganismInv, LockInv
<1>2. CASE PulseFails \/ UNCHANGED vars
  <2>1. /\ ready' = ready /\ waiting' = waiting /\ unset' = unset
        /\ life' \in {life, "ended"} /\ health' = health /\ statuses' = statuses
    BY <1>2, CatchFacts DEF vars, bodyVars, pulseVars
  <2>2. \A o : Finding(o)' = Finding(o)  BY <2>1, FindingSame
  <2> QED
    BY <2>1, <2>2 DEF LockInv, TailChecked, WrittenInOrder, NervesAgree, LungsFollow,
       CheckedFit, EarlyCaused, WaitingCaused, LastCaused, Written, Critical, StatusOf, Fit,
       Early, Caused, Last, Ahead
<1> QED  BY <1>1, <1>2 DEF Moves

LEMMA LockInit == Init => LockInv
<1> SUFFICES ASSUME Init PROVE LockInv  OBVIOUS
<1>1. ready = << Pulse(1, FALSE, NoResult) >>  BY Zenon DEF Init
<1>2. Len(ready) = 1 /\ ready[1] = Pulse(1, FALSE, NoResult)  BY <1>1
<1>3. ASSUME NEW a PROVE Pulse(1, a, NoResult).anyCritical = a
                         /\ Pulse(1, a, NoResult).at = 1
  BY PulseFields
<1>4. ready[1].anyCritical = FALSE  BY <1>2, <1>3, Zenon
<1>5. ready[1].at = 1  BY <1>2, <1>3
<1>6. waiting = <<>> /\ life = "awakening"  BY DEF Init
<1>7. TailChecked
  <2>1. 2..1 = {}  OBVIOUS
  <2> QED  BY <1>2, <2>1 DEF TailChecked
<1>8. \A k \in 1..Len(ready) : k = 1  BY <1>2
<1>9. \A k \in 1..Len(ready) : ready[k].at = 1  BY <1>5, <1>8
<1>10. WrittenInOrder
  <2>1. \A k \in 1..Len(ready) : \A j \in 1..11 : ~(j < ready[k].at)  BY <1>9
  <2> QED  BY <2>1, <1>6 DEF WrittenInOrder
<1>11. NervesAgree  BY <1>2 DEF NervesAgree
<1>12. LungsFollow
  <2>1. \A k \in 1..Len(ready) : ~(ready[k].at > 9)  BY <1>9
  <2> QED  BY <2>1 DEF LungsFollow
<1>13. CheckedFit
  <2>1. \A k \in 1..Len(ready) : ~(ready[k].at > 8)  BY <1>9
  <2> QED  BY <2>1 DEF CheckedFit
<1>14. \A k \in 1..Len(ready) : Caused(k)
  <2>1. \A k \in 1..Len(ready) : ready[k].anyCritical = FALSE  BY <1>4, <1>8
  <2> QED  BY <2>1, Zenon DEF Caused
<1>15. EarlyCaused  BY <1>14 DEF EarlyCaused
<1>16. WaitingCaused  BY <1>6 DEF WaitingCaused
<1>17. LastCaused
  <2>1. 1 \in 1..Len(ready)  BY <1>2
  <2>2. Last(1)  BY <1>8, <1>14, <2>1, Zenon DEF Last
  <2> QED  BY <2>1, <2>2, Zenon DEF LastCaused
<1> QED  BY <1>7, <1>10, <1>11, <1>12, <1>13, <1>15, <1>16, <1>17 DEF LockInv

\* A pulse that ends as the last of all leaves lockdown as the organs are, and its
\* catch enters it whatever they are.
LEMMA LockdownStep ==
    ASSUME TypeOK, OrganismInv, LockInv, LockdownMatchesOrgans, [Next]_vars
    PROVE  LockdownMatchesOrgans'
<1> DEFINE AnyCritical == \E o \in Organs : statuses[o] = "critical"
<1> SUFFICES ASSUME life' = "awake", ready' = <<>>, waiting' = <<>>
             PROVE  /\ AnyCritical' => lockdown'
                    /\ lockdown' => AnyCritical' \/ pulseFailed'
  BY DEF LockdownMatchesOrgans
<1>1. ASSUME NEW o \in Organs, Advances(o) \/ CheckOrgan(o) PROVE FALSE
  <2>1. Len(ready') # 0  BY <1>1, AdvanceFacts, MoveFacts DEF OrganismInv
  <2> QED  BY <2>1
<1>2. ASSUME NEW o \in Organs, AskRedis(o) PROVE FALSE  BY <1>2, AskMore
<1>3. CASE PulseTimer
  <2>1. Len(ready') # 0  BY <1>3, StartFacts
  <2> QED  BY <2>1
<1>4. ASSUME NEW n \in 1..MaxWaiting, PingReplies(n) PROVE FALSE
  <2>1. Len(ready') # 0  BY <1>4, ReplyFacts
  <2> QED  BY <2>1
<1>5. CASE PulseFails  BY <1>5, CatchFacts
<1>6. ASSUME NEW o \in Checked, Breaks(o) \/ Recovers(o)
      PROVE  /\ AnyCritical' => lockdown'
             /\ lockdown' => AnyCritical' \/ pulseFailed'
  BY <1>6 DEF Breaks, Recovers, bodyVars, pulseVars, LockdownMatchesOrgans
<1>7. CASE EndPulse \/ EndPulseUnrecorded
  <2>1. /\ Leaves /\ ready[1].at = 12 /\ waiting = <<>>
        /\ lockdown' = ready[1].anyCritical
    BY <1>7, EndMore
  <2>2. /\ Len(ready) = 1 /\ ready # <<>> /\ UNCHANGED statuses
    BY <2>1, DropFacts DEF TypeOK
  <2>3. Caused(1)  BY <2>1, <2>2 DEF LockInv, LastCaused, Last
  <2>4. CASE lockdown'
    <3>1. PICK j \in 1..8 : Critical(Order[j])  BY <2>1, <2>3, <2>4 DEF Caused
    <3> QED  BY <2>2, <2>4, <3>1, Placed DEF Critical
  <2>5. CASE ~lockdown'
    <3>1. \A o \in Organs : statuses'[o] = "vital"  BY <1>7, <2>5, CleanEnd
    <3> QED  BY <2>5, <3>1
  <2> QED  BY <2>4, <2>5
<1>8. CASE UNCHANGED vars
  BY <1>8 DEF vars, bodyVars, pulseVars, LockdownMatchesOrgans
<1> QED  BY <1>1, <1>2, <1>3, <1>4, <1>5, <1>6, <1>7, <1>8, LockKinds DEF Moves

\* With no pulse under way, lockdown is on whenever an organ is critical, and without
\* one only for a pulse that could not be recorded, however many pulses overlapped.
THEOREM LockdownIsTrue == Spec => []LockdownMatchesOrgans
<1>1. Init => LockdownMatchesOrgans  BY DEF Init, LockdownMatchesOrgans
<1> QED  BY <1>1, LockInit, LockStep, LockdownStep, InvCorrect, PTL DEF Spec
=============================================================================
