---------------------------- MODULE Gateway_proofs ----------------------------
(***************************************************************************)
(* Proofs about Console and Gateway, for every number of sessions,         *)
(* challenges and requests.                                                *)
(***************************************************************************)
EXTENDS Gateway, TLAPS, FiniteSetTheorems

-----------------------------------------------------------------------------
(***************************************************************************)
(* Types                                                                   *)
(***************************************************************************)
LEMMA ConsoleTypeInit == ConsoleInit => ConsoleTypeOK
<1> SUFFICES ASSUME ConsoleInit PROVE ConsoleTypeOK
  OBVIOUS
<1>1. tries \in [Tokens -> 0..MfaLimit]
  BY MfaAssumption DEF ConsoleInit
<1>2. provenBy \in [Tokens -> SUBSET Challenges]
  BY DEF ConsoleInit
<1>3. vital \in BOOLEAN
  BY DEF ConsoleInit
<1> QED  BY <1>1, <1>2, <1>3 DEF ConsoleInit, ConsoleTypeOK

LEMMA ConsoleTypeStep == ConsoleTypeOK /\ [ConsoleNext]_consoleVars => ConsoleTypeOK'
<1> SUFFICES ASSUME ConsoleTypeOK, [ConsoleNext]_consoleVars PROVE ConsoleTypeOK'
  OBVIOUS
<1> USE DEF ConsoleTypeOK, sessionVars, webauthnVars
<1>1. ASSUME NEW t \in Tokens, Login(t) PROVE ConsoleTypeOK'
  BY <1>1 DEF Login
<1>2. ASSUME NEW t \in Tokens, LoginSucceeds(t) PROVE ConsoleTypeOK'
  BY <1>2 DEF LoginSucceeds
<1>3. ASSUME NEW t \in Tokens, LoginFails(t) PROVE ConsoleTypeOK'
  BY <1>3 DEF LoginFails
<1>4. ASSUME NEW t \in Tokens, WindowElapses(t) PROVE ConsoleTypeOK'
  BY <1>4 DEF WindowElapses
<1>5. ASSUME NEW t \in Tokens, NEW right \in BOOLEAN, VerifyMfa(t, right)
      PROVE  ConsoleTypeOK'
  <2>1. over' \subseteq Timed \cup {Window(u) : u \in Tokens}
    BY <1>5 DEF VerifyMfa
  <2>2. factors' \in [Tokens -> SUBSET {"mfa", "webauthn", "zk"}]
    BY <1>5 DEF VerifyMfa
  <2>3. tries' \in [Tokens -> 0..MfaLimit]
    <3>1. CASE right
      BY <1>5, <3>1, MfaAssumption DEF VerifyMfa
    <3>2. CASE ~right
      <4> DEFINE n == (IF Window(t) \in over THEN 0 ELSE tries[t]) + 1
      <4>1. n \in 0..MfaLimit
        BY <1>5, MfaAssumption DEF VerifyMfa, TriesLeft
      <4>2. tries' = [tries EXCEPT ![t] = n]
        BY <1>5, <3>2 DEF VerifyMfa
      <4> QED  BY <4>1, <4>2
    <3> QED  BY <3>1, <3>2
  <2> QED  BY <1>5, <2>1, <2>2, <2>3 DEF VerifyMfa
<1>6. ASSUME NEW c \in Challenges, BeginWebAuthn(c) PROVE ConsoleTypeOK'
  BY <1>6 DEF BeginWebAuthn
<1>7. ASSUME NEW t \in Tokens, NEW c \in Challenges, NEW genuine \in BOOLEAN,
             VerifyWebAuthn(t, c, genuine)
      PROVE  ConsoleTypeOK'
  <2>1. device' \in Nat
    BY <1>7 DEF VerifyWebAuthn
  <2>2. answers' \subseteq [challenge : Challenges, token : Tokens, genuine : BOOLEAN,
                            counter : Nat, stored : Nat]
    BY <1>7, <2>1 DEF VerifyWebAuthn
  <2> QED  BY <1>7, <2>1, <2>2 DEF VerifyWebAuthn, Taken
<1>8. ASSUME NEW a \in answers, WebAuthnAnswers(a) PROVE ConsoleTypeOK'
  <2>1. a.challenge \in Challenges /\ a.token \in Tokens /\ a.counter \in Nat
    OBVIOUS
  <2>2. provenBy' \in [Tokens -> SUBSET Challenges]
    BY <1>8, <2>1 DEF WebAuthnAnswers
  <2>3. factors' \in [Tokens -> SUBSET {"mfa", "webauthn", "zk"}] /\ counter' \in Nat
    BY <1>8, <2>1 DEF WebAuthnAnswers
  <2> QED  BY <1>8, <2>1, <2>2, <2>3 DEF WebAuthnAnswers
<1>9. ASSUME NEW z \in ZkChallenges, IssueZkChallenge(z) PROVE ConsoleTypeOK'
  BY <1>9 DEF IssueZkChallenge
<1>10. ASSUME NEW t \in Tokens, NEW z \in ZkChallenges, VerifyZkProof(t, z)
       PROVE  ConsoleTypeOK'
  BY <1>10 DEF VerifyZkProof
<1>11. ASSUME NEW x \in Timed, Elapses(x) PROVE ConsoleTypeOK'
  BY <1>11 DEF Elapses
<1>12. CASE OrganismPulse
  BY <1>12 DEF OrganismPulse
<1>13. CASE UNCHANGED consoleVars
  BY <1>13 DEF consoleVars
<1> QED
  BY <1>1, <1>2, <1>3, <1>4, <1>5, <1>6, <1>7, <1>8, <1>9, <1>10, <1>11, <1>12, <1>13
  DEF ConsoleNext

-----------------------------------------------------------------------------
(***************************************************************************)
(* What the console keeps true                                             *)
(***************************************************************************)
\* A challenge that is being checked, or has verified a session, is spent, and it is
\* not both.
ChallengeInv ==
    /\ ChallengeProvesOne
    /\ \A a \in answers : challenge[a.challenge] = "used"
    /\ \A t \in Tokens : \A c \in provenBy[t] : challenge[c] = "used"

\* Where WebAuthn is required, the flag is there only with an assertion.
FactorsInv ==
    "webauthn" \in required =>
        \A t \in Tokens : "webauthn" \in factors[t] => provenBy[t] # {}

LEMMA ConsoleInvInit == ConsoleInit => ChallengeInv /\ FactorsInv
BY DEF ConsoleInit, ChallengeInv, ChallengeProvesOne, FactorsInv

LEMMA ChallengeStep ==
    ConsoleTypeOK /\ ChallengeInv /\ [ConsoleNext]_consoleVars => ChallengeInv'
<1> SUFFICES ASSUME ConsoleTypeOK, ChallengeInv, [ConsoleNext]_consoleVars
             PROVE  ChallengeInv'
  OBVIOUS
<1> USE DEF ChallengeInv, ChallengeProvesOne
<1>1. CASE UNCHANGED <<challenge, answers, provenBy>>
  BY <1>1
<1>2. ASSUME NEW c \in Challenges, BeginWebAuthn(c) PROVE ChallengeInv'
  BY <1>2 DEF BeginWebAuthn, ConsoleTypeOK
<1>3. ASSUME NEW t \in Tokens, NEW c \in Challenges, NEW genuine \in BOOLEAN,
             VerifyWebAuthn(t, c, genuine)
      PROVE  ChallengeInv'
  <2> DEFINE new == [challenge |-> c, token |-> t, genuine |-> genuine,
                     counter |-> device', stored |-> counter]
  <2>1. /\ challenge[c] = "pending" /\ challenge' = [challenge EXCEPT ![c] = "used"]
        /\ answers' = answers \cup {new} /\ provenBy' = provenBy
    BY <1>3 DEF VerifyWebAuthn, Taken
  <2>2. new.challenge = c
    OBVIOUS
  <2>3. \A a \in answers : a.challenge # c
    BY <2>1
  <2>4. \A u \in Tokens : c \notin provenBy[u]
    BY <2>1
  <2> HIDE DEF new
  <2>5. ChallengeProvesOne'
    BY <2>1, <2>2, <2>3, <2>4
  <2>6. \A a \in answers' : challenge'[a.challenge] = "used"
    BY <2>1, <2>2, <2>3 DEF ConsoleTypeOK
  <2>7. \A u \in Tokens : \A d \in provenBy'[u] : challenge'[d] = "used"
    BY <2>1, <2>4 DEF ConsoleTypeOK
  <2> QED  BY <2>5, <2>6, <2>7
<1>4. ASSUME NEW a \in answers, WebAuthnAnswers(a) PROVE ChallengeInv'
  <2>1. a.challenge \in Challenges /\ a.token \in Tokens
    BY DEF ConsoleTypeOK
  <2>2. /\ challenge' = challenge /\ answers' = answers \ {a}
        /\ \A t \in Tokens : provenBy'[t] \subseteq provenBy[t] \cup {a.challenge}
    BY <1>4, <2>1 DEF WebAuthnAnswers, ConsoleTypeOK
  <2>3. \A b \in answers' : b.challenge # a.challenge
    BY <2>2
  <2> QED  BY <2>2, <2>3
<1> QED
  <2>1. CASE UNCHANGED consoleVars
    BY <1>1, <2>1 DEF consoleVars, webauthnVars
  <2>2. ASSUME NEW t \in Tokens,
               Login(t) \/ LoginSucceeds(t) \/ LoginFails(t) \/ WindowElapses(t)
        PROVE  ChallengeInv'
    BY <1>1, <2>2 DEF Login, LoginSucceeds, LoginFails, WindowElapses, webauthnVars
  <2>3. ASSUME NEW t \in Tokens, NEW right \in BOOLEAN, VerifyMfa(t, right)
        PROVE  ChallengeInv'
    BY <1>1, <2>3 DEF VerifyMfa, webauthnVars
  <2>4. ASSUME NEW z \in ZkChallenges, IssueZkChallenge(z) PROVE ChallengeInv'
    BY <1>1, <2>4 DEF IssueZkChallenge, webauthnVars
  <2>5. ASSUME NEW t \in Tokens, NEW z \in ZkChallenges, VerifyZkProof(t, z)
        PROVE  ChallengeInv'
    BY <1>1, <2>5 DEF VerifyZkProof, webauthnVars
  <2>6. ASSUME NEW x \in Timed, Elapses(x) PROVE ChallengeInv'
    BY <1>1, <2>6 DEF Elapses, webauthnVars
  <2>7. CASE OrganismPulse
    BY <1>1, <2>7 DEF OrganismPulse, webauthnVars
  <2> QED
    BY <1>2, <1>3, <1>4, <2>1, <2>2, <2>3, <2>4, <2>5, <2>6, <2>7 DEF ConsoleNext

LEMMA FactorsStep ==
    ConsoleTypeOK /\ FactorsInv /\ [ConsoleNext]_consoleVars => FactorsInv'
<1> SUFFICES ASSUME ConsoleTypeOK, FactorsInv, [ConsoleNext]_consoleVars
             PROVE  FactorsInv'
  OBVIOUS
<1> USE DEF FactorsInv
<1>1. CASE UNCHANGED <<required, factors, provenBy>>
  BY <1>1
<1>2. ASSUME NEW t \in Tokens, LoginSucceeds(t) PROVE FactorsInv'
  BY <1>2 DEF LoginSucceeds, webauthnVars, ConsoleTypeOK
<1>3. ASSUME NEW t \in Tokens, NEW right \in BOOLEAN, VerifyMfa(t, right)
      PROVE  FactorsInv'
  BY <1>3 DEF VerifyMfa, webauthnVars, ConsoleTypeOK
<1>4. ASSUME NEW a \in answers, WebAuthnAnswers(a) PROVE FactorsInv'
  <2>1. a.token \in Tokens
    BY DEF ConsoleTypeOK
  <2>2. CASE Verified(a)
    <3>1. provenBy' = [provenBy EXCEPT ![a.token] = @ \cup {a.challenge}]
      BY <1>4, <2>2 DEF WebAuthnAnswers, Verified
    <3>2. \A t \in Tokens : t # a.token => factors'[t] = factors[t]
      BY <1>4, <2>2 DEF WebAuthnAnswers, ConsoleTypeOK
    <3>3. \A t \in Tokens : t # a.token => provenBy'[t] = provenBy[t]
      BY <3>1 DEF ConsoleTypeOK
    <3>4. provenBy'[a.token] # {}
      BY <2>1, <3>1 DEF ConsoleTypeOK
    <3>5. required' = required
      BY <1>4 DEF WebAuthnAnswers
    <3> QED  BY <3>2, <3>3, <3>4, <3>5
  <2>3. CASE ~Verified(a)
    BY <1>1, <1>4, <2>3 DEF WebAuthnAnswers
  <2> QED  BY <2>2, <2>3
<1>5. ASSUME NEW t \in Tokens, NEW z \in ZkChallenges, VerifyZkProof(t, z)
      PROVE  FactorsInv'
  BY <1>5 DEF VerifyZkProof, webauthnVars, ConsoleTypeOK
<1> QED
  <2>1. CASE UNCHANGED consoleVars
    BY <1>1, <2>1 DEF consoleVars, sessionVars, webauthnVars
  <2>2. ASSUME NEW t \in Tokens, Login(t) \/ LoginFails(t) \/ WindowElapses(t)
        PROVE  FactorsInv'
    BY <1>1, <2>2 DEF Login, LoginFails, WindowElapses, sessionVars, webauthnVars
  <2>3. ASSUME NEW c \in Challenges, BeginWebAuthn(c) PROVE FactorsInv'
    BY <1>1, <2>3 DEF BeginWebAuthn, sessionVars
  <2>4. ASSUME NEW t \in Tokens, NEW c \in Challenges, NEW genuine \in BOOLEAN,
               VerifyWebAuthn(t, c, genuine)
        PROVE  FactorsInv'
    BY <1>1, <2>4 DEF VerifyWebAuthn, sessionVars
  <2>5. ASSUME NEW z \in ZkChallenges, IssueZkChallenge(z) PROVE FactorsInv'
    BY <1>1, <2>5 DEF IssueZkChallenge, sessionVars, webauthnVars
  <2>6. ASSUME NEW x \in Timed, Elapses(x) PROVE FactorsInv'
    BY <1>1, <2>6 DEF Elapses, sessionVars, webauthnVars
  <2>7. CASE OrganismPulse
    BY <1>1, <2>7 DEF OrganismPulse, sessionVars, webauthnVars
  <2> QED
    BY <1>2, <1>3, <1>4, <1>5, <2>1, <2>2, <2>3, <2>4, <2>5, <2>6, <2>7 DEF ConsoleNext
-----------------------------------------------------------------------------
(***************************************************************************)
(* Steps of the gateway that touch the sessions only by deleting one       *)
(***************************************************************************)
OnlyStage ==
    /\ UNCHANGED <<required, vital, over, factors, tries, webauthnVars, zkChallenge>>
    /\ \/ stage' = stage
       \/ \E t \in Tokens : stage' = [stage EXCEPT ![t] = "deleted"]

LEMMA OnlyStageKeeps ==
    ASSUME OnlyStage, ConsoleTypeOK, ChallengeInv, FactorsInv
    PROVE  ConsoleTypeOK' /\ ChallengeInv' /\ FactorsInv'
<1>1. ConsoleTypeOK'
  BY DEF OnlyStage, ConsoleTypeOK, webauthnVars
<1>2. ChallengeInv'
  BY DEF OnlyStage, ChallengeInv, ChallengeProvesOne, webauthnVars
<1>3. FactorsInv'
  BY DEF OnlyStage, FactorsInv, webauthnVars
<1> QED  BY <1>1, <1>2, <1>3

LEMMA GatewayConsoleSteps ==
    ASSUME [Next]_vars
    PROVE  [ConsoleNext]_consoleVars \/ OnlyStage
<1> USE DEF OnlyStage, StageResolved, consoleVars, sessionVars, webauthnVars
<1>1. ASSUME NEW r \in Requests, BodyRead(r) PROVE OnlyStage
  BY <1>1 DEF BodyRead
<1>2. ASSUME NEW t \in Tokens, ConsoleAsks(t) PROVE OnlyStage
  BY <1>2 DEF ConsoleAsks
<1>3. ASSUME NEW r \in Requests, NEW b, NEW p, Arrive(r, b, p) PROVE UNCHANGED consoleVars
  BY <1>3 DEF Arrive
<1>4. ASSUME NEW r \in Requests,
             \/ SenderLeaves(r)
             \/ LimiterAllows(r) \/ LimiterDenies(r) \/ LimiterRejects(r)
             \/ BodyFails(r) \/ HandlerEnds(r)
      PROVE  UNCHANGED consoleVars
  BY <1>4 DEF SenderLeaves, LimiterAllows, LimiterDenies, LimiterRejects, BodyFails, HandlerEnds
<1>5. CASE ConsoleStep
  BY <1>5 DEF ConsoleStep
<1>6. CASE UNCHANGED vars
  BY <1>6 DEF vars
<1>7. CASE ArriveMalformed
  BY <1>7 DEF ArriveMalformed
<1> QED  BY <1>1, <1>2, <1>3, <1>4, <1>5, <1>6, <1>7 DEF Next

\* Everything the console keeps true, the gateway keeps true with it.
SessionsInv == ConsoleTypeOK /\ ChallengeInv /\ FactorsInv

LEMMA SessionsInit == Init => SessionsInv
BY ConsoleTypeInit, ConsoleInvInit DEF Init, SessionsInv

LEMMA SessionsStep == SessionsInv /\ [Next]_vars => SessionsInv'
<1> SUFFICES ASSUME SessionsInv, [Next]_vars PROVE SessionsInv'
  OBVIOUS
<1>1. CASE [ConsoleNext]_consoleVars
  BY <1>1, ConsoleTypeStep, ChallengeStep, FactorsStep DEF SessionsInv
<1>2. CASE OnlyStage
  BY <1>2, OnlyStageKeeps DEF SessionsInv
<1> QED  BY <1>1, <1>2, GatewayConsoleSteps

-----------------------------------------------------------------------------
(***************************************************************************)
(* Requests and their slots                                                *)
(***************************************************************************)
RequestType == [at : {"nothing", "limiter", "deserted", "body", "hung", "handler"},
                bearer : Tokens \cup {NoToken}, public : BOOLEAN]

RequestsInv ==
    /\ request \in [Requests -> RequestType]
    /\ activeConnections \in 0..MaxConnections
    /\ ended \in BOOLEAN
    /\ SlotsReturned

LEMMA NoRequestType == NoRequest \in RequestType /\ NoRequest.at = "nothing"
BY Zenon DEF NoRequest, Waits, RequestType

LEMMA InServiceFinite == IsFiniteSet(InService) /\ Cardinality(InService) \in Nat
<1>1. InService \subseteq Requests
  BY DEF InService
<1> QED  BY <1>1, GatewayAssumption, FS_Subset, FS_CardinalityType

\* Moving from one wait to the next takes no slot and gives none back.
LEMMA Replaced ==
    ASSUME RequestsInv, NEW r \in Requests, request[r].at # "nothing",
           NEW new \in RequestType, new.at # "nothing",
           request' = [request EXCEPT ![r] = new], UNCHANGED <<activeConnections, ended>>
    PROVE  RequestsInv'
<1>1. request' \in [Requests -> RequestType]
  BY DEF RequestsInv
<1>2. \A q \in Requests : request'[q].at # "nothing" <=> request[q].at # "nothing"
  BY DEF RequestsInv
<1>3. InService' = InService
  BY <1>2 DEF InService
<1> QED  BY <1>1, <1>3 DEF RequestsInv, SlotsReturned

LEMMA MovesOn ==
    ASSUME RequestsInv, NEW r \in Requests, request[r].at # "nothing",
           NEW at \in {"body", "hung", "handler"}, GoesTo(r, at),
           UNCHANGED <<activeConnections, ended>>
    PROVE  RequestsInv'
<1> DEFINE new == [request[r] EXCEPT !.at = at]
<1>1. new \in RequestType /\ new.at # "nothing"
  BY DEF RequestsInv, RequestType
<1>2. request' = [request EXCEPT ![r] = new]
  BY DEF GoesTo
<1> HIDE DEF new
<1> QED  BY <1>1, <1>2, Replaced

LEMMA FinishKeeps ==
    ASSUME RequestsInv, NEW r \in Requests, request[r].at # "nothing", Finish(r),
           UNCHANGED ended
    PROVE  RequestsInv'
<1>1. request' = [request EXCEPT ![r] = NoRequest] /\ activeConnections' = activeConnections - 1
  BY DEF Finish, Released
<1>2. request' \in [Requests -> RequestType]
  BY <1>1, NoRequestType DEF RequestsInv
<1>3. InService' = InService \ {r}
  BY <1>1, NoRequestType DEF InService, RequestsInv
<1>4. r \in InService
  BY DEF InService
<1>5. Cardinality(InService') = Cardinality(InService) - 1 /\ Cardinality(InService) # 0
  <2>1. Cardinality(InService \ {r}) = Cardinality(InService) - 1
    BY <1>4, InServiceFinite, FS_RemoveElement
  <2>2. IsFiniteSet(InService \ {r})
    BY InServiceFinite, FS_RemoveElement
  <2>3. Cardinality(InService \ {r}) \in Nat
    BY <2>2, FS_CardinalityType
  <2> QED  BY <1>3, <2>1, <2>3, InServiceFinite
<1>6. activeConnections' \in 0..MaxConnections
  BY <1>1, <1>5, GatewayAssumption DEF RequestsInv, SlotsReturned
<1> QED  BY <1>1, <1>2, <1>5, <1>6 DEF RequestsInv, SlotsReturned

LEMMA ArriveKeeps ==
    ASSUME RequestsInv, NEW r \in Requests, NEW b \in Tokens \cup {NoToken},
           NEW p \in BOOLEAN, Arrive(r, b, p)
    PROVE  RequestsInv'
<1> DEFINE new == Waits("limiter", b, p)
<1>1. new \in RequestType /\ new.at = "limiter"
  BY DEF Waits, RequestType
<1>2. /\ request[r].at = "nothing" /\ activeConnections < MaxConnections
      /\ request' = [request EXCEPT ![r] = new]
      /\ activeConnections' = activeConnections + 1 /\ UNCHANGED ended
  BY DEF Arrive, IsAt
<1> HIDE DEF new
<1>3. request' \in [Requests -> RequestType]
  BY <1>1, <1>2 DEF RequestsInv
<1>4. InService' = InService \cup {r} /\ r \notin InService
  BY <1>1, <1>2 DEF InService, RequestsInv
<1>5. Cardinality(InService') = Cardinality(InService) + 1
  BY <1>4, InServiceFinite, FS_AddElement
<1>6. activeConnections' \in 0..MaxConnections
  BY <1>2, GatewayAssumption DEF RequestsInv
<1> QED  BY <1>2, <1>3, <1>5, <1>6 DEF RequestsInv, SlotsReturned

LEMMA RequestsInit == Init => RequestsInv
<1> SUFFICES ASSUME Init PROVE RequestsInv
  OBVIOUS
<1>1. request \in [Requests -> RequestType] /\ \A r \in Requests : request[r].at = "nothing"
  BY NoRequestType DEF Init
<1>2. InService = {}
  BY <1>1 DEF InService
<1>3. ended \in BOOLEAN
  BY DEF Init
<1> QED  BY <1>1, <1>2, <1>3, FS_EmptySet, GatewayAssumption DEF Init, RequestsInv, SlotsReturned

LEMMA RequestsStep == RequestsInv /\ [Next]_vars => RequestsInv'
<1> SUFFICES ASSUME RequestsInv, [Next]_vars PROVE RequestsInv'
  OBVIOUS
<1>1. ASSUME NEW r \in Requests, LimiterAllows(r) PROVE RequestsInv'
  BY <1>1, MovesOn DEF LimiterAllows, AtLimiter, IsAt
<1>2. ASSUME NEW r \in Requests, LimiterDenies(r) \/ BodyFails(r) \/ HandlerEnds(r)
      PROVE  RequestsInv'
  BY <1>2, FinishKeeps DEF LimiterDenies, BodyFails, HandlerEnds, AtLimiter, IsAt
<1>3. ASSUME NEW r \in Requests, BodyRead(r) PROVE RequestsInv'
  <2>1. request[r].at # "nothing" /\ UNCHANGED ended
    BY <1>3 DEF BodyRead, IsAt
  <2>2. CASE GoesTo(r, "handler") /\ UNCHANGED activeConnections
    BY <2>1, <2>2, MovesOn
  <2>3. CASE Finish(r)
    BY <2>1, <2>3, FinishKeeps
  <2> QED  BY <1>3, <2>2, <2>3 DEF BodyRead
<1>4. ASSUME ArriveMalformed \/ \E r \in Requests : LimiterRejects(r)
      PROVE  RequestsInv'
  <2>1. ended' \in BOOLEAN
    BY <1>4 DEF ArriveMalformed, LimiterRejects
  <2>2. UNCHANGED <<request, activeConnections>>
    BY <1>4 DEF ArriveMalformed, LimiterRejects
  <2> QED  BY <2>1, <2>2 DEF RequestsInv, SlotsReturned, InService
<1>5. CASE UNCHANGED gatewayVars
  BY <1>5 DEF gatewayVars, RequestsInv, SlotsReturned, InService
<1>6. (\E t \in Tokens : ConsoleAsks(t)) \/ ConsoleStep \/ UNCHANGED vars
        => UNCHANGED gatewayVars
  BY DEF ConsoleAsks, ConsoleStep, vars
<1>7. ASSUME NEW r \in Requests, SenderLeaves(r) PROVE RequestsInv'
  <2> DEFINE new == Waits("deserted", NoToken, FALSE)
  <2>1. new \in RequestType /\ new.at # "nothing"
    BY Zenon DEF Waits, RequestType
  <2>2. /\ request[r].at # "nothing" /\ request' = [request EXCEPT ![r] = new]
        /\ UNCHANGED <<activeConnections, ended>>
    BY <1>7 DEF SenderLeaves, IsAt
  <2> HIDE DEF new
  <2> QED  BY <2>1, <2>2, Replaced
<1> QED  BY <1>1, <1>2, <1>3, <1>4, <1>5, <1>6, <1>7, ArriveKeeps DEF Next

-----------------------------------------------------------------------------
(***************************************************************************)
(* Theorems                                                                *)
(***************************************************************************)
\* The inductive invariant of sessions and requests together.
THEOREM InvCorrect == Spec => [](SessionsInv /\ RequestsInv)
<1>1. Init => SessionsInv /\ RequestsInv
  BY SessionsInit, RequestsInit
<1>2. SessionsInv /\ RequestsInv /\ [Next]_vars => (SessionsInv /\ RequestsInv)'
  BY SessionsStep, RequestsStep
<1> QED  BY <1>1, <1>2, PTL DEF Spec

\* Sessions, challenges, requests and slots keep their types.
THEOREM TypeCorrect == Spec => []TypeOK
<1>1. SessionsInv /\ RequestsInv => TypeOK
  BY DEF SessionsInv, RequestsInv, RequestType, TypeOK
<1> QED  BY <1>1, InvCorrect, PTL

\* A WebAuthn challenge is spent by one signature check, however many assertions over
\* it are sent while verifyAuthentication awaits.
THEOREM ChallengeSpentOnce == Spec => []ChallengeProvesOne
<1>1. SessionsInv => ChallengeProvesOne
  BY DEF SessionsInv, ChallengeInv
<1> QED  BY <1>1, InvCorrect, PTL

\* The gateway's count is the requests in service, by whatever way out they leave.
THEOREM SlotsExact == Spec => []SlotsReturned
<1>1. RequestsInv => SlotsReturned
  BY DEF RequestsInv
<1> QED  BY <1>1, InvCorrect, PTL

\* A protected handler starts only for a session proven and alive at that moment.
THEOREM HandlersAreProtected == Spec => ProtectedOnlyProven
<1> DEFINE Guarded == \A r \in Requests :
                        Starts(r) => request[r].bearer \in Tokens /\ Proven(request[r].bearer)
<1>1. SessionsInv /\ RequestsInv /\ [Next]_vars => [Guarded]_vars
  <2> SUFFICES ASSUME SessionsInv, RequestsInv, Next, NEW r \in Requests, Starts(r)
               PROVE  request[r].bearer \in Tokens /\ Proven(request[r].bearer)
    OBVIOUS
  <2>1. ASSUME NEW q \in Requests, BodyRead(q)
        PROVE  request[r].bearer \in Tokens /\ Proven(request[r].bearer)
    <3>1. q = r
      BY <2>1, NoRequestType DEF BodyRead, Starts, GoesTo, Finish, RequestsInv, RequestType
    <3>2. vital /\ Authorized(request[r].bearer)
      BY <2>1, <3>1, NoRequestType DEF BodyRead, Starts, Finish, RequestsInv
    <3>3. required \in SUBSET {"mfa", "webauthn", "zk"}
      BY ConfigurationsAssumption DEF SessionsInv, ConsoleTypeOK
    <3> QED
      BY <3>2, <3>3
      DEF Authorized, Resolves, Alive, InSessions, Proven, SessionsInv, FactorsInv
  <2>2. ASSUME NEW q \in Requests, NEW b, NEW p, Arrive(q, b, p) PROVE FALSE
    BY <2>2 DEF Arrive, Waits, Starts, RequestsInv
  <2>3. ASSUME NEW q \in Requests, SenderLeaves(q) \/ LimiterAllows(q) PROVE FALSE
    BY <2>3 DEF SenderLeaves, Waits, LimiterAllows, GoesTo, Starts, RequestsInv, RequestType
  <2>4. ASSUME NEW q \in Requests, LimiterDenies(q) \/ BodyFails(q) \/ HandlerEnds(q)
        PROVE  FALSE
    BY <2>4, NoRequestType
    DEF LimiterDenies, BodyFails, HandlerEnds, Finish, Starts, RequestsInv
  <2>5. request' # request
    BY DEF Starts
  <2>6. ASSUME ArriveMalformed \/ \E q \in Requests : LimiterRejects(q) PROVE FALSE
    BY <2>5, <2>6 DEF ArriveMalformed, LimiterRejects
  <2>7. ASSUME (\E t \in Tokens : ConsoleAsks(t)) \/ ConsoleStep PROVE FALSE
    BY <2>5, <2>7 DEF ConsoleAsks, ConsoleStep, gatewayVars
  <2> QED  BY <2>1, <2>2, <2>3, <2>4, <2>6, <2>7 DEF Next
<1> QED  BY <1>1, InvCorrect, PTL DEF Spec, ProtectedOnlyProven
=============================================================================
