------------------------------- MODULE Console --------------------------------
(***************************************************************************)
(* ConsoleAuthService with WebAuthnAuthService and ZkAuthService: sessions *)
(* of the operator, the factors that verify them, and resolveSession(),    *)
(* which the console and the gateway ask of every bearer token.            *)
(*                                                                         *)
(* Two handlers await work of the thread pool, the Argon2 check of login   *)
(* and the signature check of a WebAuthn assertion; everything else may    *)
(* run in between.  Time only tells whether a session, a challenge or a    *)
(* window of MFA attempts is over, so it is a set: those that are.         *)
(* There is one user, "admin", with the role "sovereign".                  *)
(***************************************************************************)
EXTENDS Integers, FiniteSets

CONSTANTS
    Tokens,         \* session tokens, each for one login
    Challenges,     \* sessionIds of WebAuthn challenges
    ZkChallenges,   \* challengeIds
    MfaLimit,       \* codes tested in one window
    Configurations  \* sets of factors that a configuration may require

ASSUME MfaAssumption == MfaLimit \in Nat \ {0}
ASSUME ConfigurationsAssumption == Configurations \subseteq SUBSET {"mfa", "webauthn", "zk"}

VARIABLES
    required,       \* factors: consoleMfaRequired, webauthnRequired, a ZK public key
    vital,          \* the organism's isVital()
    stage,          \* of a session: none, checking the password, open, deleted
    factors,        \* the verified flags of a session
    tries,          \* mfaAttempts
    over,           \* sessions, challenges and MFA windows whose time is over
    challenge,      \* none, pending, used
    answers,        \* assertions whose signature is being checked
    counter,        \* stored.counter of the credential
    device,         \* the authenticator's own counter
    zkChallenge,    \* none, pending, used
    provenBy        \* challenges whose genuine assertion verified a session

sessionVars == <<stage, factors, tries>>
webauthnVars == <<challenge, answers, counter, device, provenBy>>
consoleVars == <<required, vital, over, sessionVars, webauthnVars, zkChallenge>>

NoToken == "no token"
Timed == Tokens \cup Challenges \cup ZkChallenges
Window(t) == <<"mfa", t>>

ConsoleInit ==
    /\ required \in Configurations
    /\ vital = TRUE
    /\ stage = [t \in Tokens |-> "none"]
    /\ factors = [t \in Tokens |-> {}]
    /\ tries = [t \in Tokens |-> 0]
    /\ over = {}
    /\ challenge = [c \in Challenges |-> "none"]
    /\ answers = {}
    /\ counter = 0 /\ device = 0
    /\ zkChallenge = [z \in ZkChallenges |-> "none"]
    /\ provenBy = [t \in Tokens |-> {}]

-----------------------------------------------------------------------------
(***************************************************************************)
(* login                                                                   *)
(***************************************************************************)
\* Lockdown is asked before the password is checked, and not after.
Login(t) ==
    /\ stage[t] = "none" /\ vital
    /\ stage' = [stage EXCEPT ![t] = "checking"]
    /\ UNCHANGED <<required, vital, over, factors, tries, webauthnVars, zkChallenge>>

\* A factor that is not required counts as verified.  The sovereign role always
\* starts without its proof.
LoginSucceeds(t) ==
    /\ stage[t] = "checking"
    /\ stage' = [stage EXCEPT ![t] = "open"]
    /\ factors' = [factors EXCEPT ![t] = {"mfa", "webauthn"} \ required]
    /\ UNCHANGED <<required, vital, over, tries, webauthnVars, zkChallenge>>

LoginFails(t) ==
    /\ stage[t] = "checking"
    /\ stage' = [stage EXCEPT ![t] = "deleted"]
    /\ UNCHANGED <<required, vital, over, factors, tries, webauthnVars, zkChallenge>>

-----------------------------------------------------------------------------
(***************************************************************************)
(* verifyMfa: a code of RFC 6238, only where WebAuthn is not required      *)
(***************************************************************************)
InSessions(t) == stage[t] = "open"   \* also past its expiry, until it is resolved

TriesLeft(t) == Window(t) \in over \/ tries[t] < MfaLimit

VerifyMfa(t, right) ==
    /\ "webauthn" \notin required /\ InSessions(t) /\ TriesLeft(t)
    /\ over' = over \ {Window(t)}
    /\ IF right
       THEN /\ factors' = [factors EXCEPT ![t] = @ \cup {"mfa"}]
            /\ tries' = [tries EXCEPT ![t] = 0]
       ELSE /\ tries' = [tries EXCEPT ![t] = (IF Window(t) \in over THEN 0 ELSE @) + 1]
            /\ UNCHANGED factors
    /\ UNCHANGED <<required, vital, stage, webauthnVars, zkChallenge>>

-----------------------------------------------------------------------------
(***************************************************************************)
(* WebAuthn                                                                *)
(***************************************************************************)
BeginWebAuthn(c) ==
    /\ challenge[c] = "none"
    /\ challenge' = [challenge EXCEPT ![c] = "pending"]
    /\ UNCHANGED <<required, vital, over, sessionVars, answers, counter, device, provenBy,
                   zkChallenge>>

\* pendingChallenges.delete comes before the await.
TakenLate == "pending"                                       \* faulty: deleted after it
Taken == "used"

\* An assertion for session t over c arrives, genuine or not.  An authenticator
\* counts its signatures.  A session or challenge not found, or over, answers false
\* and changes nothing.
VerifyWebAuthn(t, c, genuine) ==
    /\ InSessions(t) /\ challenge[c] = "pending" /\ c \notin over
    /\ challenge' = [challenge EXCEPT ![c] = Taken]
    /\ device' = IF genuine THEN device + 1 ELSE device
    /\ answers' = answers \cup {[challenge |-> c, token |-> t, genuine |-> genuine,
                                counter |-> device', stored |-> counter]}
    /\ UNCHANGED <<required, vital, over, sessionVars, counter, provenBy, zkChallenge>>

\* verifyAuthenticationResponse: the signature, and a counter beyond the stored one
\* as it was before the await.
Verified(a) == a.genuine /\ a.counter > a.stored

\* It answers; the flags go to the session object, even if it is deleted by now.
WebAuthnAnswers(a) ==
    /\ challenge' = [challenge EXCEPT ![a.challenge] = "used"]
    /\ answers' = answers \ {a}
    /\ IF Verified(a)
       THEN /\ counter' = a.counter
            /\ factors' = [factors EXCEPT ![a.token] = @ \cup {"mfa", "webauthn"}]
            /\ provenBy' = [provenBy EXCEPT ![a.token] =
                              @ \cup (IF a.genuine THEN {a.challenge} ELSE {})]
       ELSE UNCHANGED <<counter, factors, provenBy>>
    /\ UNCHANGED <<required, vital, over, stage, tries, device, zkChallenge>>

-----------------------------------------------------------------------------
(***************************************************************************)
(* The sovereign's proof                                                   *)
(***************************************************************************)
IssueZkChallenge(z) ==
    /\ zkChallenge[z] = "none"
    /\ zkChallenge' = [zkChallenge EXCEPT ![z] = "pending"]
    /\ UNCHANGED <<required, vital, over, sessionVars, webauthnVars>>

\* The proof signs the statement and the challenge's nonce.  The console answers
\* /console/zk/challenge with the statement only, so no proof sent to it has the nonce.
NonceIsSent == FALSE
ProofHolds == "zk" \in required /\ NonceIsSent

VerifyZkProof(t, z) ==
    /\ InSessions(t) /\ zkChallenge[z] = "pending" /\ z \notin over
    /\ zkChallenge' = [zkChallenge EXCEPT ![z] = "used"]
    /\ factors' = IF ProofHolds THEN [factors EXCEPT ![t] = @ \cup {"zk"}] ELSE factors
    /\ UNCHANGED <<required, vital, over, stage, tries, webauthnVars>>

-----------------------------------------------------------------------------
(***************************************************************************)
(* resolveSession                                                          *)
(***************************************************************************)
ForgetsExpiry(t) == vital /\ InSessions(t)                   \* faulty: no expiry
Alive(t) == vital /\ InSessions(t) /\ t \notin over

Resolves(t) == Alive(t) /\ required \subseteq factors[t]

\* A session found over is deleted; nothing is deleted in lockdown.
StageResolved(t) ==
    IF t \in Tokens /\ vital /\ InSessions(t) /\ t \in over
    THEN [stage EXCEPT ![t] = "deleted"] ELSE stage

-----------------------------------------------------------------------------
(***************************************************************************)
(* The organism, and time                                                  *)
(***************************************************************************)
OrganismPulse ==
    /\ vital' = ~vital
    /\ UNCHANGED <<required, over, sessionVars, webauthnVars, zkChallenge>>

Elapses(x) ==
    /\ x \notin over
    /\ \/ x \in Tokens /\ stage[x] = "open"
       \/ x \in Challenges /\ challenge[x] = "pending"
       \/ x \in ZkChallenges /\ zkChallenge[x] = "pending"
    /\ over' = over \cup {x}
    /\ UNCHANGED <<required, vital, sessionVars, webauthnVars, zkChallenge>>

WindowElapses(t) ==
    /\ tries[t] > 0 /\ Window(t) \notin over
    /\ over' = over \cup {Window(t)}
    /\ UNCHANGED <<required, vital, sessionVars, webauthnVars, zkChallenge>>

ConsoleNext ==
    \/ \E t \in Tokens : Login(t) \/ LoginSucceeds(t) \/ LoginFails(t) \/ WindowElapses(t)
    \/ \E t \in Tokens, right \in BOOLEAN : VerifyMfa(t, right)
    \/ \E c \in Challenges : BeginWebAuthn(c)
    \/ \E a \in answers : WebAuthnAnswers(a)
    \/ \E t \in Tokens, c \in Challenges, genuine \in BOOLEAN : VerifyWebAuthn(t, c, genuine)
    \/ \E z \in ZkChallenges : IssueZkChallenge(z)
    \/ \E t \in Tokens, z \in ZkChallenges : VerifyZkProof(t, z)
    \/ \E x \in Timed : Elapses(x)
    \/ OrganismPulse

ConsoleSpec == ConsoleInit /\ [][ConsoleNext]_consoleVars

-----------------------------------------------------------------------------
\* An operator who has every factor and keeps at it: a login, the codes, assertions and
\* proofs it asks for, all genuine, with a vital organism and nothing past its time.
OperatorNext ==
    \/ \E t \in Tokens : Login(t) \/ LoginSucceeds(t) \/ VerifyMfa(t, TRUE)
    \/ \E c \in Challenges : BeginWebAuthn(c)
    \/ \E t \in Tokens, c \in Challenges : VerifyWebAuthn(t, c, TRUE)
    \/ \E a \in answers : WebAuthnAnswers(a)
    \/ \E z \in ZkChallenges : IssueZkChallenge(z)
    \/ \E t \in Tokens, z \in ZkChallenges : VerifyZkProof(t, z)

OperatorSpec == ConsoleInit /\ [][OperatorNext]_consoleVars /\ WF_consoleVars(OperatorNext)

-----------------------------------------------------------------------------
(***************************************************************************)
(* Properties                                                              *)
(***************************************************************************)
ConsoleTypeOK ==
    /\ required \in Configurations /\ vital \in BOOLEAN
    /\ stage \in [Tokens -> {"none", "checking", "open", "deleted"}]
    /\ factors \in [Tokens -> SUBSET {"mfa", "webauthn", "zk"}]
    /\ tries \in [Tokens -> 0..MfaLimit]
    /\ over \subseteq Timed \cup {Window(t) : t \in Tokens}
    /\ challenge \in [Challenges -> {"none", "pending", "used"}]
    /\ answers \subseteq [challenge : Challenges, token : Tokens, genuine : BOOLEAN,
                          counter : Nat, stored : Nat]
    /\ counter \in Nat /\ device \in Nat
    /\ zkChallenge \in [ZkChallenges -> {"none", "pending", "used"}]
    /\ provenBy \in [Tokens -> SUBSET Challenges]

\* A WebAuthn challenge is spent by one signature check: no two under way are over the
\* same challenge, and none is over a challenge that has verified a session.  The handler
\* gives way to others in the middle of the check.
ChallengeProvesOne ==
    /\ \A a, b \in answers : a # b => a.challenge # b.challenge
    /\ \A a \in answers, t \in Tokens : a.challenge \notin provenBy[t]

\* The operator's factors are password, WebAuthn assertion and ZK proof, in this order
\* (docs/threat_model.md): with all three it gets a session that resolves.
OperatorGetsIn == <>\E t \in Tokens : Resolves(t)
=============================================================================
