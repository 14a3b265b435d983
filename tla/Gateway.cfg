\* One session and two requests at a time, which share the slots; one challenge of each
\* kind, so that assertions sent twice meet in the signature check.
CONSTANTS
    Tokens = {t1}
    Challenges = {c1}
    ZkChallenges = {z1}
    MfaLimit = 2
    Configurations = {{"mfa"}, {"mfa", "webauthn"}}
    Requests = {r1, r2}
    MaxConnections = 2
    HasRedis = TRUE
SPECIFICATION Spec
INVARIANTS
    ChallengeProvesOne
    SlotsReturned
PROPERTIES
    ProtectedOnlyProven
    RequestsAnswered
CHECK_DEADLOCK FALSE
