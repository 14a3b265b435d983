\* All three factors required, as in production with a sovereign's public key; one login
\* and two challenges of each kind, so that one may be lost and the next still serve.
CONSTANTS
    Tokens = {t1}
    Challenges = {c1, c2}
    ZkChallenges = {z1, z2}
    MfaLimit = 2
    Configurations = {{"mfa", "webauthn", "zk"}}
SPECIFICATION OperatorSpec
PROPERTIES
    OperatorGetsIn
CHECK_DEADLOCK FALSE
