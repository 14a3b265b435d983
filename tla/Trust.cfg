\* Two signing keys and two KEM keys of a server, two certificates in a life,
\* two lives of the issuer and three instants, one beyond a certificate's term:
\* enough for a renewed certificate, one that has expired, one of the other root
\* and keys taken from different certificates.
SPECIFICATION Spec
CONSTANTS
    SigKeys = {s1, s2}
    KemKeys = {k1, k2}
    Ttl = 1
    LogsToFile = TRUE
    MaxTime = 3
    MaxIssued = 2
    MaxLives = 2
SYMMETRY Interchangeable
INVARIANTS
    AcceptedVouched
    FirstPinStays
    NoGoodStapleOnceRevoked
CHECK_DEADLOCK FALSE
