\* Two requests, one key rotation and one mistreated frame: enough for a request
\* behind a pending one, a rotation inside the handshake, and a lost, doubled or
\* damaged frame at every point.
CONSTANTS
    MaxData = 2
    MaxEpoch = 2
    MaxFaults = 1
SPECIFICATION Spec
INVARIANTS
    KeyAgreement
    FailedHandshakeCarriesNothing
    NothingOutlivesClose
PROPERTIES
    ImplementsExchange
    HandshakeSettles
    HalfOpenEnds
    FailedCloses
\* A connection ends: both sockets closed is a legitimate last state.
CHECK_DEADLOCK FALSE
