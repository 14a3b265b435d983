\* Two client objects and three connections: two full handshakes and one resumption, or
\* one full handshake whose ticket is resumed under both of its spellings, so that the
\* memory of one drops a string; a ticket can expire, and the server restart once with
\* its master key kept.
CONSTANTS
    Clients = {a, b}
    MaxConns = 3
    SessionTtl = 1
    Spellings = {AsIssued, Reencoded}
    AsIssued = AsIssued
    MaxConsumed = 1
    MaxTime = 2
    MaxRestarts = 1
    PersistentKey = TRUE
SPECIFICATION Spec
SYMMETRY ClientSymmetry
INVARIANTS
    OnceInALife
    ResumedByOwner
PROPERTIES
    ResumedKeysAgree
    WipedNeverSecures
\* Connections, clock and restarts run out.
CHECK_DEADLOCK FALSE
