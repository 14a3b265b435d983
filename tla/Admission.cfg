\* Three connections from one address against limits of two; another instance may
\* count it up once, and the clock passes the end of two windows.
CONSTANTS
    MaxConns = 3
    MaxConnections = 2
    MaxHandshakes = 2
    Window = 1
    MaxTime = 2
    MaxOthers = 1
SPECIFICATION Spec
INVARIANTS
    SlotsAccounted
    ClosedIsForgotten
    HandshakeRate
PROPERTIES
    AdmittedOnCurrentView
    ShutdownEnds
\* The process may end, and connections run out.
CHECK_DEADLOCK FALSE
