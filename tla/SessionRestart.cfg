\* One client object, a full handshake, a resumption, a restart that keeps the
\* master key, and a second resumption with the same ticket.
CONSTANTS
    Clients = {a}
    MaxConns = 3
    SessionTtl = 1
    Spellings = {AsIssued}
    AsIssued = AsIssued
    MaxConsumed = 2
    MaxTime = 1
    MaxRestarts = 1
    PersistentKey = TRUE
SPECIFICATION Spec
INVARIANTS
    TicketConsumedOnce
\* Connections, clock and restarts run out.
CHECK_DEADLOCK FALSE
