\* Two pulses may wait for Redis while a third runs.
CONSTANTS
    MaxWaiting = 2
SPECIFICATION Spec
INVARIANTS
    LockdownMatchesOrgans
    BrokenNotTrusted
PROPERTIES
    ReleasedWhole
    RecoversWhenHealthy
\* The process may end.
CHECK_DEADLOCK FALSE
