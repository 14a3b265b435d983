\* One unit is 5 s with the default interval of 15 s.  The skew is less than its
\* default of 12 units, as little as TimelyAssumption lets it be and one more.
CONSTANTS
    Interval = 3
    Skew = 4
    MaxSetup = 2
    MaxDelay = 1
    MaxService = 1
    MaxOutstanding = 1
SPECIFICATION Spec
INVARIANTS
    VerdictsAreTrue
    NoneForgottenAlive
PROPERTIES
    LeaverIsFollowed
\* Everything may be closed.
CHECK_DEADLOCK FALSE
