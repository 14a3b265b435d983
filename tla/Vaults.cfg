\* Two owners, two sealed things, two overlapping pulses, six records and three lives,
\* with one append that fails or is cut short: enough for a torn line in the first
\* life, its line joined in the second and a reload of both in the third.  With a log
\* file and, the default, without.
CONSTANTS
    LogsToFile = {TRUE, FALSE}
    KeepsChainKey = TRUE
    KeepsVaultKey = TRUE
    Owners <- MCOwners
    Fields <- MCFields
    MaxRecords = 6
    MaxSealed = 2
    MaxPulsing = 2
    MaxDamage = 1
    MaxLives = 3
SPECIFICATION Spec
INVARIANTS
    GapsSeen
    OpensInItsPulse
    AckedOpens
    CleanLogReloads
CHECK_DEADLOCK FALSE
