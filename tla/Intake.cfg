\* Four frames, of up to three messages, against a table of two, so that it fills.  A
\* nonce is kept for twice the skew, as both services have it, and the clock runs past
\* both edges of a window.
CONSTANTS
    Nonces = {1, 2, 3}
    MaxClockSkew = 1
    NonceTtl = 2
    MaxEntries = 2
    MaxTime = 4
    Bad = 0
    MaxFrames = 4
SPECIFICATION IntakeSpec
INVARIANTS
    HandledOnce
    TableBounded
    HandledInOrder
\* The stream and the clock end.
CHECK_DEADLOCK FALSE
