\* Two worker identities, one process per worker and three commands, crashes or failures,
\* or the exit of the application, under fair scheduling.  A finished job rests: that is
\* not a deadlock.
CHECK_DEADLOCK FALSE
SPECIFICATION FairSpec
CONSTANTS
    w1 = w1  w2 = w2
    Workers = {w1, w2}
    Attempts = 1
    MaxOps = 3
    QuitCost = 3
INVARIANT MediaJobSafe
PROPERTIES CompletionIsEarned WorkEnds
