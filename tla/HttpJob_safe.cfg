\* Two worker identities, a file of two chunks, six commands, crashes or failures,
\* under fair scheduling.  A paused or finished job with no command left rests: that is
\* not a deadlock.
CHECK_DEADLOCK FALSE
SPECIFICATION FairSpec
CONSTANTS
    w1 = w1  w2 = w2
    Workers = {w1, w2}
    NoWorker = NoWorker
    Size = 2
    MaxOps = 6
INVARIANTS TypeOK LeaseIsExclusive OneWriter FilesRemovedOnlyWhenIdle
PROPERTIES KeepsContract WorkEnds
