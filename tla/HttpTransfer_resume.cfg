\* The file is replaced three times, also by one of the same size and by a smaller one, the
\* server may ignore If-Range; no bandwidth limit.
\* A stopped or finished download with no command left rests: that is not a deadlock.
CHECK_DEADLOCK FALSE
SPECIFICATION Spec
CONSTANTS
    Sizes <- ThenSmaller
    Validators = TRUE
    Ranges = TRUE
    IfRange <- MayObey
    Throttled = FALSE
    MaxRetries = 1
    MaxOps = 6
INVARIANTS TypeOK NoSplice CompletedIsWholeOrShrunk PartialKnowsItsVersion
