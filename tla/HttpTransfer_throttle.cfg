\* With a bandwidth limit: a chunk is lost and the file completed.
\* A stopped or finished download with no command left rests: that is not a deadlock.
CHECK_DEADLOCK FALSE
SPECIFICATION Spec
CONSTANTS
    Sizes <- SameThenLarger
    Validators = TRUE
    Ranges = TRUE
    IfRange <- Obeys
    Throttled = TRUE
    MaxRetries = 1
    MaxOps = 4
INVARIANT CompletedIsWhole
