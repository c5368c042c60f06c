\* A playlist of two items, two media slots; setup may be late, and after the panic of
\* the dispatcher with no command left the program rests: that is not a deadlock.
CHECK_DEADLOCK FALSE
SPECIFICATION Spec
CONSTANTS
    t1 = t1  t2 = t2  t3 = t3  list = list  none = none
    Jobs = {1, 2}
    MediaJobs = {1, 2}
    Batches = {list}
    BatchOf <- OneList
    NoBatch = none
    Threads = {t1, t2, t3}
    MaxLimit <- Limits12
    Window = 2
    MediaRuntime = TRUE
    PromptInstall = FALSE
    InitialStatuses = {"queued"}
    InitialPriorities = {"normal"}
    MaxOps = 2
SYMMETRY ThreadSymmetry
INVARIANTS RegistryTruthful LaunchFindsJobIdle
