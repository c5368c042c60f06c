\* Three HTTP jobs, up to two HTTP slots, every command.
SPECIFICATION Spec
CONSTANTS
    t1 = t1  t2 = t2  t3 = t3  list = list  none = none
    Jobs = {1, 2, 3}
    MediaJobs = {}
    Batches = {}
    BatchOf <- HttpOnly
    NoBatch = none
    Threads = {t1, t2, t3}
    MaxLimit <- Limits21
    Window = 2
    MediaRuntime = FALSE
    PromptInstall = TRUE
    InitialStatuses = {"queued"}
    InitialPriorities = {"normal"}
    MaxOps = 2
SYMMETRY ThreadSymmetry
INVARIANTS TypeOK PermitAccounting OneWorkerPerJob WindowHidesNothing
