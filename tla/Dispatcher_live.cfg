\* Fair scheduling, one HTTP job and one media job.
SPECIFICATION FairSpec
CONSTANTS
    t1 = t1  t2 = t2  t3 = t3  list = list  none = none
    Jobs = {1, 2}
    MediaJobs = {2}
    Batches = {}
    BatchOf <- HttpOnly
    NoBatch = none
    Threads = {t1, t2}
    MaxLimit <- Limits11
    Window = 1
    MediaRuntime = TRUE
    PromptInstall = TRUE
    InitialStatuses = {"new", "queued"}
    InitialPriorities = {"normal"}
    MaxOps = 2
PROPERTIES QueuedIsServed RunningIsServed
