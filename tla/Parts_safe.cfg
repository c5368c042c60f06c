\* Each part by itself; the other bounds are in the module.  A part whose work is
\* done, or whose budget is spent, rests: that is not a deadlock.
CHECK_DEADLOCK FALSE
SPECIFICATION Spec
CONSTANTS
    NoValue = NoValue
    ToolVersions = {1, 2, 3}
    MaxUpdates = 3
    MaxSequence = 3
    MaxCrashes = 2
    Modes = {"video_mp4", "audio", "source"}
    MaxStops = 2
    Hosts = {"generic", "youtube", "tiktok"}
    HostProfiles <- ProfilesOf
    MaxRefreshes = 2
    MaxBackoffs = 3
    Windows = {"media", "list"}
    Player = "player"
    Requests = {1, 2, 3}
    Budgets <- Around
    Urls = {"u"}
    Embeds = {"u"}
    Profiles = 1
    CacheLimit = 1
INVARIANTS
    ToolsSafe ChoicesSafe LadderSafe ShownIsTrue FinishSafe PreparationSafe LimitSafe
PROPERTY ShownIsKept
