\* A locked cookie store, and no attempt left: the anonymous attempt that the row announces
\* does not happen.  A part whose work is done rests: that is not a deadlock.
CHECK_DEADLOCK FALSE
SPECIFICATION Spec
CONSTANTS
    NoValue = NoValue
    ToolVersions = {1, 2, 3}
    MaxUpdates = 3
    MaxSequence = 3
    MaxCrashes = 2
    Modes = {"video_mp4", "audio", "source"}
    MaxStops = 2
    Hosts = {"generic", "youtube", "tiktok"}
    HostProfiles <- ProfilesOf
    MaxRefreshes = 2
    MaxBackoffs = 3
    Windows = {"media", "list"}
    Player = "player"
    Requests = {1, 2, 3}
    Budgets <- Around
    Urls = {"u"}
    Embeds = {"u"}
    Profiles = 1
    CacheLimit = 1
INVARIANT AnnouncedRetryHappens
