\* Each part by itself; the other bounds are in the module.  A part whose work is done, or whose
\* budget is spent, rests: that is not a deadlock.
CHECK_DEADLOCK FALSE
SPECIFICATION FairServices
CONSTANTS
    NoValue = NoValue
    ToolVersions = {1, 2, 3}
    MaxUpdates = 3
    MaxSequence = 3
    MaxCrashes = 2
    Modes = {"video_mp4", "audio", "source"}
    MaxStops = 2
    Hosts = {"generic", "youtube", "tiktok"}
    HostProfiles <- ProfilesOf
    MaxRefreshes = 2
    MaxBackoffs = 3
    Windows = {"media", "list"}
    Player = "player"
    Requests = {1, 2, 3}
    Budgets <- AroundExpiring
    Urls = {"u"}
    Embeds = {"u"}
    Profiles = 1
    CacheLimit = 1
    Captures = {c1, c2}
    Controls = {k}
    OpenMessages = {o}
    Pings = {p}
    Apps = {a1, a2}
    Url <- OneAddress
    Programs = {"published"}
    Scenarios <- FewMessages
    SearchKeys <- TwoQueries
    Analyses = {2, 3}
    MaxLogins = 2
    MaxTokens = 3
    c1 = c1  c2 = c2  k = k  o = o  p = p  a1 = a1  a2 = a2
INVARIANTS OneTransfer SearchSafe SessionRenewable
PROPERTIES EnginesKeep EverythingEnds
