\* One schedule over two days, two commands or crashes, under fair scheduling.  A stopped or
\* finished torrent with nothing scheduled rests: that is not a deadlock.
CHECK_DEADLOCK FALSE
SPECIFICATION FairSpec
CONSTANTS
    s1 = s1
    Schedules = {s1}
    Days = 2
    MaxOps = 2
INVARIANT TorrentSafe
PROPERTIES DecisionsStand OrdersAreServed
