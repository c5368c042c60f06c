\* A playlist of two items on two slots; one command or crash, and a resume of the whole
\* playlist whenever it is paused.  A finished playlist rests: that is not a deadlock.
CHECK_DEADLOCK FALSE
SPECIFICATION FairSpec
CONSTANTS
    Count = 2
    Slots = 2
    MaxOps = 1
INVARIANT PlaylistSafe
PROPERTIES BatchIsTruthful PlaylistGoesOn
