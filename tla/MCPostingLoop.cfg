CONSTANTS
    x = x
    Announcements = {1, 2, 3}
    Sensitive = {2}
    Platforms <- MCPlatforms
    Room = Room
    Settings <- MCSettings
    Window = 2
    MaxPerCycle = 1
    Forget = 1
    MaxRespawns = 1
    MaxOthers = 1

SPECIFICATION LoopSpec

INVARIANTS
    LoopTypeOK
    NoRepost

PROPERTIES
    CycleEnds
    EventuallyPosted
    DeadLoopIsNoticed

\* A loop that panicked stays dead.
CHECK_DEADLOCK FALSE
