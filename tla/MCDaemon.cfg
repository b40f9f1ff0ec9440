CONSTANTS
    affine = affine
    matrix = matrix
    social = social
    v1 = v1
    v2 = v2
    r1 = r1
    r2 = r2
    o1 = o1
    Names <- MCNames
    Kind <- MCKind
    Order <- MCOrder
    Values <- MCValues
    LoopValues = {v1}
    Instances = {1,2,3,4,5,6,7}
    None = None
    PowerValues = {"p1", "p2", "bad"}
    ValidPower = {"p1", "p2"}
    Files <- MCFiles
    Unparsable = Unparsable
    FirstConfig <- Booted
    FirstPower = {"Active"}
    Reloaders = {r1, r2}
    Operators = {o1}
    Watcher = Watcher
    MayFail <- MCMayFail
    MaxEdits = 1
    MaxReloads = 2
    MaxToggles = 1
    MaxFlips = 2
    MaxEnds = 1
    MaxEvents = 4

SPECIFICATION Spec

INVARIANTS
    TypeOK
    NoDoubledTask
    TaskIsReachable
    RegistryFollowsConfig
    StatusIsTrue

PROPERTIES
    ReloadEnds

\* Edits, reloads, toggles and power transitions are bounded.
CHECK_DEADLOCK FALSE
