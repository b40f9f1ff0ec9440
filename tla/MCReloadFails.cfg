CONSTANTS
    linear = linear
    documenso = documenso
    v1 = v1
    v2 = v2
    Names <- MCNames
    Kind <- MCKind
    Order <- MCOrder
    Values <- MCValues
    LoopValues = {}
    Instances = {1,2,3,4}
    None = None
    PowerValues = {"p1", "bad"}
    ValidPower = {"p1"}
    Files <- MCFiles
    Unparsable = Unparsable
    FirstConfig <- Booted
    FirstPower = {"Active"}
    Reloaders = {r1}
    Operators = {}
    Watcher = Watcher
    MayFail = {}
    MaxEdits = 1
    MaxReloads = 2
    MaxToggles = 0
    MaxFlips = 0
    MaxEnds = 0
    MaxEvents = 3

SPECIFICATION Spec

INVARIANTS
    FailsSafely

\* Edits and reloads are bounded.
CHECK_DEADLOCK FALSE
