CONSTANTS
    h1 = h1
    h2 = h2
    Repos = {"old", "new"}
    FirstRepo = "old"
    NoRepo = "none"
    Handlers <- MCHandlers
    None = None
    Person = Person
    NotYet = NotYet
    MaxGithub = 2
    MaxLinear = 2
    MaxPeople = 1
    MaxAgain = 0
    MaxFailures = 0
    MaxReconfigs = 0

SPECIFICATION Spec

SYMMETRY RequestSymmetry

INVARIANTS
    MappingIsBidirectional


\* Issues and what others do are bounded.
CHECK_DEADLOCK FALSE
