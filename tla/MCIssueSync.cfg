CONSTANTS
    h1 = h1
    h2 = h2
    Repos = {"old", "new"}
    FirstRepo = "old"
    NoRepo = "none"
    Handlers <- MCHandlers
    None = None
    Person = Person
    NotYet = NotYet
    MaxGithub = 2
    MaxLinear = 2
    MaxPeople = 2
    MaxAgain = 1
    MaxFailures = 1
    MaxReconfigs = 1

SPECIFICATION Spec

SYMMETRY RequestSymmetry

INVARIANTS
    TypeOK
    MirroredOnce
    CopiesAreMapped
    RowsAreTrue

\* Issues and what others do are bounded.
CHECK_DEADLOCK FALSE
