CONSTANTS
    c1 = c1
    c2 = c2
    Clients <- MCClients
    Empty = Empty
    Torn = Torn
    Missing = Missing
    MaxIssued = 5
    MaxMishaps = 2

SPECIFICATION Spec

SYMMETRY ClientSymmetry

INVARIANTS
    TypeOK
    TokensSurvive
    StoreIsWhole

PROPERTIES
    NeverOlder

\* Tokens and mishaps are bounded.
CHECK_DEADLOCK FALSE
