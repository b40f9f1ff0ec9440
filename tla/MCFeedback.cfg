CONSTANTS
    q1 = q1
    q2 = q2
    crash = crash
    freeze = freeze
    wish = wish
    bug = bug
    feature = feature
    Requests <- MCRequests
    Topics <- MCTopics
    Category <- MCCategory
    Window = 1
    MaxClusters = 2
    MaxFaults = 1

SPECIFICATION Spec

SYMMETRY RequestSymmetry

INVARIANTS
    TypeOK
    OneIssuePerTopic
    FiledAsTold

\* Requests end.
CHECK_DEADLOCK FALSE
