CONSTANTS
    Commands <- MCCommands
    MayBeRefused <- MCMayBeRefused
    Room = 3
    MaxCommands = 5

SPECIFICATION Spec

INVARIANTS
    TypeOK
    ClosedForACause

PROPERTIES
    ImplementsChannel
    SnapshotsArrive

\* The client leaves, and the daemon hangs up.
CHECK_DEADLOCK FALSE
