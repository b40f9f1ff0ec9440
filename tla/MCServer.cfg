CONSTANTS
    doc = doc
    h1 = h1
    h2 = h2
    p1 = p1
    signal = signal
    admin = admin
    Documents = {doc}
    Handlers = {h1, h2}
    Publishers = {p1}
    Reloaders = {signal, admin}
    Admins = {admin}
    Main = Main
    NumEvents = 2
    Histories <- MCHistories
    Budgets <- MCBudgets

SPECIFICATION Spec

INVARIANTS
    TypeOK
    ContractIsKept
    AcceptedIsDone

PROPERTIES
    EventuallyAccepted
    EveryWaitEnds

\* Documents, people and operators may be at rest.
CHECK_DEADLOCK FALSE
