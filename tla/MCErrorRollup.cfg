CONSTANTS
    publish = publish
    silence = silence
    Categories <- MCCategories
    MaxPerBucket = 2
    MaxErrors = 4

SPECIFICATION Spec

INVARIANTS
    TypeOK
    Accounting
    BucketBounded

PROPERTIES
    EventuallyTold
    ImplementsLedger

\* Errors per category are bounded, so a behaviour ends when all are recorded
\* and the buckets are empty or no flush task runs.
CHECK_DEADLOCK FALSE
