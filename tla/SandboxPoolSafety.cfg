SPECIFICATION Spec
CONSTANTS
    Sandboxes = {b1, b2}
    Sessions = {s1, s2}
    Requests = {r1, r2}
    Refillers = {f1, f2}
    PoolSize = 1
    MaxFaults = 1
    None = None
SYMMETRY Symmetry
INVARIANT TypeOK
INVARIANT PoolBound
INVARIANT PoolEntriesUsable
INVARIANT NothingLeaksWithoutFaults
INVARIANT LockHolderWorks
PROPERTY ImplementsLife
\* The system may run out of ids and requests.
CHECK_DEADLOCK FALSE
