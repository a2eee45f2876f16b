SPECIFICATION Spec
CONSTANTS
    Sandboxes = {b1, b2}
    Sessions = {s1, s2}
    Requests = {r1}
    Refillers = {f1, f2}
    PoolSize = 1
    MaxFaults = 0
    None = None
SYMMETRY Symmetry
PROPERTY ListedAreIdle
\* The system may run out of ids and requests.
CHECK_DEADLOCK FALSE
