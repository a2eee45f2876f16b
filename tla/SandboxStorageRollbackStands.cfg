SPECIFICATION Spec
CONSTANTS
    Commands = {c1}
    Snapshots = {p1, p2}
    Mounts = {}
    Rollbackers = {r1}
    MaxFaults = 0
    None = None
SYMMETRY Symmetry
INVARIANT RollbackStands
\* Every id may have been used.
CHECK_DEADLOCK FALSE
