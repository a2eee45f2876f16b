SPECIFICATION Spec
CONSTANTS
    Commands = {c1}
    Snapshots = {p1}
    Mounts = {m1}
    Rollbackers = {r1}
    MaxFaults = 1
    None = None
SYMMETRY Symmetry
INVARIANT TypeOK
INVARIANT ContainerKept
INVARIANT ListedSnapshotUsable
INVARIANT MountsMatch
\* Every id may have been used.
CHECK_DEADLOCK FALSE
