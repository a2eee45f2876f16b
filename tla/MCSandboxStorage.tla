-------------------------- MODULE MCSandboxStorage --------------------------
\* Instances of SandboxStorage for TLC.
EXTENDS SandboxStorage, TLC

\* Ids and request slots are interchangeable.
Symmetry ==
    Permutations(Commands) \cup Permutations(Snapshots) \cup Permutations(Mounts)
        \cup Permutations(Rollbackers)
=============================================================================
