---------------------------- MODULE MCSandboxPool ----------------------------
\* Instances of SandboxPool for TLC.
EXTENDS SandboxPool, TLC

\* Ids, sessions and goroutines are interchangeable.
Symmetry ==
    Permutations(Sandboxes) \cup Permutations(Sessions)
        \cup Permutations(Requests) \cup Permutations(Refillers)
=============================================================================
