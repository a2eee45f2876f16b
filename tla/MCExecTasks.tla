----------------------------- MODULE MCExecTasks -----------------------------
\* Instances of ExecTasks for TLC.
EXTENDS ExecTasks

CONSTANTS e1, e2, s1

\* Two tasks of one sandbox.
SameSandbox == [e \in {e1, e2} |-> s1]
=============================================================================
