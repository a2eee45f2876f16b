--------------------------- MODULE MCExecWebhooks ---------------------------
\* Instances of ExecWebhooks for TLC.
EXTENDS ExecWebhooks

CONSTANTS e1, e2, s1

\* Every task runs in the same sandbox.
SameSandbox == [e \in Execs |-> s1]
=============================================================================
