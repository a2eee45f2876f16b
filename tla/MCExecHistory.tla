---------------------------- MODULE MCExecHistory ----------------------------
\* Instances of ExecHistory for TLC.
EXTENDS ExecHistory

CONSTANTS s1, s2, c1

\* Three tasks of one session and one of another; a client of the first.
TwoSessions == [e \in Execs |-> IF e = 2 THEN s2 ELSE s1]
OneReader   == [c \in Readers |-> s1]
=============================================================================
