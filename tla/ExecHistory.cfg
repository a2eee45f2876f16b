SPECIFICATION Spec
CONSTANTS
    s1 = s1
    s2 = s2
    c1 = c1
    Execs = {1, 2, 3, 4}
    Sessions = {s1, s2}
    SessionOf <- TwoSessions
    Readers = {c1}
    ReaderSession <- OneReader
    Limits = {1, 3}
    MaxPage = 2
    Ttls = {0, 1}
    MaxTime = 3
INVARIANT PagesFollow
INVARIANT NothingSkipped
INVARIANT TimelyTokenAccepted
\* Every client may have its answer.
CHECK_DEADLOCK FALSE
