SPECIFICATION FairSpec
CONSTANTS
    Requests = {r1}
    Execs = {e1}
    Targets = {5}
    Created = {2, 5}
    Policies <- SomePolicies
    MaxInt = 127
    LimitBound = 6
INVARIANT TypeOK
INVARIANT CeilingKept
PROPERTY LoweredOnlyByRace
 
PROPERTY FinalResultKept
PROPERTY PollerStops
\* Every command may be over, and every request refused.
CHECK_DEADLOCK FALSE
