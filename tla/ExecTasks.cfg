SPECIFICATION FairSpec
CONSTANTS
    e1 = e1
    e2 = e2
    s1 = s1
    Execs = {e1, e2}
    Sandboxes = {s1}
    SandboxOf <- SameSandbox
    MaxCrashes = 1
INVARIANT TypeOK
INVARIANT RecordsAgree
INVARIANT RunnerOwnsTask
INVARIANT AnswerStands
PROPERTY LiveRowKept
PROPERTY ImplementsPromise
PROPERTY CancelTerminates
\* A task may run for ever or every request may be over.
CHECK_DEADLOCK FALSE
