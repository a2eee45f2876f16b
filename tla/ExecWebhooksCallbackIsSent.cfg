SPECIFICATION WSpec
CONSTANTS
    e1 = e1
    e2 = e2
    s1 = s1
    Execs = {e1}
    Sandboxes = {s1}
    SandboxOf <- SameSandbox
    MaxCrashes = 0
    Urls = {u1}
    Clients = {c1}
INVARIANT CallbackIsSent
\* A task may run for ever or every request may be over.
CHECK_DEADLOCK FALSE
