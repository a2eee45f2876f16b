SPECIFICATION WFairSpec
CONSTANTS
    e1 = e1
    e2 = e2
    s1 = s1
    Execs = {e1}
    Sandboxes = {s1}
    SandboxOf <- SameSandbox
    MaxCrashes = 1
    Urls = {u1, u2}
    Clients = {c1, c2}
INVARIANT WebhookTypeOK
INVARIANT PendingIsOwed
INVARIANT PostsAreFinal
PROPERTY ImplementsCallbacks
PROPERTY TimelyCallbackHappens
\* A task may run for ever or every request may be over.
CHECK_DEADLOCK FALSE
