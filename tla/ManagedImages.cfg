SPECIFICATION FairSpec
CONSTANTS
    Images = {i1}
    Creates = {c1}
    Refills = {f1}
    None = None
    Ttl = 1
    MaxTime = 3
    MaxCrashes = 1
INVARIANT NothingForgotten
INVARIANT UsedImageKept
PROPERTY UnusedImagesGo
\* The system may be idle.
CHECK_DEADLOCK FALSE
