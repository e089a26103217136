\* A new conversation: two jobs, two windows, a worker and its successor.
CONSTANTS
    k1 = k1
    k2 = k2
    v1 = v1
    v2 = v2
    w1 = w1
    w2 = w2
    None = None
    MaxJobs = 2
    OldKey <- NoKeys
    NewKey <- FirstKey
    Window <- TwoWindows
    Worker <- TwoWorkers
    MaxWindows = 1
SPECIFICATION Spec
INVARIANTS
    CancelledNotSent
CHECK_DEADLOCK FALSE
