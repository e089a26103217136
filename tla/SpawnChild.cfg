\* One child and two attempts: every command, crash, helper and page outcome.
SPECIFICATION FairSpec
CONSTANTS
    w1 = w1
    w2 = w2
    o1 = o1
    None = None
    Child <- OneChild
    Window = {w1, w2}
    Op = {o1}
    MaxAttempts = 2
    MaxWindows = 1
    Commands = {"batch", "arm", "open", "send", "reconcile", "adopt"}
    Faults = {"crash", "refused", "ambiguous", "limit", "timeout", "route", "user"}
INVARIANTS
    TypeOK
    DeliveredOnce
    SendsAreAuthorised
PROPERTIES
    ReconcileResolves
CHECK_DEADLOCK FALSE
