\* The documented bound on dispatcher pages, with child-complete beside the batch and no fault.
SPECIFICATION Spec
CONSTANTS
    w1 = w1
    w2 = w2
    o1 = o1
    None = None
    Child <- TwoChildren
    Window = {w1, w2}
    Op = {o1}
    MaxAttempts = 1
    MaxWindows = 1
    Commands = {"batch"}
    Faults = {}
INVARIANTS
    PagesWithinMaxWindows
CHECK_DEADLOCK FALSE
