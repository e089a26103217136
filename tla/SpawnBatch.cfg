\* Two children sharing a pool of one window, with child-complete beside the batch.
SPECIFICATION Spec
CONSTANTS
    w1 = w1
    w2 = w2
    o1 = o1
    None = None
    Child <- TwoChildren
    Window = {w1, w2}
    Op = {o1}
    MaxAttempts = 2
    MaxWindows = 1
    Commands = {"batch", "reconcile"}
    Faults = {"crash", "refused", "ambiguous", "user"}
SYMMETRY Symmetry
PROPERTIES
    PageKept
    NewWindowsWithinPool
CHECK_DEADLOCK FALSE
