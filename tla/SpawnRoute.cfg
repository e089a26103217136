\* The documented rule about completed spawns, with a Send that only created the conversation.
SPECIFICATION Spec
CONSTANTS
    w1 = w1
    w2 = w2
    o1 = o1
    None = None
    Child <- OneChild
    Window = {w1, w2}
    Op = {o1}
    MaxAttempts = 1
    MaxWindows = 1
    Commands = {"batch", "reconcile"}
    Faults = {"timeout", "route"}
INVARIANTS
    CompletedWasDelivered
CHECK_DEADLOCK FALSE
