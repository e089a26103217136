\* Three watch processes and two commands: what a step may do, and what must happen in the end.
CONSTANTS
    h1 = h1
    h2 = h2
    h3 = h3
    c1 = c1
    c2 = c2
    None = None
    Ttl = 2
    Grace = 2
    Host <- ThreeHosts
    Command <- TwoCommands
SPECIFICATION FairSpec
INVARIANTS
    LateActsBounded
PROPERTIES
    FencedStaysFenced
    FenceClearedAfterExit
    StopLeadsToExit
    AbandonedLeaseFrees
CHECK_DEADLOCK FALSE
