\* Clock readings and three conversations for one process; two processes with stale or torn
\* views, one of them recording window bindings, on two conversations.
CONSTANTS
    w1 = w1
    w2 = w2
    w3 = w3
    p1 = p1
    p2 = p2
    None = None
    Worker <- ThreeWorkers
    Proc <- TwoProcs
    Binders <- OneProc
    Times = {0, 1}
    LegacyTimes = {0}
    LeaseSeconds = {1, 2}
    MaxRevision = 6
SYMMETRY WorkerSymmetry
SPECIFICATION Spec
CONSTRAINT SmallWhenShared
INVARIANTS
    TypeOK
    SnapshotValid
    MirrorConsistent
    FencedForever
    LogIsTruthful
    RevisionVouchesForView
PROPERTIES
    CommitsFromCurrentView
    LeasesStartUnbound
    ImplementsAuthority
CHECK_DEADLOCK FALSE
