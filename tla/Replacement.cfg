\* Two conversations and one operator: observations that age, crashes, lost results, and a
\* workspace whose fingerprint changes and comes back.
CONSTANTS
    w1 = w1
    w2 = w2
    o1 = o1
    o2 = o2
    None = None
    Worker <- TwoWorkers
    Op <- OneOperator
    MaxAttempts = 1
    MaxRun = 2
    MaxWork = 1
    MaxRevision = 5
    MaxTime = 1
    LeaseSeconds = 1
    MaxEvidenceAge = 0
SYMMETRY ReplacementSymmetry
SPECIFICATION Spec
CONSTRAINT OneOrTheOther
INVARIANTS
    TypeOK
    FencedFirst
    NoVisibleWorkOverlooked
    NothingIntervened
    CompletedGrantsNewer
CHECK_DEADLOCK FALSE
