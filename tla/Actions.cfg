\* Two executors, two clerks and two attempts, with crashes, late deliveries and stale writers.
CONSTANTS
    a1 = a1
    a2 = a2
    w1 = w1
    e1 = e1
    e2 = e2
    c1 = c1
    c2 = c2
    None = None
    MaxRecoveryAttempts = 1
    Attempt <- TwoAttempts
    Worker <- OneWorker
    Executor <- TwoExecutors
    Clerk <- TwoClerks
SYMMETRY ActionSymmetry
SPECIFICATION Spec
INVARIANTS
    NoAutomaticDuplicate
    VerdictsAreTrue
    RecoverySendsWithinBudget
CHECK_DEADLOCK FALSE
