\* Two drivers, two windows and two operations: crashes, late evidence, duplicated windows.
CONSTANTS
    p1 = p1
    p2 = p2
    h1 = h1
    h2 = h2
    d1 = d1
    d2 = d2
    None = None
    Worker <- TwoWorkers
    Window <- TwoWindows
    Driver <- TwoDrivers
    MaxOps = 2
    MaxSeen = 1
SYMMETRY ProbeSymmetry
SPECIFICATION Spec
INVARIANTS
    TypeOK
    LaunchedOnce
    OneRecordedProbe
    ProbesAreTracked
CHECK_DEADLOCK FALSE
