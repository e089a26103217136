\* An existing and a new conversation with one window that the user moves between them.
CONSTANTS
    k1 = k1
    k2 = k2
    v1 = v1
    v2 = v2
    w1 = w1
    w2 = w2
    None = None
    MaxJobs = 2
    OldKey <- FirstKey
    NewKey <- SecondKey
    Window <- OneWindow
    Worker <- OneWorker
    MaxWindows = 1
SPECIFICATION FairSpec
PROPERTIES
    SentToItsConversation
    NotClosedOverASend
    DrainedWorkerExits
CHECK_DEADLOCK FALSE
