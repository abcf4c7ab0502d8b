\* One component at a time; nothing is fair.
SPECIFICATION ExchangeSpec
CONSTANTS
    \* Two replicas write one task.
    Replica = {1, 2}
    Value = {a, b}
    Skew = 0
    MaxWall = 1
    MaxOps = 4
    MaxRestarts = 1
    \* Two tasks land in one folder.
    Task = {t1, t2}
    File = {f}
    NoTask = NoTask
    PeopleWait = TRUE
    Orderly = TRUE
    LandedAgain = FALSE
    MaxResolver = 1
    MaxMade = 2
    MaxFaults = 1
    \* Two cards, moved one by one and together.
    Card = {c1, c2}
    Column = {inReview, isDone}
    NoColumn = NoColumn
    BulkMoves = TRUE
    MaxEdits = 1
    MaxMoves = 2
    \* Two nodes work a task, two sessions each.
    Peer = {1, 2}
    Work = {1}
    MaxDeaths = 1
    MaxSessions = 2
    MaxIntents = 2
    \* Every graph of three tasks, with one id that no task has.
    Vertex = {n1, n2, n3}
    Unknown = {u}
INVARIANTS
    SameOpsSameTask  LossIsReported
    OnlyConcurrentVersionsConflict UnlandedWorkIsKept SettledOnce
    
    DescriptorTellsRun GenerationNamesOneSession NoneMissed CycleIsReal
PROPERTIES FolderKeepsEdits ScreenNeverGoesBack NothingTwice
CHECK_DEADLOCK FALSE
