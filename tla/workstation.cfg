\* One component at a time, each on its own small instance.
SPECIFICATION WorkstationSpec
CONSTANTS
    \* A board of two cards on one screen.
    Card = {c1, c2}
    Column = {review, done}
    NoColumn = NoColumn
    BulkMoves = TRUE
    MaxEdits = 1
    MaxMoves = 1
    \* Two files of a synchronized board.
    Path = {p, q}
    Text = {a, b}
    Blank = a
    NoPath = NoPath
    EditorsWait = TRUE
    MaxWrites = 3
    MaxKills = 2
    \* One task in a checkout of its own.
    Task = {t1}
    File = {f}
    NoTask = NoTask
    PeopleWait = TRUE
    Orderly = TRUE
    LandedAgain = FALSE
    MaxResolver = 1
    MaxMade = 3
    MaxFaults = 1
INVARIANTS
    CleanIsJournaled NoChangeTwice
PROPERTIES
    ScreenCatchesUp  EditsAreJournaled
    ConflictsEnd LandedIsCleaned
CHECK_DEADLOCK FALSE
