\* One part at a time, each on its own small instance.
SPECIFICATION SweepsSpec
CONSTANTS
    \* Two processes share the pump lock.
    Pump = {tui, daemon}
    Fresh = 1
    Backstop = 2
    LaunchIn = 1
    MaxDeaths = 1
    \* One writer of plans and edges, one sweeping pump, humans, one killed
    \* command; ids of deleted tasks are not minted again.
    MaxId = 3
    InitialTasks = 2
    Key = {a, b}
    Writer = {w1}
    Sweeper = {p1}
    Synced = TRUE
    MaxRequests = 2
    MaxFaults = 1
    \* A pool of two, one slot, one crash restart; a 429 of the second
    \* candidate carries the usage of its provider.
    Candidates = 2
    Slots = 1
    BackoffSteps = 1
    Recorded = {2}
INVARIANTS QuietHidesNoQueuedTask  FirstToComeWins
PROPERTIES WorkIsFound JoinsAreKept ReleasedNodeStarts ParkEnds
CHECK_DEADLOCK FALSE
