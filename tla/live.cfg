\* Dead runs are reaped and the slot of one task comes back to another.
SPECIFICATION FairSpec
CONSTANTS
    Task = {t1, t2}
    Session = {s1, s2, s3}
    Pump = {p1}
    Starter = {}
    NoSession = NoSession
    NoTask = NoTask
    MaxAgents = 1
    RestartSteps = 0
    MaxResumes = 0
    MaxRounds = 1
    DesignOn = FALSE
    ReviewOn = FALSE
    MaxFaults = 1
    MaxRequests = 2
PROPERTIES DeadRunIsReaped QueuedTaskLeavesQueue
CHECK_DEADLOCK FALSE
