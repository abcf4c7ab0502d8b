\* Two tasks compete for one slot, two pumps walk the same queue, and one
\* restart is allowed per task.
SPECIFICATION Spec
CONSTANTS
    Task = {t1, t2}
    Session = {s1, s2, s3, s4}
    Pump = {p1, p2}
    Starter = {}
    NoSession = NoSession
    NoTask = NoTask
    MaxAgents = 1
    RestartSteps = 1
    MaxResumes = 0
    MaxRounds = 1
    DesignOn = FALSE
    ReviewOn = FALSE
    MaxFaults = 0
    MaxRequests = 2
SYMMETRY Symmetry
INVARIANT CrashBudget
PROPERTY ClaimWithinCap
CHECK_DEADLOCK FALSE
