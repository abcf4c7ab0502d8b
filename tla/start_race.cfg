\* Two starts of one task at the same time.
SPECIFICATION Spec
CONSTANTS
    Task = {t1, t2}
    Session = {s1, s2, s3}
    Pump = {p1}
    Starter = {h1, h2}
    NoSession = NoSession
    NoTask = NoTask
    MaxAgents = 1
    RestartSteps = 0
    MaxResumes = 0
    MaxRounds = 1
    DesignOn = FALSE
    ReviewOn = FALSE
    MaxFaults = 0
    MaxRequests = 3
SYMMETRY Symmetry
PROPERTY StartRefusesRunning
CHECK_DEADLOCK FALSE
