\* One task through design, execution and review, started, queued, stopped,
\* recovered and finished by a human while one pump, one agent after another
\* and one fault interleave with it.
SPECIFICATION Spec
CONSTANTS
    Task = {t1}
    Session = {s1, s2, s3, s4}
    Pump = {p1}
    Starter = {h1}
    NoSession = NoSession
    NoTask = NoTask
    MaxAgents = 1
    RestartSteps = 0
    MaxResumes = 1
    MaxRounds = 1
    DesignOn = TRUE
    ReviewOn = TRUE
    MaxFaults = 1
    MaxRequests = 2
SYMMETRY Symmetry
INVARIANTS TypeOK OneRunPerTask ResumeBudget
PROPERTY FinishedStaysFinished
CHECK_DEADLOCK FALSE
