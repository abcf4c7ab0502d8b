\* A task that landed is opened for another run.
SPECIFICATION LandSpec
CONSTANTS
  Task = {t1}
  File = {f}
  NoTask = NoTask
  PeopleWait = TRUE
  Orderly = TRUE
  LandedAgain = TRUE
  MaxResolver = 1
  MaxMade = 2
  MaxFaults = 1
INVARIANT UnlandedWorkIsKept
CHECK_DEADLOCK FALSE
