\* A resolver run resolves, but leaves its resolution to the landing to commit.
SPECIFICATION ObedientSpec
CONSTANTS
  Task = {t1}
  File = {f}
  NoTask = NoTask
  PeopleWait = TRUE
  Orderly = TRUE
  LandedAgain = FALSE
  MaxResolver = 1
  MaxMade = 3
  MaxFaults = 1
PROPERTY ConflictsEnd
CHECK_DEADLOCK FALSE
