\* A worker and a command sync the same client at the same time.
SPECIFICATION Spec
CONSTANTS
    Client = {c1}
    Server = srv
    Slot = {worker, command}
    Worker = {}
    MaxOps = 3
    MaxFaults = 1
INVARIANT CursorBehindApplied
