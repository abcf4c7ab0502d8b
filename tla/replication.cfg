\* One client and the server; links break, power is lost, the client is away
\* for too long.
SPECIFICATION FairSpec
CONSTANTS
    Client = {c1}
    Server = srv
    Slot = {worker}
    Worker = {worker}
    MaxOps = 3
    MaxFaults = 1
INVARIANTS CursorBehindApplied PrunedIsReceived
PROPERTIES ReplicasOnlyGrow Converges
