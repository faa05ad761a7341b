CONSTANTS
    spawn = spawn
    enroute = enroute
    afield = afield
    none = none
    Spawn <- spawn
    Enroute <- enroute
    Afield <- afield
    None <- none
    Paths = {1, 2}
    WayPoints <- MCWayPoints
    OOCPoint = 9
    PauseDelays = {0, 1}
    OneSecond = 1
    DespawnDelays = {0, 1}
    FollowDespawnDelay = 1
    MaxInterrupts = 2
    MaxScriptCalls = 2
SPECIFICATION Spec
CHECK_DEADLOCK FALSE
INVARIANTS TypeOK EscortFlagsWellFormed

