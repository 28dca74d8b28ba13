CONSTANTS
    Chunks = {c, d}
    Player = player
    Coverage = {c}
    Faults = {"open repositories", "health check", "no-source marker write", "migration attempt marker read", "durable-state probe", "legacy read", "record put", "record stored", "record read", "record delete", "column put", "migration marker write", "migration attempt marker write", "world metadata read", "load committed columns", "load committed edits", "load edits", "load player state", "write world metadata"}
    MaxFaults = 2
    MaxVersion = 3
    Sources = {TRUE, FALSE}
SPECIFICATION OpenSpec
INVARIANTS
    MarkerMeansMigrated
    OkMeansComplete
PROPERTIES
    ProgressKept
    StampIsFresh
    
