CONSTANTS
    Chunks = {0, 1, 4}
    Centers = {1, 2, 3}
    LoadRadius = 1
    Hysteresis = 1
    Interactive = 0
    ColumnCap = 2
    GenerateCap = 2
    MeshCap = 1
    GenerateQuota = 1
    MeshQuota = 1
    UnloadQuota = 1
    Parts = 2
    MaxEvents = 2
SPECIFICATION MeshingFairSpec
INVARIANTS
    MeshTypeOK
    CleanShowsEdits
    NeverStranded
    BatchOwnsStage
PROPERTIES
    MeshesSettle
