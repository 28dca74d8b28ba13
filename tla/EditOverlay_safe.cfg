CONSTANTS
    c1 = c1
    c2 = c2
    Columns = {{c1, c2}}
    Cells = {x, y}
    Solid = {x}
    Cap = 1
    CanGenerate = TRUE
    BootFails = TRUE
    EvictsDuringRead = FALSE
    MaxEdits = 3
    None = None
SPECIFICATION OverlaySpec
INVARIANTS
    OverlayMirrorsColumn
    OverlayIsRecorded
PROPERTIES
    EditsStay
    
