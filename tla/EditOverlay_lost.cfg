CONSTANTS
    c1 = c1
    c2 = c2
    d = d
    Columns = {{c1, c2}, {d}}
    Cells = {x, y}
    Solid = {x}
    Cap = 1
    CanGenerate = TRUE
    BootFails = FALSE
    EvictsDuringRead = FALSE
    MaxEdits = 3
    None = None
SPECIFICATION OverlaySpec
INVARIANTS
    UnsavedEditsKept
