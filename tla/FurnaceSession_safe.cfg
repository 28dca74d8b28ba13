CONSTANTS
    Cap = 2
    Stations = {"furnace", "smoker"}
    Hotbar = 1
    Storage = 2
    Pack <- MCPack
    Lying <- MCLying
    CookTicks = 3
    BurnTicks = 4
    XpPerCook = 4
    XpUnit = 3
    MaxTicks = 2
SPECIFICATION SessionSpec
INVARIANTS
    ItemsConserved
    NoFreeSmelt
    XpOnce
    NoGhostScreen
