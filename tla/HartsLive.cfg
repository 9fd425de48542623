CONSTANTS
    Harts = {h0, h1}
    Devices = {}
    Addrs = {a}
    Vals <- MCOneVal
    Modify <- MCNoChange
    None = none
    Window = 3
    Quantum = 2
    LrReloads = FALSE
    Platforms <- MCBarePlatforms
    InstrDmi = FALSE
    Debug = FALSE
    N = 3
    Addresses = {i, j}
    Commands <- Packets
    Ebreaks = FALSE
    Exits = TRUE
SPECIFICATION LiveSpec
INVARIANTS NeverParksWithLock ReportsARealStop
PROPERTIES AccessesGetThrough AllStop CollectsTheStopped
