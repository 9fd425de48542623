CONSTANTS
    Harts = {h0, h1}
    Devices = {d}
    Addrs = {a, b}
    Vals <- MCVals
    Modify <- MCModify
    None = none
    Window = 3
    Quantum = 1
    LrReloads = TRUE
    Platforms <- MCPlatforms
    InstrDmi = FALSE
    Debug = TRUE
SPECIFICATION Spec
INVARIANTS NoLostWakeup WindowCoversLock
PROPERTY AtomicSpec
SYMMETRY Symmetry
