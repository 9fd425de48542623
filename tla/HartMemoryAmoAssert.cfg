CONSTANTS
    Harts = {h0, h1}
    Devices = {d}
    Addrs = {a}
    Vals <- MCVals
    Modify <- MCModify
    None = none
    Window = 3
    Quantum = 1
    LrReloads = TRUE
    Platforms <- MCPagedPlatform
    InstrDmi = FALSE
    Debug = FALSE
SPECIFICATION Spec
INVARIANT NoAssertFails
CHECK_DEADLOCK FALSE
