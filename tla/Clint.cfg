CONSTANTS
    Harts = {h1, h2}
    Scaler = 2
    Quantum = 1
    Never = 99
    MaxTime = 4
    DIVIDEND = 2
    MaxTicks = 2
    None = None
    rowBits = 1
    colBits = 1
    bankBits = 1
    rankBits = 0
    channelBits = 1
    subarrayBits = 0
    Lines = {0, 2, 10}
    Stream = {0, 1, 3}
    queueSize = 2
    PrefetchBufferSize = 2
    promotionChannel = 0
    MaxOutstanding = 3
    MaxPrefetches = 2
    MaxMigrations = 2
    Recurs = FALSE
SYMMETRY HartSymmetry
SPECIFICATION MCSpec
INVARIANTS TimerIsWatched NotTooEarly RealTimersAreExact MemoryIsKept
PROPERTY NoSpuriousTimer
CHECK_DEADLOCK FALSE
