CONSTANTS
    rowBits = 1
    colBits = 1
    bankBits = 1
    rankBits = 0
    channelBits = 1
    subarrayBits = 0
    Lines = {0, 2, 10}
    Stream = {0, 1, 3}
    queueSize = 2
    PrefetchBufferSize = 2
    promotionChannel = 0
    MaxOutstanding = 3
    MaxPrefetches = 2
    MaxMigrations = 2
    Recurs = FALSE
    None = None
SPECIFICATION Spec
PROPERTY ServedFromTheBuffers
