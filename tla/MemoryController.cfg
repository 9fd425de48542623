CONSTANTS
    Req <- MCReq
    Bank <- MCBoth
    SubArray <- MCBoth
    Row <- MCBoth
    Address <- MCAddress
    Params <- MCParams
    QueueSize = 2
    EndsInDrain = FALSE
    DelayedRefreshThreshold = 1
    Horizon = 3
    tRCD = 2
    tRAS = 2
    tCCD = 2
    tRTP = 1
    tRP = 1
    tCAS = 3
    tRFC = 2
    tREFI = 12
SPECIFICATION FairSpec
INVARIANTS RowsAgree NoOversleep RefreshIsPrompt ServedOnce
PROPERTY Drains
