SPECIFICATION AllSpec
CONSTANTS
    bankCount = 2
    closePage = 1
    banksPerRefresh = 1
    rawNum = 2
    tBURST = 2
    tCCD = 2
    tCAS = 3
    tCWD = 2
    tRTRS = 1
    tOST = 1
    tWTR = 1
    tRTP = 2
    tWR = 1
    tRCD = 2
    tRAS = 3
    tRP = 2
    tRRDR = 2
    tRAW = 5
    tRFC = 4
    tXP = 1
    tXPDLL = 3
    tPD = 1
    tPPD = 1
    tRDPDEN = 1
    tWRPDEN = 1
    tWP = 1
    None = None
    NoRegister = NoRegister
    ReadsBack = {"socket"}
    queue_size = 14
    MaxOps = 2
    MaxArrivals = 3
    Sending = {0, 2}
INVARIANTS DeviceAccepts LevelsAgree DataAreRight
PROPERTY ResultsArrive
