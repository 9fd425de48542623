CONSTANTS
    NumberInterrupts = 4
    MaxPriority = 2
    WrittenValues = {1, 3}
    Polls = FALSE
    Nests = FALSE
    Reconfigures = {FALSE, TRUE}
    GpioPins = {1}
    IofPins = {1}
    RegisterSets <- MCRegisterSets
    Repeats = FALSE
    BufferSize = 2
    Cells = 8
    Commands <- MCCommands
    MaxCommands = 2
    Eager = FALSE
    DmaIrq = 2
    Functional <- MCFunctional
    MaxIds = 255
    SocketBuffer = 2
    MaxClients = 2
    LeavesWith = {"SPI"}
    LeavesEarly = FALSE
    ComesEarly = FALSE
    AsksAgain = FALSE
SPECIFICATION PlatformSpec
INVARIANTS NoLostInterrupt NoAssertFails PinsAreShared CopyIsExact
PROPERTIES WaitsEnd
CHECK_DEADLOCK FALSE
