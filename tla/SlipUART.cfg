CONSTANTS
    UART_FIFO_DEPTH = 2
    TxLevels = {1, 2}
    RxLevels = {0, 1}
    Packets <- MCPackets
    Bytes <- MCBytes
    Traffic <- MCTraffic
SPECIFICATION FairSpec
INVARIANTS NoLostInterrupt SemaphoresMatch PacketsArrive
PROPERTIES GuestIsServed StopCompletes
CHECK_DEADLOCK FALSE
