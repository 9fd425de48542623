CONSTANTS
    NUMIRQ = 3
    NumHarts = 1
    Used <- OnlyHart0
    Devices = {1, 2}
    MAX_PRIO = 2
    MAX_THR = 2
    Written = {1, 2}
    Masks = {{}, {1, 2}}
    Reconfigures = {TRUE}
SPECIFICATION Spec
PROPERTY ClaimsHighest
