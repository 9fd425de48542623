CONSTANTS
    NUMIRQ = 3
    NumHarts = 2
    Used <- OneLevelEach
    Devices = {1, 2}
    MAX_PRIO = 1
    MAX_THR = 1
    Written = {0, 2}
    Masks = {{}, {1, 2}}
    Reconfigures = {FALSE, TRUE}
SPECIFICATION FairSpec
INVARIANT RaisedWhenDue
PROPERTY FirstIsServed
