SPECIFICATION AllSpec
CONSTANTS
  mti = mti
  sei = sei
  fault = fault
  None = None
  Interrupts = {mti, sei}
  Home <- MCHome
  Rank <- MCRank
  Software = {}
  External = {sei}
  Local = {mti}
  Exceptions = {fault}
  Delegations <- MCDelegations
  MaxSaved = 1
  zero = zero
  a0 = a0
  Regs <- MCRegs
  Zero = zero
  Ranges <- MCRanges
  MultLatency = 6
  DivLatencies = {6, 8}
  CsrLatency = 5
  StoreLatency = 2
  FirstCycles = {0, 3}
  MaxCycles = 15
INVARIANTS NestingUnwinds NoLostWakeup InstructionsAreRight
PROPERTIES TrapsKeepPrivilege CatchesUp KeepsTheTimes
