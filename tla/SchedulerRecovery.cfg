SPECIFICATION Spec
CONSTANTS
  Schedules = {1}
  Parses = {1}
  Daemons = {d1, d2}
  d1 = d1
  d2 = d2
  Due <- EveryMinute
  MaxUp = 1
  LeaseTTL = 1
  StaleAfter = 2
  MaxFires = 1
  MaxConsidered = 5
  MaxSlot = 3
  MaxFaults = 1
  FaultHorizon = 2
  MaxOps = 3
SYMMETRY Pids
INVARIANTS TypeOK NoSlotLost NoPileUp OnlyLatestSlotFires
PROPERTIES WatermarkMonotonic
