SPECIFICATION Spec
CONSTANTS
  Schedules = {1, 2, 3}
  Parses = {1, 2}
  Daemons = {d1}
  d1 = d1
  Due <- EveryMinute
  MaxUp = 1
  LeaseTTL = 1
  StaleAfter = 2
  MaxFires = 1
  MaxConsidered = 5
  MaxSlot = 2
  MaxFaults = 0
  FaultHorizon = 9
  MaxOps = 4
INVARIANTS NoStarvation
