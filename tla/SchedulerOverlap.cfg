SPECIFICATION Spec
CONSTANTS
  Schedules = {1}
  Parses = {1}
  Daemons = {d1, d2}
  d1 = d1
  d2 = d2
  Due <- EveryMinute
  MaxUp = 2
  LeaseTTL = 1
  StaleAfter = 2
  MaxFires = 1
  MaxConsidered = 5
  MaxSlot = 2
  MaxFaults = 1
  FaultHorizon = 1
  MaxOps = 2
INVARIANTS AtMostOnce FiredReceiptHasRun
PROPERTIES DecisionsFinal ImplementsLedger
