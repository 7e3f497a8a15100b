SPECIFICATION MCSpec
CONSTANTS
  Jobs = {1, 2}
  Kind <- EveryAndCron
  Origin <- StaticAndTool
  Period = 2
  AtTime = 1
  CatchUpRuns = 1
  Backoff <- Delays
  MaxTimerDelay = 1
  MaxRetries = 2
  MaxClock = 3
  MaxCrashes = 1
  MaxOps = 2
PROPERTY SchedulerSound
PROPERTY DueJobsRun
CHECK_DEADLOCK FALSE
