CONSTANTS
  Mod = 64
  clocksPerMilisecond = 5
  OVERFLOW_MILLIS = 13
  MaxGap = 5
  Timeouts = {1, 2, 5, 11, 12, 20}
  Dividers <- MCDividers
  Sizes = {3, 4, 6}
  MaxTurns = 2
SPECIFICATION FairSpec
INVARIANTS DelayNeverEarly DelayInTime TimeoutEarlyOnlyAtRollOver MillisDrift PeriodRight OrderWithinHalf
PROPERTIES TimedReadReturns
CHECK_DEADLOCK FALSE
