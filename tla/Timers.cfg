CONSTANTS
  Callbacks = {f, g}
  NULL = NULL
  Overlap = FALSE
SPECIFICATION FairSpec
INVARIANTS TypeOK Quiet AttachedLocked
PROPERTIES ImplementsAlarmClock KeepsRinging CallsReturn
