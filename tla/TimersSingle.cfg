CONSTANTS
  Callbacks = {f, g}
  NULL = NULL
  Overlap = FALSE
SPECIFICATION Spec
INVARIANTS FreeTimerFound
