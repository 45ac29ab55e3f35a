CONSTANTS
  Callbacks = {f, g}
  NULL = NULL
  Overlap = TRUE
SPECIFICATION Spec
INVARIANTS HandedOutFree
