SPECIFICATION Spec
CONSTANTS
  a = a
  b = b
  c = c
  Keys <- MCKeys
INVARIANT NothingLeftRunning
CHECK_DEADLOCK FALSE
