SPECIFICATION Spec
CONSTANTS
  d1 = d1
  d2 = d2
  d3 = d3
  None = None
  Calls <- MCCalls
SYMMETRY MCSymmetry
CHECK_DEADLOCK FALSE
INVARIANT OneLiveCb
