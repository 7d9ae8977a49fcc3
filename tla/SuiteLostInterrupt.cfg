SPECIFICATION Spec
CONSTANTS
  Total = 1
  Output = TRUE
  MaxSignals = 1
INVARIANT InterruptReported
