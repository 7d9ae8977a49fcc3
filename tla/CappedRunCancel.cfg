SPECIFICATION Spec
CONSTANTS
  Capped = TRUE
  MaxInterrupts = 1
  InterruptAt = {"communicate"}
INVARIANT CancelTearsDown
