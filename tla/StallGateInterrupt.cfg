SPECIFICATION Spec
CONSTANTS
  MaxWork = 1
  MaxCalls = 1
  InterruptAt = {"start"}
INVARIANT ReleasedOnExit
