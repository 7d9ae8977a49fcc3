SPECIFICATION FairSpec
CONSTANTS
  MaxWork = 2
  MaxCalls = 2
  InterruptAt = {"enqueue", "stop", "release", "sync", "check"}
INVARIANTS
  GapFreeSample
  ReleasedOnExit
  ArmsIdle
PROPERTY Returns
