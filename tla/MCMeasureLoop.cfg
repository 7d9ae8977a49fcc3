SPECIFICATION Spec
CONSTANTS
  Policies <- MCPolicies
  Elapsed <- MCElapsed
INVARIANTS
  WarmupCountHonest
  ColdRuns
  StagedOnlyIfSafe
  ProbeIsHarmless
  WorkBounded
PROPERTY BudgetKept
