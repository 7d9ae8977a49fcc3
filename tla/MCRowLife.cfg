SPECIFICATION Spec
CONSTANTS
  Inputs <- In
  Virtuals <- Virt
  Outputs <- Out
  GraphsRun <- MCGraphs
  Rows <- MCRows
  Replays = 2
INVARIANTS
  VerdictTrue
  NeverMissing
  OnlyLive
  OnlyPrimingReads
  StrictIsScoped
