SPECIFICATION FairSpec
CONSTANTS
  Total = 2
  Output = TRUE
  MaxSignals = 3
INVARIANTS TypeOK ZeroMeansAllGood
PROPERTIES FileKept TermEnds
