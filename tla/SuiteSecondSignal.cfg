SPECIFICATION Spec
CONSTANTS
  Total = 1
  Output = TRUE
  MaxSignals = 2
PROPERTY SecondSignalHarmless
