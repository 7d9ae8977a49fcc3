SPECIFICATION Spec
CONSTANTS
  Graphs = {1}
  Engines = {1, 2}
  EngineLists <- Lists
  Configs <- Modes
INVARIANT RowsShareMode
