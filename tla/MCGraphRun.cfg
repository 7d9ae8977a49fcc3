SPECIFICATION FairSpec
CONSTANTS
  Graphs = {1}
  Engines = {1, 2}
  EngineLists <- Lists
  Configs <- Several
INVARIANTS OotbUntuned CachesRestored HardGate
           RowsAsPlanned ChildrenHaveRoom EnginesShareMode
PROPERTY GraphEnds
