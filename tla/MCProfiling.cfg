SPECIFICATION SpecProfiling
CONSTANTS
  Capped = TRUE
  MaxInterrupts = 2
  InterruptAt = {"communicate", "reap", "exit"}
  Requests <- MCRequests
  Hosts <- MCHosts
  Selections <- MCSelections
  Leftovers <- MCLeftovers
INVARIANTS CapTearsDown SlicesKept OwnData ToolsHonest
PROPERTIES PassesEnd StoppedIsNoData
