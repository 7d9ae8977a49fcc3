SPECIFICATION SpecLaunch
CONSTANTS
  Requests <- MCRequests
  Hosts <- MCHosts
  DefaultIndex <- MCDefaultIndex
  MaxRuns = 3
  Commands <- MCCommands
  NoConfig = NoConfig
  PluginDirs <- MCPluginDirs
  Inherited <- MCInherited
  Documents <- MCDocuments
  Comparisons <- MCComparisons
INVARIANTS
  NoSilentMix BuildUnmixed FetchIsWhole SetupSuffices HipdnnFirst PairsKept
  ComparedOnce SelfIsQuiet
