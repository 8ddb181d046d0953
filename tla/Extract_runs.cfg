SPECIFICATION FairHostSpec
CONSTANTS
  Name <- MCName
  Addr <- MCAddr
  Images <- MCImages
  FilePaths <- MCPaths
  Prefixes <- MCPrefixes
  MaxDepth = 1
  Dests <- MCDests
  HostName <- MCHostName
  MaxRuns = 2
CHECK_DEADLOCK FALSE
INVARIANTS HostTypeOK SuccessIsComplete
PROPERTIES MetadataFollowsData OnlyTheDestinationChanges RunEnds
