SPECIFICATION FairSpec
CONSTANTS
  Name <- MCName
  Addr <- MCAddr
  Images <- MCImages
  FilePaths <- MCPaths
  Prefixes <- MCPrefixes
  MaxDepth = 2
CHECK_DEADLOCK FALSE
INVARIANTS TypeOK TreeShape TreeMatchesDisc CallsAreGrounded CallsAreSound PopulatedHasKey
PROPERTIES CacheOnlyGrows CacheIsTransparent CallsReturn
