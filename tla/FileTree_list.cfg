SPECIFICATION Spec
CONSTANTS
  Name <- MCName
  Addr <- MCAddr
  Images <- SoundImages
  FilePaths <- MCPaths
  Prefixes <- ListPrefixes
  MaxDepth = 1
CHECK_DEADLOCK FALSE
INVARIANTS ListsTheMatches
