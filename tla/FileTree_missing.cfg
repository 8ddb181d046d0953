SPECIFICATION Spec
CONSTANTS
  Name <- MCName
  Addr <- MCAddr
  Images <- SoundImages
  FilePaths <- MCPaths
  Prefixes <- NoPrefixes
  MaxDepth = 1
CHECK_DEADLOCK FALSE
INVARIANTS MissingPathIsReported
