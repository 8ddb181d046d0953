SPECIFICATION Spec
CONSTANTS
  NumZones = 3
  IdsPerZone = 2
  FirstZoneBits = 6
  ZoneBits = 8
  BytesPerBit = 2
  SectorSize = 4
  DirLength = 7
  DirExtent = 8
  Maps <- MCMaps
  Requests <- MCRequests
CHECK_DEADLOCK FALSE
INVARIANTS TypeOK RegionsAreTheSlice DirectoryIsContiguous ObjectsAreDisjoint BeginsInOwnZone
