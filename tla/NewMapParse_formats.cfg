SPECIFICATION FairSpec
CONSTANTS
  Builds <- MCBuilds
  BootPage = 1
  UsizePages = 65536
  Images <- MCImages
  Formats <- MCFormats
CHECK_DEADLOCK FALSE
INVARIANTS TypeOK MapIsWhereTheFormatSays AutomaticFindsTheMap DamagedZonesAreWarned PanicsAreExplained
PROPERTIES ParseEnds
