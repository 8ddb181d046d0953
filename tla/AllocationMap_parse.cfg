SPECIFICATION FairSpec
CONSTANTS
  StreamBytes = 3
  Start = 4
  FragmentBits = 3
  UsizeRange = 65536
  Bits <- MCBits
  Params <- MCParams
  Builds <- MCBuilds
CHECK_DEADLOCK FALSE
INVARIANTS TypeOK BlocksTile BlocksBeginInMap LossIsBounded FreeBlocksAreTheChain
PROPERTIES ChainGoesForward ParseEnds
