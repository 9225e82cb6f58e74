CONSTANTS
  MaxNode = 4
  Environment <- MCEnvironment
SPECIFICATION FairSpec
INVARIANTS NodesDisjoint UseNodeKept ExitSafe HeldStaysPublished ServedNewest
PROPERTIES LastBufIsNewest PoolSpec FirmwareCycles
