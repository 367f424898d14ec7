SPECIFICATION MCSpec
CONSTANTS
  Ports = {"h5", "rt"}
  SectorUnits = 2
  PageUnits = 2
  NvmSectors = 1
  FwuSectors = 3
  Values = {"a"}
  MaxTrouble = 1
  MaxChunks = 2
  MaxNorFaults = 2
INVARIANTS
  CacheCoherent
  UpdateAreaOK
  ReadsSurvive
  NorAgrees
CHECK_DEADLOCK FALSE
