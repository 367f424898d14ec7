SPECIFICATION Spec
CONSTANTS
    MaxAddr = 55
    Granule = 2
    MaxRegions = 5
    NameMax = 3
    MaxPartitions = 3
    MaxServices = 2
    MaxDependencies = 3
    MaxPartitionId = 7
    MaxSignals = 4
    MinStateless = 1
    ReservedBits = {0, 1, 2, 3}
    VectorIrqs = 8
    MmioRanges <- MCMmio
    BuildFramework = {"1.0", "1.1"}
    Manifests <- Interrupts
    Supported = {"ipc"}
    Platform <- MCPlatform
    PortCaps = {"alias", "nsdomain", "tzfilter"}
    Guests = {0, 1}
    Vector <- MCVector
    WindowCount = 2
    Usart <- MCUsart
    TextEnd = 8
    FlashEnd = 10
    SpmRam <- MCSpmRam
    Handoff = 14
    EStack = 18
    ExtentBase = 32
    ExtentEnd = 48
    Block = 4
    WordBlocks = 2
    SauDyn = 4
    DRegions = 5
    StartIds <- MCStartIds
CONSTRAINT Explored
INVARIANT LinesHeard
