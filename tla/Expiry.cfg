CONSTANTS
    Keys = {k1}
    Regions = {r1}
    Writers = {w1, w2}
    Readers = {c1}
    None = None
    RamHead = 1
    SsdPrefix = 1
    ThreeLayer = TRUE
    Width = 8
    Sizes = {1, 2}
    Ttls <- ShortTtls
    IoChunk = 1
    SsdDrives = 1
    HddDrives = 1
    MaxObjects = 0
    WriteBuffers = 2
    MaxStores = 3
    MaxTime = 2
    IoFaults = {}
CHECK_DEADLOCK FALSE
SYMMETRY Interchangeable
SPECIFICATION Spec
INVARIANTS
    EtagIdentifies
PROPERTIES
    CasReplacesBasis
    ImplementsCache
