CONSTANTS
    Keys = {k1, k2}
    Regions = {r1, r2}
    Writers = {w1, w2}
    Readers = {c1, c2}
    None = None
    RamHead = 1
    SsdPrefix = 1
    ThreeLayer = TRUE
    Width = 8
    Sizes = {0, 2}
    Ttls = {0}
    IoChunk = 1
    SsdDrives = 1
    HddDrives = 1
    MaxObjects = 1
    WriteBuffers = 1
    MaxStores = 3
    MaxTime = 1
    IoFaults = {"open", "rename"}
CHECK_DEADLOCK FALSE
SYMMETRY Interchangeable
SPECIFICATION Spec
INVARIANTS
    TypeOK
    LimitsKept
    PinsCounted
