CONSTANTS
    Keys = {k1}
    Regions = {r1, r2}
    Writers = {w1}
    Readers = {c1}
    None = None
    RamHead = 1
    SsdPrefix = 1
    ThreeLayer = TRUE
    Width = 8
    Sizes = {1, 2}
    Ttls = {0}
    IoChunk = 1
    SsdDrives = 1
    HddDrives = 1
    MaxObjects = 0
    WriteBuffers = 2
    MaxStores = 3
    MaxTime = 1
    IoFaults = {"rename"}
CHECK_DEADLOCK FALSE
SYMMETRY Interchangeable
SPECIFICATION Spec
INVARIANTS
    LiveFilesCurrent
