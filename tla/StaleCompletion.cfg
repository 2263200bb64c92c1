\* A wait for a striped batch is interrupted, and one of its reads has failed.
CONSTANTS
    RamHead = 2
    SsdPrefix = 6
    ThreeLayer = TRUE
    Width = 8
    Block = 2
    Stripe = 2
    Drives = 3
    Chunk = 4
    ObjectSizes = {8}
    KeyHashes = {0, 1, 2}
    Starts = {0, 2, 4}
    Faults = {"read", "signal"}
    MaxGets = 2
SPECIFICATION BlockingSpec
INVARIANTS
    ServedExact
