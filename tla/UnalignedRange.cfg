CONSTANTS
    RamHead = 2
    SsdPrefix = 6
    ThreeLayer = TRUE
    Width = 8
    Block = 2
    Stripe = 2
    Drives = 2
    Chunk = 4
    ObjectSizes = {2, 5, 8, 13}
    KeyHashes = {0, 1, 2}
    Starts = {1}
SPECIFICATION Spec
INVARIANTS
    ServedExact
