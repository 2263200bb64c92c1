CONSTANTS
    RamHead = 2
    SsdPrefix = 6
    ThreeLayer = TRUE
    Width = 4
    Block = 2
    Stripe = 2
    Drives = 3
    Chunk = 4
    ObjectSizes = {2, 5, 8, 13}
    KeyHashes = {14, 15}
    Starts = {0, 2, 4}
SPECIFICATION Spec
INVARIANTS
    ConsecutiveDrives
