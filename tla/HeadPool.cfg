CONSTANTS
    NumBlocks = 2
    MaxOrder = 3
    Requests = {1, 3, 4, 8}
    NoArena = NoArena
SPECIFICATION Spec
INVARIANTS
    Tiling
    NoFalseExhaustion
