\* A parked request is followed by quit.
CONSTANTS
    Conns = {c1, c2}
    Buffers = {b1}
    NoConn = NoConn
    NoBuf = NoBuf
    StageBufs = 1
    Pieces = 1
    Segments = 1
    Requests = 2
    Protocols = {"memcache"}
    Events = {"quit"}
SPECIFICATION Spec
SYMMETRY Interchangeable
INVARIANT ClosedRetires
