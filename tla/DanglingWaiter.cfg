\* The sweep closes a slow writer whose next bytes have already arrived.
CONSTANTS
    Conns = {c1, c2}
    Buffers = {b1, b2}
    NoConn = NoConn
    NoBuf = NoBuf
    StageBufs = 1
    Pieces = 1
    Segments = 1
    Requests = 2
    Protocols = {"memcache"}
    Events = {"sweep"}
SPECIFICATION Spec
SYMMETRY Interchangeable
INVARIANT WaitersAreParked
