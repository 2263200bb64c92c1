\* A GET waits for a buffer longer than io_timeout_ms.
CONSTANTS
    Conns = {c1, c2}
    Buffers = {b1}
    NoConn = NoConn
    NoBuf = NoBuf
    StageBufs = 1
    Pieces = 1
    Segments = 1
    Requests = 2
    Protocols = {"memcache"}
    Events = {"sweep"}
SPECIFICATION Spec
PROPERTY SweepsIdleTransfers
