\* A disk read fails while the other lane's send is in flight.
CONSTANTS
    Conns = {c1}
    Buffers = {b1, b2}
    NoConn = NoConn
    NoBuf = NoBuf
    StageBufs = 1
    Pieces = 2
    Segments = 1
    Requests = 1
    Protocols = {"memcache"}
    Events = {"read_error"}
SPECIFICATION Spec
SYMMETRY Interchangeable
INVARIANT CompletionsRouted
