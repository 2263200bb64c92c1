\* Two connections over two read buffers and one staging buffer: lanes,
\* read-ahead, parking, quit and drain.
CONSTANTS
    Conns = {c1, c2}
    Buffers = {b1, b2}
    NoConn = NoConn
    NoBuf = NoBuf
    StageBufs = 1
    Pieces = 3
    Segments = 2
    Requests = 2
    Protocols = {"memcache"}
    Events = {"quit", "drain"}
SPECIFICATION Spec
SYMMETRY Interchangeable
INVARIANT SentInOrder
INVARIANT CompletionsRouted
INVARIANT KernelBuffersHeld
INVARIANT WaitersAreParked
