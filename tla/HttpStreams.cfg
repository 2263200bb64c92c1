\* HTTP front end, two connections over two buffers, with failing reads, a full submission queue and the sweep.
CONSTANTS
    Conns = {c1, c2}
    Buffers = {b1, b2}
    NoConn = NoConn
    NoBuf = NoBuf
    StageBufs = 1
    Pieces = 2
    Segments = 2
    Requests = 1
    Protocols = {"http", "https"}
    Events = {"quit", "drain", "sweep", "read_error", "sq_full"}
SPECIFICATION Spec
SYMMETRY Interchangeable
INVARIANT BuffersConserved
INVARIANT OneSocketOp
