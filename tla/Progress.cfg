\* Two connections compete for one read buffer, and the loop drains.
CONSTANTS
    Conns = {c1, c2}
    Buffers = {b1}
    NoConn = NoConn
    NoBuf = NoBuf
    StageBufs = 1
    Pieces = 1
    Segments = 1
    Requests = 1
    Protocols = {"memcache"}
    Events = {"drain"}
SPECIFICATION FairSpec
PROPERTY DrainResumesGets
PROPERTY DrainEndsIdle
