\* New GETs keep arriving while one is parked on the only read buffer.
CONSTANTS
    Conns = {c1, c2}
    Buffers = {b1}
    NoConn = NoConn
    NoBuf = NoBuf
    StageBufs = 1
    Pieces = 1
    Segments = 1
    Requests = 1
    Protocols = {"memcache"}
    Events = {}
SPECIFICATION FairSpec
PROPERTY ParkedGetResumes
