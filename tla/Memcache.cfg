\* Two connections with pipelined requests against one key and one staging buffer.
CONSTANTS
    Keys = {"k"}
    None = None
    c1 = c1
    c2 = c2
    Clients = {c1, c2}
    Scripts <- TwoClients
    Probed = {c1}
    Nets = {"async", "blocking"}
    StageBufs = 1
    RamHead = 1
    MaxLine = 4
    MaxTime = 2
    RelativeMax = 1
    Width = 8
    Faults = {"open", "write", "publish", "peer", "lose"}
SPECIFICATION Spec
INVARIANT Framed
INVARIANT RepliesInOrder
INVARIANT StoredAsSent
INVARIANT ValueFromItsTime
INVARIANT ExpiresAsAsked
PROPERTY CasProtects
