\* Expiries of two bits: a meta TTL is cut to the width before it is used.
CONSTANTS
    Keys = {"k"}
    None = None
    c1 = c1
    c2 = c2
    Clients = {c1, c2}
    Scripts <- TwoClients
    Probed = {c1}
    Nets = {"async"}
    StageBufs = 1
    RamHead = 1
    MaxLine = 4
    MaxTime = 2
    RelativeMax = 1
    Width = 2
    Faults = {}
SPECIFICATION Spec
INVARIANT ExpiresAsAsked
