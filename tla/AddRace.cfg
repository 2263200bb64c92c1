\* Two connections store one key while the body of an add comes in.
CONSTANTS
    Keys = {"k"}
    None = None
    c1 = c1
    c2 = c2
    Clients = {c1, c2}
    Scripts <- TwoClients
    Probed = {c1}
    Nets = {"async"}
    StageBufs = 1
    RamHead = 1
    MaxLine = 4
    MaxTime = 2
    RelativeMax = 1
    Width = 8
    Faults = {}
SPECIFICATION Spec
PROPERTY AddOnlyIfAbsent
