\* A client revalidates an object after the process crashed and started again.
CONSTANTS
    Nothing = Nothing
    ssd = ssd
    hdd = hdd
    Dirs <- PoolDirs
    Sources <- Trees
    ContentOf <- Contents
    SizeOf <- Lengths
    RamHead = 1
    CertHosts <- Hosts
    Setups <- Restarted
    MaxStores = 5
CHECK_DEADLOCK FALSE
SPECIFICATION Spec
INVARIANT NotModifiedIsTrue
