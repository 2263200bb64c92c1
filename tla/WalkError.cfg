\* The walk of a wipe breaks off after a crash.
CONSTANTS
    Nothing = Nothing
    ssd = ssd
    hdd = hdd
    Dirs <- PoolDirs
    Sources <- Trees
    ContentOf <- Contents
    SizeOf <- Lengths
    RamHead = 1
    CertHosts <- Hosts
    Setups <- Interrupted
    MaxStores = 5
CHECK_DEADLOCK FALSE
SPECIFICATION Spec
INVARIANT EveryStartIsBlank
