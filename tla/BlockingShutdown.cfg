\* SIGTERM comes while a blocking worker is with a client.
CONSTANTS
    Nothing = Nothing
    ssd = ssd
    hdd = hdd
    Dirs <- PoolDirs
    Sources <- Trees
    ContentOf <- Contents
    SizeOf <- Lengths
    RamHead = 1
    CertHosts <- Hosts
    Setups <- BlockingOnly
    MaxStores = 5
CHECK_DEADLOCK FALSE
SPECIFICATION Spec
PROPERTY ShutdownAlwaysCompletes
