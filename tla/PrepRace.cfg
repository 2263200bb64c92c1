\* Another program writes between path-prep's check and its marker.
CONSTANTS
    Nothing = Nothing
    ssd = ssd
    hdd = hdd
    Dirs <- PoolDirs
    Sources <- Trees
    ContentOf <- Contents
    SizeOf <- Lengths
    RamHead = 1
    CertHosts <- Hosts
    Setups <- Racing
    MaxStores = 5
CHECK_DEADLOCK FALSE
SPECIFICATION Spec
PROPERTY ForeignFilesKept
