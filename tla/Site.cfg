CONSTANTS
    Nothing = Nothing
    ssd = ssd
    hdd = hdd
    Dirs <- PoolDirs
    Sources <- Trees
    ContentOf <- Contents
    SizeOf <- Lengths
    RamHead = 1
    CertHosts <- Hosts
    Setups <- AllSetups
    MaxStores = 5
CHECK_DEADLOCK FALSE
SPECIFICATION Spec
INVARIANTS
    AnswersExact
    NotModifiedIsTrue
    FilesServed
    BlankSlate
PROPERTIES
    ForeignFilesKept
    ShutdownCompletes
