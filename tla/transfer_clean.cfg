SPECIFICATION FairSpec
CONSTANTS
    ChunkSize = 2
    Byte = {0, 1, 2, 3, 4, 5, 6, 7, 8, 9}
    IndexMod = 4
    SourceFiles <- CleanFiles
    HashBlock = 4
    MaxSessions = 2
    MaxInFlight = 3
    Faults = {"lose", "duplicate", "damage", "throw", "open", "restart"}
INVARIANTS
    TypeOK
    DiskIsAssembly
    NeverCorrupted
PROPERTIES
    VerifiedIsFinal
    Reassembles
    Delivered
    SendTerminates
CHECK_DEADLOCK FALSE
