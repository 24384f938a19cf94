SPECIFICATION Spec
CONSTANTS
    ChunkSize = 2
    Byte = {0, 1, 2, 3, 4, 5, 6, 7, 8, 9}
    IndexMod = 3
    SourceFiles <- FaultyFiles
    HashBlock = 2
    MaxSessions = 1
    MaxInFlight = 1
    Faults = {"duplicate", "damage", "throw", "open", "restart", "misindex", "write", "read", "edit"}
INVARIANTS
    CountMatchesMask
    OnlySourceBytes
PROPERTIES
    IntactIsBlockwise
CHECK_DEADLOCK FALSE
