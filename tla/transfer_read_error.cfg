SPECIFICATION Spec
CONSTANTS
    ChunkSize = 2
    Byte = {0, 1, 2, 3, 4, 5, 6, 7, 8, 9}
    IndexMod = 4
    SourceFiles <- LiveFiles
    HashBlock = 2
    MaxSessions = 1
    MaxInFlight = 1
    Faults = {"read", "hash"}
INVARIANT
    ReadOrThrow
CHECK_DEADLOCK FALSE
