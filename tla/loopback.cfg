SPECIFICATION LoopSpec
CONSTANTS
    ChunkSize = 2
    Byte = {0, 1, 2, 3, 4, 5, 6, 7, 8, 9}
    IndexMod = 5
    SourceFiles <- LoopFiles
    HashBlock = 4
    MaxSessions = 2
    MaxInFlight = 1
    Faults = {"lose", "throw", "open"}
INVARIANTS
    ReceivesPrefix
    ReturnMeansStored
PROPERTIES
    CallShrinks
    CallEnds
CHECK_DEADLOCK FALSE
