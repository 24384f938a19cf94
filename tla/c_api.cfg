SPECIFICATION Spec
CONSTANTS
    GoCallers = {"go1", "go2"}
    SwiftCallers = {"test1", "test2"}
    Blocks = {b1, b2, b3, b4}
    ChunkLens = {0, 5}
    MaxRounds = 1
SYMMETRY BlockSymmetry
INVARIANTS
    TypeOK
    NoBadFree
    OwnBytes
    NonEmptyReleased
    SelfTestReleases
    PanicNeedsEmpty
    AllOkIsEarned
CHECK_DEADLOCK FALSE
