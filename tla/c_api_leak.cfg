SPECIFICATION Spec
CONSTANTS
    GoCallers = {"go1"}
    SwiftCallers = {}
    Blocks = {b1, b2, b3, b4}
    ChunkLens = {0, 5}
    MaxRounds = 1
SYMMETRY BlockSymmetry
INVARIANTS
    AllReleased
CHECK_DEADLOCK FALSE
