SPECIFICATION Spec
CONSTANTS
    Base = 8
    Width32 = 2
    Width64 = 3
    Messages <- AllMessages
    LinkFaults = {"cut", "append", "flip"}
INVARIANTS
    TypeOK
    RoundTrip
    CutIsNoticed
    InBounds
    HeaderTellsRest
CHECK_DEADLOCK FALSE
