SPECIFICATION Spec
CONSTANTS
    Peers = {p1, p2}
    MaxRequests = 4
INVARIANTS
    TypeOK
    NoneForgotten
PROPERTIES
    ReturnedOnce
CHECK_DEADLOCK FALSE
