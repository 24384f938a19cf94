SPECIFICATION Spec
CONSTANTS
    Devices = {d1, d2}
    Rssis = {1, 2}
    RadioStates = {"poweredOn", "poweredOff", "unauthorized"}
    MaxReports = 2
    MaxRuns = 2
INVARIANTS
    TypeOK
    NothingHidden
    OffIsShown
    ListedOnce
    SpinnerMeansRunning
PROPERTIES
    ChangeIsReal
    EveryRunIsShown
