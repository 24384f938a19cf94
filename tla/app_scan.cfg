SPECIFICATION Spec
CONSTANTS
    Devices = {d1}
    Rssis = {1}
    RadioStates = {"poweredOn", "poweredOff"}
    MaxReports = 1
    MaxRuns = 1
INVARIANT
    ShownScanIsReal
