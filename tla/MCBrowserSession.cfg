SPECIFICATION Spec
CONSTANTS
    a = a
    b = b
    Agents = {a, b}
    OwnNames <- MCOwnNames
    MaxTabs = 1
    MaxDrivers = 2
    MaxPages = 3
    MaxFailures = 1
    MaxOverlaps = 1
    MaxDownloads = 2
SYMMETRY Alike
CONSTRAINT OneFault
CHECK_DEADLOCK FALSE
INVARIANTS   DownloadsOwn
