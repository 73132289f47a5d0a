\* One scan slot, the three cap configurations, a crash, failing writes:
\* the scan thread checked against the abstract scan job.
CONSTANTS
    v1 = v1  v2 = v2  v3 = v3  accounts = accounts  services = services
    t1 = t1  t2 = t2
    NoFile = NoFile  Unset = Unset  NIL = NIL
    VMs <- MCVMs
    DsPath <- MCDsPath
    CATEGORIES <- MCCategories1
    CapConfigs <- MCCapConfigs
    CapFiles <- MCNoCapFiles
    TimeoutSettings <- MCTimeoutSettings
    MaxCapEdits = 0
    Threads <- MCThreads1
    MaxCrashes = 1
    WriteMayFail = TRUE
SPECIFICATION Spec
PROPERTY ImplementsScanJob
PROPERTY ScanEndsWhenLibraryAnswers
