\* One scan at a time, one process crash or Ctrl+C, failing writes.
CONSTANTS
    v1 = v1  v2 = v2  v3 = v3  accounts = accounts  services = services
    t1 = t1  t2 = t2
    NoFile = NoFile  Unset = Unset  NIL = NIL
    VMs <- MCVMs
    DsPath <- MCDsPath
    CATEGORIES <- MCCategories1
    CapConfigs <- MCCapNone
    CapFiles <- MCNoCapFiles
    TimeoutSettings <- MCTimeoutUnset
    MaxCapEdits = 0
    Threads <- MCThreads1
    MaxCrashes = 1
    WriteMayFail = TRUE
INIT Init
NEXT Next
INVARIANT SettledFileHoldsOneResult
