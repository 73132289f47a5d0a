\* Two POSTs start two scans that write the same file; no crash, no I/O error.
CONSTANTS
    v1 = v1  v2 = v2  v3 = v3  accounts = accounts  services = services
    t1 = t1  t2 = t2
    NoFile = NoFile  Unset = Unset  NIL = NIL
    VMs <- MCVMs
    DsPath <- MCDsPath
    CATEGORIES <- MCCategories1
    CapConfigs <- MCCapNone
    CapFiles <- MCNoCapFiles
    TimeoutSettings <- MCTimeoutUnset
    MaxCapEdits = 0
    Threads <- MCThreads2
    MaxCrashes = 0
    WriteMayFail = FALSE
INIT Init
NEXT Next
INVARIANT SettledFileHoldsOneResult
