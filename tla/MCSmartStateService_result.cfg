\* One scan thread at a time (scan threads share nothing but the file), the
\* three cap configurations, one edit of the cap file, a crash and failing
\* file writes.
CONSTANTS
    v1 = v1  v2 = v2  v3 = v3  accounts = accounts  services = services
    t1 = t1  t2 = t2
    NoFile = NoFile  Unset = Unset  NIL = NIL
    VMs <- MCVMs
    DsPath <- MCDsPath
    CATEGORIES <- MCCategories2
    CapConfigs <- MCCapConfigs
    CapFiles <- MCCapFiles
    TimeoutSettings <- MCTimeoutUnset
    MaxCapEdits = 1
    Threads <- MCThreads1
    MaxCrashes = 1
    WriteMayFail = TRUE
INIT Init
NEXT Next
INVARIANT TypeOK
INVARIANT ScanResultIsCappedPrefix
