\* Timers, the network and the agent are fair; the user need not act.
CONSTANTS
    NULL = NULL
    UrlInputs <- MCUrlInputs
    UserInputs <- MCUserInputs
    ReUrlOK <- MCReUrlOK
    ReEmailOK <- MCReEmailOK
    MaxPuts = 2
    MaxInFlight = 3
SPECIFICATION Spec
PROPERTY PollingReachesUpToDate
\* A page that shows the inventory with nothing in flight waits for nothing.
CHECK_DEADLOCK FALSE
