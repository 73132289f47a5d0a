\* One login, up to three messages on the wire.
CONSTANTS
    NULL = NULL
    UrlInputs <- MCUrlInputs
    UserInputs <- MCUserInputs
    ReUrlOK <- MCReUrlOK
    ReEmailOK <- MCReEmailOK
    MaxPuts = 1
    MaxInFlight = 3
INIT Init
NEXT Next
PROPERTY RefusedLoginIsReported
\* A page that shows the inventory with nothing in flight waits for nothing.
CHECK_DEADLOCK FALSE
