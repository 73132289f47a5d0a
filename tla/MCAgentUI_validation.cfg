\* Two logins with URLs and user names reUrl and reEmail accept or refuse.
CONSTANTS
    NULL = NULL
    UrlInputs <- MCUrlInputs
    UserInputs <- MCUserInputs
    ReUrlOK <- MCReUrlOK
    ReEmailOK <- MCReEmailOK
    MaxPuts = 2
    MaxInFlight = 3
INIT Init
NEXT Next
INVARIANT PageMatchesLastSubmission
\* A page that shows the inventory with nothing in flight waits for nothing.
CHECK_DEADLOCK FALSE
