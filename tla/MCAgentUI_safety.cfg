\* Two login attempts, up to four messages on the wire.
CONSTANTS
    NULL = NULL
    UrlInputs <- MCUrlInputs
    UserInputs <- MCUserInputs
    ReUrlOK <- MCReUrlOK
    ReEmailOK <- MCReEmailOK
    MaxPuts = 2
    MaxInFlight = 4
INIT Init
NEXT Next
INVARIANT TypeOK
INVARIANT OnePutAtATime
INVARIANT InventoryOnlyWhenUpToDate
\* A page that shows the inventory with nothing in flight waits for nothing.
CHECK_DEADLOCK FALSE
