CONSTANTS
    Conns = {c1, c2}
    Nobody = Nobody
    Requests <- MCRequests
    Cap = 3
    ScanLimit = 1
    IdleMax = 2
SPECIFICATION FairSpec
INVARIANTS TypeOK HookedIsLive SavedIsWhole AnsweredBeforeReboot IInv
PROPERTIES ClickIsKept PortalEnds
CHECK_DEADLOCK FALSE
