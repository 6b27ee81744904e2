CONSTANTS
    Conns = {c1}
    Nobody = Nobody
    Requests <- MCRequests
    Cap = 3
    ScanLimit = 1
    IdleMax = 2
SPECIFICATION FairSpec
PROPERTY SubmitReboots
CHECK_DEADLOCK FALSE
