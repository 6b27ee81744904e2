CONSTANTS
    MaxRequests = 2
    Limit = 2
    Room = 3
    Longest = 2
    Lengths <- MCLengths
    Replies <- MCReplies
SPECIFICATION FairSpec
INVARIANTS TypeOK HookedIsHeld IInv DatesRight
PROPERTIES ImplementsExchange OkIsWhole CallsEnd
CHECK_DEADLOCK FALSE
