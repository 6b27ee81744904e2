SPECIFICATION FairSpec
CONSTANTS
    Payloads <- MCPayloads
    MaxPubs = 2
    Room = 3
    Polls = 2
    Grace = 2
    Need = 2
    MaxCycles = 2
INVARIANTS
    TypeOK
    RetainedIsWhole
    FetchedIsWhole
    NoLateWrite
PROPERTIES
    PublishedIsAcked
    CycleEnds
