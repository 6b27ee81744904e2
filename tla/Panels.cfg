SPECIFICATION FairSpec
CONSTANTS
    Size = 8
    Contents <- MCContents
    MaxPaints = 2
    MaxResets = 1
    Stride = 2
    Rows = 8
    Samples <- MCSamples
INVARIANTS
    TypeOK
    RightPanel
    FrameIsShown
    RightWayUp
    ReadyBeforeCommand
    PoweredDown
PROPERTIES
    PaintEnds
