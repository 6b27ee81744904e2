SPECIFICATION Spec
CONSTANTS
    Size = 8
    Contents <- MCUc8159
    MaxPaints = 2
    MaxResets = 1
    Stride = 2
    Rows = 8
    Samples <- MCSamples
INVARIANTS
    FrameIsShown
