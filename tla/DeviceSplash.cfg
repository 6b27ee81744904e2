CONSTANTS
    Frames = {f1}
    Tagless = {}
    Tokens = {t1}
    Ids <- MCIds
    DefaultId = "pico"
    Forms <- SetupForms
    Intervals <- LiveIntervals
    Polls <- LivePolls
    MaxFails = 2
    MaxFaults = 2
    MaxCuts = 0
    MaxMishaps = 2
    Blank = Blank
SPECIFICATION Spec
INVARIANT SkippedIsShown
