CONSTANTS
    Frames = {f1, f2}
    Tagless = {}
    Tokens = {t1, t2}
    Ids <- MCIds
    DefaultId = "pico"
    Forms <- LiveForms
    Intervals <- LiveIntervals
    Polls <- SafetyPolls
    MaxFails = 2
    MaxFaults = 2
    MaxCuts = 1
    MaxMishaps = 2
    Blank = Blank
SPECIFICATION FairSpec
PROPERTIES SetupIsOffered Recovers
