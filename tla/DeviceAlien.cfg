CONSTANTS
    Frames = {f1}
    Tagless = {}
    Tokens = {t1}
    Ids <- MCIds
    DefaultId = "pico"
    Forms <- AlienForms
    Intervals <- LiveIntervals
    Polls <- LivePolls
    MaxFails = 2
    MaxFaults = 0
    MaxCuts = 0
    MaxMishaps = 2
    Blank = Blank
SPECIFICATION FairSpec
PROPERTY AlienIsGivenUp
