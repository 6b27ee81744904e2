CONSTANTS
    Frames = {f1, f2}
    Tagless = {f2}
    Tokens = {t1}
    Ids <- MCIds
    DefaultId = "pico"
    Forms <- SafetyForms
    Intervals <- SafetyIntervals
    Polls <- SafetyPolls
    MaxFails = 2
    MaxFaults = 2
    MaxCuts = 1
    MaxMishaps = 2
    Blank = Blank
SPECIFICATION Spec
INVARIANTS TypeOK IInv RadioDownForSave PaintedIsRecorded VouchedIdentity
PROPERTIES ImplementsLifecycle
