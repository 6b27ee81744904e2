CONSTANTS
    Images = {i1, i2, i3}
    DefaultImage = i1
    Nothing = nothing
    Pages = 4
    Versions <- MCVersions
    Version = 7
SPECIFICATION Spec
INVARIANTS TypeOK Programmed
PROPERTIES ImplementsStore OkMeansStored KeptUntilErase
