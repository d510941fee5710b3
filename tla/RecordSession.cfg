SPECIFICATION Spec
CONSTANTS
    MaxFile = 4
    CardNames = {1, 2}
    Limit = 1
    MaxInsert = 1
    MaxTimeouts = 1
    Audio = TRUE
    DirFails = FALSE
    MaxPowerCuts = 1
INVARIANTS
    TypeOK
    IdleIsClean
    PicturesAreIndexed
PROPERTIES
    NoOverwrite
    StopObeyed
