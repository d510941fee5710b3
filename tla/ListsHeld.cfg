SPECIFICATION Spec
CONSTANTS
    f1 = f1
    f2 = f2
    f3 = f3
    NULL = NULL
    Frames = {f1, f2, f3}
    MaxTries = 3
CONSTRAINT
    UpToHarm
INVARIANTS
    WholeUnlessHarmed
CHECK_DEADLOCK FALSE
