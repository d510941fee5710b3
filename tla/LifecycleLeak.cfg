SPECIFICATION Spec
CONSTANTS
    t1 = t1
    t2 = t2
    s1 = s1
    s2 = s2
    s3 = s3
    Tasks = {t1, t2}
    Producers = {}
    Streams = {s1, s2}
    Names = {"n", "debug"}
    Dests = {"n"}
    R_DEBUG_STREAM = "debug"
    Null = Null
    MaxHold = 1
CONSTRAINT
    NoRace
INVARIANTS
    ClosedAtZero
CHECK_DEADLOCK FALSE
