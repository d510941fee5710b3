SPECIFICATION FairSpec
CONSTANTS
    t1 = t1
    t2 = t2
    s1 = s1
    s2 = s2
    s3 = s3
    Tasks = {t1}
    Producers = {t1}
    Streams = {s1, s2}
    Names = {"n", "debug"}
    Dests = {}
    R_DEBUG_STREAM = "debug"
    Null = Null
    MaxHold = 1
INVARIANTS
    NoListsBuiltTwice
PROPERTIES
    ClosedIsReclaimed
    UnreferencedIsFreed
CHECK_DEADLOCK FALSE
