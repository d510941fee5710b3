SPECIFICATION Spec
CONSTANTS
    a = a
    b = b
    c = c
    f1 = f1
    f2 = f2
    g1 = g1
    n1 = n1
    n2 = n2
    n3 = n3
    Null = Null
    Streams = {a, b, c}
    Frames = {f1, f2}
    Nodes = {n1, n2, n3}
    src <- FanSrc
    dest <- FanDest
    s_list <- FanList
    Closers = {a, b}
    Switched = {b}
    Holders = {b}
SYMMETRY FanSymmetry
CONSTRAINT NoRace
INVARIANTS
    FrameRefExact
    ReadersKeepTheirs
PROPERTIES
    Implements
