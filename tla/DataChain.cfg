SPECIFICATION FairSpec
CONSTANTS
    a = a
    b = b
    c = c
    f1 = f1
    f2 = f2
    g1 = g1
    n1 = n1
    n2 = n2
    n3 = n3
    Null = Null
    Streams = {a, b, c}
    Frames = {f1, g1}
    Nodes = {n1, n3}
    src <- ChainSrc
    dest <- ChainDest
    s_list <- ChainList
    Closers = {a, b}
    Switched = {a, b, c}
    Holders = {}
CONSTRAINT NoRace
INVARIANTS
    Conserved
PROPERTIES
    FramesComeBack
    ClosedIsFreed
