SPECIFICATION Spec
CONSTANTS
    ENCODED_BUF_NUM = 3
    MaxSort = 3
    MaxSession = 2
    MaxDelay = 1
    Empties = {}
    Head0 = Head0
    NoNode = NoNode
    CntMod = 8
    SUBLIST_NUM = 2
    playofwait = 1
    SeqJump = 3
    OldRecv = 3
    OldPlay = 5
    SortJump = 3
    SortWrap = 60000
    PlcMax = 1
    NearFull = 1
CHECK_DEADLOCK FALSE
INVARIANTS
    KeepsNewest
    NothingWaits
PROPERTIES
    PlayedOnce
