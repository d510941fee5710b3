SPECIFICATION Spec
CONSTANTS
    ENCODED_BUF_NUM = 3
    MaxSort = 4
    MaxSession = 1
    MaxDelay = 0
    Empties = {1}
    Head0 = Head0
    NoNode = NoNode
    CntMod = 8
    SUBLIST_NUM = 3
    playofwait = 1
    SeqJump = 3
    OldRecv = 3
    OldPlay = 5
    SortJump = 1
    SortWrap = 60000
    PlcMax = 1
    NearFull = 1
CHECK_DEADLOCK FALSE
PROPERTIES
    Drains
    PlaysOn
