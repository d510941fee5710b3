SPECIFICATION Spec
CONSTANTS
    MaxClients = 3
    Fds <- MCFds
    MaxSize = 2
    Sizes = {0, 2}
    MaxChunk = 2
CHECK_DEADLOCK FALSE
INVARIANTS
    TypeOK
    OneUpdate
    WholeUnlessRaced
PROPERTY FlagComesBack
