SPECIFICATION FairSpec
CONSTANTS
    m1 = m1
    m2 = m2
    m3 = m3
    Macs = {m1, m2, m3}
    Net <- Addresses
    start_ip = 2
    end_ip = 3
    lease_time = 2
INVARIANTS
    TypeOK
    KeysUnique
    LeaseRecorded
    NoSharedAddress
PROPERTIES
    AbandonedComesBack
