SPECIFICATION FairSpec
CONSTANTS
    d1 = d1
    d2 = d2
    m1 = m1
    m2 = m2
    Devices = {}
    Migrators = {}
    LastVersion = 1
    MaxSessions = 2
    QueueCapacity = 1
    MaxMessages = 0
    MaxExpiries = 0
    MaxReplays = 1
PROPERTIES
    ShutdownEnds
    SessionSettles
