SPECIFICATION Spec
CONSTANTS
    d1 = d1
    d2 = d2
    m1 = m1
    m2 = m2
    Devices = {d1}
    Migrators = {m1, m2}
    LastVersion = 2
    MaxSessions = 2
    QueueCapacity = 1
    MaxMessages = 1
    MaxExpiries = 1
    MaxReplays = 1
INVARIANTS
    SchemaIsPrefix
    ReportedIsSubscribed
    RetainedIsCurrent
    StoppedClientIsLeftAlone
