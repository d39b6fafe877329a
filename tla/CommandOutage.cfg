SPECIFICATION RunningSpec
CONSTANTS
    d1 = d1
    d2 = d2
    x = x
    y = y
    NoDevice = NoDevice
    NoLabel = NoLabel
    Devices = {d1}
    Registered = {}
    Statuses = {TRUE, FALSE}
    Labels = {}
    MaxRevision = 1
    MaxOutages = 1
    DeviceFaults = {"command"}
INVARIANTS
    CandidateIsAnswered
