SPECIFICATION FairSpec
CONSTANTS
    d1 = d1
    d2 = d2
    x = x
    y = y
    NoDevice = NoDevice
    NoLabel = NoLabel
    Devices = {d1}
    Registered = {d1}
    Statuses = {TRUE, FALSE}
    Labels = {}
    MaxRevision = 1
    MaxOutages = 1
    DeviceFaults = {"outage", "migration"}
PROPERTIES
    ChangeIsStored
    JoinReturns
