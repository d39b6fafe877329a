SPECIFICATION Spec
CONSTANTS
    d1 = d1
    d2 = d2
    x = x
    y = y
    NoDevice = NoDevice
    NoLabel = NoLabel
    Devices = {d1, d2}
    Registered = {}
    Statuses = {TRUE}
    Labels = {}
    MaxRevision = 1
    MaxOutages = 1
    DeviceFaults = {"outage"}
INVARIANTS NewDevicesAreStored
