SPECIFICATION RunningSpec
CONSTANTS
    d1 = d1
    d2 = d2
    x = x
    y = y
    NoDevice = NoDevice
    NoLabel = NoLabel
    Devices = {d1, d2}
    Registered = {d1}
    Statuses = {TRUE}
    Labels = {x, y}
    MaxRevision = 2
    MaxOutages = 0
    DeviceFaults = {}
SYMMETRY LabelSymmetry
INVARIANTS
    LabelHasOneOwner
    WriteIsAnswered
