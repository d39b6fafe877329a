SPECIFICATION Spec
CONSTANTS
    k1 = k1
    k2 = k2
    d1 = d1
    NoDevice = NoDevice
    NoRequest = NoRequest
    Keys = {k1}
    Payloads <- OneControl
    Devices = {d1}
    MaxRequests = 1
    MaxInflight = 1
    MaxPublications = 1
    MaxExtensions = 0
    MaxCrashes = 0
    Faults = {"db"}
INVARIANTS
    EarlyAckIsApplied
