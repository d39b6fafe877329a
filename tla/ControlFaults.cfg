SPECIFICATION Spec
CONSTANTS
    k1 = k1
    k2 = k2
    d1 = d1
    NoDevice = NoDevice
    NoRequest = NoRequest
    Keys = {k1}
    Payloads <- OneControl
    Devices = {d1}
    MaxRequests = 1
    MaxInflight = 1
    MaxPublications = 1
    MaxExtensions = 1
    MaxCrashes = 1
    Faults = {"db", "migration", "mqtt", "crash"}
INVARIANTS
    ToldIsDurable
    ControlAtMostOnce
    OneVerdict
    SettledIsTold
