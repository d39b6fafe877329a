SPECIFICATION Spec
CONSTANTS
    k1 = k1
    k2 = k2
    d1 = d1
    NoDevice = NoDevice
    NoRequest = NoRequest
    Keys = {k1}
    Payloads <- ControlOrUnresolved
    Devices = {d1}
    MaxRequests = 2
    MaxInflight = 2
    MaxPublications = 1
    MaxExtensions = 0
    MaxCrashes = 0
    Faults = {"cleanup"}
INVARIANTS
    OnePublishPerKey
PROPERTIES
    ResultHeardIsFinal
