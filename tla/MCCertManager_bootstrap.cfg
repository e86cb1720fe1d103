CONSTANTS
    Procs = {"p1"}
    UserIds <- OneUser
    DeviceIds <- NoIds
    CaPresent = FALSE
    MaxOps = 4
    MaxFaults = 1
SPECIFICATION Spec
INVARIANT BootstrapNilMeansCa
CHECK_DEADLOCK FALSE
