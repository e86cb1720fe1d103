CONSTANTS
    Procs = {"p1", "p2"}
    UserIds <- OwnUser
    DeviceIds <- OneDevice
    CaPresent = FALSE
    MaxOps = 6
    MaxFaults = 2
SPECIFICATION OneFounderSpec
INVARIANTS
    CertTypeOK
    CertsChainToCa
    CreatedUserIsRetrievable
PROPERTIES
    PairMismatchNeedsRewrite
    ImplementsCertAuthority
CHECK_DEADLOCK FALSE
