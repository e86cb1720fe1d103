CONSTANTS
    Keys <- MCKeys
    NoKey <- MCNoKey
    MaxCounter = 30
    ClientMsgs <- MCClientMsgs
    PeerMsgs <- MCPeerMsgs
    Garbled <- MCGarbled
    MaxSent = 30
    MaxPeer = 20
    MaxDups = 1
    MaxCalls = 1
    MaxAcks = 1
    StartCounters = {0}
    Operations = {"commission"}
    Commissioned = FALSE
SPECIFICATION StreamSpec
INVARIANTS
    FlowTypeOK
    CommissionNilMeansOnboarded
    SignedOnlyForOnboardingDevice
    KeyedAnswerProvesSharedSession
    CommandsTravelInTheirSession
    PortHeldOnlyAfterFailedExchange
PROPERTIES
    ImplementsChannel
    EveryCallReturns
CHECK_DEADLOCK FALSE
