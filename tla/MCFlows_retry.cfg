CONSTANTS
    Keys <- MCKeys
    NoKey <- MCNoKey
    MaxCounter = 40
    ClientMsgs <- MCClientMsgs
    PeerMsgs <- MCPeerMsgs
    Garbled <- MCGarbled
    MaxSent = 40
    MaxPeer = 30
    MaxDups = 0
    MaxCalls = 2
    MaxAcks = 0
    StartCounters = {0}
    Operations = {"commission", "connect"}
    Commissioned = FALSE
SPECIFICATION Spec
INVARIANT FlowSafety
CHECK_DEADLOCK FALSE
