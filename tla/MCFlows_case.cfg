CONSTANTS
    Keys <- MCKeys
    NoKey <- MCNoKey
    MaxCounter = 30
    ClientMsgs <- MCClientMsgs
    PeerMsgs <- MCPeerMsgs
    Garbled <- MCGarbled
    MaxSent = 30
    MaxPeer = 20
    MaxDups = 1
    MaxCalls = 2
    MaxAcks = 0
    StartCounters = {0}
    Operations = {"connect"}
    Commissioned = TRUE
SPECIFICATION Spec
INVARIANT CaseEstablished
CHECK_DEADLOCK FALSE
