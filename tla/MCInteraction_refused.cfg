CONSTANTS
    Keys <- MCKeys
    NoKey <- MCNoKey
    MaxCounter = 30
    ClientMsgs <- MCClientMsgs
    PeerMsgs <- MCPeerMsgs
    Garbled <- MCGarbled
    MaxSent = 30
    MaxPeer = 20
    MaxDups = 1
    MaxRuns = 2
    MaxEvents = 2
    Scripts <- MCOpenScripts
SPECIFICATION Spec
INVARIANT SuccessMeansOpened
CHECK_DEADLOCK FALSE
