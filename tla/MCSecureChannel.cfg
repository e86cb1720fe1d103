CONSTANTS
    Keys = {k1, k2}
    NoKey = NoKey
    MaxCounter = 2
    ClientMsgs <- MCClientMsgs
    PeerMsgs <- MCPeerMsgs
    Garbled <- MCGarbled
    MaxSent = 4
    MaxPeer = 1
    MaxDups = 1
SPECIFICATION ChannelSpec
INVARIANTS
    ChannelInv
    NonceReuseOnlyAfterFullCircle
    AcksAnswerAcceptedDatagrams
    HeaderSessionMatchesKey
PROPERTY KeyedReceiveIsCurrentSession
CHECK_DEADLOCK FALSE
SYMMETRY KeySymmetry
