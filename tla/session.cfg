SPECIFICATION Spec
CONSTANTS
    InCap = 1
    OutCap = 2
    StateCap = 2
    MaxPeerEvents = 3
    ClientMessage <- OneOfEach
INVARIANTS
    SessionInv
    WireOrder
    SessionNeverWaits
PROPERTIES
    ClientGoneEndsSession
    PeerFailureEndsSession
    CloseReturns
    ConnectedRequestsKeyframe
    ErrorIsTerminal
    SessionEndClosesSocket
    ImplementsContract
