SPECIFICATION Spec
CONSTANTS
    InCap = 1
    OutCap = 2
    StateCap = 4
    MaxPeerEvents = 3
    ClientMessage <- OneOfEach
INVARIANT ErrorReachesClient
