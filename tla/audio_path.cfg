SPECIFICATION Spec
CONSTANTS
    Devices <- AnyDevice
    Request <- Mono48
    ChunkFrames = 960
    FanOutCap = 2
    MaxChunks = 6
INVARIANTS
    AudioInv
    PacketsHonest
