SPECIFICATION Spec
CONSTANTS
    Channels = 2
    RingCap = 4
    ChunkFrames = 1
    Rate = 3
    Nanos = 4
    MaxBurst = 3
    Wrap = 20
    MaxSamples = 12
INVARIANTS
    MicrophoneInv
    Accounting
    InOrder
    DriftIsLoss
PROPERTY ChunksFlow
