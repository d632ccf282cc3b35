SPECIFICATION Spec
CONSTANTS
    Channels = 2
    RingCap = 4
    ChunkFrames = 1
    Rate = 2
    Nanos = 4
    MaxBurst = 3
    Wrap = 1024
    MaxSamples = 12
INVARIANT Interleaved
