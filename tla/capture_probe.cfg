SPECIFICATION Spec
CONSTANTS
    Period <- MCPeriod
    Capacity <- MCCapacity
    Sizes <- MCSizes
    ChunkFrames = 2
    Rate = 2
    Nanos = 2
    Wrap = 11
    Duration = 5
    MaxClock = 6
    MaxItems = 2
INVARIANTS
    ProbeInv
    DriftIsSkips
PROPERTIES
    FramesDiffer
    ProbeEnds
