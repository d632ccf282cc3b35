SPECIFICATION Spec
CONSTANTS
    Viewer = {v1, v2}
    KeyCap = 2
    IdrIntervals = {0, 3}
    Gaps = {0, 1, 2}
    MinDuration = 1
    MaxDuration = 2
    MaxAge = 3
INVARIANTS
    EncoderInv
    NoLostRequest
    RtpClockHonest
PROPERTIES
    FreshViewerDecodes
    LostViewerRecovers
