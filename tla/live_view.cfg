SPECIFICATION Spec
CONSTANTS
    Viewer = {c1, c2}
    Followed = {c1}
    AcceptCap = 1
    KeyCap = 1
    IdrIntervals = {0}
    Gaps = {0}
    MinDuration = 0
    MaxDuration = 0
    MaxAge = 0
INVARIANTS
    LiveInv
PROPERTIES
    ClientSeesVideo
    LeaverLetsGo
    ImplementsEncoder
