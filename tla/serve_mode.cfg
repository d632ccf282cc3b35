SPECIFICATION Spec
CONSTANTS
    MaxErrors = 3
    WireFormat = {"MJPEG", "YUYV", "RAWRGB", "RAWBGR"}
    NoFormat = NoFormat
INVARIANTS
    ServeInv
    NoOrphan
    ClosedOnlyAfterExit
    CapsCoverFrames
PROPERTIES
    OpeningEnds
    EncoderDeathIsFatal
