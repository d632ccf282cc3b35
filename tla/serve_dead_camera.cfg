SPECIFICATION Spec
CONSTANTS
    MaxErrors = 3
    WireFormat = {"MJPEG", "YUYV", "RAWRGB", "RAWBGR"}
    NoFormat = NoFormat
PROPERTY CameraDeathIsFatal
