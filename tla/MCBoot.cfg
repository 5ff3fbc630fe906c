SPECIFICATION BootSpec
CONSTANTS
    Hash = {hz, h0}
    DefaultHash = h0
    ZeroHash = hz
    NFC_AUTH_WINDOW_MS = 1
    MaxNonce = 1
    MaxUptime = 1
    ReadReqs <- ModeRead
    WriteReqs <- ModeWrite
    ShellSets <- NoShell
PROPERTIES
    WriteLeavesFactory
