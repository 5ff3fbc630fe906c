SPECIFICATION FramesSpec
CONSTANTS
    Hash = {h0}
    DefaultHash = h0
    NFC_AUTH_WINDOW_MS = 1
    MaxNonce = 1
    MaxUptime = 0
    ReadReqs <- NoFrames
    WriteReqs <- OvercountedWrite
    ShellSets <- NoShell
    BleFrames <- NoFrames
    NdefMsgs <- OvercountedRecord
    MSG_MAX = 1022
INVARIANTS
    DeclaredCountHolds
