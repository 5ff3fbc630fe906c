SPECIFICATION FramesSpec
CONSTANTS
    Hash = {h0}
    DefaultHash = h0
    NFC_AUTH_WINDOW_MS = 1
    MaxNonce = 1
    MaxUptime = 1
    ReadReqs <- ReadRequests
    WriteReqs <- WriteRequests
    ShellSets <- NoShell
    BleFrames <- OverBle
    NdefMsgs <- AsRecords
    MSG_MAX = 1022
INVARIANTS
    FramesTypeOK
    ConfigInRange
    ReplyDecodes
    WrittenReadsBack
    AnswerReadable
PROPERTIES
    ImplementsProtocol
    FrameMeansRequest
VIEW StateView
