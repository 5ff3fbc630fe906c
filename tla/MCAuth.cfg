SPECIFICATION Spec
CONSTANTS
    Hash = {h0, h1}
    DefaultHash = h0
    NFC_AUTH_WINDOW_MS = 1
    MaxNonce = 2
    MaxUptime = 2
    ReadReqs <- OneRead
    WriteReqs <- OneWrite
    ShellSets <- ShellMode
INVARIANTS
    TypeOK
    NonceUsedOnce
PROPERTIES
    AuthenticatedChange
    FactoryWindowOnce
    RefusedChangesNothing
    ChannelsIndependent
    ImplementsGate
