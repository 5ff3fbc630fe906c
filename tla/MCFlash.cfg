SPECIFICATION Spec
CONSTANTS
    m1 = m1
    m2 = m2
    c = c
    dflt = dflt
    DefaultMsg = dflt
    Response = resp
    Damaged = damaged
    NoRecord = none
    Msg <- Plain
    Command <- Commands
    Length <- ShortLength
INVARIANTS
    TypeOK
    BufferExclusive
    WakeupMatchesBuffer
PROPERTIES
    PipelineDrains
    ImplementsSlot
    AcceptedIsStored
