SPECIFICATION Spec
CONSTANTS
    m1 = m1
    m2 = m2
    c = c
    dflt = dflt
    DefaultMsg = dflt
    Response = resp
    Damaged = damaged
    NoRecord = none
    Msg <- One
    Command <- NoCommands
    Length <- LongLength
PROPERTIES
    UpdatesAreStored
