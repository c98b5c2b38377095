SPECIFICATION Spec
CONSTANTS
    Conns = {c1, c2, c3}
    Closers = {k1, k2}
    NoSession = NoSession
INVARIANTS
    TypeOK
    SlotExclusive
    CloseIsFinal
    BusyNamesOther
PROPERTIES
    SlotReleased
    CloseReturns
