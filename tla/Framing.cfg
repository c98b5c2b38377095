SPECIFICATION Spec
CONSTANTS
    Links <- MCLinks
    Base = 3
    MaxLength = 17
    TextByte = 2
INVARIANTS
    NothingForged
PROPERTIES
    AllDelivered
