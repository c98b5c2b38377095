SPECIFICATION Spec
CONSTANTS
    Plans <- Downlink
    Test <- ThisTest
    PacketCount = 2
    Base = 4
    TicksPerMs = 2
    MaxDatagram = 80
    Collecting = TRUE
    Strangers <- Others
    MaxStrangers = 1
    Copies = 1
INVARIANTS
    ResultTrue
    SentTrue
PROPERTIES
    ReceiveEnds
