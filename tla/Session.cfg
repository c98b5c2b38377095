SPECIFICATION Spec
CONSTANTS
    PacketCount = 2
    MaxDatagrams = 1
    ChanCap = 1
    TcpFamily = "ipv4"
    Directions = {"uplink", "downlink", "both"}
    Faults = {"deadline", "socket", "reset", "badframe"}
INVARIANTS
    TypeOK
    FetchAfterAnnounce
PROPERTIES
    ImplementsFSM
    TerminalIsFinal
    AwaitEnds
    SessionEnds
    SilentClientEvicted
