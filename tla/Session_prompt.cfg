SPECIFICATION PromptSpec
CONSTANTS
    PacketCount = 1
    MaxDatagrams = 2
    ChanCap = 1
    TcpFamily = "ipv4"
    Directions = {"uplink", "downlink"}
    Faults = {"deadline", "socket"}
INVARIANTS
    UplinkResultFinal
    PortFreeAtRelease
