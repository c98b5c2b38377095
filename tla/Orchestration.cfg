SPECIFICATION Spec
CONSTANTS
    Tests <- UpsDowns
    PacketCount = 1
    TcpFamily = "ipv4"
    ChanCap = 3
    MaxDups = 0
    Faults = {"socket", "refused"}
    NetFaults = {"lose"}
    Cfg <- SweepConfig
    None = None
INVARIANTS
    CountsTrue
    NoPortLeak
PROPERTIES
    SweepEnds
    ImplementsSweep
