SPECIFICATION Spec
CONSTANTS
    Tests <- UpsDowns
    PacketCount = 1
    TcpFamily = "ipv4"
    ChanCap = 3
    MaxDups = 0
    Faults = {}
    NetFaults = {}
    Cfg <- SweepConfig
    None = None
INVARIANTS
    NeverBusyToItself
