SPECIFICATION Spec
CONSTANTS
    Tests <- BothUp
    PacketCount = 2
    TcpFamily = "ipv4"
    ChanCap = 3
    MaxDups = 1
    Faults = {"refused"}
    NetFaults = {"lose", "late", "dup"}
    Cfg <- SweepConfig
    None = None
PROPERTIES
    FailsOnlyIfTurnedAway
