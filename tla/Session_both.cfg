SPECIFICATION PromptSpec
CONSTANTS
    PacketCount = 1
    MaxDatagrams = 1
    ChanCap = 1
    TcpFamily = "ipv4"
    Directions = {"both"}
    Faults = {}
PROPERTIES
    ReceiverReclaimed
