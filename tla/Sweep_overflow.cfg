SPECIFICATION Spec
CONSTANTS
    Configs <- AllConfigs
    Received = {0, 19, 20, 21}
    MaxPort = 9
    MaxInt = 2047
    None = None
INVARIANTS
    LimitEnforced
