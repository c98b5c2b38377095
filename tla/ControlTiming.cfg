SPECIFICATION Spec
CONSTANTS
    ControlReadTimeout = 8
    ControlWriteTimeout = 4
    Settle = 1
    Grace = 2
    Durations = {0, 1, 2, 3, 4, 5, 6, 7, 8, 9}
    Directions = {"uplink", "downlink"}
    Faults = {"stall", "vanish"}
    MaxTime = 40
INVARIANTS
    ShortTestsSucceed
    ClientBounded
    SessionBounded
