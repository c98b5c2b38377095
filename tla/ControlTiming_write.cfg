SPECIFICATION Spec
CONSTANTS
    ControlReadTimeout = 8
    ControlWriteTimeout = 4
    Settle = 1
    Grace = 2
    Durations = {0, 1, 2, 3, 4, 5}
    Directions = {"downlink"}
    Faults = {}
    MaxTime = 40
INVARIANTS
    NoneDropped
