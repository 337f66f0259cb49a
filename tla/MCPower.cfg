SPECIFICATION Spec
CONSTANTS
    Candidates = 3
    Wired = {2}
    EventDepth = 2
    MaxPlugs = 2
    MaxKeys = 1
    MaxFaults = 1
INVARIANT PowerIsKnown
INVARIANT SleepsOnBattery
INVARIANT IdleDeviceSleeps
PROPERTY PowerIsLearnt
CHECK_DEADLOCK FALSE
