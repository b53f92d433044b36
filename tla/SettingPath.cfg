SPECIFICATION Spec
CONSTANTS
    Keys = {k1, k2}
    Settings <- OtherSettings
    Width = 8
    MaxWrites = 4
    MaxFaults = 0
INVARIANT FaultlessExact
