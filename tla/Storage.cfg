SPECIFICATION Spec
CONSTANTS
    Keys = {k1, k2}
    Settings <- ChainedSettings
    Width = 8
    MaxWrites = 5
    MaxFaults = 2
SYMMETRY Symmetry
INVARIANTS
    TypeOK
    ReadHonest
    FaultlessExact
PROPERTIES
    NothingTruncated
