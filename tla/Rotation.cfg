SPECIFICATION Spec
CONSTANTS
    k1 = k1
    k2 = k2
    v1 = v1
    v2 = v2
    Keys = {k1, k2}
    Vals = {v1}
    Tombstone = Tombstone
    EmptyValue = EmptyValue
    Garbage = Garbage
    NotFound = NotFound
    NoKey = NoKey
    KeySize <- MCKeySize
    ValueSize <- MCValueSize
    Clients = {c1}
    MaxFileSize = 20
    MaxWrites = 4
    Ops = {"putAsync", "delete", "crash", "close"}
    Flushes = {"never", "early", "late"}
    TellLags = TRUE
INVARIANTS
    WritesInOrder
    RotatedFlushed
    TornNotIndexed
    RotationSafe
    HintsNeverAhead
    ActiveMapServes
PROPERTIES
    RestoreExact
