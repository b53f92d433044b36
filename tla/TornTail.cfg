SPECIFICATION Spec
CONSTANTS
    k1 = k1
    k2 = k2
    v1 = v1
    v2 = v2
    Keys = {k1}
    Vals = {v1}
    Tombstone = Tombstone
    EmptyValue = EmptyValue
    Garbage = Garbage
    NotFound = NotFound
    NoKey = NoKey
    KeySize <- MCKeySize
    ValueSize <- MCValueSize
    Clients = {c1}
    MaxFileSize = 100
    MaxWrites = 3
    Ops = {"put", "crash", "close"}
    Flushes = {"never", "early"}
    TellLags = FALSE
INVARIANT RecoverLatest
