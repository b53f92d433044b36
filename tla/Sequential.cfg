SPECIFICATION Spec
CONSTANTS
    k1 = k1
    k2 = k2
    v1 = v1
    v2 = v2
    Keys = {k1, k2}
    Vals = {v1, v2}
    Tombstone = Tombstone
    EmptyValue = EmptyValue
    Garbage = Garbage
    NotFound = NotFound
    NoKey = NoKey
    KeySize <- MCKeySize
    ValueSize <- MCValueSize
    Clients = {c1}
    MaxFileSize = 27
    MaxWrites = 4
    Ops = {"put", "delete", "get", "close"}
    Flushes = {"never"}
    TellLags = FALSE
INVARIANTS
    TypeOK
    IndexLocatesRecord
    AckedIndexed
    
PROPERTIES
    ImplementsKVStore
