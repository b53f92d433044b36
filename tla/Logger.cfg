SPECIFICATION FairSpec
CONSTANTS
    x = x
    y = y
    Brace = Brace
    Threads = {t1, t2}
    Pieces <- MCPieces
    Calls <- MCCalls
    Masks <- MCMasks
    Sinks = {console}
    NoSink = NoSink
    MinAllowed = 2
    Location <- MCLocation
INVARIANTS
    TypeOK
    FormattedRight
    ErrorsHeard
PROPERTIES
    CallReturns
    StopSilences
