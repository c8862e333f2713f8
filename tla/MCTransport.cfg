SPECIFICATION AnySpec
CONSTANTS
    Callers = {c1, c2, c3}
    Closer = closer
    PerPeer = 2
    MaxConns = 3
    CounterMod = 4
    PipeLimit = 2
    ChunkSize = 3
    BufioSize = 2
    Packs <- MCPacks
    Direct = {d1}
    Relay = relay
    MaxMoves = 1
    MaxLate = 1
INVARIANTS AtMostPerPeer NoLeak CleanEndMeansAll NoReset FailedHadNoWay
PROPERTIES CallsReturn
