SPECIFICATION StreamsSpec
CONSTANTS
    Stream = {1, 2}
    Protos = {"tcp", "udp"}
    MaxChunks = 2
    Loads <- MCLoads
INVARIANTS Gapless LingersOnlyAfterEnd
PROPERTIES CloseArrives
CHECK_DEADLOCK FALSE
