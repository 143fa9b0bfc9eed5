SPECIFICATION Spec
CONSTANTS
    Conn = {1, 2, 3}
    MaxData = 1
    MaxGen = 2
    Traffics <- Mixes
    NoTunnel = NoTunnel
    NoConn = NoConn
INVARIANTS Agreement NoProtocolError
PROPERTIES PeerLearns
CHECK_DEADLOCK FALSE
