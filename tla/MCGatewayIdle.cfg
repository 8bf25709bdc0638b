\* A client without traffic does not notice that its relay is alone: violated.
SPECIFICATION FairSpec
CONSTANTS
    MaxConns = 2
    MaxPackets <- TwoUp
    QueueCap = 2
    WireCap = 1
    MayCrash = {}
    BadDevice = {"client", "server"}
PROPERTY StaleEnds
CHECK_DEADLOCK FALSE
