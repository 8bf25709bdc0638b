\* Reconnects and restarts of the server: what is delivered, and that the
\* client comes back.
SPECIFICATION ClientFairSpec
CONSTANTS
    MaxConns = 2
    MaxPackets <- ThreeUp
    QueueCap = 2
    WireCap = 2
    MayCrash = {"server"}
    BadDevice = {"server"}
INVARIANTS
    TypeOK
    AtMostOnce
    OrderedPerConnection
    LostOnlyWithRelay
PROPERTIES
    PathSpec
    Redials
    TrafficEndsStale
\* There are no more packets, and the last connection idles.
CHECK_DEADLOCK FALSE
