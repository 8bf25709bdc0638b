\* The relay of gateway-serve shapes nothing: violated.
SPECIFICATION Spec
CONSTANTS
    Role = "server"
    Suffixes <- Service
    Packets <- ShortTraffic
    QueueCap = 2
    TTL = 2
    Rates = {1, 2}
    BurstTicks = 2
    MaxPacket = 3
INVARIANT StreamingBounded
