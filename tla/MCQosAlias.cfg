\* A streaming service behind the alias of another network: violated.
SPECIFICATION Spec
CONSTANTS
    Role = "client"
    Suffixes <- Service
    Packets <- AliasTraffic
    QueueCap = 2
    TTL = 2
    Rates = {1, 2}
    BurstTicks = 2
    MaxPacket = 3
INVARIANT StreamingBounded
