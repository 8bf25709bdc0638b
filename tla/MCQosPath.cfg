\* The relay of gateway-connect: packets below and above the burst.
SPECIFICATION Spec
CONSTANTS
    Role = "client"
    Suffixes <- Service
    Packets <- Traffic
    QueueCap = 2
    TTL = 2
    Rates = {1, 2}
    BurstTicks = 2
    MaxPacket = 3
INVARIANTS
    TypeOK
    StreamingBounded
    OthersHeldBriefly
PROPERTY OnlyStreamingThrottled
