\* Two consumers; bursts of 0, 3, 6 bytes against packets of up to 5.
SPECIFICATION FairSpec
CONSTANTS
    Consumers = {up, down}
    Rates = {0, 1, 2}
    BurstTicks = 3
    MaxPacket = 5
INVARIANTS
    TypeOK
    DebtBound
PROPERTIES
    ShaperSpec
    SomeoneIsServed
    LoneIsServed
