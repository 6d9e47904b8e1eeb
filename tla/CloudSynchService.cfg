SPECIFICATION Spec
CONSTANTS
    Configurations <- Sound
    Unparsable = Unparsable
    PingResults <- AllPings
    DEFAULT_READ_FREQUNCY = 2
    MAX_PING_INTERVAL = 3
    Files = {d1, d2}
    Capacity = 2
    null = null
INVARIANTS
    TypeOK
    NeverStops
    MomentsAreWithinReach
PROPERTIES
    SendsAreSpaced
    ImplementsDeliveryPipe
