SPECIFICATION FairSpec
CONSTANTS
    Configurations <- AllKinds
    Unparsable = Unparsable
    PingResults = {100, 9000, Unparsable}
    DEFAULT_READ_FREQUNCY = 2
    MAX_PING_INTERVAL = 3
    Files = {d1, d2}
    Capacity = 2
    null = null
PROPERTIES
    QueueDrainsOnceSuitable
    LinkWatched
    PingingOutlivesProducer
