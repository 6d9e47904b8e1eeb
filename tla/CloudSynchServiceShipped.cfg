SPECIFICATION Spec
CONSTANTS
    Configurations <- Shipped
    Unparsable = Unparsable
    PingResults = {100, 9000}
    DEFAULT_READ_FREQUNCY = 2
    MAX_PING_INTERVAL = 3
    Files = {d1}
    Capacity = 2
    null = null
PROPERTY GivesUpOnlyWithoutTransport
