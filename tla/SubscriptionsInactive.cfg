SPECIFICATION FairSpec
CONSTANTS
    Sessions = {s1}
    Topics = {speed}
    BadPeriod = {}
    SlowClients = {}
    BrokerFails = FALSE
    MaxObjects = 1
    MaxList = 1
    MaxHeartbeats = 2
    null = null
PROPERTY InactiveUnsubscribesAll
CHECK_DEADLOCK FALSE
