SPECIFICATION Spec
CONSTANTS
    Sessions = {s1}
    Topics = {speed, course}
    BadPeriod = {course}
    SlowClients = {s1}
    BrokerFails = TRUE
    MaxObjects = 2
    MaxList = 2
    MaxHeartbeats = 2
    null = null
INVARIANTS
    TypeOK
    NoEqualSubscriptions
    AtMostOneLateMessage
    UnsubscribeStops
PROPERTY TasksNeverRestart
CHECK_DEADLOCK FALSE
