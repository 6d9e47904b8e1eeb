SPECIFICATION TimerSpec
CONSTANTS
    Sessions = {s1}
    Topics = {speed, course}
    BadPeriod = {}
    SlowClients = {}
    BrokerFails = TRUE
    MaxObjects = 2
    MaxList = 1
    MaxHeartbeats = 1
    null = null
PROPERTIES
    StoppedTasksEnd
    LiveAreServed
CHECK_DEADLOCK FALSE
