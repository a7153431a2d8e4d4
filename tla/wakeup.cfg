SPECIFICATION Spec
CONSTANTS
    cache = cache
    directory = directory
    triggerQueue = triggerQueue
    forwardToCache = forwardToCache
    requestToDir = requestToDir
    None = None
    Consumer = {cache, directory}
    Buffer = {triggerQueue, forwardToCache, requestToDir}
    consumer <- MCConsumer
    strictFifo <- MCStrictFifo
    Latency <- MCLatency
    RandomTimes = {1, 3}
    Randomization <- MCRandomization
    RecycleLatency = 3
    TransitionsPerRubyCycle = 1
    MaxTime = 5
    MaxMessages = 2
INVARIANTS
    NoLostWakeup
    NoFifoViolation
PROPERTIES
    OrderedDelivery
    TimeNeverRegresses
CHECK_DEADLOCK FALSE
