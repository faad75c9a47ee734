SPECIFICATION LiveSpec
CONSTANTS
    MaxFrame = 2
    QueueCap = 1
    Retries = 2
    Threads = {"host", "timer"}
    Host = "host"
    Deployments <- AllDeployments
INVARIANTS
    DeliveryInv
PROPERTIES
    InOrder
    EndsHandedOrMaterialized
    VerifiedBytesSent
    RecordedMaterializes
    HeadClears
CHECK_DEADLOCK FALSE
