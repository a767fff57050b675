SPECIFICATION FairSpec
CONSTANTS
    Event = {e, f}
    Endpoint = {x}
    Subscribed <- EverySubscription
    Dispatcher = {v, w}
    Rotation = {q, r}
    NoDelivery = NoDelivery
    NoEndpoint = NoEndpoint
    Failures = 1
    MaxAttempts = 2
    BatchLimit = 2
    MaxVersion = 2
    MaxReplays = 1
    MaxFaults = 1
CHECK_DEADLOCK FALSE
INVARIANTS
    TypeOK
    OneActiveSecret
    AcceptedOnce
PROPERTIES
    EveryDeliverySettles
