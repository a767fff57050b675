SPECIFICATION FairSpec
CONSTANTS
    NumEvents = 2
    NoPaymentId = {2}
    Publisher = {v, w}
    Consumer = {c, d}
    Nobody = Nobody
    x = x
    y = y
    Endpoint = {x, y}
    Subscribed <- MCSubscribed
    BatchLimit = 1
    MaxFaults = 1
    MaxRebalances = 1
    MaxInvalid = 1
CHECK_DEADLOCK FALSE
INVARIANTS
    TypeOK
    PublishedIsOnTopic
    DuplicatesAreFaults
PROPERTIES
    OffsetSkipsNothing
    ImplementsEffects
    EventuallyPublished
    BacklogDrains
