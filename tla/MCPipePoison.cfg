SPECIFICATION FairSpec
CONSTANTS
    NumEvents = 3
    NoPaymentId = {2}
    Publisher = {v}
    Consumer = {c}
    Nobody = Nobody
    x = x
    y = y
    Endpoint = {x, y}
    Subscribed <- MCSubscribed
    BatchLimit = 2
    MaxFaults = 0
    MaxRebalances = 0
    MaxInvalid = 0
CHECK_DEADLOCK FALSE
PROPERTIES
    EveryBacklogDrains
