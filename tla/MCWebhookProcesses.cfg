CONSTANTS
    Endpoint = {e1}
    Event = {v1}
    NoEvent = NoEvent
    Delivery <- MCDeliveries
    EndpointOf <- MCEndpointOf
    Worker = {w1, w2}
    Concurrency = 1
    MaxAttempts = 1
    DisableAfter = 1
    MaxFanOuts = 2
    MaxTrouble = 1
    Stalls = TRUE
    PausedLimit = 3
CHECK_DEADLOCK FALSE
SPECIFICATION FairPipeline
INVARIANTS
    DeliveredWasReceived
    NothingMissed
PROPERTIES
    SettledStaysSettled
    OperatorsDecisionStands
    PendingIsSettled
    EventsReachTheirReceivers
