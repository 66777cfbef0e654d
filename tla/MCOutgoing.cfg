CONSTANTS
    Call = {c1, c2, c3}
    Identity = {x, y}
    Role = {r1}
    Key = {k}
    None = None
    NotAMember = NotAMember
    PerHour = 1
    Endpoint = {e1}
    Delivery = {x, y}
    EndpointOf <- MCEndpointOf
    Worker = {w1, w2}
    Concurrency = 1
    MaxAttempts = 2
    DisableAfter = 2
    MaxTrouble = 2
    Stalls = FALSE
    NoEvent = NoEvent
CHECK_DEADLOCK FALSE
SYMMETRY MCSymmetry
SPECIFICATION UnionSpec
INVARIANTS
    RateLimitHolds
    AnInvitationJoinsOne
    OneWorkerPerDelivery
    NothingMissed
PROPERTIES
    RetriesAreReplayed
    GivenWithinPower
