CONSTANTS
    Org = {o1, o2}
    Member = {m1, m2, m3}
    NoOrg = NoOrg
    Never = Never
    MaxTime = 2
    Branch = {b1, b2}
    TeamRole = {r}
    Editor = {e1, e2}
    Retries = 2
    MaxJobs = 4
    Consumer = {k1, k2}
    Quota = {1, 2}
    Unlimited = Unlimited
    Nowhere = Nowhere
    MaxAmount = 1
    DaysPerMonth = 2
    MaxDay = 1
    MaxEdits = 2
    MaxConsumed = 3
    Person = {p, q, r}
    NoPerson = NoPerson
    Session = {s1, s2, s3}
    Inside = {}
    MaxTries = 1
    MaxWrites = 3
    Server = {i1, i2}
    Request = {x1, x2}
    Burst = 1
    Rate = 1
    LeaseTtl = 1
    EmptyFor = 1
    MaxTicks = 2
    MaxRequests = 4
    Fact = {"f", "g", "h"}
    Condition <- MCCondition
    Depth <- MCDepth
    MaxDepth = 2
    Policy <- MCPolicies
    MaxPolicies = 2
    Action = {"edit", "policies.manage"}
    ProtectedAction = {"policies.manage"}
    Type = {"doc", "page"}
    NoType = "any"
    Lookups = 2
    StepBudget = 4
SYMMETRY MCSessions
SPECIFICATION UnionSpec
INVARIANTS
    EveryOrganizationHasAnActiveOwner
    NobodyIsTwo
    TheRateIsKept
    AnswersAreNotGuesses
PROPERTIES
    TakenFitsALimit
    StatusesFollowTheirCourse
    MovesAreWhole
    LinksAreAtomic
CHECK_DEADLOCK FALSE
