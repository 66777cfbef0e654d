SPECIFICATION UnionSpec
CONSTANTS
    a = a
    b = b
    c = c
    Team = {a, b, c}
    Process = {p1, p2}
    Top = Top
    Nobody = Nobody
    Planted <- Trees
    MaxDepth = 2
    Attempts = 2
    MaxChanges = 3
    Operator = {ann, bob}
    AdminRole = admin
    CustomRole = {helper}
    Power = {"support.grant", "members.manage"}
    Grant = {g1}
    Clerk = {c1, c2}
    Nothing = Nothing
    MaxCalls = 4
    MaxBroken = 1
INVARIANTS
    TreeStaysATree
    ActiveUnderActive
    SupportIsEntitled
PROPERTIES
    TreeCallsEnd
    TeamsAreAtomic
    SupportEnds
CHECK_DEADLOCK FALSE
