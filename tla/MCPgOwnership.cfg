CONSTANTS
    Conn = {c1, c2, c3}
    Member = {1, 2, 3}
    None = None
    Never = Never
    MaxTime = 1
    Mixes <- MCMixes
SYMMETRY MCConnections
SPECIFICATION Spec
INVARIANTS
    OrganizationKeepsAnActiveOwner
    NobodyWaitsInACircle
PROPERTY ImplementsOwnership
