CONSTANTS
    Conn = {c1, c2}
    Member = {1, 2, 3}
    None = None
    Never = Never
    MaxTime = 0
    Mixes <- MCTransfersAndDeletions
SYMMETRY MCConnections
SPECIFICATION Spec
INVARIANT OrganizationKeepsAnActiveOwner
