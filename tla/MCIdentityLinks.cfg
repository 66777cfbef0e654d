CONSTANTS
    Person = {p, q, r}
    NoPerson = NoPerson
    Session = {s1, s2, s3}
    Inside = {"join"}
    MaxTries = 1
    MaxWrites = 3
CHECK_DEADLOCK FALSE
SYMMETRY MCSymmetry
SPECIFICATION LinkSpec
INVARIANT NobodyIsTwo
