SPECIFICATION UnionSpec
CONSTANTS
    ana = ana
    bea = bea
    carl = carl
    editors = editors
    readers = readers
    Person <- People
    Role <- TwoRoles
    Key <- Keys
    Implied <- Implications
    MembersRoles = "admin"
    MembersBlock = "admin"
    MembersRemove = "admin"
    RolesManage = "admin"
    Founder = ana
    TemplateKeys <- Templates
    Imported <- Imports
    MaxCalls = 2
    MaxOutside = 1
    NoRole = NoRole
    NoPerson = NoPerson
    NoCall = NoCall
    Actor = {actor1, actor2}
    Policy = {p1, p2}
    Definition = {"allow", "deny"}
    Clerk = {c1, c2}
    Question = {q1, q2}
    Unset = Unset
    MaxActive = 1
    MaxPolicyCalls = 3
    MaxShifts = 1
    MaxGone = 1
CONSTRAINTS
    TwoAtATime
    OneFromOutside
SYMMETRY Alike
INVARIANTS
    GateIsHoldings
    PowerHasASource
    ReachIsKept
    DutiesAreSeparate
    AnswersAreInForce
PROPERTIES
    GivesWhatItHeld
    EnforcementIsPublished
CHECK_DEADLOCK FALSE
