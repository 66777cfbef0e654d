CONSTANTS
    Branch = {b1, b2}
    TeamRole = {r}
    Editor = {e1, e2}
    Retries = 2
    MaxJobs = 4
CHECK_DEADLOCK FALSE
SPECIFICATION MembersSpec
PROPERTY MovesArrive
