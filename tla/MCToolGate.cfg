\* Two calls of a tool that is to be confirmed, and two changes of what is in force.
CONSTANTS
    Risk = "R3"
    Policies <- MCPolicies
    Roles = {"member", "admin"}
    Values = {1, 2}
    Calls = {1, 2}
    MaxChanges = 2
SPECIFICATION Spec
CONSTRAINT CacheForOne
CHECK_DEADLOCK FALSE
INVARIANTS
    TypeOK
    RunsWereAllowed
    TrustCoversWhenCalm
