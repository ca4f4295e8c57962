\* A local write whose registration fails is carried out again by a retry.
CONSTANTS
    Tokens = {t1}
    Runs = {r1, r2}
    Unbounded = {}
    Nobody = nobody
    Conversations = {v1}
    Local = {loc}
    Proxy = {}
    Mcp = {}
    Stoppable = {}
    Admins = {}
    MaxFaults = 1
SPECIFICATION GovernedSpec
CHECK_DEADLOCK FALSE
INVARIANT RerunIsSafe
