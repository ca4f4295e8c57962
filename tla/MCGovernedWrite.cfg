\* Two approvals, a retry, one operation of each kind and one fault.
CONSTANTS
    Tokens = {t1, t2}
    Runs = {r1, r2}
    Unbounded = {t2}
    Nobody = nobody
    Conversations = {v1}
    Local = {loc, stop}
    Proxy = {prx}
    Mcp = {mcp}
    Stoppable = {stop}
    Admins = {}
    MaxFaults = 1
SPECIFICATION GovernedSpec
CHECK_DEADLOCK FALSE
SYMMETRY Symmetry
INVARIANTS
    ExecutedWasWritten
    RetriedOnce
