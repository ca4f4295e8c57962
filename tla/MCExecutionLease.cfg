\* Two approvals, one of a tool without a window, and three executions.
CONSTANTS
    Tokens = {t1, t2}
    Runs = {r1, r2, r3}
    Unbounded = {t2}
    Nobody = nobody
SPECIFICATION FairSpec
CHECK_DEADLOCK FALSE
INVARIANTS SuccessIsReal
PROPERTY NothingStaysRunning
