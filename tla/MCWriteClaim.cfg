\* Two calls from two conversations on one operation of each kind.
CONSTANTS
    Conversations = {v1, v2}
    Local = {loc, stop}
    Proxy = {prx}
    Mcp = {mcp}
    Stoppable = {stop}
    Attempts = {a1, a2}
    Admins = {x1}
    MaxFaults = 1
SPECIFICATION Spec
SYMMETRY Symmetry
CHECK_DEADLOCK FALSE
INVARIANTS
    TypeOK
    OneFlight
    AtMostOnceExternal
    ReplaysAreReal
