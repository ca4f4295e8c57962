\* Two calls on one operation each kind, one conversation, fair.
CONSTANTS
    Conversations = {v1}
    Local = {loc, stop}
    Proxy = {prx}
    Mcp = {mcp}
    Stoppable = {stop}
    Attempts = {a1, a2}
    Admins = {}
    MaxFaults = 1
SPECIFICATION FairSpec
CHECK_DEADLOCK FALSE
PROPERTIES
    CallsReturn
    OrphansSurface
