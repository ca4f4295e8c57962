\* A group of two local effects and an external one, and effects on their own; two requests.
CONSTANTS
    Local = {1, 3, 4}
    External = {2, 5}
    Fixed = {6}
    Group <- MCGroup
    Batches <- MCBatches
    Requests = {r1, r2}
    People = {ann}
    Nobody = nobody
SPECIFICATION Spec
CHECK_DEADLOCK FALSE
SYMMETRY Symmetry
CONSTRAINT Apart
INVARIANTS
    TypeOK
    WorkersAreApart
    CompensatedOnce
    HalvesAreLeftInFlight
    RepliesAreReal
PROPERTIES
    ImplementsContract
