\* Four calls that write up to three rows, a person and one fault.
CONSTANTS
    Targets = {a, b, c}
    Calls = {c1, c2, c3, c4}
    People = {ann}
    NoTarget = none
    MaxFaults = 1
SPECIFICATION Spec
CHECK_DEADLOCK FALSE
SYMMETRY Symmetry
INVARIANTS
    TypeOK
    NothingIsSilent
    OpenUntilConfirmed
    ConfirmationStands
