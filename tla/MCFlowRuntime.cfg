\* Three calls on one instance, one fault.
CONSTANTS
    Definitions <- MCDefinitions
    End = "end"
    Data = {"long", "short"}
    Calls = {c1, c2, c3}
    MaxTasks = 4
    MaxFaults = 1
SPECIFICATION Spec
CHECK_DEADLOCK FALSE
SYMMETRY Symmetry
INVARIANTS
    TypeOK
    NoStepSkippedWhileKept
    RunningIsMovingUnlessFaulty
    RejectionStandsWhenCalm
