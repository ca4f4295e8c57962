\* One row, three calls that settle it and one fault, with fairness.
CONSTANTS
    Tokens = {t1}
    Calls = {c1, c2, c3}
    Operator = op
    Approvers = {ap}
    Nobody = nobody
    MaxFaults = 1
SPECIFICATION FairSpec
CHECK_DEADLOCK FALSE
INVARIANTS
    TypeOK
    AtMostOneRun
    RunsAreAuthorized
    ConversationAgrees
    ExpiryRecordedOnce
PROPERTIES
    ImplementsContract
    QuestionsEnd
